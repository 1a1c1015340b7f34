---------------------------- MODULE ProcFileProofs ----------------------------
(***************************************************************************)
(* Proofs about ProcFile, for any number of processes, tweaks and files,   *)
(* for files of up to 62 numbers and for any numbers the kernel accepts.   *)
(***************************************************************************)
EXTENDS ProcFile, TLAPS

\* The number of a call is one the element has had or was asked to have; only
\* the tweak of a numbered element reads its file.
NumberSeen(p) ==
  /\ call[p].step = "read" => Element[call[p].tweak] # -1
  /\ call[p].step \in {"read", "write"} =>
       LET t == call[p].tweak
           f == File[t]
       IN Slot(t) \in Slots(f) => call[p].value \in seen[f][Slot(t)]

\* What is about to be written: one number, or as many as the file has, each
\* of them one of its element; and what the file has but for the number asked
\* for, if nobody has touched the file meanwhile.
ArrayOK(p) ==
  call[p].step = "write" =>
    LET t == call[p].tweak
        f == File[t]
        e == call[p].elements
    IN /\ DOMAIN e = IF Element[t] = -1 THEN {0} ELSE Slots(f)
       /\ \A j \in DOMAIN e \cap Slots(f) : e[j] \in seen[f][j]
       /\ calm[p] =>
            \A j \in DOMAIN e : e[j] = IF j = Slot(t) THEN call[p].value ELSE element[f][j]

\* A file that cannot be written now, or could not when a tweak was looked up.
LossNoted ==
  /\ \A f \in Files : access[f] # "rw" => f \in lost
  /\ \A p \in Procs, t \in Tweaks : status[p][t] = "readonly" => File[t] \in lost

IInv ==
  /\ TypeOK
  /\ \A p \in Procs : NumberSeen(p) /\ ArrayOK(p)
  /\ NothingInvented
  /\ LossNoted /\ CrashNeedsLoss

-----------------------------------------------------------------------------
(* Tweaks, files and calls *)

LEMMA TweakType ==
  ASSUME NEW t \in Tweaks
  PROVE  /\ File[t] \in Files
         /\ Element[t] \in -1 .. 62 /\ Slot(t) \in 0 .. 62
         /\ Element[t] = -1 => Slot(t) = 0
BY FileAssumption DEF Slot

LEMMA ValueType ==
  /\ Value \subseteq Int
  /\ \A t \in Tweaks : \A v \in Values : NumberFor(t, v) \in Value
BY FileAssumption DEF Value, NumberFor

LEMMA LegalType ==
  ASSUME NEW f \in Files, size[f] \in 0 .. 62, NEW i \in Slots(f)
  PROVE  i \in 0 .. 61 /\ Legal[f][i] \subseteq Int
<1>1. i \in 0 .. 61
  BY DEF Slots
<1>. QED BY <1>1, FileAssumption

\* What a file has is a number for each of its elements.
LEMMA ContentsType ==
  ASSUME NEW f \in Files, size[f] \in 0 .. 62, NEW c \in Contents(f)
  PROVE  /\ DOMAIN c = Slots(f)
         /\ \A i \in Slots(f) : c[i] \in Legal[f][i] /\ c[i] \in Int
<1>1. /\ DOMAIN c = Slots(f)
      /\ \A i \in Slots(f) : c[i] \in Legal[f][i]
  BY DEF Contents
<1>. QED BY <1>1, LegalType

LEMMA CallType ==
  ASSUME TypeOK, NEW p \in Procs
  PROVE  /\ call[p].step \in {"idle", "dead", "read", "write"}
         /\ call[p].step \in {"read", "write"} =>
              call[p].tweak \in Tweaks /\ call[p].value \in Value
         /\ call[p].step = "dead" => call[p].tweak \in Tweaks
         /\ call[p] = Idle <=> call[p].step = "idle"
<1>1. IsCall(call[p])
  BY DEF TypeOK
<1>2. CASE call[p] = Idle
  BY <1>2 DEF Idle
<1>3. ASSUME NEW t \in Tweaks, call[p] = Dead(t)
      PROVE  call[p].step = "dead" /\ call[p].tweak = t /\ call[p] # Idle
  BY <1>3 DEF Dead, Idle
<1>4. CASE call[p].step \in {"read", "write"} /\ call[p].tweak \in Tweaks /\ call[p].value \in Value
  BY <1>4 DEF Idle
<1>. QED BY <1>1, <1>2, <1>3, <1>4 DEF IsCall

LEMMA IdleOrDead ==
  /\ IsCall(Idle) /\ Idle.step = "idle"
  /\ \A t \in Tweaks : IsCall(Dead(t)) /\ Dead(t).step = "dead" /\ Dead(t).tweak = t
BY DEF IsCall, Idle, Dead

-----------------------------------------------------------------------------
(* The initial states *)

LEMMA InitIInv == Init => IInv
<1>. SUFFICES ASSUME Init PROVE IInv
  OBVIOUS
<1>. USE DEF Init
<1>1. \A p \in Procs : call[p] = Idle /\ call[p].step = "idle" /\ IsCall(call[p])
  BY IdleOrDead
<1>2. ASSUME NEW f \in Files
      PROVE  /\ seen[f] \in [Slots(f) -> SUBSET Int]
             /\ \A i \in Slots(f) : element[f][i] \in seen[f][i]
  <2>1. size[f] \in 0 .. 62 /\ element[f] \in Contents(f)
    OBVIOUS
  <2>2. seen[f] = [i \in Slots(f) |-> {element[f][i]}]
    OBVIOUS
  <2>. QED BY <2>1, <2>2, ContentsType
<1>3. TypeOK
  <2>1. size \in [Files -> 0 .. 62] /\ DOMAIN element = Files /\ DOMAIN call = Procs
        /\ DOMAIN seen = Files
    OBVIOUS
  <2>2. status \in [Procs -> [Tweaks -> {"unknown", "absent", "readonly", "writable"}]]
    OBVIOUS
  <2>3. calm \in [Procs -> BOOLEAN] /\ lost \subseteq Files /\ outside \in Nat
    OBVIOUS
  <2>. QED BY <1>1, <1>2, <2>1, <2>2, <2>3 DEF TypeOK
<1>4. \A p \in Procs : NumberSeen(p) /\ ArrayOK(p)
  BY <1>1 DEF NumberSeen, ArrayOK
<1>5. NothingInvented
  BY <1>2 DEF NothingInvented
<1>6. LossNoted /\ CrashNeedsLoss
  BY <1>1 DEF LossNoted, CrashNeedsLoss
<1>. QED BY <1>3, <1>4, <1>5, <1>6 DEF IInv

-----------------------------------------------------------------------------
(* The steps that look a file up *)

Status == {"unknown", "absent", "readonly", "writable"}

LEMMA LookupIInv ==
  ASSUME IInv, UNCHANGED <<files, call, outside, history>>,
         status' \in [Procs -> [Tweaks -> Status]],
         \A p \in Procs, t \in Tweaks :
           status'[p][t] = "readonly" => status[p][t] = "readonly" \/ access[File[t]] # "rw"
  PROVE  IInv'
<1>. USE DEF IInv, files, history
<1>1. TypeOK'
  <2>1. \A q \in Procs : IsCall(call[q])'
    BY ZenonT(30) DEF TypeOK, IsCall
  <2>2. \A g \in Files : element'[g] \in Contents(g)'
    BY DEF TypeOK, Contents, Slots
  <2>3. \A g \in Files : (seen[g] \in [Slots(g) -> SUBSET Int])'
    BY DEF TypeOK, Slots
  <2>. QED BY <2>1, <2>2, <2>3 DEF TypeOK, Status
<1>2. ASSUME NEW p \in Procs PROVE (NumberSeen(p) /\ ArrayOK(p))'
  <2>1. NumberSeen(p) /\ ArrayOK(p)
    OBVIOUS
  <2>. QED BY <2>1 DEF NumberSeen, ArrayOK, Slots
<1>3. NothingInvented' /\ CrashNeedsLoss'
  BY DEF NothingInvented, CrashNeedsLoss, ScanLeaves, Slots
<1>4. LossNoted'
  BY TweakType DEF LossNoted
<1>. QED BY <1>1, <1>2, <1>3, <1>4

\* A step that only gives one process another call.
LEMMA NewCall ==
  ASSUME IInv, NEW p \in Procs, NEW c, IsCall(c), call' = [call EXCEPT ![p] = c],
         UNCHANGED <<files, status, outside, history>>,
         c.step = "read" => Element[c.tweak] # -1,
         c.step \in {"read", "write"} =>
           /\ c.tweak \in Tweaks
           /\ Slot(c.tweak) \in Slots(File[c.tweak])
                => c.value \in seen[File[c.tweak]][Slot(c.tweak)],
         c.step = "write" =>
           /\ DOMAIN c.elements = IF Element[c.tweak] = -1 THEN {0} ELSE Slots(File[c.tweak])
           /\ \A j \in DOMAIN c.elements :
                /\ j \in Slots(File[c.tweak]) => c.elements[j] \in seen[File[c.tweak]][j]
                /\ c.elements[j] = IF j = Slot(c.tweak) THEN c.value ELSE element[File[c.tweak]][j],
         c.step = "dead" => File[c.tweak] \in lost \/ ScanLeaves(c.tweak)
  PROVE  IInv'
<1>. USE DEF IInv, files, history
<1>1. call'[p] = c /\ \A q \in Procs \ {p} : call'[q] = call[q]
  BY DEF TypeOK
<1>2. TypeOK'
  <2>1. DOMAIN call' = Procs /\ \A q \in Procs : IsCall(call'[q])
    BY <1>1 DEF TypeOK
  <2>2. \A q \in Procs : IsCall(call[q])' <=> IsCall(call'[q])
    BY ZenonT(30) DEF IsCall
  <2>. QED BY <2>1, <2>2 DEF TypeOK, Contents, Slots
<1>3. ASSUME NEW q \in Procs PROVE (NumberSeen(q) /\ ArrayOK(q))'
  <2>1. CASE q = p
    BY <1>1, <2>1 DEF NumberSeen, ArrayOK, Slots
  <2>2. CASE q # p
    <3>1. NumberSeen(q) /\ ArrayOK(q)
      OBVIOUS
    <3>. QED BY <1>1, <2>2, <3>1 DEF NumberSeen, ArrayOK, Slots
  <2>. QED BY <2>1, <2>2
<1>4. NothingInvented' /\ LossNoted'
  BY DEF NothingInvented, LossNoted, Slots
<1>5. CrashNeedsLoss'
  BY <1>1 DEF CrashNeedsLoss, ScanLeaves
<1>. QED BY <1>2, <1>3, <1>4, <1>5

\* The search for tabs comes to the end of the memory.
LEMMA FaultIInv ==
  ASSUME IInv, NEW p \in Procs, NEW t \in Tweaks, ScanFaults(p, t)
  PROVE  IInv'
<1>1. call' = [call EXCEPT ![p] = Dead(t)] /\ UNCHANGED <<files, status, outside, history>>
  BY DEF ScanFaults
<1>2. ScanLeaves(t)
  BY DEF ScanFaults
<1>. QED BY <1>1, <1>2, IdleOrDead, NewCall

LEMMA RecordIInv ==
  ASSUME IInv, NEW p \in Procs, NEW t \in Tweaks, do_one_xml_record(p, t)
  PROVE  IInv'
<1>1. CASE ScanFaults(p, t)
  BY <1>1, FaultIInv
<1>2. CASE ~ScanFaults(p, t)
  <2> DEFINE new == CASE access[File[t]] = "rw"   -> "writable"
                      [] access[File[t]] = "r"    -> "readonly"
                      [] access[File[t]] = "none" -> "absent"
  <2>1. /\ status' = [status EXCEPT ![p][t] = new]
        /\ UNCHANGED <<files, call, outside, history>>
    BY <1>2 DEF do_one_xml_record
  <2>2. access[File[t]] \in {"rw", "r", "none"}
    BY TweakType DEF IInv, TypeOK
  <2>3. new \in Status /\ (new = "readonly" => access[File[t]] # "rw")
    BY <2>2 DEF Status
  <2>4. status \in [Procs -> [Tweaks -> Status]]
    BY DEF IInv, TypeOK, Status
  <2> HIDE DEF new
  <2>5. status' \in [Procs -> [Tweaks -> Status]]
    BY <2>1, <2>3, <2>4
  <2>6. ASSUME NEW q \in Procs, NEW u \in Tweaks, status'[q][u] = "readonly"
        PROVE  status[q][u] = "readonly" \/ access[File[u]] # "rw"
    BY <2>1, <2>3, <2>4, <2>6
  <2>. QED BY <2>1, <2>5, <2>6, LookupIInv
<1>. QED BY <1>1, <1>2

LEMMA GetValueRawIInv ==
  ASSUME IInv, NEW p \in Procs, NEW t \in Tweaks, proc_get_value_raw(p, t)
  PROVE  IInv'
<1>1. CASE ScanFaults(p, t)
  BY <1>1, FaultIInv
<1>2. CASE ~ScanFaults(p, t)
  <2>1. /\ status' = [status EXCEPT ![p][t] = fill_struct_tweak_from_proc(p, t)]
        /\ UNCHANGED <<files, call, outside, history>>
    BY <1>2 DEF proc_get_value_raw
  <2>2. status' \in [Procs -> [Tweaks -> Status]]
    BY <2>1 DEF IInv, TypeOK, fill_struct_tweak_from_proc, Status
  <2>3. ASSUME NEW q \in Procs, NEW u \in Tweaks, status'[q][u] = "readonly"
        PROVE  status[q][u] = "readonly" \/ access[File[u]] # "rw"
    BY <2>1, <2>3 DEF IInv, TypeOK, fill_struct_tweak_from_proc
  <2>. QED BY <2>1, <2>2, <2>3, LookupIInv
<1>. QED BY <1>1, <1>2

LEMMA ReloadIInv ==
  ASSUME IInv, NEW p \in Procs, Reload(p)
  PROVE  IInv'
<1>1. status' \in [Procs -> [Tweaks -> Status]]
  BY DEF IInv, TypeOK, Reload, Status
<1>2. ASSUME NEW q \in Procs, NEW u \in Tweaks, status'[q][u] = "readonly"
      PROVE  status[q][u] = "readonly" \/ access[File[u]] # "rw"
  BY <1>2 DEF IInv, TypeOK, Reload
<1>. QED BY <1>1, <1>2, LookupIInv DEF Reload

-----------------------------------------------------------------------------
(* The steps of a call *)

LEMMA ProfileIInv ==
  ASSUME IInv, NEW p \in Procs, NEW t \in Tweaks, actuate_profile_setting(p, t)
  PROVE  IInv'
<1>1. call' = [call EXCEPT ![p] = Dead(t)] /\ UNCHANGED <<files, status, outside, history>>
  BY DEF actuate_profile_setting
<1>2. File[t] \in lost
  BY DEF actuate_profile_setting, IInv, LossNoted
<1>. QED BY <1>1, <1>2, IdleOrDead, NewCall

LEMMA ReadIInv ==
  ASSUME IInv, NEW p \in Procs, ReadElements(p)
  PROVE  IInv'
<1>. DEFINE t == call[p].tweak
            f == File[t]
            v == call[p].value
            e == [j \in 0 .. Scans(f) - 2 |-> IF j = Slot(t) THEN v ELSE element[f][j]]
            c == [step |-> "write", tweak |-> t, value |-> v, elements |-> e]
<1>. USE DEF IInv
<1>1. call[p].step = "read" /\ UNCHANGED <<files, status, outside, history>>
  BY DEF ReadElements
<1>2. t \in Tweaks /\ v \in Value /\ v \in Int /\ f \in Files
  BY <1>1, CallType, ValueType, TweakType
<1>3. size[f] \in 0 .. 62 /\ element[f] \in Contents(f)
  BY <1>2 DEF TypeOK
<1>4. 0 .. Scans(f) - 2 = Slots(f)
  <2>. DEFINE n == size[f]
  <2>1. n \in 0 .. 62 /\ Slots(f) = 0 .. n - 1
    BY <1>3 DEF Slots
  <2>2. Scans(f) = IF n + 1 < 63 THEN n + 1 ELSE 63
    BY DEF Scans, Room
  <2>. HIDE DEF n
  <2>3. Scans(f) = n + 1
    BY <2>1, <2>2
  <2>4. 0 .. n + 1 - 2 = 0 .. n - 1
    BY <2>1
  <2>. QED BY <2>1, <2>3, <2>4
<1>5. DOMAIN e = Slots(f) /\ e \in [0 .. size[f] - 1 -> Int]
  BY <1>2, <1>3, <1>4, ContentsType DEF Slots
<1>6. \A j \in Slots(f) :
        e[j] \in seen[f][j] /\ e[j] = IF j = Slot(t) THEN v ELSE element[f][j]
  <2>1. NumberSeen(p) /\ NothingInvented
    OBVIOUS
  <2>. QED BY <1>1, <1>2, <1>4, <2>1 DEF NumberSeen, NothingInvented
<1>7. CASE access[f] = "none"
  <2>1. call' = [call EXCEPT ![p] = Idle]
    BY <1>7 DEF ReadElements
  <2>. QED BY <1>1, <2>1, IdleOrDead, NewCall
<1>8. CASE access[f] # "none"
  <2>1. call' = [call EXCEPT ![p] = c]
    BY <1>8 DEF ReadElements
  <2>. HIDE DEF e
  <2>2. c.step = "write" /\ c.tweak = t /\ c.value = v /\ c.elements = e
    OBVIOUS
  <2>3. IsCall(c)
    BY <1>2, <1>3, <1>5, <2>2, ZenonT(30) DEF IsCall
  <2>4. (Slot(t) \in Slots(f) => v \in seen[f][Slot(t)]) /\ Element[t] # -1
    BY <1>1 DEF NumberSeen
  <2>. HIDE DEF c
  <2>. QED BY <1>1, <1>2, <1>5, <1>6, <1>8, <2>1, <2>2, <2>3, <2>4, NewCall
<1>. QED BY <1>7, <1>8

\* A step that touches what is written where, not the calls: the numbers that
\* have been seen only become more, and the array of a call that is still alone
\* agrees with the file.
LEMMA NewFile ==
  ASSUME IInv, TypeOK', UNCHANGED <<size, call, lost, status, access>>,
         \A g \in Files : \A i \in Slots(g) :
           seen[g][i] \subseteq seen'[g][i] /\ element'[g][i] \in seen'[g][i],
         \A p \in Procs : calm'[p] /\ call[p].step = "write" =>
           calm[p] /\ element'[File[call[p].tweak]] = element[File[call[p].tweak]]
  PROVE  IInv'
<1>. USE DEF IInv
<1>1. ASSUME NEW p \in Procs PROVE NumberSeen(p)'
  BY CallType, TweakType DEF NumberSeen, Slots
<1>2. ASSUME NEW p \in Procs PROVE ArrayOK(p)'
  <2>. SUFFICES ASSUME call[p].step = "write" PROVE ArrayOK(p)'
    BY DEF ArrayOK
  <2>. DEFINE t == call[p].tweak
              f == File[t]
              e == call[p].elements
  <2>1. t \in Tweaks /\ f \in Files
    BY CallType, TweakType
  <2>3. ArrayOK(p)
    OBVIOUS
  <2>4. DOMAIN e = (IF Element[t] = -1 THEN {0} ELSE Slots(f))
    BY <2>3 DEF ArrayOK
  <2>5. \A j \in DOMAIN e \cap Slots(f) : e[j] \in seen'[f][j]
    BY <2>1, <2>3 DEF ArrayOK
  <2>6. calm'[p] =>
          \A j \in DOMAIN e : e[j] = IF j = Slot(t) THEN call[p].value ELSE element'[f][j]
    BY <2>3 DEF ArrayOK
  <2>. QED BY <2>4, <2>5, <2>6 DEF ArrayOK, Slots
<1>3. NothingInvented'
  BY DEF NothingInvented, Slots
<1>4. LossNoted' /\ CrashNeedsLoss'
  BY DEF LossNoted, CrashNeedsLoss, ScanLeaves
<1>. QED BY <1>1, <1>2, <1>3, <1>4

LEMMA BeginIInv ==
  ASSUME IInv, NEW p \in Procs, NEW t \in Tweaks, NEW v \in Values, BeginWrite(p, t, v)
  PROVE  IInv'
<1>. USE DEF IInv, files
<1>. DEFINE f == File[t]
            n == NumberFor(t, v)
            c == IF Element[t] = -1
                 THEN [step |-> "write", tweak |-> t, value |-> n, elements |-> [i \in {0} |-> n]]
                 ELSE [step |-> "read", tweak |-> t, value |-> n]
            s == [i \in Slots(f) |-> IF i = Slot(t) THEN seen[f][i] \cup {n} ELSE seen[f][i]]
<1>1. /\ f \in Files /\ n \in Value /\ n \in Int
      /\ Slot(t) \in 0 .. 62 /\ (Element[t] = -1 => Slot(t) = 0)
  BY TweakType, ValueType
<1>2. UNCHANGED <<size, element, access, status, outside, lost>>
  BY DEF BeginWrite
<1>3. call' = [call EXCEPT ![p] = c] /\ seen' = [seen EXCEPT ![f] = s]
      /\ calm' = [calm EXCEPT ![p] = TRUE]
  BY DEF BeginWrite
<1>4. /\ call'[p] = c /\ \A q \in Procs \ {p} : call'[q] = call[q]
      /\ seen'[f] = s /\ \A g \in Files \ {f} : seen'[g] = seen[g]
      /\ calm'[p] /\ \A q \in Procs \ {p} : calm'[q] = calm[q]
  BY <1>1, <1>3 DEF TypeOK
<1>5. /\ c.tweak = t /\ c.value = n /\ c.step \in {"read", "write"} /\ IsCall(c)
      /\ c.step = "read" => Element[t] # -1
      /\ c.step = "write" => Element[t] = -1 /\ c.elements = [i \in {0} |-> n]
  <2>1. CASE Element[t] = -1
    <3>. DEFINE e == [i \in {0} |-> n]
    <3>1. e \in [0 .. 0 -> Int]
      BY <1>1
    <3>2. c = [step |-> "write", tweak |-> t, value |-> n, elements |-> e]
      BY <2>1
    <3>. HIDE DEF e
    <3>3. IsCall(c)
      BY <1>1, <3>1, <3>2 DEF IsCall
    <3>. QED BY <2>1, <3>2, <3>3 DEF e
  <2>2. CASE Element[t] # -1
    <3>1. c = [step |-> "read", tweak |-> t, value |-> n]
      BY <2>2
    <3>2. IsCall(c)
      BY <1>1, <3>1 DEF IsCall
    <3>. QED BY <2>2, <3>1, <3>2
  <2>. QED BY <2>1, <2>2
<1>6. /\ s \in [Slots(f) -> SUBSET Int]
      /\ \A i \in Slots(f) : seen[f][i] \subseteq s[i] /\ (i = Slot(t) => n \in s[i])
  BY <1>1 DEF TypeOK
<1>. HIDE DEF c, s, n
<1>7. \A g \in Files : \A i \in Slots(g) : seen[g][i] \subseteq seen'[g][i]
  BY <1>4, <1>6
<1>8. TypeOK'
  <2>1. DOMAIN call' = Procs /\ \A q \in Procs : IsCall(call'[q])
    BY <1>3, <1>4, <1>5 DEF TypeOK
  <2>2. \A q \in Procs : IsCall(call[q])' <=> IsCall(call'[q])
    BY ZenonT(30) DEF IsCall
  <2>3. DOMAIN seen' = Files /\ \A g \in Files : seen'[g] \in [Slots(g) -> SUBSET Int]
    BY <1>3, <1>4, <1>6 DEF TypeOK
  <2>4. calm' \in [Procs -> BOOLEAN]
    BY <1>3 DEF TypeOK
  <2>. QED BY <1>2, <2>1, <2>2, <2>3, <2>4 DEF TypeOK, Contents, Slots
<1>9. ASSUME NEW q \in Procs PROVE (NumberSeen(q) /\ ArrayOK(q))'
  <2>1. CASE q = p
    <3>1. NumberSeen(q)'
      BY <1>2, <1>4, <1>5, <1>6, <2>1 DEF NumberSeen, Slots
    <3>2. Slots(f)' = Slots(f)
      BY <1>2 DEF Slots
    <3>3. ASSUME c.step = "write"
          PROVE  /\ Element[t] = -1 /\ Slot(t) = 0
                 /\ DOMAIN c.elements = {0} /\ c.elements[0] = n
                 /\ 0 \in Slots(f) => n \in seen'[f][0]
      BY <1>1, <1>4, <1>5, <1>6, <3>3
    <3>4. ArrayOK(q)'
      BY <1>4, <1>5, <2>1, <3>2, <3>3 DEF ArrayOK
    <3>. QED BY <3>1, <3>4
  <2>2. CASE q # p
    <3>1. call'[q] = call[q] /\ calm'[q] = calm[q] /\ NumberSeen(q) /\ ArrayOK(q)
      BY <1>4, <2>2
    <3>2. NumberSeen(q)'
      BY <1>2, <1>7, <3>1, CallType, TweakType DEF NumberSeen, Slots
    <3>3. call[q].step = "write" => File[call[q].tweak] \in Files
      BY CallType, TweakType
    <3>4. ArrayOK(q)'
      BY <1>2, <1>7, <3>1, <3>3 DEF ArrayOK, Slots
    <3>. QED BY <3>2, <3>4
  <2>. QED BY <2>1, <2>2
<1>10. NothingInvented'
  BY <1>2, <1>7 DEF NothingInvented, Slots
<1>11. LossNoted' /\ CrashNeedsLoss'
  BY <1>2, <1>4, <1>5 DEF LossNoted, CrashNeedsLoss, ScanLeaves
<1>. QED BY <1>8, <1>9, <1>10, <1>11

LEMMA ChangeValueIInv ==
  ASSUME IInv, NEW p \in Procs, NEW t \in Tweaks, NEW v \in Values, proc_change_value(p, t, v)
  PROVE  IInv'
BY FaultIInv, BeginIInv DEF proc_change_value

\* What the kernel makes of an array: numbers it accepts and those that were
\* there, each in its place.
LEMMA WrittenType ==
  ASSUME NEW f \in Files, size[f] \in 0 .. 62, element[f] \in Contents(f), NEW e
  PROVE  /\ Written(f, e) \in Contents(f)
         /\ \A i \in Slots(f) : (Written(f, e)[i] = e[i] /\ i \in DOMAIN e)
                                \/ Written(f, e)[i] = element[f][i]
<1>1. \A i \in Slots(f) : element[f][i] \in Legal[f][i]
  BY ContentsType
<1>2. \A i \in Taken(f, e) : i \in Slots(f) /\ i \in DOMAIN e /\ e[i] \in Legal[f][i]
  <2>1. ASSUME NEW i \in Taken(f, e) PROVE i \in Slots(f) /\ i \in DOMAIN e /\ e[i] \in Legal[f][i]
    <3>1. i \in Slots(f) /\ i \in DOMAIN e /\ \A j \in 0 .. i : e[j] \in Legal[f][j]
      BY DEF Taken
    <3>2. i \in 0 .. i
      BY <3>1 DEF Slots
    <3>. QED BY <3>1, <3>2
  <2>. QED BY <2>1
<1>3. \A i \in Slots(f) : Written(f, e)[i] = IF i \in Taken(f, e) THEN e[i] ELSE element[f][i]
  BY DEF Written
<1>4. DOMAIN Written(f, e) = Slots(f) /\ \A i \in Slots(f) : Written(f, e)[i] \in Legal[f][i]
  BY <1>1, <1>2, <1>3 DEF Written
<1>5. Written(f, e) \in [Slots(f) -> UNION {Legal[f][i] : i \in Slots(f)}]
  <2>1. \A i \in Slots(f) : Written(f, e)[i] \in UNION {Legal[f][j] : j \in Slots(f)}
    BY <1>4
  <2>2. Written(f, e) = [i \in Slots(f) |-> IF i \in Taken(f, e) THEN e[i] ELSE element[f][i]]
    BY DEF Written
  <2>. QED BY <1>3, <2>1, <2>2
<1>. QED BY <1>2, <1>3, <1>4, <1>5 DEF Contents

LEMMA WriteIInv ==
  ASSUME IInv, NEW p \in Procs, WriteElements(p)
  PROVE  IInv'
<1>. USE DEF IInv
<1>. DEFINE t == call[p].tweak
            f == File[t]
            e == call[p].elements
<1>1. call[p].step = "write" /\ t \in Tweaks /\ f \in Files
  BY CallType, TweakType DEF WriteElements
<1>2. UNCHANGED <<size, access, status, outside, seen, lost>>
  BY DEF WriteElements
<1>3. CASE access[f] = "rw"
  <2>1. /\ element' = [element EXCEPT ![f] = Written(f, e)]
        /\ call' = [call EXCEPT ![p] = Idle]
        /\ calm' = [q \in Procs |->
             q = p \/ (calm[q] /\ (call[q].step \in {"read", "write"} => File[call[q].tweak] # f))]
    BY <1>3 DEF WriteElements
  <2>2. /\ element'[f] = Written(f, e) /\ \A g \in Files \ {f} : element'[g] = element[g]
        /\ DOMAIN element' = Files
        /\ call'[p] = Idle /\ call'[p].step = "idle" /\ \A q \in Procs \ {p} : call'[q] = call[q]
    BY <1>1, <2>1, IdleOrDead DEF TypeOK
  <2>3. element'[f] \in Contents(f)
        /\ \A i \in Slots(f) : (element'[f][i] = e[i] /\ i \in DOMAIN e)
                               \/ element'[f][i] = element[f][i]
    <3>1. size[f] \in 0 .. 62 /\ element[f] \in Contents(f)
      BY <1>1 DEF TypeOK
    <3>. QED BY <1>1, <2>2, <3>1, WrittenType
  <2>4. ASSUME NEW g \in Files, NEW i \in Slots(g) PROVE element'[g][i] \in seen[g][i]
    <3>1. element[g][i] \in seen[g][i]
      BY DEF NothingInvented
    <3>2. ArrayOK(p)
      BY ZenonT(30)
    <3>3. CASE g = f
      BY <1>1, <2>3, <3>1, <3>2, <3>3 DEF ArrayOK
    <3>4. CASE g # f
      BY <2>2, <3>1, <3>4
    <3>. QED BY <3>3, <3>4
  <2>5. TypeOK'
    <3>1. DOMAIN call' = Procs /\ \A q \in Procs : IsCall(call'[q])
      BY <2>1, <2>2, IdleOrDead DEF TypeOK
    <3>2. \A q \in Procs : IsCall(call[q])' <=> IsCall(call'[q])
      BY ZenonT(30) DEF IsCall
    <3>3. ASSUME NEW g \in Files PROVE element'[g] \in Contents(g)'
      <4>1. element'[g] \in Contents(g)
        BY <2>2, <2>3 DEF TypeOK
      <4>2. Contents(g)' = Contents(g)
        BY <1>2 DEF Contents, Slots
      <4>. QED BY <4>1, <4>2
    <3>4. calm' \in [Procs -> BOOLEAN]
      BY <2>1 DEF TypeOK
    <3>. QED BY <1>2, <2>2, <3>1, <3>2, <3>3, <3>4 DEF TypeOK, Slots
  <2>6. ASSUME NEW q \in Procs PROVE (NumberSeen(q) /\ ArrayOK(q))'
    <3>1. CASE q = p
      BY <2>2, <3>1 DEF NumberSeen, ArrayOK
    <3>2. CASE q # p
      <4>1. call'[q] = call[q] /\ NumberSeen(q) /\ ArrayOK(q)
        BY <2>2, <3>2
      <4>2. calm'[q] => calm[q] /\ (call[q].step = "write" => File[call[q].tweak] # f)
        BY <2>1, <3>2
      <4>3. call[q].step = "write" => File[call[q].tweak] \in Files
        BY CallType, TweakType
      <4>4. NumberSeen(q)'
        BY <1>2, <4>1 DEF NumberSeen, Slots
      <4>5. ArrayOK(q)'
        BY <1>2, <2>2, <4>1, <4>2, <4>3 DEF ArrayOK, Slots
      <4>. QED BY <4>4, <4>5
    <3>. QED BY <3>1, <3>2
  <2>7. NothingInvented'
    BY <1>2, <2>4 DEF NothingInvented, Slots
  <2>8. LossNoted' /\ CrashNeedsLoss'
    BY <1>2, <2>2 DEF LossNoted, CrashNeedsLoss, ScanLeaves
  <2>. QED BY <2>5, <2>6, <2>7, <2>8
<1>4. CASE access[f] # "rw"
  <2>1. /\ call' = [call EXCEPT ![p] = IF Element[t] = -1 THEN Dead(t) ELSE Idle]
        /\ UNCHANGED <<element, calm>>
    BY <1>4 DEF WriteElements
  <2>2. UNCHANGED <<files, status, outside, history>>
    BY <1>2, <2>1 DEF files, history
  <2>3. f \in lost
    BY <1>1, <1>4 DEF LossNoted
  <2>. QED BY <1>1, <2>1, <2>2, <2>3, IdleOrDead, NewCall
<1>. QED BY <1>3, <1>4

-----------------------------------------------------------------------------
(* The kernel and everybody else *)

LEMMA ElsewhereIInv ==
  ASSUME IInv, NEW f \in Files, Elsewhere(f)
  PROVE  IInv'
<1>. USE DEF IInv
<1>1. PICK c \in Contents(f) \ {element[f]} :
        /\ element' = [element EXCEPT ![f] = c]
        /\ seen' = [seen EXCEPT ![f] = [i \in Slots(f) |-> seen[f][i] \cup {c[i]}]]
  BY DEF Elsewhere
<1>2. /\ calm' = [q \in Procs |-> calm[q] /\ (call[q].step \in {"read", "write"}
                                              => File[call[q].tweak] # f)]
      /\ UNCHANGED <<size, access, status, call, lost>> /\ outside' = outside + 1
  BY DEF Elsewhere
<1>3. size[f] \in 0 .. 62
  BY DEF TypeOK
<1>4. /\ element'[f] = c /\ seen'[f] = [i \in Slots(f) |-> seen[f][i] \cup {c[i]}]
      /\ \A g \in Files \ {f} : element'[g] = element[g] /\ seen'[g] = seen[g]
      /\ DOMAIN element' = Files /\ DOMAIN seen' = Files
  BY <1>1 DEF TypeOK
<1>5. \A i \in Slots(f) : c[i] \in Int
  BY <1>1, <1>3, ContentsType
<1>6. TypeOK'
  <2>1. ASSUME NEW g \in Files PROVE element'[g] \in Contents(g)'
    <3>1. element'[g] \in Contents(g)
      BY <1>1, <1>4 DEF TypeOK
    <3>2. Contents(g)' = Contents(g)
      BY <1>2 DEF Contents, Slots
    <3>. QED BY <3>1, <3>2
  <2>2. ASSUME NEW g \in Files PROVE seen'[g] \in [Slots(g) -> SUBSET Int]
    <3>1. seen[g] \in [Slots(g) -> SUBSET Int]
      BY DEF TypeOK
    <3>2. CASE g = f
      <4>1. \A i \in Slots(f) : seen[f][i] \cup {c[i]} \in SUBSET Int
        BY <1>5, <3>1, <3>2
      <4>. QED BY <1>4, <3>2, <4>1
    <3>3. CASE g # f
      BY <1>4, <3>1, <3>3
    <3>. QED BY <3>2, <3>3
  <2>3. calm' \in [Procs -> BOOLEAN] /\ outside' \in Nat
    BY <1>2 DEF TypeOK
  <2>4. \A q \in Procs : IsCall(call[q])'
    BY <1>2, ZenonT(30) DEF TypeOK, IsCall
  <2>. QED BY <1>2, <1>4, <2>1, <2>2, <2>3, <2>4 DEF TypeOK, Slots
<1>7. \A g \in Files : \A i \in Slots(g) :
        seen[g][i] \subseteq seen'[g][i] /\ element'[g][i] \in seen'[g][i]
  BY <1>4 DEF NothingInvented
<1>8. ASSUME NEW p \in Procs, calm'[p], call[p].step = "write"
      PROVE  calm[p] /\ element'[File[call[p].tweak]] = element[File[call[p].tweak]]
  <2>1. File[call[p].tweak] \in Files
    BY <1>8, CallType, TweakType
  <2>. QED BY <1>2, <1>4, <1>8, <2>1
<1>. QED BY <1>2, <1>6, <1>7, <1>8, NewFile

LEMMA AccessIInv ==
  ASSUME IInv, NEW f \in Files, ChangeAccess(f)
  PROVE  IInv'
<1>. USE DEF IInv
<1>1. /\ UNCHANGED <<size, element, status, call, seen, calm>> /\ outside' = outside + 1
      /\ lost' = IF access'[f] = "rw" THEN lost ELSE lost \cup {f}
  BY DEF ChangeAccess
<1>2. PICK a \in {"rw", "r", "none"} : access' = [access EXCEPT ![f] = a]
  BY DEF ChangeAccess
<1>3. TypeOK'
  <2>1. access' \in [Files -> {"rw", "r", "none"}] /\ lost' \subseteq Files /\ outside' \in Nat
    BY <1>1, <1>2 DEF TypeOK
  <2>2. \A q \in Procs : IsCall(call[q])'
    BY <1>1, ZenonT(30) DEF TypeOK, IsCall
  <2>3. \A g \in Files : element'[g] \in Contents(g)'
    BY <1>1 DEF TypeOK, Contents, Slots
  <2>4. \A g \in Files : (seen[g] \in [Slots(g) -> SUBSET Int])'
    BY <1>1 DEF TypeOK, Slots
  <2>. QED BY <1>1, <2>1, <2>2, <2>3, <2>4 DEF TypeOK
<1>4. ASSUME NEW q \in Procs PROVE (NumberSeen(q) /\ ArrayOK(q))'
  <2>1. NumberSeen(q) /\ ArrayOK(q)
    OBVIOUS
  <2>. QED BY <1>1, <2>1 DEF NumberSeen, ArrayOK, Slots
<1>5. NothingInvented'
  BY <1>1 DEF NothingInvented, Slots
<1>6. LossNoted' /\ CrashNeedsLoss'
  BY <1>1, <1>2 DEF LossNoted, CrashNeedsLoss, ScanLeaves, TypeOK
<1>. QED BY <1>3, <1>4, <1>5, <1>6

-----------------------------------------------------------------------------
(* The theorems *)

LEMMA NextIInv == IInv /\ [Next]_vars => IInv'
<1>. SUFFICES ASSUME IInv, [Next]_vars PROVE IInv'
  OBVIOUS
<1>1. CASE Next
  BY <1>1, RecordIInv, GetValueRawIInv, ProfileIInv, ChangeValueIInv, ReloadIInv, ReadIInv,
     WriteIInv, ElsewhereIInv, AccessIInv DEF Next
<1>2. CASE UNCHANGED vars
  <2>1. \A p \in Procs : NumberSeen(p) /\ ArrayOK(p)
    BY DEF IInv
  <2>. USE <1>2 DEF vars, files, history
  <2>2. \A p \in Procs : (NumberSeen(p) /\ ArrayOK(p))'
    BY <2>1 DEF NumberSeen, ArrayOK, Slots
  <2>3. TypeOK'
    <3>1. \A q \in Procs : IsCall(call[q])'
      BY ZenonT(30) DEF IInv, TypeOK, IsCall
    <3>2. \A g \in Files : element'[g] \in Contents(g)'
      BY DEF IInv, TypeOK, Contents, Slots
    <3>3. \A g \in Files : (seen[g] \in [Slots(g) -> SUBSET Int])'
      BY DEF IInv, TypeOK, Slots
    <3>. QED BY <3>1, <3>2, <3>3 DEF IInv, TypeOK
  <2>4. NothingInvented' /\ LossNoted' /\ CrashNeedsLoss'
    BY DEF IInv, NothingInvented, LossNoted, CrashNeedsLoss, ScanLeaves, Slots
  <2>. QED BY <2>2, <2>3, <2>4 DEF IInv
<1>. QED BY <1>1, <1>2

LEMMA Inductive == Spec => []IInv
<1>. QED BY InitIInv, NextIInv, PTL DEF Spec

\* The variables keep their types: an array that is read has the numbers of its
\* file and one number less than the room of elements[].
THEOREM TypeCorrect == Spec => []TypeOK
<1>1. IInv => TypeOK
  BY DEF IInv
<1>. QED BY <1>1, Inductive, PTL

\* For any number of processes, tweaks and elements no order of their reading
\* and writing puts a number into an element that it never had and that nobody
\* asked for (write_int_to_proc_file).
THEOREM ElementsKeepTheirNumbers == Spec => []NothingInvented
<1>1. IInv => NothingInvented
  BY DEF IInv
<1>. QED BY <1>1, Inductive, PTL

\* For any number of processes, and whatever an unbounded search for tabs finds
\* behind its buffer, only a file that was not writable at some time, or that has
\* not the element its description names among its first 63 characters, can end a
\* process: by the null ChangeValue a profile calls, by fclose(), or by the search.
THEOREM CrashesNeedLoss == Spec => []CrashNeedsLoss
<1>1. IInv => CrashNeedsLoss
  BY DEF IInv
<1>. QED BY <1>1, Inductive, PTL

\* A call that is alone with its file writes what it was asked to, and nothing
\* else, whatever the kernel accepts: this is what the written array is.
LEMMA AloneWritesAsked ==
  ASSUME IInv, NEW p \in Procs, call[p].step = "write", calm[p]
  PROVE  Written(File[call[p].tweak], call[p].elements) = Asked(p)
<1>. USE DEF IInv
<1>. DEFINE t == call[p].tweak
            f == File[t]
            e == call[p].elements
            v == call[p].value
            k == Slot(t)
            L(i) == Legal[f][i]
<1>1. t \in Tweaks /\ f \in Files /\ k \in 0 .. 62 /\ (Element[t] = -1 => k = 0)
  BY CallType, TweakType
<1>2. size[f] \in 0 .. 62 /\ element[f] \in Contents(f)
  BY <1>1 DEF TypeOK
<1>3. DOMAIN element[f] = Slots(f) /\ \A i \in Slots(f) : element[f][i] \in L(i)
  BY <1>1, <1>2, ContentsType
<1>4. /\ DOMAIN e = IF Element[t] = -1 THEN {0} ELSE Slots(f)
      /\ \A j \in DOMAIN e : e[j] = IF j = k THEN v ELSE element[f][j]
  BY DEF ArrayOK
<1>5. \A i \in Slots(f) : i \in 0 .. 61 /\ 0 .. i \subseteq Slots(f)
  BY <1>2 DEF Slots
<1>7. Written(f, e) = [i \in Slots(f) |-> IF i \in Taken(f, e) THEN e[i] ELSE element[f][i]]
  BY DEF Written
<1>8. Asked(p) = [i \in Slots(f) |-> IF i = k /\ v \in L(k) THEN v ELSE element[f][i]]
  <2>1. Asked(p) = IF k \in Slots(f) /\ v \in L(k) THEN [element[f] EXCEPT ![k] = v] ELSE element[f]
    BY DEF Asked
  <2>2. element[f] = [i \in Slots(f) |-> element[f][i]]
    BY <1>2 DEF Contents
  <2>. HIDE DEF k, v, L, f
  <2>. QED BY <1>3, <2>1, <2>2
<1>9. ASSUME NEW i \in Slots(f)
      PROVE  (IF i \in Taken(f, e) THEN e[i] ELSE element[f][i])
             = (IF i = k /\ v \in L(k) THEN v ELSE element[f][i])
  <2>1. i \in Taken(f, e) <=> i \in DOMAIN e /\ \A j \in 0 .. i : e[j] \in L(j)
    BY DEF Taken
  <2>2. i \in 0 .. i
    BY <1>5
  <2>3. CASE i # k
    BY <1>4, <2>1, <2>3
  <2>4. CASE i = k /\ v \notin L(k)
    BY <1>4, <2>1, <2>2, <2>4
  <2>5. CASE i = k /\ v \in L(k)
    <3>1. i \in DOMAIN e
      BY <1>1, <1>4, <2>5
    <3>2. \A j \in 0 .. i : j \in DOMAIN e
      <4>1. CASE Element[t] = -1
        <5>1. 0 .. i = {0}
          BY <1>1, <2>5, <4>1
        <5>. QED BY <1>4, <4>1, <5>1
      <4>2. CASE Element[t] # -1
        BY <1>4, <1>5, <4>2
      <4>. QED BY <4>1, <4>2
    <3>3. \A j \in 0 .. i : e[j] \in L(j)
      BY <1>3, <1>4, <1>5, <2>5, <3>2
    <3>. QED BY <1>4, <2>1, <2>5, <3>1, <3>3
  <2>. QED BY <2>3, <2>4, <2>5
<1>. QED BY <1>7, <1>8, <1>9

LEMMA StepIsPrecise ==
  ASSUME IInv, Next, NEW p \in Procs,
         call[p].step = "write", call'[p].step = "idle", calm[p],
         access[File[call[p].tweak]] = "rw"
  PROVE  element'[File[call[p].tweak]] = Asked(p)
<1>. DEFINE f == File[call[p].tweak]
<1>1. call[p] # Idle /\ f \in Files
  BY CallType, TweakType DEF IInv
<1>2. ASSUME NEW q \in Procs, NEW t \in Tweaks,
             do_one_xml_record(q, t) \/ proc_get_value_raw(q, t)
      PROVE  call'[p] = call[p]
  BY <1>1, <1>2 DEF do_one_xml_record, proc_get_value_raw, ScanFaults, Serving, IInv, TypeOK
<1>3. ASSUME NEW q \in Procs, NEW t \in Tweaks, actuate_profile_setting(q, t)
      PROVE  call'[p] = call[p]
  BY <1>1, <1>3 DEF actuate_profile_setting, Serving, IInv, TypeOK
<1>4. ASSUME NEW q \in Procs, NEW t \in Tweaks, NEW v \in Values, proc_change_value(q, t, v)
      PROVE  call'[p] = call[p]
  BY <1>1, <1>4 DEF proc_change_value, ScanFaults, BeginWrite, Serving, IInv, TypeOK
<1>5. ASSUME NEW q \in Procs, Reload(q) PROVE call'[p] = call[p]
  BY <1>5 DEF Reload
<1>6. ASSUME NEW q \in Procs, ReadElements(q) PROVE call'[p] = call[p]
  <2>1. q # p
    BY <1>6 DEF ReadElements
  <2>. QED BY <1>6, <2>1 DEF ReadElements, IInv, TypeOK
<1>7. ASSUME NEW g \in Files, Elsewhere(g) \/ ChangeAccess(g) PROVE call'[p] = call[p]
  BY <1>7 DEF Elsewhere, ChangeAccess
<1>8. ASSUME NEW q \in Procs, WriteElements(q) PROVE element'[f] = Asked(p)
  <2>1. CASE q = p
    <3>1. element' = [element EXCEPT ![f] = Written(f, call[p].elements)]
      BY <1>8, <2>1 DEF WriteElements
    <3>2. element'[f] = Written(f, call[p].elements)
      BY <1>1, <3>1 DEF IInv, TypeOK
    <3>. QED BY <3>2, AloneWritesAsked
  <2>2. CASE q # p
    <3>1. call'[p] = call[p]
      BY <1>8, <2>2 DEF WriteElements, IInv, TypeOK
    <3>. QED BY <3>1
  <2>. QED BY <2>1, <2>2
<1>9. call'[p] # call[p]
  OBVIOUS
<1>. QED BY <1>2, <1>3, <1>4, <1>5, <1>6, <1>7, <1>8, <1>9 DEF Next

\* A call of ChangeValue that nobody disturbs changes the one element it is
\* about, for files of any size, with and without further elements, and
\* whatever the kernel accepts (proc_change_value, write_int_to_proc_file).
THEOREM WritesArePrecise == Spec => WriteIsPrecise
<1>. DEFINE Precise ==
       \A p \in Procs :
         LET f == File[call[p].tweak]
         IN call[p].step = "write" /\ call'[p].step = "idle" /\ calm[p] /\ access[f] = "rw"
            => element'[f] = Asked(p)
<1>1. IInv /\ [Next]_vars => [Precise]_vars
  BY StepIsPrecise
<1>2. Spec => [][Precise]_vars
  BY <1>1, Inductive, PTL DEF Spec
<1>. QED BY <1>2 DEF WriteIsPrecise

=============================================================================
