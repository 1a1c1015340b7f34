--------------------------- MODULE TweakTreeProofs ---------------------------
(***************************************************************************)
(* Proofs about the tree of tweaks, for any number of nodes and any        *)
(* registrations: the pointers remain those of a forest while nodes are    *)
(* inserted, exchanged and destroyed, nothing is lost, what a client       *)
(* receives is the tree, and the tree is a catalogue of paths whose top is *)
(* in order when it is served; neither search nor sort goes on for ever.   *)
(***************************************************************************)
EXTENDS TweakWire, TLAPS, SequenceTheorems, FiniteSetTheorems, WellFoundedInduction

Pointer == Nodes \cup {NULL}

\* The recursion is inside nodes, except for the end of the innermost list.
StackInv ==
  /\ pc \in {"sort", "descend", "destroy"} => stack # <<>>
  /\ \A i \in 1 .. Len(stack) - 1 : stack[i] # NULL

Injective == \A p, q \in Places : ptr[p] = ptr[q] /\ ptr[p] # NULL => p = q

\* Outside the tree: freed nodes and the tweak that is not yet in it.
Outside(n) == n \notin heap \/ n = tweak

\* No node is before itself, and no two are before each other.
AheadInv == \A n, m \in Nodes : ~(ptr[NextOf(n)] = m /\ ptr[NextOf(m)] = n)

BlankInv ==
  \A n \in Nodes : Outside(n) => ptr[NextOf(n)] = NULL /\ ptr[SubOf(n)] = NULL

TargetInv ==
  pc # "destroy" => \A p \in Places : ptr[p] # NULL => ptr[p] \in heap \ {tweak}

SearchInv ==
  /\ pc = "search" <=> tweak # NULL
  /\ tweak # NULL => tweak \in heap
  /\ pc = "search" =>
       \A n \in Nodes : Outside(n) => prev # NextOf(n) /\ prev # SubOf(n)

\* The place that leads to the list activation i walks along.
ListPlace(i) == IF i = 1 THEN tweaks ELSE SubOf(stack[i - 1])

\* While the tree is destroyed pointers to freed nodes are only where the
\* recursion has passed, and no other pointer leads to where it stands.
DestroyInv ==
  pc = "destroy" =>
    /\ \A p \in Places : ptr[p] # NULL /\ ptr[p] \notin heap =>
         p = tweaks \/ \E i \in 1 .. Len(stack) - 1 : p = SubOf(stack[i])
    /\ \A i \in DOMAIN stack : \A p \in Places :
         ptr[p] = stack[i] /\ stack[i] # NULL => p = ListPlace(i)

IInv ==
  /\ TreeTypeOK /\ StackInv /\ Injective /\ AheadInv
  /\ BlankInv /\ TargetInv /\ SearchInv /\ DestroyInv

-----------------------------------------------------------------------------
(* Places and stacks *)

LEMMA PlaceFacts ==
  /\ tweaks \in Places
  /\ \A n \in Nodes : /\ NextOf(n) \in Places /\ SubOf(n) \in Places
                      /\ NextOf(n) # tweaks /\ SubOf(n) # tweaks
  /\ \A n, m \in Nodes : /\ NextOf(n) # SubOf(m)
                         /\ NextOf(n) = NextOf(m) => n = m
                         /\ SubOf(n) = SubOf(m) => n = m
  /\ \A p \in Places : p = tweaks \/ \E n \in Nodes : p = NextOf(n) \/ p = SubOf(n)
BY DEF Places, Fields, tweaks, NextOf, SubOf

LEMMA PathStep ==
  ASSUME NEW s \in Seq([text : Texts, type : Types]), s # <<>>
  PROVE  /\ Tail(s) \in Seq([text : Texts, type : Types])
         /\ Head(s).text \in Texts /\ Head(s).type \in Types
<1>. DEFINE R == [text : Texts, type : Types]
<1>1. s \in Seq(R)
  OBVIOUS
<1>2. \A r \in R : r.text \in Texts /\ r.type \in Types
  OBVIOUS
<1>. HIDE DEF R
<1>3. Tail(s) \in Seq(R) /\ Head(s) \in R
  BY <1>1
<1>. QED BY <1>2, <1>3 DEF R

LEMMA FreshIsNew ==
  ASSUME heap \subseteq Nodes, heap # Nodes
  PROVE  Fresh \in Nodes /\ Fresh \notin heap /\ Fresh # NULL
<1>1. \E n \in Nodes : n \notin heap
  OBVIOUS
<1>. QED BY <1>1, TreeAssumption DEF Fresh

LEMMA GotoStack ==
  ASSUME NEW S, NEW s \in Seq(S), s # <<>>, NEW e \in S
  PROVE  LET t == [s EXCEPT ![Len(s)] = e] IN
         /\ t \in Seq(S) /\ t # <<>> /\ Len(t) = Len(s)
         /\ t[Len(s)] = e /\ \A i \in 1 .. Len(s) - 1 : t[i] = s[i]
OBVIOUS

LEMMA CallStack ==
  ASSUME NEW S, NEW s \in Seq(S), NEW e \in S
  PROVE  LET t == Append(s, e) IN
         /\ t \in Seq(S) /\ t # <<>> /\ Len(t) = Len(s) + 1
         /\ t[Len(s) + 1] = e /\ \A i \in 1 .. Len(s) : t[i] = s[i]
OBVIOUS

LEMMA ReturnStack ==
  ASSUME NEW S, NEW s \in Seq(S), Len(s) > 1, NEW e \in S
  PROVE  LET t == [Front(s) EXCEPT ![Len(s) - 1] = e] IN
         /\ t \in Seq(S) /\ t # <<>> /\ Len(t) = Len(s) - 1
         /\ t[Len(s) - 1] = e /\ \A i \in 1 .. Len(s) - 2 : t[i] = s[i]
<1>1. Front(s) \in Seq(S) /\ Len(Front(s)) = Len(s) - 1
      /\ \A i \in 1 .. Len(s) - 1 : Front(s)[i] = s[i]
  BY DEF Front
<1>2. Len(s) - 1 = Len(Front(s)) /\ Front(s) # <<>>
  BY <1>1
<1>. HIDE DEF Front
<1>. QED BY <1>1, <1>2, GotoStack

-----------------------------------------------------------------------------
(* The invariant *)

LEMMA InvInit == TreeInit => IInv
<1>. SUFFICES ASSUME TreeInit PROVE IInv
  OBVIOUS
<1>1. TreeTypeOK
  BY PlaceFacts, EmptySeq DEF TreeInit, TreeTypeOK
<1>2. StackInv /\ Injective /\ AheadInv /\ BlankInv /\ TargetInv /\ SearchInv /\ DestroyInv
  BY PlaceFacts, TreeAssumption DEF TreeInit, StackInv, Injective, AheadInv, BlankInv, TargetInv, SearchInv, DestroyInv
<1>. QED BY <1>1, <1>2 DEF IInv

\* A tweak is allocated; nothing leads to it yet.
LEMMA InvRegister ==
  ASSUME IInv, NEW r \in Registrations, RegisterTweak(r)
  PROVE  IInv'
<1>1. Fresh \in Nodes /\ Fresh \notin heap /\ Fresh # NULL
  BY FreshIsNew DEF IInv, TreeTypeOK, RegisterTweak
<1>2. r.text \in Texts /\ r.path \in Seq([text : Texts, type : Types])
  BY TreeAssumption
<1>3. TreeTypeOK'
  BY <1>1, <1>2, PlaceFacts DEF IInv, TreeTypeOK, RegisterTweak, alloc_tweak, Types
<1>4. StackInv' /\ Injective' /\ AheadInv' /\ DestroyInv'
  BY DEF IInv, StackInv, Injective, AheadInv, DestroyInv, RegisterTweak
<1>5. tweak = NULL
  BY DEF IInv, SearchInv, RegisterTweak
<1>6. BlankInv'
  BY <1>1, <1>5 DEF IInv, BlankInv, Outside, RegisterTweak, alloc_tweak
<1>7. TargetInv'
  BY <1>1, <1>5 DEF IInv, TargetInv, RegisterTweak, alloc_tweak
<1>8. SearchInv'
  BY <1>1, PlaceFacts DEF IInv, SearchInv, Outside, RegisterTweak, alloc_tweak
<1>. QED BY <1>3, <1>4, <1>6, <1>7, <1>8 DEF IInv

LEMMA InvSearch ==
  ASSUME IInv, Search
  PROVE  IInv'
<1>. USE DEF IInv
<1>0. ptr[prev] \in Pointer /\ tweak \in Nodes /\ tweak \in heap /\ tweak # NULL
      /\ pc = "search"
  BY TreeAssumption DEF TreeTypeOK, SearchInv, Pointer, Search, Walk, Enter,
     additemtolist_create, additemtolist_insert, Duplicate
<1>0a. ptr[prev] # NULL => ptr[prev] \in Nodes /\ ptr[prev] \in heap \ {tweak}
  BY <1>0 DEF TreeTypeOK, TargetInv
<1>1. CASE Walk
  <2>1. TreeTypeOK'
    BY <1>0a, <1>1, PlaceFacts DEF TreeTypeOK, Walk, nodes
  <2>2. SearchInv'
    BY <1>0, <1>0a, <1>1, PlaceFacts DEF SearchInv, Outside, Walk, nodes
  <2>. QED BY <1>1, <2>1, <2>2
       DEF StackInv, Injective, AheadInv, BlankInv, TargetInv, DestroyInv, Outside, Walk, nodes
<1>2. CASE Enter
  <2>0. Tail(rest) \in Seq([text : Texts, type : Types]) /\ Head(rest).type \in Types
    BY <1>2, PathStep DEF TreeTypeOK, Enter
  <2>1. TreeTypeOK'
    BY <1>0a, <1>2, <2>0, PlaceFacts DEF TreeTypeOK, Enter
  <2>2. SearchInv'
    BY <1>0, <1>0a, <1>2, PlaceFacts DEF SearchInv, Outside, Enter
  <2>. QED BY <1>2, <2>1, <2>2
       DEF StackInv, Injective, AheadInv, BlankInv, TargetInv, DestroyInv, Outside, Enter
<1>3. CASE additemtolist_create
  <2>. DEFINE f == Fresh
  <2>0. f \in Nodes /\ f \notin heap /\ f # NULL
    BY <1>3, FreshIsNew DEF TreeTypeOK, additemtolist_create
  <2>1. /\ Tail(rest) \in Seq([text : Texts, type : Types])
        /\ Head(rest).type \in Types /\ Head(rest).text \in Texts
    BY <1>3, PathStep DEF TreeTypeOK, additemtolist_create
  <2>2. /\ ptr' = [ptr EXCEPT ![prev] = f] /\ heap' = heap \cup {f}
        /\ UNCHANGED <<pc, tweak, stack, registered>> /\ prev' = SubOf(f) /\ rest' = Tail(rest)
        /\ prev \in Places /\ ptr[prev] = NULL
    BY <1>3 DEF TreeTypeOK, additemtolist_create, alloc_tweak
  <2>3. \A p \in Places : ptr'[p] = IF p = prev THEN f ELSE ptr[p]
    BY <2>2 DEF TreeTypeOK
  <2>4. TreeTypeOK'
    <3>1. WidgetText' \in [Nodes -> Texts \cup {NULL}] /\ Type' \in [Nodes -> Types \cup {NULL}]
      BY <1>3, <2>1 DEF TreeTypeOK, additemtolist_create, alloc_tweak
    <3>. QED BY <2>0, <2>1, <2>2, <3>1, PlaceFacts DEF TreeTypeOK
  <2>. HIDE DEF f
  <2>5. Injective'
    BY <1>0, <2>0, <2>2, <2>3 DEF Injective, TargetInv
  <2>6. BlankInv' /\ AheadInv'
    BY <1>0, <2>0, <2>2, <2>3, PlaceFacts, TreeAssumption
    DEF BlankInv, AheadInv, SearchInv, TargetInv, Outside
  <2>7. TargetInv'
    BY <1>0, <2>0, <2>2, <2>3 DEF TargetInv
  <2>8. SearchInv'
    BY <1>0, <2>0, <2>2, PlaceFacts DEF SearchInv, Outside
  <2>9. StackInv' /\ DestroyInv'
    BY <1>0, <2>2 DEF StackInv, DestroyInv
  <2>. QED BY <2>4, <2>5, <2>6, <2>7, <2>8, <2>9
<1>4. CASE additemtolist_insert
  <2>1. /\ ptr' = [ptr EXCEPT ![prev] = tweak] /\ prev \in Places /\ ptr[prev] = NULL
        /\ tweak' = NULL /\ prev' = tweaks /\ pc' = "build"
        /\ UNCHANGED <<heap, WidgetText, Type, rest, stack, registered>>
    BY <1>4 DEF TreeTypeOK, additemtolist_insert
  <2>2. \A p \in Places : ptr'[p] = IF p = prev THEN tweak ELSE ptr[p]
    BY <2>1 DEF TreeTypeOK
  <2>3. TreeTypeOK'
    BY <1>0, <2>1, PlaceFacts DEF TreeTypeOK
  <2>4. Injective'
    BY <1>0, <2>1, <2>2 DEF Injective, TargetInv
  <2>5. BlankInv' /\ AheadInv'
    BY <1>0, <2>1, <2>2, PlaceFacts, TreeAssumption DEF BlankInv, AheadInv, SearchInv, TargetInv, Outside
  <2>6. TargetInv'
    BY <1>0, <2>1, <2>2 DEF TargetInv
  <2>7. StackInv' /\ SearchInv' /\ DestroyInv'
    BY <2>1 DEF StackInv, SearchInv, DestroyInv
  <2>. QED BY <2>3, <2>4, <2>5, <2>6, <2>7
<1>5. CASE Duplicate
  <2>1. /\ ptr' = [ptr EXCEPT ![NextOf(tweak)] = NULL, ![SubOf(tweak)] = NULL]
        /\ heap' = heap \ {tweak}
        /\ tweak' = NULL /\ prev' = tweaks /\ pc' = "build"
        /\ UNCHANGED <<rest, stack, registered>>
    BY <1>5 DEF Duplicate, free
  <2>2. \A p \in Places : ptr'[p] = ptr[p]
    BY <1>0, <2>1, PlaceFacts DEF TreeTypeOK, BlankInv, Outside
  <2>3. TreeTypeOK'
    <3>1. WidgetText' \in [Nodes -> Texts \cup {NULL}] /\ Type' \in [Nodes -> Types \cup {NULL}]
      BY <1>5 DEF TreeTypeOK, Duplicate, free
    <3>. QED BY <1>0, <2>1, <3>1, PlaceFacts DEF TreeTypeOK
  <2>4. Injective' /\ AheadInv' /\ TargetInv'
    BY <1>0, <2>1, <2>2, PlaceFacts DEF Injective, AheadInv, TargetInv
  <2>5. BlankInv'
    BY <1>0, <2>1, <2>2, PlaceFacts, TreeAssumption DEF BlankInv, Outside
  <2>6. StackInv' /\ SearchInv' /\ DestroyInv'
    BY <2>1 DEF StackInv, SearchInv, DestroyInv
  <2>. QED BY <2>3, <2>4, <2>5, <2>6
<1>. QED BY <1>1, <1>2, <1>3, <1>4, <1>5 DEF Search

-----------------------------------------------------------------------------
(* Sorting *)

LEMMA TopListIsPlace ==
  ASSUME TreeTypeOK, StackInv, stack # <<>>
  PROVE  TopList \in Places
<1>1. CASE Len(stack) = 1
  BY <1>1, PlaceFacts DEF TopList
<1>2. CASE Len(stack) # 1
  <2>. DEFINE k == Len(stack)
  <2>1. k \in Nat /\ k # 0 /\ k # 1
    BY <1>2 DEF TreeTypeOK
  <2>2. (\A i \in 1 .. k : stack[i] \in Nodes \cup {NULL}) /\ \A i \in 1 .. k - 1 : stack[i] # NULL
    BY DEF TreeTypeOK, StackInv
  <2>3. TopList = SubOf(stack[k - 1])
    BY <1>2 DEF TopList
  <2>. HIDE DEF k
  <2>4. k - 1 \in 1 .. k - 1 /\ k - 1 \in 1 .. k
    BY <2>1
  <2>5. stack[k - 1] \in Nodes
    BY <2>2, <2>4
  <2>. QED BY <2>3, <2>5, PlaceFacts
<1>. QED BY <1>1, <1>2

\* Exchanging two neighbours keeps a forest one.
LEMMA InvSwap ==
  ASSUME IInv, Swap
  PROVE  IInv'
<1>. USE DEF IInv
<1>. DEFINE a == ptr[prev]
            b == ptr[NextOf(a)]
            c == ptr[NextOf(b)]
<1>1. /\ prev \in Places /\ a \in Nodes /\ b \in Nodes /\ c \in Nodes \cup {NULL}
      /\ a # NULL /\ b # NULL /\ pc = "sort" /\ stack # <<>> /\ tweak = NULL
  BY PlaceFacts DEF TreeTypeOK, StackInv, SearchInv, Swap, Comparing, Current, Following
<1>2. /\ ptr' = [ptr EXCEPT ![prev] = b, ![NextOf(b)] = a, ![NextOf(a)] = c]
      /\ prev' = TopList
      /\ UNCHANGED <<pc, heap, WidgetText, Type, tweak, rest, stack, registered>>
  BY DEF Swap, Current, Following
<1>3. /\ NextOf(a) \in Places /\ NextOf(b) \in Places /\ a # b
      /\ NextOf(a) # NextOf(b) /\ prev # NextOf(a) /\ prev # NextOf(b)
  BY <1>1, PlaceFacts DEF AheadInv
<1>4. a \in heap /\ b \in heap /\ (c # NULL => c \in heap)
  BY <1>1, <1>3 DEF TargetInv
<1>5. ptr[prev] = a /\ ptr[NextOf(a)] = b /\ ptr[NextOf(b)] = c
  OBVIOUS
<1>. HIDE DEF a, b, c
<1>6. /\ ptr'[prev] = b /\ ptr'[NextOf(b)] = a /\ ptr'[NextOf(a)] = c
      /\ \A p \in Places : p \notin {prev, NextOf(a), NextOf(b)} => ptr'[p] = ptr[p]
  BY <1>1, <1>2, <1>3 DEF TreeTypeOK
<1>7. TreeTypeOK'
  BY <1>1, <1>2, TopListIsPlace DEF TreeTypeOK
<1>8. Injective'
  BY <1>1, <1>2, <1>3, <1>5, <1>6 DEF Injective
<1>9. AheadInv'
  BY <1>1, <1>3, <1>5, <1>6, PlaceFacts DEF AheadInv, Injective
<1>10. BlankInv'
  BY <1>1, <1>2, <1>3, <1>4, <1>5, <1>6, PlaceFacts, TreeAssumption DEF BlankInv, Outside
<1>11. TargetInv'
  <2>1. \A p \in Places : ptr[p] # NULL => ptr[p] \in heap
    BY <1>1 DEF TargetInv
  <2>2. \A p \in Places : ptr'[p] # NULL => ptr'[p] \in heap
    BY <1>4, <1>6, <2>1
  <2>. QED BY <1>1, <1>2, <2>2 DEF TargetInv
<1>12. StackInv' /\ SearchInv' /\ DestroyInv'
  BY <1>1, <1>2 DEF StackInv, SearchInv, DestroyInv
<1>. QED BY <1>7, <1>8, <1>9, <1>10, <1>11, <1>12

\* The other steps of the sort move prev and the recursion only.
LEMMA InvSort ==
  ASSUME IInv, sort_tweak_list \/ Sort
  PROVE  IInv'
<1>. USE DEF IInv
<1>1. CASE sort_tweak_list
  <2>1. TreeTypeOK' /\ StackInv'
    BY <1>1, PlaceFacts DEF TreeTypeOK, StackInv, sort_tweak_list, nodes
  <2>. QED BY <1>1, <2>1
       DEF Injective, AheadInv, BlankInv, TargetInv, SearchInv, DestroyInv, Outside,
           sort_tweak_list, nodes
<1>2. CASE Swap
  BY <1>2, InvSwap
<1>3. CASE Advance
  <2>1. TreeTypeOK'
    BY <1>3, PlaceFacts DEF TreeTypeOK, Advance, Comparing, Current, nodes
  <2>. QED BY <1>3, <2>1
       DEF StackInv, Injective, AheadInv, BlankInv, TargetInv, SearchInv, DestroyInv,
           Outside, Advance, nodes
<1>4. CASE Sorted
  <2>1. TreeTypeOK'
    BY <1>4 DEF TreeTypeOK, Sorted, nodes
  <2>. QED BY <1>4, <2>1
       DEF StackInv, Injective, AheadInv, BlankInv, TargetInv, SearchInv, DestroyInv,
           Outside, Sorted, nodes
<1>5. CASE SortSub
  <2>1. stack # <<>> /\ Top = stack[Len(stack)] /\ Top \in Nodes /\ tweak = NULL
    BY <1>5 DEF StackInv, SearchInv, SortSub, Top, Last, TreeTypeOK
  <2>2. /\ stack' \in Seq(Nodes \cup {NULL}) /\ stack' # <<>> /\ prev' \in Places
        /\ \A i \in 1 .. Len(stack') - 1 : stack'[i] # NULL
    <3>1. CASE ptr[SubOf(Top)] # NULL
      <4>1. stack' = Append(stack, ptr[SubOf(Top)]) /\ prev' = SubOf(Top)
        BY <1>5, <3>1 DEF SortSub, Call
      <4>2. ptr[SubOf(Top)] \in Nodes \cup {NULL} /\ SubOf(Top) \in Places
        BY <2>1, PlaceFacts DEF TreeTypeOK
      <4>. QED BY <2>1, <4>1, <4>2, CallStack, TreeAssumption DEF TreeTypeOK, StackInv
    <3>2. CASE ptr[SubOf(Top)] = NULL
      <4>1. stack' = [stack EXCEPT ![Len(stack)] = ptr[NextOf(Top)]] /\ prev' = prev
        BY <1>5, <3>2 DEF SortSub, Goto
      <4>2. ptr[NextOf(Top)] \in Nodes \cup {NULL}
        BY <2>1, PlaceFacts DEF TreeTypeOK
      <4>. QED BY <2>1, <4>1, <4>2, GotoStack DEF TreeTypeOK, StackInv
    <3>. QED BY <3>1, <3>2
  <2>3. pc' \in {"sort", "descend"}
    BY <1>5 DEF SortSub
  <2>4. TreeTypeOK' /\ StackInv'
    BY <1>5, <2>2, <2>3 DEF TreeTypeOK, StackInv, SortSub, nodes
  <2>. QED BY <1>5, <2>1, <2>3, <2>4
       DEF Injective, AheadInv, BlankInv, TargetInv, SearchInv, DestroyInv, Outside, SortSub, nodes
<1>6. CASE SortReturn
  <2>1. /\ stack' \in Seq(Nodes \cup {NULL}) /\ prev' \in Places
        /\ pc' \in {"descend", "gone", "serving"}
        /\ pc' = "descend" => stack' # <<>>
        /\ \A i \in 1 .. Len(stack') - 1 : stack'[i] # NULL
    <3>1. CASE Len(stack) > 1
      <4>. DEFINE e == ptr[NextOf(stack[Len(stack) - 1])]
      <4>1. stack' = [Front(stack) EXCEPT ![Len(stack) - 1] = e] /\ UNCHANGED <<pc, prev>>
        BY <1>6, <3>1 DEF SortReturn, Return
      <4>2. Len(stack) - 1 \in 1 .. Len(stack) - 1
        BY <3>1 DEF TreeTypeOK
      <4>3. e \in Nodes \cup {NULL}
        BY <4>2, PlaceFacts DEF TreeTypeOK, StackInv
      <4>. HIDE DEF e
      <4>4. /\ stack' \in Seq(Nodes \cup {NULL}) /\ stack' # <<>>
            /\ Len(stack') = Len(stack) - 1
            /\ \A i \in 1 .. Len(stack) - 2 : stack'[i] = stack[i]
        BY <3>1, <4>1, <4>3, ReturnStack DEF TreeTypeOK
      <4>5. \A i \in 1 .. Len(stack') - 1 : stack'[i] # NULL
        <5>1. \A i \in 1 .. Len(stack) - 2 : stack[i] # NULL
          BY DEF TreeTypeOK, StackInv
        <5>2. Len(stack') - 1 = Len(stack) - 2
          BY <4>4 DEF TreeTypeOK
        <5>. QED BY <4>4, <5>1, <5>2
      <4>. QED BY <1>6, <4>1, <4>4, <4>5 DEF TreeTypeOK, SortReturn
    <3>2. CASE ~(Len(stack) > 1)
      BY <1>6, <3>2, PlaceFacts DEF SortReturn
    <3>. QED BY <3>1, <3>2
  <2>2. TreeTypeOK' /\ StackInv'
    BY <1>6, <2>1 DEF TreeTypeOK, StackInv, SortReturn, nodes
  <2>. QED BY <1>6, <2>1, <2>2
       DEF Injective, AheadInv, BlankInv, TargetInv, SearchInv, DestroyInv, Outside,
           SortReturn, nodes
<1>. QED BY <1>1, <1>2, <1>3, <1>4, <1>5, <1>6 DEF Sort

-----------------------------------------------------------------------------
(* Destroying *)

\* Activation k of the recursion frees its node and goes on with the next:
\* the innermost one, or the one it returns to.
LEMMA InvFree ==
  ASSUME IInv, pc = "destroy", NEW k \in 1 .. Len(stack), k >= Len(stack) - 1,
         stack[k] # NULL, free(stack[k]),
         stack' \in Seq(Nodes \cup {NULL}), Len(stack') = k,
         stack'[k] = ptr[NextOf(stack[k])],
         \A i \in 1 .. k - 1 : stack'[i] = stack[i],
         UNCHANGED <<pc, tweak, rest, prev, registered>>
  PROVE  IInv'
<1>. USE DEF IInv
<1>. DEFINE n == stack[k]
<1>1. n \in Nodes /\ NextOf(n) \in Places /\ SubOf(n) \in Places /\ tweak = NULL
  BY PlaceFacts DEF TreeTypeOK, SearchInv
<1>2. /\ ptr' = [ptr EXCEPT ![NextOf(n)] = NULL, ![SubOf(n)] = NULL]
      /\ heap' = heap \ {n}
  BY DEF free
<1>3. TreeTypeOK'
  <2>1. WidgetText' \in [Nodes -> Texts \cup {NULL}] /\ Type' \in [Nodes -> Types \cup {NULL}]
    BY DEF free, TreeTypeOK
  <2>. QED BY <1>1, <1>2, <2>1 DEF TreeTypeOK
<1>4. n = stack[k] /\ \A i \in 1 .. k : stack[i] \in Nodes
  BY <1>1 DEF TreeTypeOK, StackInv
<1>. HIDE DEF n
<1>5. \A p \in Places : ptr'[p] = IF p = NextOf(n) \/ p = SubOf(n) THEN NULL ELSE ptr[p]
  BY <1>1, <1>2 DEF TreeTypeOK
<1>6. StackInv'
  <2>1. stack' # <<>>
    BY <1>4
  <2>2. \A i \in 1 .. Len(stack') - 1 : stack'[i] # NULL
    BY <1>4, TreeAssumption
  <2>. QED BY <2>1, <2>2 DEF StackInv
<1>7. Injective' /\ AheadInv' /\ TargetInv'
  BY <1>1, <1>5, PlaceFacts, TreeAssumption DEF Injective, AheadInv, TargetInv
<1>8. BlankInv' /\ SearchInv'
  BY <1>1, <1>2, <1>5, PlaceFacts, TreeAssumption DEF BlankInv, SearchInv, Outside
<1>9. \A p \in Places : ptr'[p] # NULL /\ ptr'[p] \notin heap' =>
        p = tweaks \/ \E i \in 1 .. Len(stack') - 1 : p = SubOf(stack'[i])
  <2>. SUFFICES ASSUME NEW p \in Places, ptr'[p] # NULL, ptr'[p] \notin heap', p # tweaks
                PROVE  \E i \in 1 .. k - 1 : p = SubOf(stack'[i])
    OBVIOUS
  <2>1. ptr'[p] = ptr[p] /\ p # SubOf(n)
    BY <1>1, <1>5
  <2>2. CASE ptr[p] = n
    <3>1. p = ListPlace(k)
      BY <1>4, <1>1, <2>2 DEF DestroyInv, TreeTypeOK
    <3>2. k # 1 /\ p = SubOf(stack[k - 1])
      BY <3>1 DEF ListPlace
    <3>3. k - 1 \in 1 .. k - 1
      BY <3>2
    <3>. QED BY <3>2, <3>3
  <2>3. CASE ptr[p] # n
    <3>1. ptr[p] \notin heap
      BY <1>2, <2>1, <2>3
    <3>2. PICK i \in 1 .. Len(stack) - 1 : p = SubOf(stack[i])
      BY <2>1, <3>1 DEF DestroyInv
    <3>3. i # k
      BY <2>1, <1>4, <3>2
    <3>4. i \in 1 .. k - 1
      BY <3>3 DEF TreeTypeOK
    <3>. QED BY <3>2, <3>4
  <2>. QED BY <2>2, <2>3
<1>10. \A i \in DOMAIN stack' : \A p \in Places :
         ptr'[p] = stack'[i] /\ stack'[i] # NULL => p = ListPlace(i)'
  <2>. SUFFICES ASSUME NEW i \in 1 .. k, NEW p \in Places,
                       ptr'[p] = stack'[i], stack'[i] # NULL
                PROVE  p = ListPlace(i)'
    OBVIOUS
  <2>1. ptr[p] = stack'[i] /\ p # NextOf(n)
    BY <1>1, <1>5
  <2>2. CASE i = k
    <3>1. ptr[p] = ptr[NextOf(n)]
      BY <2>1, <2>2, <1>4
    <3>. QED BY <3>1, <2>1, <1>1 DEF Injective
  <2>3. CASE i # k
    <3>1. i \in 1 .. k - 1 /\ stack'[i] = stack[i] /\ i \in DOMAIN stack
      BY <2>3 DEF TreeTypeOK
    <3>2. p = ListPlace(i)
      BY <2>1, <3>1 DEF DestroyInv
    <3>3. i # 1 => stack'[i - 1] = stack[i - 1]
      BY <3>1
    <3>. QED BY <3>2, <3>3 DEF ListPlace
  <2>. QED BY <2>2, <2>3
<1>11. DestroyInv'
  BY <1>9, <1>10 DEF DestroyInv
<1>. QED BY <1>3, <1>6, <1>7, <1>8, <1>11

LEMMA InvDestroy ==
  ASSUME IInv, DestroyAllTweaks \/ Destroy
  PROVE  IInv'
<1>. USE DEF IInv
<1>1. CASE DestroyAllTweaks
  <2>1. TreeTypeOK' /\ StackInv'
    BY <1>1, PlaceFacts DEF TreeTypeOK, StackInv, DestroyAllTweaks, nodes
  <2>2. DestroyInv'
    <3>1. stack' = <<ptr[tweaks]>> /\ UNCHANGED <<ptr, heap>> /\ pc = "serving"
      BY <1>1 DEF DestroyAllTweaks, nodes
    <3>2. \A p \in Places : ptr[p] = ptr[tweaks] /\ ptr[tweaks] # NULL => p = tweaks
      BY PlaceFacts DEF Injective
    <3>3. \A p \in Places : ptr[p] # NULL => ptr[p] \in heap
      BY <3>1 DEF TargetInv
    <3>4. DOMAIN stack' = {1} /\ stack'[1] = ptr[tweaks] /\ ListPlace(1)' = tweaks
      BY <3>1 DEF ListPlace
    <3>. QED BY <3>1, <3>2, <3>3, <3>4 DEF DestroyInv
  <2>. QED BY <1>1, <2>1, <2>2
       DEF Injective, AheadInv, BlankInv, TargetInv, SearchInv, Outside, DestroyAllTweaks, nodes
<1>2. CASE DestroySub
  <2>. DEFINE e == ptr[SubOf(Top)]
  <2>1. /\ stack # <<>> /\ Top = stack[Len(stack)] /\ Top \in Nodes
        /\ stack' = Append(stack, e) /\ e # NULL
        /\ UNCHANGED <<pc, nodes, tweak, rest, prev, registered>> /\ pc = "destroy"
    BY <1>2 DEF StackInv, TreeTypeOK, DestroySub, Call, Top, Last
  <2>2. e \in Nodes /\ SubOf(Top) \in Places
    BY <2>1, PlaceFacts DEF TreeTypeOK
  <2>3. ptr[SubOf(Top)] = e
    OBVIOUS
  <2>. HIDE DEF e
  <2>4. /\ stack' \in Seq(Nodes \cup {NULL}) /\ stack' # <<>> /\ Len(stack') = Len(stack) + 1
        /\ stack'[Len(stack) + 1] = e /\ \A i \in 1 .. Len(stack) : stack'[i] = stack[i]
    BY <2>1, <2>2, CallStack DEF TreeTypeOK
  <2>5. TreeTypeOK' /\ StackInv'
    <3>1. \A i \in 1 .. Len(stack') - 1 : stack'[i] # NULL
      BY <2>1, <2>4, TreeAssumption DEF StackInv, TreeTypeOK
    <3>. QED BY <2>1, <2>4, <3>1 DEF TreeTypeOK, StackInv, nodes
  <2>6. \A p \in Places : ptr[p] # NULL /\ ptr[p] \notin heap =>
          p = tweaks \/ \E i \in 1 .. Len(stack') - 1 : p = SubOf(stack'[i])
    <3>1. 1 .. Len(stack) - 1 \subseteq 1 .. Len(stack') - 1
      BY <2>4 DEF TreeTypeOK
    <3>2. \A i \in 1 .. Len(stack) - 1 : stack'[i] = stack[i]
      BY <2>4 DEF TreeTypeOK
    <3>. QED BY <2>1, <3>1, <3>2 DEF DestroyInv
  <2>7. \A i \in DOMAIN stack' : \A p \in Places :
          ptr[p] = stack'[i] /\ stack'[i] # NULL => p = ListPlace(i)'
    <3>. SUFFICES ASSUME NEW i \in 1 .. Len(stack) + 1, NEW p \in Places,
                         ptr[p] = stack'[i], stack'[i] # NULL
                  PROVE  p = ListPlace(i)'
      BY <2>4
    <3>0. Len(stack) \in Nat \ {0} /\ DOMAIN stack = 1 .. Len(stack)
      BY <2>1 DEF TreeTypeOK
    <3>1. CASE i = Len(stack) + 1
      <4>1. p = SubOf(Top)
        BY <2>2, <2>3, <2>4, <3>1 DEF Injective
      <4>2. ListPlace(i)' = SubOf(Top)
        <5>0. Len(stack) \in 1 .. Len(stack)
          BY <3>0
        <5>1. i - 1 = Len(stack) /\ i # 1 /\ stack'[Len(stack)] = Top
          BY <2>1, <2>4, <3>0, <3>1, <5>0
        <5>2. ListPlace(i)' = SubOf(stack'[Len(stack)])
          BY <5>1 DEF ListPlace
        <5>. QED BY <5>1, <5>2
      <4>. QED BY <4>1, <4>2
    <3>2. CASE i \in 1 .. Len(stack)
      <4>1. p = ListPlace(i)
        BY <2>1, <2>4, <3>0, <3>2 DEF DestroyInv
      <4>2. i # 1 => stack'[i - 1] = stack[i - 1]
        BY <2>4, <3>0, <3>2
      <4>. QED BY <4>1, <4>2 DEF ListPlace
    <3>. QED BY <3>0, <3>1, <3>2
  <2>8. DestroyInv'
    BY <2>1, <2>6, <2>7 DEF DestroyInv, nodes
  <2>. QED BY <2>1, <2>5, <2>8
       DEF Injective, AheadInv, BlankInv, TargetInv, SearchInv, Outside, nodes
<1>3. CASE DestroyLeaf
  <2>. DEFINE k == Len(stack)
              e == ptr[NextOf(Top)]
  <2>1. stack # <<>> /\ Top = stack[Len(stack)] /\ Top \in Nodes /\ pc = "destroy"
    BY <1>3 DEF StackInv, TreeTypeOK, DestroyLeaf, Top, Last
  <2>2. k \in 1 .. Len(stack) /\ k >= Len(stack) - 1 /\ stack[k] = Top /\ Top # NULL
    BY <1>3, <2>1 DEF TreeTypeOK, DestroyLeaf
  <2>3. e \in Nodes \cup {NULL} /\ stack' = [stack EXCEPT ![k] = e]
    BY <1>3, <2>1, PlaceFacts DEF TreeTypeOK, DestroyLeaf, Goto
  <2>4. e = ptr[NextOf(stack[k])]
    BY <2>2
  <2>. HIDE DEF e
  <2>5. /\ stack' \in Seq(Nodes \cup {NULL}) /\ Len(stack') = k /\ stack'[k] = e
        /\ \A i \in 1 .. k - 1 : stack'[i] = stack[i]
    BY <2>1, <2>3, GotoStack DEF TreeTypeOK
  <2>6. free(stack[k]) /\ UNCHANGED <<pc, tweak, rest, prev, registered>>
    BY <1>3, <2>2 DEF DestroyLeaf
  <2>. HIDE DEF k
  <2>. QED BY <2>1, <2>2, <2>4, <2>5, <2>6, InvFree
<1>4. CASE DestroyReturn
  <2>. DEFINE k == Len(stack) - 1
              e == ptr[NextOf(stack[k])]
  <2>1. /\ k \in 1 .. Len(stack) /\ k >= Len(stack) - 1 /\ stack[k] \in Nodes
        /\ stack[k] # NULL /\ Len(stack) > 1 /\ pc = "destroy"
    BY <1>4 DEF TreeTypeOK, StackInv, DestroyReturn
  <2>2. e \in Nodes \cup {NULL} /\ stack' = [Front(stack) EXCEPT ![k] = e]
    BY <1>4, <2>1, PlaceFacts DEF TreeTypeOK, DestroyReturn, Return
  <2>3. e = ptr[NextOf(stack[k])]
    OBVIOUS
  <2>. HIDE DEF e
  <2>4. /\ stack' \in Seq(Nodes \cup {NULL}) /\ Len(stack') = k /\ stack'[k] = e
        /\ \A i \in 1 .. Len(stack) - 2 : stack'[i] = stack[i]
    BY <2>1, <2>2, ReturnStack DEF TreeTypeOK
  <2>5. k - 1 = Len(stack) - 2
    BY DEF TreeTypeOK
  <2>6. free(stack[k]) /\ UNCHANGED <<pc, tweak, rest, prev, registered>>
    BY <1>4 DEF DestroyReturn
  <2>. HIDE DEF k
  <2>. QED BY <2>1, <2>3, <2>4, <2>5, <2>6, InvFree
<1>5. CASE Destroyed
  <2>1. /\ ptr' = [ptr EXCEPT ![tweaks] = NULL] /\ stack' = <<>>
        /\ pc' \in {"build", "gone"} /\ Len(stack) = 1 /\ pc = "destroy" /\ tweak = NULL
        /\ UNCHANGED <<heap, WidgetText, Type, tweak, rest, prev, registered>>
    BY <1>5 DEF Destroyed, SearchInv
  <2>2. \A p \in Places : ptr'[p] = IF p = tweaks THEN NULL ELSE ptr[p]
    BY <2>1 DEF TreeTypeOK
  <2>3. TreeTypeOK' /\ StackInv'
    BY <2>1, PlaceFacts DEF TreeTypeOK, StackInv
  <2>4. Injective' /\ AheadInv' /\ BlankInv' /\ SearchInv' /\ DestroyInv'
    BY <2>1, <2>2, PlaceFacts, TreeAssumption
    DEF Injective, AheadInv, BlankInv, SearchInv, DestroyInv, Outside
  <2>5. \A p \in Places : ptr[p] # NULL /\ p # tweaks => ptr[p] \in heap
    BY <2>1 DEF DestroyInv
  <2>6. TargetInv'
    BY <2>1, <2>2, <2>5 DEF TargetInv
  <2>. QED BY <2>3, <2>4, <2>6
<1>. QED BY <1>1, <1>2, <1>3, <1>4, <1>5 DEF Destroy

-----------------------------------------------------------------------------
(* Types, and one pointer to a node *)

LEMMA InvNext == IInv /\ [TreeNext]_treeVars => IInv'
<1>. SUFFICES ASSUME IInv, [TreeNext]_treeVars PROVE IInv'
  OBVIOUS
<1>1. CASE TreeNext
  BY <1>1, InvRegister, InvSearch, InvSort, InvDestroy DEF TreeNext, TreeStep, Register
<1>2. CASE UNCHANGED treeVars
  <2>1. TreeTypeOK'
    BY <1>2 DEF IInv, TreeTypeOK, treeVars, nodes
  <2>2. (StackInv /\ Injective /\ AheadInv /\ BlankInv /\ TargetInv)'
    BY <1>2 DEF IInv, StackInv, Injective, AheadInv, BlankInv, TargetInv, Outside, treeVars, nodes
  <2>3. (SearchInv /\ DestroyInv)'
    BY <1>2 DEF IInv, SearchInv, DestroyInv, ListPlace, Outside, treeVars, nodes
  <2>. QED BY <2>1, <2>2, <2>3 DEF IInv
<1>. QED BY <1>1, <1>2

\* A transfer reads the tree and leaves it alone: with a client and the
\* socket the process does with its tree what it does without them.
LEMMA WireStep == [Next]_vars => [TreeNext]_treeVars
BY DEF Next, Request, Send, Interrupt, ReceiveTweak, ReceiveMessage, Bye,
   TreeNext, vars, treeVars, nodes

LEMMA Invariance == Spec => []IInv
<1>1. Init => IInv
  BY InvInit DEF Init
<1>2. IInv /\ [Next]_vars => IInv'
  BY InvNext, WireStep
<1>. QED BY <1>1, <1>2, PTL DEF Spec

\* The variables keep their types in every state of daemon, socket and client.
THEOREM TreeTypeCorrect == Spec => []TreeTypeOK
<1>1. IInv => TreeTypeOK
  BY DEF IInv
<1>. QED BY <1>1, Invariance, PTL

\* Whatever is registered, sorted and transferred in whatever order, no two
\* pointers lead to one node, and none to a freed node or to the tweak whose
\* place is still searched: DestroyAllTweaks frees no node twice.
THEOREM OnePointerAlways == Spec => []OnePointer
<1>1. IInv => OnePointer
  BY DEF IInv, OnePointer, Injective, TargetInv
<1>. QED BY <1>1, Invariance, PTL

-----------------------------------------------------------------------------
(* Induction, and functions defined by recursion over an interval *)

LEMMA Least ==
  ASSUME NEW S, S \subseteq Nat, S # {}
  PROVE  \E i \in S : \A k \in S : i <= k
<1>. DEFINE R == {ss \in Nat \X Nat : ss[1] < ss[2]}
<1>1. IsWellFoundedOn(R, Nat)
  BY NatLessThanWellFounded DEF OpToRel
<1>2. PICK i \in S : \A k \in S : ~(<<k, i>> \in R)
  <2>. HIDE DEF R
  <2>. QED BY <1>1, WFMin, Zenon
<1>3. ASSUME NEW k \in S PROVE i <= k
  <2>1. <<k, i>> \notin R
    BY <1>2
  <2>2. k \in Nat /\ i \in Nat
    OBVIOUS
  <2>. QED BY <2>1, <2>2
<1>. QED BY <1>2, <1>3

\* A set of numbers with a and the successor of each member below n.
LEMMA CountUp ==
  ASSUME NEW n \in Nat, NEW a \in 0 .. n, NEW S, a \in S,
         \A k \in a .. n : k \in S /\ k # n => k + 1 \in S
  PROVE  a .. n \subseteq S
<1>. SUFFICES ASSUME (a .. n) \ S # {} PROVE FALSE
  OBVIOUS
<1>1. PICK k \in (a .. n) \ S : \A i \in (a .. n) \ S : k <= i
  <2>. (a .. n) \ S \subseteq Nat
    OBVIOUS
  <2>. QED BY Least
<1>2. k # a /\ k - 1 \in a .. n /\ k - 1 # n /\ k \in a .. n
  BY <1>1
<1>3. k - 1 \in S
  BY <1>1, <1>2
<1>4. (k - 1) + 1 = k
  BY <1>2
<1>. QED BY <1>1, <1>2, <1>3, <1>4

\* What a recursion over a .. n with base A and step G computes exists.
Computes(g, a, n, A, G) ==
  g = [k \in a .. n |-> IF k = a THEN A ELSE G[g[k - 1]]]

LEMMA ComputesExists ==
  ASSUME NEW E, NEW A \in E, NEW G \in [E -> E], NEW n \in Nat, NEW a \in 0 .. n
  PROVE  \E g : Computes(g, a, n, A, G)
<1>. DEFINE S == {m \in a .. n : \E g \in [a .. m -> E] : Computes(g, a, m, A, G)}
<1>1. a \in S
  <2>1. [k \in a .. a |-> A] \in [a .. a -> E]
    OBVIOUS
  <2>2. Computes([k \in a .. a |-> A], a, a, A, G)
    BY DEF Computes
  <2>. QED BY <2>1, <2>2
<1>2. ASSUME NEW m \in a .. n, m \in S, m # n PROVE m + 1 \in S
  <2>1. PICK g \in [a .. m -> E] : Computes(g, a, m, A, G)
    BY <1>2
  <2>. DEFINE h == [k \in a .. m + 1 |-> IF k = m + 1 THEN G[g[m]] ELSE g[k]]
  <2>2. m \in a .. m /\ m + 1 \in a .. n
    BY <1>2
  <2>3. h \in [a .. m + 1 -> E]
    <3>1. \A k \in a .. m + 1 : k # m + 1 => k \in a .. m
      OBVIOUS
    <3>. QED BY <2>2, <3>1
  <2>4. \A k \in a .. m : g[k] = IF k = a THEN A ELSE G[g[k - 1]]
    BY <2>1 DEF Computes
  <2>5. \A k \in a .. m + 1 : h[k] = IF k = a THEN A ELSE G[h[k - 1]]
    <3>. SUFFICES ASSUME NEW k \in a .. m + 1 PROVE h[k] = IF k = a THEN A ELSE G[h[k - 1]]
      OBVIOUS
    <3>1. CASE k = m + 1
      <4>1. k # a /\ k - 1 = m /\ m \in a .. m + 1 /\ m # m + 1
        BY <3>1
      <4>. QED BY <3>1, <4>1
    <3>2. CASE k # m + 1
      <4>1. k \in a .. m
        BY <3>2
      <4>2. k # a => k - 1 \in a .. m + 1 /\ k - 1 # m + 1
        BY <4>1
      <4>. QED BY <2>4, <3>2, <4>1, <4>2
    <3>. QED BY <3>1, <3>2
  <2>6. Computes(h, a, m + 1, A, G)
    <3>1. h = [k \in a .. m + 1 |-> h[k]]
      OBVIOUS
    <3>. HIDE DEF h
    <3>. QED BY <2>5, <3>1 DEF Computes
  <2>. QED BY <2>2, <2>3, <2>6
<1>3. n \in S
  <2>. HIDE DEF S
  <2>1. a .. n \subseteq S
    BY <1>1, <1>2, CountUp
  <2>. QED BY <2>1
<1>. QED BY <1>3

-----------------------------------------------------------------------------
(* What pointers lead to: the smallest closed set *)

LEMMA ComputedIn ==
  ASSUME NEW E, NEW A \in E, NEW G \in [E -> E], NEW n \in Nat, NEW a \in 0 .. n,
         NEW g, Computes(g, a, n, A, G)
  PROVE  /\ g \in [a .. n -> E] /\ g[a] = A
         /\ \A k \in a .. n : k # a => k - 1 \in a .. n /\ g[k] = G[g[k - 1]]
<1>1. \A k \in a .. n : g[k] = IF k = a THEN A ELSE G[g[k - 1]]
  BY DEF Computes
<1>2. a \in a .. n /\ \A k \in a .. n : k # a => k - 1 \in a .. n
  OBVIOUS
<1>. DEFINE S == {k \in a .. n : g[k] \in E}
<1>3. a \in S
  BY <1>1, <1>2
<1>4. ASSUME NEW k \in a .. n, k \in S, k # n PROVE k + 1 \in S
  <2>1. k + 1 \in a .. n /\ k + 1 # a /\ (k + 1) - 1 = k
    BY <1>4
  <2>2. g[k + 1] = G[g[k]]
    BY <1>1, <2>1
  <2>. QED BY <1>4, <2>1, <2>2
<1>5. a .. n \subseteq S
  <2>. HIDE DEF S
  <2>. QED BY <1>3, <1>4, CountUp
<1>6. g \in [a .. n -> E]
  <2>1. g = [k \in a .. n |-> g[k]]
    BY DEF Computes
  <2>. QED BY <1>5, <2>1
<1>. QED BY <1>1, <1>2, <1>6

\* A step that adds to a set of N, and one that does not lead out of D.
Adds(G, N) == G \in [SUBSET N -> SUBSET N] /\ \A T \in SUBSET N : T \subseteq G[T]
Keeps(G, N, D) == \A T \in SUBSET N : T \subseteq D => G[T] \subseteq D

\* A recursion that adds to a set of N in every step has closed it after as many
\* steps as N has members.
LEMMA Closure ==
  ASSUME NEW N, IsFiniteSet(N), NEW A, A \in SUBSET N, NEW G, Adds(G, N),
         NEW g, Computes(g, 0, Cardinality(N), A, G)
  PROVE  /\ g[Cardinality(N)] \in SUBSET N /\ A \subseteq g[Cardinality(N)]
         /\ G[g[Cardinality(N)]] = g[Cardinality(N)]
         /\ \A D : A \subseteq D /\ Keeps(G, N, D) => g[Cardinality(N)] \subseteq D
<1>. USE DEF Adds, Keeps
<1>. DEFINE c == Cardinality(N)
<1>1. c \in Nat /\ c \in 0 .. c /\ 0 \in 0 .. c
  BY FS_CardinalityType
<1>2. /\ g \in [0 .. c -> SUBSET N] /\ g[0] = A
      /\ \A k \in 0 .. c : k # 0 => k - 1 \in 0 .. c /\ g[k] = G[g[k - 1]]
  <2>. DEFINE E == SUBSET N
  <2>1. A \in E /\ G \in [E -> E] /\ Computes(g, 0, c, A, G)
    OBVIOUS
  <2>. HIDE DEF E, c
  <2>2. g \in [0 .. c -> E]
    BY <1>1, <2>1, ComputedIn
  <2>3. g[0] = A /\ \A k \in 0 .. c : k # 0 => k - 1 \in 0 .. c /\ g[k] = G[g[k - 1]]
    BY <1>1, <2>1, ComputedIn
  <2>. QED BY <2>2, <2>3 DEF E
<1>. HIDE DEF c
<1>3. ASSUME NEW k \in 0 .. c, k # c PROVE k + 1 \in 0 .. c /\ g[k + 1] = G[g[k]]
  <2>1. k + 1 \in 0 .. c /\ k + 1 # 0 /\ (k + 1) - 1 = k
    BY <1>1, <1>3
  <2>. QED BY <1>2, <2>1
<1>4. A \subseteq g[c]
  <2>. DEFINE S == {k \in 0 .. c : A \subseteq g[k]}
  <2>1. 0 \in S
    BY <1>1, <1>2
  <2>2. ASSUME NEW k \in 0 .. c, k \in S, k # c PROVE k + 1 \in S
    BY <1>2, <1>3, <2>2
  <2>3. 0 .. c \subseteq S
    <3>. HIDE DEF S
    <3>. QED BY <1>1, <2>1, <2>2, CountUp
  <2>. QED BY <1>1, <2>3
<1>5. ASSUME NEW D, A \subseteq D, \A T \in SUBSET N : T \subseteq D => G[T] \subseteq D
      PROVE  g[c] \subseteq D
  <2>. DEFINE S == {k \in 0 .. c : g[k] \subseteq D}
  <2>1. 0 \in S
    BY <1>1, <1>2, <1>5
  <2>2. ASSUME NEW k \in 0 .. c, k \in S, k # c PROVE k + 1 \in S
    BY <1>2, <1>3, <1>5, <2>2
  <2>3. 0 .. c \subseteq S
    <3>. HIDE DEF S
    <3>. QED BY <1>1, <2>1, <2>2, CountUp
  <2>. QED BY <1>1, <2>3
<1>6. G[g[c]] = g[c]
  <2>. DEFINE S == {k \in 0 .. c : G[g[k]] = g[k] \/ Cardinality(g[k]) >= k}
  <2>0. ASSUME NEW k \in 0 .. c PROVE IsFiniteSet(g[k]) /\ Cardinality(g[k]) \in Nat
    <3>1. g[k] \in SUBSET N
      BY <1>2
    <3>. QED BY <3>1, FS_Subset, FS_CardinalityType
  <2>1. 0 \in S
    BY <1>1, <2>0
  <2>2. ASSUME NEW k \in 0 .. c, k \in S, k # c PROVE k + 1 \in S
    <3>1. k + 1 \in 0 .. c /\ g[k + 1] = G[g[k]] /\ g[k] \in SUBSET N /\ g[k + 1] \in SUBSET N
      BY <1>2, <1>3, <2>2
    <3>2. CASE G[g[k]] = g[k]
      BY <3>1, <3>2
    <3>3. CASE G[g[k]] # g[k]
      <4>1. g[k] \in SUBSET g[k + 1] /\ g[k] # g[k + 1]
        BY <3>1, <3>3
      <4>2. Cardinality(g[k]) >= k
        BY <2>2, <3>3
      <4>3. /\ Cardinality(g[k]) <= Cardinality(g[k + 1])
            /\ Cardinality(g[k]) # Cardinality(g[k + 1])
        BY <2>0, <3>1, <4>1, FS_Subset
      <4>4. Cardinality(g[k]) \in Nat /\ Cardinality(g[k + 1]) \in Nat
        BY <2>0, <3>1
      <4>5. Cardinality(g[k + 1]) >= k + 1
        BY <4>2, <4>3, <4>4
      <4>. QED BY <3>1, <4>5
    <3>. QED BY <3>2, <3>3
  <2>3. 0 .. c \subseteq S
    <3>. HIDE DEF S
    <3>. QED BY <1>1, <2>1, <2>2, CountUp
  <2>4. c \in S /\ g[c] \in SUBSET N
    BY <1>1, <1>2, <2>3
  <2>5. CASE Cardinality(g[c]) >= c
    <3>1. Cardinality(g[c]) = Cardinality(N)
      <4>1. Cardinality(g[c]) <= Cardinality(N) /\ Cardinality(g[c]) \in Nat
        BY <2>0, <2>4, <1>1, FS_Subset
      <4>. QED BY <1>1, <2>5, <4>1 DEF c
    <3>2. g[c] = N
      BY <2>4, <3>1, FS_Subset
    <3>3. G[g[c]] \in SUBSET N /\ g[c] \subseteq G[g[c]]
      BY <2>4
    <3>. QED BY <3>2, <3>3
  <2>. QED BY <2>4, <2>5
<1>. QED BY <1>1, <1>2, <1>4, <1>5, <1>6 DEF c

\* The nodes in T and those their pointers lead to.
Reaching(T) == (UNION {{n, ptr[NextOf(n)], ptr[SubOf(n)]} : n \in T}) \ {NULL}

LEMMA ReachingMember ==
  ASSUME NEW T, NEW x
  PROVE  x \in Reaching(T)
           <=> x # NULL /\ \E n \in T : x = n \/ x = ptr[NextOf(n)] \/ x = ptr[SubOf(n)]
<1>. DEFINE R(n) == {n, ptr[NextOf(n)], ptr[SubOf(n)]}
            U == UNION {R(n) : n \in T}
<1>1. \A n : x \in R(n) <=> x = n \/ x = ptr[NextOf(n)] \/ x = ptr[SubOf(n)]
  OBVIOUS
<1>2. Reaching(T) = U \ {NULL}
  BY DEF Reaching
<1>. HIDE DEF R
<1>3. x \in U <=> \E n \in T : x \in R(n)
  OBVIOUS
<1>. HIDE DEF U
<1>. QED BY <1>1, <1>2, <1>3

Followed == [T \in SUBSET Nodes |-> Reaching(T)]

LEMMA FollowedType ==
  ASSUME TreeTypeOK
  PROVE  /\ Followed \in [SUBSET Nodes -> SUBSET Nodes] /\ Adds(Followed, Nodes)
         /\ \A T \in SUBSET Nodes : Followed[T] = Reaching(T)
<1>1. \A n \in Nodes : ptr[NextOf(n)] \in Nodes \cup {NULL} /\ ptr[SubOf(n)] \in Nodes \cup {NULL}
  BY PlaceFacts DEF TreeTypeOK
<1>2. \A T \in SUBSET Nodes : \A x \in Reaching(T) : x \in Nodes
  BY <1>1, ReachingMember
<1>3. \A T \in SUBSET Nodes : \A x \in T : x \in Reaching(T)
  BY ReachingMember, TreeAssumption
<1>. QED BY <1>2, <1>3 DEF Followed, Adds

LEMMA FromComputed ==
  ASSUME TreeTypeOK, NEW S \in SUBSET Pointer
  PROVE  \E g : Computes(g, 0, Cardinality(Nodes), S \ {NULL}, Followed)
                /\ From(S) = g[Cardinality(Nodes)]
<1>. DEFINE c == Cardinality(Nodes)
            A == S \ {NULL}
            Raw(f) == f = [k \in 0 .. c |-> IF k = 0 THEN A ELSE Reaching(f[k - 1])]
            f == CHOOSE f : Raw(f)
<1>1. c \in Nat /\ 0 \in 0 .. c /\ A \in SUBSET Nodes
  BY FS_CardinalityType, TreeAssumption DEF Pointer
<1>2. From(S) = f[c]
  BY DEF From, Reaching
<1>. HIDE DEF c, A
<1>3. PICK g : Computes(g, 0, c, A, Followed)
  BY <1>1, FollowedType, ComputesExists
<1>4. Raw(g)
  <2>1. g \in [0 .. c -> SUBSET Nodes] /\ \A k \in 0 .. c : k # 0 => k - 1 \in 0 .. c
    BY <1>1, <1>3, FollowedType, ComputedIn
  <2>2. \A k \in 0 .. c : k # 0 => Followed[g[k - 1]] = Reaching(g[k - 1])
    BY <2>1, FollowedType
  <2>. QED BY <1>3, <2>2 DEF Computes
<1>5. Raw(f)
  BY <1>4
<1>. HIDE DEF f
<1>6. \A k \in 0 .. c : f[k] \in SUBSET Nodes
  <2>. DEFINE T == {k \in 0 .. c : f[k] \in SUBSET Nodes}
  <2>1. 0 \in T
    BY <1>1, <1>5
  <2>2. ASSUME NEW k \in 0 .. c, k \in T, k # c PROVE k + 1 \in T
    <3>1. k + 1 \in 0 .. c /\ k + 1 # 0 /\ (k + 1) - 1 = k
      BY <1>1, <2>2
    <3>2. f[k + 1] = Reaching(f[k])
      BY <1>5, <3>1
    <3>. QED BY <2>2, <3>1, <3>2, FollowedType
  <2>3. 0 .. c \subseteq T
    <3>. HIDE DEF T
    <3>. QED BY <1>1, <2>1, <2>2, CountUp
  <2>. QED BY <2>3
<1>7. Computes(f, 0, c, A, Followed)
  <2>1. \A k \in 0 .. c : k # 0 => k - 1 \in 0 .. c
    BY <1>1
  <2>2. \A k \in 0 .. c : k # 0 => Followed[f[k - 1]] = Reaching(f[k - 1])
    BY <1>6, <2>1, FollowedType
  <2>. QED BY <1>5, <2>2 DEF Computes
<1>. QED BY <1>2, <1>7 DEF c, A

\* A pointer leads into S or nowhere.
Into(n, S) == n \in S \cup {NULL}

Closed(S) == \A n \in S : Into(ptr[NextOf(n)], S) /\ Into(ptr[SubOf(n)], S)

\* From(S) is the smallest closed set with S in it.
LEMMA FromIsLeast ==
  ASSUME TreeTypeOK, NEW S \in SUBSET Pointer
  PROVE  /\ From(S) \in SUBSET Nodes /\ \A n \in S : Into(n, From(S)) /\ Closed(From(S))
         /\ \A D : (\A n \in S : Into(n, D)) /\ Closed(D) => From(S) \subseteq D
<1>. DEFINE A == S \ {NULL}
            G == Followed
<1>1. A \in SUBSET Nodes /\ IsFiniteSet(Nodes)
  BY TreeAssumption DEF Pointer
<1>2. Adds(G, Nodes) /\ \A T \in SUBSET Nodes : G[T] = Reaching(T)
  BY FollowedType
<1>3. PICK g : Computes(g, 0, Cardinality(Nodes), A, G) /\ From(S) = g[Cardinality(Nodes)]
  BY FromComputed
<1>. HIDE DEF G, A
<1>. DEFINE F == g[Cardinality(Nodes)]
<1>4. /\ F \in SUBSET Nodes /\ A \subseteq F /\ G[F] = F
      /\ \A D : A \subseteq D /\ Keeps(G, Nodes, D) => F \subseteq D
  <2>. HIDE DEF F
  <2>1. Adds(G, Nodes) /\ Computes(g, 0, Cardinality(Nodes), A, G)
    BY <1>2, <1>3
  <2>2. /\ g[Cardinality(Nodes)] \in SUBSET Nodes /\ A \subseteq g[Cardinality(Nodes)]
        /\ G[g[Cardinality(Nodes)]] = g[Cardinality(Nodes)]
        /\ \A D : A \subseteq D /\ Keeps(G, Nodes, D) => g[Cardinality(Nodes)] \subseteq D
    BY <1>1, <2>1, Closure
  <2>. QED BY <2>2 DEF F
<1>. HIDE DEF F
<1>5. From(S) = F
  BY <1>3 DEF F
<1>8. \A n \in S : Into(n, F)
  BY <1>4 DEF Into, A
<1>9. Closed(F)
  <2>. SUFFICES ASSUME NEW n \in F, NEW x \in {ptr[NextOf(n)], ptr[SubOf(n)]}, x # NULL
                PROVE  x \in F
    BY DEF Closed, Into
  <2>1. x \in G[F]
    BY <1>2, <1>4, ReachingMember
  <2>. QED BY <1>4, <2>1
<1>10. ASSUME NEW D, \A n \in S : Into(n, D), Closed(D)
       PROVE  F \subseteq D
  <2>1. A \subseteq D
    BY <1>10 DEF A, Into
  <2>2. ASSUME NEW T \in SUBSET Nodes, T \subseteq D PROVE G[T] \subseteq D
    BY <1>2, <1>10, <2>2, ReachingMember DEF Closed, Into
  <2>3. Keeps(G, Nodes, D)
    BY <2>2 DEF Keeps
  <2>. QED BY <1>4, <2>1, <2>3
<1>. QED BY <1>4, <1>5, <1>8, <1>9, <1>10

-----------------------------------------------------------------------------
(* Nothing is lost *)

\* S has the nodes the recursion is inside, and is closed but for the Sub lists
\* that are being destroyed.
Covers(S) ==
  /\ \A i \in DOMAIN stack : Into(stack[i], S)
  /\ \A n \in S : /\ Into(ptr[NextOf(n)], S)
                  /\ Into(ptr[SubOf(n)], S) \/ \E i \in 1 .. Len(stack) - 1 : n = stack[i]

\* Whatever set one believes the tree to be, if it is closed it has all nodes.
ReachInv ==
  /\ pc # "destroy" => \A S \in SUBSET Nodes : Into(ptr[tweaks], S) /\ Closed(S) => heap \ {tweak} \subseteq S
  /\ pc = "destroy" => \A S \in SUBSET Nodes : Covers(S) => heap \subseteq S

\* The recursion that destroys is inside allocated nodes, each once.
StandInv ==
  pc = "destroy" => \A i \in DOMAIN stack :
    /\ Into(stack[i], heap)
    /\ \A k \in DOMAIN stack : stack[i] = stack[k] /\ stack[i] # NULL => i = k

LostInv == ReachInv /\ StandInv

\* Where nodes and pointers stay nothing is lost.
LEMMA LostSame ==
  ASSUME LostInv, pc # "destroy", pc' # "destroy", ptr' = ptr, heap' \ {tweak'} = heap \ {tweak}
  PROVE  LostInv'
BY DEF LostInv, ReachInv, StandInv, Into, Closed

\* Node n is put where the list ends.
LEMMA LostPut ==
  ASSUME IInv, LostInv, pc = "search", pc' # "destroy", ptr[prev] = NULL, NEW n \in Nodes,
         ptr' = [ptr EXCEPT ![prev] = n], heap' \ {tweak'} = (heap \ {tweak}) \cup {n}
  PROVE  LostInv'
<1>1. prev \in Places /\ \A p \in Places : ptr'[p] = IF p = prev THEN n ELSE ptr[p]
  BY DEF IInv, TreeTypeOK
<1>2. prev = tweaks \/ \E m \in heap \ {tweak} : m \in Nodes /\ prev \in {NextOf(m), SubOf(m)}
  BY <1>1, PlaceFacts DEF IInv, SearchInv, Outside
<1>3. ASSUME NEW S \in SUBSET Nodes, Into(ptr'[tweaks], S), Closed(S)'
      PROVE  heap' \ {tweak'} \subseteq S
  <2>1. tweaks \in Places /\ \A m \in S : Into(ptr'[NextOf(m)], S) /\ Into(ptr'[SubOf(m)], S)
    BY <1>3, PlaceFacts DEF Closed, Into
  <2>2. \A p \in Places : Into(ptr'[p], S) => Into(ptr[p], S)
    BY <1>1 DEF Into
  <2>3. Into(ptr[tweaks], S) /\ Closed(S)
    BY <1>3, <2>1, <2>2, PlaceFacts DEF Closed
  <2>4. heap \ {tweak} \subseteq S
    BY <2>3 DEF LostInv, ReachInv
  <2>5. n \in S
    <3>1. ptr'[prev] = n /\ n # NULL
      BY <1>1, TreeAssumption
    <3>. QED BY <1>2, <1>3, <2>1, <2>4, <3>1 DEF Into
  <2>. QED BY <2>4, <2>5
<1>. QED BY <1>3 DEF LostInv, ReachInv, StandInv

LEMMA LostSearch ==
  ASSUME IInv, LostInv, Search
  PROVE  LostInv'
<1>1. pc = "search" /\ tweak \in heap /\ tweak \in Nodes /\ prev \in Places
  BY DEF IInv, SearchInv, TreeTypeOK, Search, Walk, Enter,
     additemtolist_create, additemtolist_insert, Duplicate
<1>2. CASE Walk \/ Enter
  BY <1>1, <1>2, LostSame DEF Walk, Enter, nodes
<1>3. CASE additemtolist_create
  <2>1. Fresh \in Nodes /\ Fresh \notin heap
    BY <1>3, FreshIsNew DEF IInv, TreeTypeOK, additemtolist_create
  <2>2. heap' \ {tweak'} = (heap \ {tweak}) \cup {Fresh}
    BY <1>1, <1>3, <2>1 DEF additemtolist_create, alloc_tweak
  <2>. QED BY <1>1, <1>3, <2>1, <2>2, LostPut DEF additemtolist_create
<1>4. CASE additemtolist_insert
  <2>1. heap' \ {tweak'} = (heap \ {tweak}) \cup {tweak}
    BY <1>1, <1>4, TreeAssumption DEF additemtolist_insert, IInv, TreeTypeOK
  <2>. QED BY <1>1, <1>4, <2>1, LostPut DEF additemtolist_insert
<1>5. CASE Duplicate
  <2>1. \A p \in Places : ptr'[p] = ptr[p]
    BY <1>1, <1>5, PlaceFacts DEF IInv, TreeTypeOK, BlankInv, Outside, Duplicate, free
  <2>2. ptr' = ptr
    BY <1>5, <2>1 DEF IInv, TreeTypeOK, Duplicate, free
  <2>3. heap' \ {tweak'} = heap \ {tweak}
    BY <1>1, <1>5, TreeAssumption DEF IInv, TreeTypeOK, Duplicate, free
  <2>. QED BY <1>1, <1>5, <2>2, <2>3, LostSame DEF Duplicate
<1>. QED BY <1>2, <1>3, <1>4, <1>5 DEF Search

\* Two neighbours change places: a set that is closed afterwards was so before,
\* unless the second one is outside, and then without the first one.
LEMMA LostSwap ==
  ASSUME IInv, LostInv, Swap
  PROVE  LostInv'
<1>. DEFINE a == ptr[prev]
            b == ptr[NextOf(a)]
            c == ptr[NextOf(b)]
<1>1. /\ prev \in Places /\ a \in Nodes /\ b \in Nodes /\ c \in Nodes \cup {NULL}
      /\ a # NULL /\ b # NULL /\ pc = "sort" /\ pc' = "sort" /\ tweak = NULL
  BY PlaceFacts DEF IInv, TreeTypeOK, StackInv, SearchInv, Swap, Comparing, Current, Following
<1>2. /\ ptr' = [ptr EXCEPT ![prev] = b, ![NextOf(b)] = a, ![NextOf(a)] = c]
      /\ UNCHANGED <<heap, tweak>>
  BY DEF Swap, Current, Following
<1>3. /\ NextOf(a) \in Places /\ NextOf(b) \in Places /\ a # b
      /\ NextOf(a) # NextOf(b) /\ prev # NextOf(a) /\ prev # NextOf(b)
  BY <1>1, PlaceFacts DEF IInv, AheadInv
<1>4. a \in heap /\ b \in heap
  BY <1>1, <1>3 DEF IInv, TargetInv
<1>5. ptr[prev] = a /\ ptr[NextOf(a)] = b /\ ptr[NextOf(b)] = c
  OBVIOUS
<1>. HIDE DEF a, b, c
<1>6. /\ ptr'[prev] = b /\ ptr'[NextOf(b)] = a /\ ptr'[NextOf(a)] = c
      /\ \A p \in Places : p \notin {prev, NextOf(a), NextOf(b)} => ptr'[p] = ptr[p]
  BY <1>1, <1>2, <1>3 DEF IInv, TreeTypeOK
<1>7. ASSUME NEW S \in SUBSET Nodes, Into(ptr'[tweaks], S), Closed(S)'
      PROVE  heap \subseteq S
  <2>1. \A m \in S : Into(ptr'[NextOf(m)], S) /\ Into(ptr'[SubOf(m)], S)
    BY <1>7 DEF Closed, Into
  <2>2. CASE b \in S
    <3>1. a \in S /\ Into(c, S)
      BY <1>1, <1>6, <2>1, <2>2, TreeAssumption DEF Into
    <3>2. \A p \in Places : Into(ptr'[p], S) => Into(ptr[p], S)
      BY <1>1, <1>5, <1>6, <2>2, <3>1 DEF Into
    <3>3. Into(ptr[tweaks], S) /\ Closed(S)
      BY <1>7, <2>1, <3>2, PlaceFacts DEF Closed
    <3>. QED BY <1>1, <1>4, <3>3, TreeAssumption DEF LostInv, ReachInv, IInv, TreeTypeOK
  <2>3. CASE b \notin S
    <3>. DEFINE T == S \ {a}
    <3>1. prev # tweaks /\ \A m \in S : NextOf(m) # prev /\ SubOf(m) # prev
      BY <1>1, <1>6, <1>7, <2>1, <2>3 DEF Into
    <3>2. \A p \in Places : ptr[p] = a => p = prev
      BY <1>1, <1>5 DEF IInv, Injective
    <3>3. tweaks \in Places /\ tweaks # NextOf(a) /\ tweaks # NextOf(b)
      BY <1>1, PlaceFacts
    <3>4. Into(ptr[tweaks], T)
      BY <1>6, <1>7, <3>1, <3>2, <3>3 DEF Into
    <3>5. ASSUME NEW n \in T
          PROVE  Into(ptr[NextOf(n)], T) /\ Into(ptr[SubOf(n)], T)
      <4>1. /\ NextOf(n) \in Places /\ SubOf(n) \in Places
            /\ NextOf(n) \notin {prev, NextOf(a), NextOf(b)}
            /\ SubOf(n) \notin {prev, NextOf(a), NextOf(b)}
        BY <1>1, <2>3, <3>1, PlaceFacts
      <4>. QED BY <1>6, <2>1, <3>1, <3>2, <4>1 DEF Into
    <3>6. T \in SUBSET Nodes /\ Closed(T)
      BY <3>5 DEF Closed
    <3>7. heap \ {tweak} \subseteq T
      <4>. HIDE DEF T
      <4>. QED BY <1>1, <3>4, <3>6 DEF LostInv, ReachInv
    <3>. QED BY <1>1, <1>4, <3>7, TreeAssumption
  <2>. QED BY <2>2, <2>3
<1>. QED BY <1>1, <1>2, <1>7 DEF LostInv, ReachInv, StandInv

LEMMA LostSort ==
  ASSUME IInv, LostInv, Register \/ sort_tweak_list \/ Sort
  PROVE  LostInv'
<1>1. CASE Register
  <2>1. PICK r \in Registrations : RegisterTweak(r)
    BY <1>1 DEF Register
  <2>2. Fresh \notin heap /\ tweak = NULL
    BY <2>1, FreshIsNew DEF RegisterTweak, IInv, TreeTypeOK, SearchInv
  <2>3. heap' \ {tweak'} = heap \ {tweak}
    BY <2>1, <2>2, TreeAssumption DEF RegisterTweak, alloc_tweak, IInv, TreeTypeOK
  <2>. QED BY <2>1, <2>3, LostSame DEF RegisterTweak
<1>2. CASE Swap
  BY <1>2, LostSwap
<1>3. CASE sort_tweak_list
  BY <1>3, LostSame DEF sort_tweak_list, nodes
<1>4. CASE Advance \/ Sorted
  BY <1>4, LostSame DEF Advance, Sorted, nodes
<1>5. CASE SortSub
  <2>1. pc' # "destroy"
    BY <1>5 DEF SortSub
  <2>. QED BY <1>5, <2>1, LostSame DEF SortSub, nodes
<1>6. CASE SortReturn
  <2>1. pc' # "destroy"
    BY <1>6 DEF SortReturn
  <2>. QED BY <1>6, <2>1, LostSame DEF SortReturn, nodes
<1>. QED BY <1>1, <1>2, <1>3, <1>4, <1>5, <1>6 DEF Sort

\* Activation k frees its node and goes on with the next (see InvFree).
LEMMA LostFree ==
  ASSUME IInv, LostInv, pc = "destroy", NEW k \in 1 .. Len(stack), k >= Len(stack) - 1,
         stack[k] # NULL, free(stack[k]), k = Len(stack) => ptr[SubOf(stack[k])] = NULL,
         k < Len(stack) => stack[Len(stack)] = NULL,
         stack' \in Seq(Nodes \cup {NULL}), Len(stack') = k,
         stack'[k] = ptr[NextOf(stack[k])],
         \A i \in 1 .. k - 1 : stack'[i] = stack[i],
         UNCHANGED <<pc, tweak, rest, prev, registered>>
  PROVE  LostInv'
<1>. DEFINE L == Len(stack)
<1>0. L \in Nat /\ DOMAIN stack = 1 .. L
  BY DEF IInv, TreeTypeOK
<1>0a. k \in 1 .. L /\ k >= L - 1 /\ \A i \in 1 .. k - 1 : stack'[i] = stack[i]
  OBVIOUS
<1>0b. Len(stack) = L
  OBVIOUS
<1>0c. (k = L => ptr[SubOf(stack[k])] = NULL) /\ (k < L => stack[L] = NULL)
  OBVIOUS
<1>. HIDE DEF L
<1>0d. k \in Nat /\ k <= L /\ (k = L \/ k = L - 1) /\ 1 .. k - 1 \subseteq 1 .. L - 1
  BY <1>0, <1>0a
<1>0e. \A i \in 1 .. L - 1 : stack[i] \in Nodes
  BY <1>0, <1>0b DEF IInv, TreeTypeOK, StackInv
<1>. DEFINE n == stack[k]
            e == ptr[NextOf(n)]
<1>1. /\ n \in Nodes /\ NextOf(n) \in Places /\ SubOf(n) \in Places /\ e \in Nodes \cup {NULL}
  BY <1>0, PlaceFacts DEF IInv, TreeTypeOK
<1>2. /\ ptr' = [ptr EXCEPT ![NextOf(n)] = NULL, ![SubOf(n)] = NULL]
      /\ heap' = heap \ {n}
  BY DEF free
<1>3. n = stack[k] /\ e = ptr[NextOf(n)] /\ stack'[k] = e /\ DOMAIN stack' = 1 .. k
  OBVIOUS
<1>4. k = L => ptr[SubOf(n)] = NULL
  BY <1>0c
<1>. HIDE DEF n, e
<1>5. \A p \in Places : ptr'[p] = IF p = NextOf(n) \/ p = SubOf(n) THEN NULL ELSE ptr[p]
  BY <1>1, <1>2 DEF IInv, TreeTypeOK
<1>6. \A i \in 1 .. k - 1 : i \in DOMAIN stack /\ i \in 1 .. L - 1 /\ stack'[i] = stack[i]
  BY <1>0, <1>0a, <1>0d
<1>7. ASSUME NEW S \in SUBSET Nodes, Covers(S)' PROVE heap' \subseteq S
  <2>. DEFINE T == S \cup {n}
  <2>1. Into(e, S) /\ \A i \in 1 .. k - 1 : Into(stack[i], S)
    BY <1>3, <1>6, <1>7 DEF Covers, L, Into
  <2>2. \A i \in DOMAIN stack : Into(stack[i], T)
    <3>. SUFFICES ASSUME NEW i \in 1 .. L PROVE Into(stack[i], T)
      BY <1>0
    <3>1. CASE i < k
      BY <2>1, <3>1 DEF Into
    <3>2. CASE i = k
      BY <1>3, <3>2 DEF Into
    <3>3. CASE i > k
      <4>1. i = L /\ k < L
        BY <1>0, <1>0d, <3>3
      <4>. QED BY <1>0c, <4>1 DEF Into
    <3>. QED BY <3>1, <3>2, <3>3
  <2>3. ASSUME NEW m \in T, m # n
        PROVE  /\ Into(ptr[NextOf(m)], T)
               /\ Into(ptr[SubOf(m)], T) \/ \E i \in 1 .. L - 1 : m = stack[i]
    <3>1. m \in S /\ m \in Nodes
      BY <2>3
    <3>2. ptr'[NextOf(m)] = ptr[NextOf(m)] /\ ptr'[SubOf(m)] = ptr[SubOf(m)]
      BY <1>1, <1>5, <2>3, <3>1, PlaceFacts
    <3>3. /\ Into(ptr'[NextOf(m)], S)
          /\ Into(ptr'[SubOf(m)], S) \/ \E i \in 1 .. k - 1 : m = stack'[i]
      BY <1>7, <3>1 DEF Covers, L, Into
    <3>. QED BY <1>6, <3>2, <3>3 DEF Into
  <2>4. /\ Into(ptr[NextOf(n)], T)
        /\ Into(ptr[SubOf(n)], T) \/ \E i \in 1 .. L - 1 : n = stack[i]
    <3>1. Into(e, T)
      BY <2>1 DEF Into
    <3>2. CASE k = L
      BY <1>3, <1>4, <3>1, <3>2 DEF Into
    <3>3. CASE k # L
      <4>1. k \in 1 .. L - 1
        BY <1>0a, <1>0d, <3>3
      <4>. QED BY <1>3, <3>1, <4>1
    <3>. QED BY <3>2, <3>3
  <2>5. Covers(T) /\ T \in SUBSET Nodes
    BY <1>1, <2>2, <2>3, <2>4 DEF Covers, L
  <2>6. heap \subseteq T
    <3>. HIDE DEF T
    <3>. QED BY <2>5 DEF LostInv, ReachInv
  <2>. QED BY <1>2, <2>6
<1>8. ASSUME NEW i \in 1 .. k
      PROVE  /\ Into(stack'[i], heap')
             /\ \A j \in 1 .. k : stack'[i] = stack'[j] /\ stack'[i] # NULL => i = j
  <2>1. e # NULL => e \in heap /\ e # n
    <3>. SUFFICES ASSUME e # NULL PROVE e \in heap /\ e # n
      OBVIOUS
    <3>1. NextOf(n) # tweaks /\ \A j \in 1 .. L - 1 : NextOf(n) # SubOf(stack[j])
      <4>. QED BY <1>0e, <1>1, PlaceFacts
    <3>2. e \in heap
      BY <1>0b, <1>1, <1>3, <3>1 DEF IInv, DestroyInv
    <3>3. e # n
      BY <1>1, <1>3 DEF IInv, AheadInv
    <3>. QED BY <3>2, <3>3
  <2>2. \A j \in 1 .. k - 1 : e # NULL => stack[j] # e
    <3>. SUFFICES ASSUME NEW j \in 1 .. k - 1, e # NULL, stack[j] = e PROVE FALSE
      OBVIOUS
    <3>1. NextOf(n) = ListPlace(j)
      BY <1>1, <1>3, <1>6 DEF IInv, DestroyInv
    <3>2. j # 1 => stack[j - 1] \in Nodes
      <4>1. j # 1 => j - 1 \in 1 .. L - 1
        BY <1>0, <1>0d
      <4>. QED BY <1>0e, <4>1
    <3>. QED BY <1>1, <3>1, <3>2, PlaceFacts DEF ListPlace
  <2>3. \A j \in 1 .. k - 1 : stack[j] # n
    <3>1. \A j \in 1 .. k - 1 : stack[j] = stack[k] /\ stack[j] # NULL => j = k
      BY <1>0, <1>0a, <1>6 DEF LostInv, StandInv
    <3>2. \A j \in 1 .. k - 1 : j # k
      BY <1>0d
    <3>. QED BY <1>1, <1>3, <3>1, <3>2, TreeAssumption
  <2>4. \A j \in 1 .. k : j # k => j \in 1 .. k - 1
    OBVIOUS
  <2>5. Into(stack'[i], heap')
    <3>1. CASE i = k
      BY <1>2, <1>3, <2>1, <3>1 DEF Into
    <3>2. CASE i # k
      <4>1. stack'[i] = stack[i] /\ i \in DOMAIN stack /\ stack[i] # n
        BY <1>6, <2>3, <2>4, <3>2
      <4>. QED BY <1>2, <4>1 DEF LostInv, StandInv, Into
    <3>. QED BY <3>1, <3>2
  <2>6. ASSUME NEW j \in 1 .. k, stack'[i] = stack'[j], stack'[i] # NULL PROVE i = j
    <3>1. CASE i = k
      BY <1>3, <1>6, <2>2, <2>4, <2>6, <3>1
    <3>2. CASE j = k
      BY <1>3, <1>6, <2>2, <2>4, <2>6, <3>2
    <3>3. CASE i # k /\ j # k
      <4>1. stack'[i] = stack[i] /\ i \in DOMAIN stack /\ stack'[j] = stack[j] /\ j \in DOMAIN stack
        BY <1>6, <2>4, <3>3
      <4>. QED BY <2>6, <4>1 DEF LostInv, StandInv
    <3>. QED BY <3>1, <3>2, <3>3
  <2>. QED BY <2>5, <2>6
<1>9. ReachInv'
  BY <1>7 DEF ReachInv
<1>10. StandInv'
  BY <1>3, <1>8 DEF StandInv
<1>. QED BY <1>9, <1>10 DEF LostInv

LEMMA LostDestroy ==
  ASSUME IInv, LostInv, DestroyAllTweaks \/ Destroy
  PROVE  LostInv'
<1>1. CASE DestroyAllTweaks
  <2>1. /\ stack' = <<ptr[tweaks]>> /\ UNCHANGED <<ptr, heap, tweak>> /\ pc = "serving"
        /\ pc' = "destroy" /\ tweak = NULL
    BY <1>1 DEF DestroyAllTweaks, nodes, IInv, SearchInv
  <2>2. Into(ptr[tweaks], heap) /\ DOMAIN stack' = {1} /\ stack'[1] = ptr[tweaks] /\ Len(stack') = 1
    BY <2>1, PlaceFacts DEF IInv, TargetInv, Into
  <2>3. StandInv'
    BY <2>1, <2>2 DEF StandInv, Into
  <2>4. ASSUME NEW S \in SUBSET Nodes, Covers(S)' PROVE heap' \subseteq S
    <3>1. Into(ptr[tweaks], S) /\ Closed(S)
      BY <2>1, <2>2, <2>4 DEF Covers, Closed, Into
    <3>2. heap \subseteq Nodes
      BY DEF IInv, TreeTypeOK
    <3>. QED BY <2>1, <3>1, <3>2, TreeAssumption DEF LostInv, ReachInv
  <2>. QED BY <2>1, <2>3, <2>4 DEF LostInv, ReachInv
<1>2. CASE DestroySub
  <2>. DEFINE e == ptr[SubOf(Top)]
              L == Len(stack)
  <2>1. /\ stack # <<>> /\ Top = stack[L] /\ Top \in Nodes
        /\ stack' = Append(stack, e) /\ e # NULL
        /\ UNCHANGED <<pc, ptr, heap, tweak>> /\ pc = "destroy"
    BY <1>2 DEF IInv, StackInv, TreeTypeOK, DestroySub, Call, Top, Last, nodes
  <2>2. e \in Nodes /\ SubOf(Top) \in Places
    BY <2>1, PlaceFacts DEF IInv, TreeTypeOK
  <2>3. ptr[SubOf(Top)] = e
    OBVIOUS
  <2>. HIDE DEF e
  <2>4. /\ stack' \in Seq(Nodes \cup {NULL}) /\ Len(stack') = L + 1 /\ DOMAIN stack' = 1 .. L + 1
        /\ stack'[L + 1] = e /\ \A i \in 1 .. L : stack'[i] = stack[i]
    BY <2>1, <2>2, CallStack DEF IInv, TreeTypeOK
  <2>5. L \in Nat /\ L # 0 /\ DOMAIN stack = 1 .. L /\ \A i \in 1 .. L : stack[i] \in Nodes
    <3>1. L \in Nat /\ L # 0 /\ DOMAIN stack = 1 .. L
      BY <2>1 DEF IInv, TreeTypeOK
    <3>2. \A i \in 1 .. L - 1 : stack[i] \in Nodes
      BY DEF IInv, TreeTypeOK, StackInv
    <3>. HIDE DEF L
    <3>. QED BY <2>1, <3>1, <3>2
  <2>. HIDE DEF L
  <2>6. ASSUME NEW S \in SUBSET Nodes, Covers(S)' PROVE heap' \subseteq S
    <3>1. /\ \A i \in 1 .. L : Into(stack[i], S)
          /\ Into(e, S)
      <4>1. \A i \in 1 .. L + 1 : Into(stack'[i], S)
        BY <2>4, <2>6 DEF Covers, Into
      <4>2. 1 .. L \subseteq 1 .. L + 1 /\ L + 1 \in 1 .. L + 1
        BY <2>5
      <4>. QED BY <2>4, <4>1, <4>2
    <3>2. ASSUME NEW n \in S
          PROVE  /\ Into(ptr[NextOf(n)], S)
                 /\ Into(ptr[SubOf(n)], S) \/ \E i \in 1 .. L - 1 : n = stack[i]
      <4>1. /\ Into(ptr[NextOf(n)], S)
            /\ Into(ptr[SubOf(n)], S) \/ \E i \in 1 .. L : n = stack'[i]
        <5>1. Len(stack') - 1 = L
          BY <2>4, <2>5
        <5>. QED BY <2>1, <2>6, <5>1 DEF Covers, Into
      <4>2. CASE \E i \in 1 .. L : n = stack'[i]
        <5>1. PICK i \in 1 .. L : n = stack[i]
          BY <2>4, <4>2
        <5>2. i = L \/ i \in 1 .. L - 1
          BY <2>5
        <5>. QED BY <2>1, <2>3, <3>1, <4>1, <5>1, <5>2
      <4>. QED BY <4>1, <4>2
    <3>3. Covers(S)
      BY <2>5, <3>1, <3>2 DEF Covers, L
    <3>. QED BY <2>1, <3>3 DEF LostInv, ReachInv
  <2>7. e \in heap /\ \A j \in 1 .. L : stack[j] # e
    <3>0. L \in 1 .. L /\ \A j \in 1 .. L - 1 : j \in 1 .. L /\ j # L
      BY <2>5
    <3>1. \A j \in 1 .. L : stack[j] = Top => j = L
      BY <2>1, <2>5, <3>0, TreeAssumption DEF LostInv, StandInv
    <3>2. \A j \in 1 .. L - 1 : stack[j] # Top /\ stack[j] \in Nodes
      BY <2>5, <3>0, <3>1
    <3>3. e \in heap
      <4>1. SubOf(Top) # tweaks /\ \A j \in 1 .. L - 1 : SubOf(Top) # SubOf(stack[j])
        BY <2>1, <3>2, PlaceFacts
      <4>. QED BY <2>1, <2>2, <2>3, <4>1 DEF IInv, DestroyInv, L
    <3>4. ASSUME NEW j \in 1 .. L, stack[j] = e PROVE FALSE
      <4>1. SubOf(Top) = ListPlace(j)
        BY <2>1, <2>2, <2>3, <2>5, <3>4 DEF IInv, DestroyInv
      <4>2. j # 1 => j - 1 \in 1 .. L - 1
        BY <2>5
      <4>. QED BY <2>1, <3>2, <4>1, <4>2, PlaceFacts DEF ListPlace
    <3>. QED BY <3>3, <3>4
  <2>8. StandInv'
    <3>. SUFFICES ASSUME NEW i \in 1 .. L + 1
                  PROVE  /\ Into(stack'[i], heap)
                         /\ \A k \in 1 .. L + 1 : stack'[i] = stack'[k] => i = k
      BY <2>1, <2>4 DEF StandInv, Into
    <3>1. \A k \in 1 .. L + 1 : k = L + 1 \/ k \in 1 .. L
      BY <2>5
    <3>2. /\ \A k \in 1 .. L : Into(stack'[k], heap)
          /\ \A j, k \in 1 .. L : stack'[j] = stack'[k] => j = k
      BY <2>1, <2>4, <2>5, TreeAssumption DEF LostInv, StandInv
    <3>. QED BY <2>4, <2>7, <3>1, <3>2 DEF Into
  <2>. QED BY <2>1, <2>6, <2>8 DEF LostInv, ReachInv
<1>3. CASE DestroyLeaf
  <2>. DEFINE k == Len(stack)
              e == ptr[NextOf(Top)]
  <2>1. stack # <<>> /\ Top = stack[Len(stack)] /\ Top \in Nodes /\ pc = "destroy"
    BY <1>3 DEF IInv, StackInv, TreeTypeOK, DestroyLeaf, Top, Last
  <2>2. k \in 1 .. Len(stack) /\ k >= Len(stack) - 1 /\ stack[k] = Top /\ Top # NULL
        /\ ptr[SubOf(stack[k])] = NULL
    BY <1>3, <2>1 DEF IInv, TreeTypeOK, DestroyLeaf
  <2>3. e \in Nodes \cup {NULL} /\ stack' = [stack EXCEPT ![k] = e]
    BY <1>3, <2>1, PlaceFacts DEF IInv, TreeTypeOK, DestroyLeaf, Goto
  <2>4. e = ptr[NextOf(stack[k])] /\ ~(k < Len(stack))
    BY <2>2 DEF IInv, TreeTypeOK
  <2>. HIDE DEF e
  <2>5. /\ stack' \in Seq(Nodes \cup {NULL}) /\ Len(stack') = k /\ stack'[k] = e
        /\ \A i \in 1 .. k - 1 : stack'[i] = stack[i]
    BY <2>1, <2>3, GotoStack DEF IInv, TreeTypeOK
  <2>6. free(stack[k]) /\ UNCHANGED <<pc, tweak, rest, prev, registered>>
    BY <1>3, <2>2 DEF DestroyLeaf
  <2>. HIDE DEF k
  <2>. QED BY <2>1, <2>2, <2>4, <2>5, <2>6, LostFree
<1>4. CASE DestroyReturn
  <2>. DEFINE k == Len(stack) - 1
              e == ptr[NextOf(stack[k])]
  <2>1. /\ k \in 1 .. Len(stack) /\ k >= Len(stack) - 1 /\ stack[k] \in Nodes
        /\ stack[k] # NULL /\ Len(stack) > 1 /\ pc = "destroy"
        /\ k # Len(stack) /\ stack[Len(stack)] = NULL
    BY <1>4 DEF IInv, TreeTypeOK, StackInv, DestroyReturn, Top, Last
  <2>2. e \in Nodes \cup {NULL} /\ stack' = [Front(stack) EXCEPT ![k] = e]
    BY <1>4, <2>1, PlaceFacts DEF IInv, TreeTypeOK, DestroyReturn, Return
  <2>3. e = ptr[NextOf(stack[k])]
    OBVIOUS
  <2>. HIDE DEF e
  <2>4. /\ stack' \in Seq(Nodes \cup {NULL}) /\ Len(stack') = k /\ stack'[k] = e
        /\ \A i \in 1 .. Len(stack) - 2 : stack'[i] = stack[i]
    BY <2>1, <2>2, ReturnStack DEF IInv, TreeTypeOK
  <2>5. k - 1 = Len(stack) - 2
    BY DEF IInv, TreeTypeOK
  <2>6. free(stack[k]) /\ UNCHANGED <<pc, tweak, rest, prev, registered>>
    BY <1>4 DEF DestroyReturn
  <2>. HIDE DEF k
  <2>. QED BY <2>1, <2>3, <2>4, <2>5, <2>6, LostFree
<1>5. CASE Destroyed
  <2>1. /\ pc' # "destroy" /\ Len(stack) = 1 /\ pc = "destroy" /\ Top = NULL
        /\ UNCHANGED heap
    BY <1>5 DEF Destroyed
  <2>2. stack[1] = NULL /\ DOMAIN stack = {1}
    BY <2>1 DEF Top, Last, IInv, TreeTypeOK
  <2>3. Covers({})
    BY <2>2 DEF Covers, Into
  <2>4. heap = {}
    BY <2>1, <2>3 DEF LostInv, ReachInv
  <2>. QED BY <2>1, <2>4 DEF LostInv, ReachInv, StandInv
<1>. QED BY <1>1, <1>2, <1>3, <1>4, <1>5 DEF Destroy

LEMMA LostInit == TreeInit => LostInv
BY DEF TreeInit, LostInv, ReachInv, StandInv

LEMMA LostNext == IInv /\ LostInv /\ [TreeNext]_treeVars => LostInv'
<1>1. CASE UNCHANGED treeVars
  <2>. SUFFICES ASSUME LostInv PROVE LostInv'
    OBVIOUS
  <2>1. UNCHANGED <<pc, ptr, heap, tweak, stack>>
    BY <1>1 DEF treeVars, nodes
  <2>2. StandInv'
    BY <2>1 DEF LostInv, StandInv, Into
  <2>3. \A S : (Closed(S)' <=> Closed(S)) /\ (Covers(S)' <=> Covers(S))
    BY <2>1 DEF Closed, Covers, Into
  <2>4. ReachInv'
    BY <2>1, <2>3 DEF LostInv, ReachInv, Into
  <2>. QED BY <2>2, <2>4 DEF LostInv
<1>. QED BY <1>1, LostSearch, LostSort, LostDestroy DEF TreeNext, TreeStep

LEMMA LostInvariance == Spec => [](IInv /\ LostInv)
<1>1. Init => LostInv
  BY LostInit DEF Init
<1>2. IInv /\ LostInv /\ [Next]_vars => LostInv'
  BY LostNext, WireStep
<1>. QED BY <1>1, <1>2, Invariance, PTL DEF Spec

\* What can be reached is what is allocated.
LEMMA ReachedIsAllocated ==
  ASSUME IInv, LostInv, pc # "destroy"
  PROVE  heap = From({ptr[tweaks], tweak})
<1>. DEFINE S == {ptr[tweaks], tweak}
            F == From(S)
<1>1. TreeTypeOK /\ S \in SUBSET Pointer
  BY PlaceFacts DEF IInv, TreeTypeOK, Pointer
<1>2. /\ F \in SUBSET Nodes /\ \A n \in S : Into(n, F) /\ Closed(F)
      /\ \A D : (\A n \in S : Into(n, D)) /\ Closed(D) => F \subseteq D
  BY <1>1, FromIsLeast
<1>. HIDE DEF F
<1>3. heap \ {tweak} \subseteq F
  BY <1>2 DEF LostInv, ReachInv
<1>4. heap \subseteq F
  BY <1>2, <1>3, TreeAssumption DEF Into, IInv, TreeTypeOK
<1>5. \A p \in Places : Into(ptr[p], heap)
  BY DEF Into, IInv, TargetInv
<1>6. (\A n \in S : Into(n, heap)) /\ Closed(heap)
  BY <1>5, PlaceFacts DEF Into, Closed, IInv, SearchInv, TreeTypeOK
<1>7. F \subseteq heap
  BY <1>2, <1>6
<1>. QED BY <1>4, <1>7 DEF F

\* While the tree is destroyed.
LEMMA DoomedIsAllocated ==
  ASSUME IInv, LostInv, pc = "destroy"
  PROVE  heap = Doomed
<1>. DEFINE L == Len(stack)
            Below(i) == LET n == stack[i] IN
                        IF i = L \/ n = NULL THEN From({n}) ELSE {n} \cup From({ptr[NextOf(n)]})
<1>1. L \in Nat /\ L # 0 /\ DOMAIN stack = 1 .. L
  BY DEF IInv, TreeTypeOK, StackInv
<1>2. \A i \in 1 .. L - 1 : i \in 1 .. L /\ stack[i] \in Nodes /\ stack[i] # NULL
  BY DEF IInv, TreeTypeOK, StackInv
<1>4. TreeTypeOK
  BY DEF IInv
<1>5. \A x : x \in Doomed <=> \E i \in DOMAIN stack : x \in Below(i)
  BY DEF Doomed
<1>6. ASSUME NEW i \in 1 .. L - 1
      PROVE  /\ ptr[NextOf(stack[i])] \in Pointer
             /\ Below(i) = {stack[i]} \cup From({ptr[NextOf(stack[i])]})
  <2>. HIDE DEF L
  <2>1. i # L
    BY <1>1
  <2>2. ptr[NextOf(stack[i])] \in Pointer
    BY <1>2, PlaceFacts DEF IInv, TreeTypeOK, Pointer
  <2>. QED BY <1>2, <2>1, <2>2
<1>7. stack[L] \in Pointer /\ Below(L) = From({stack[L]})
  BY <1>1 DEF IInv, TreeTypeOK, Pointer
<1>. HIDE DEF L, Below
<1>3. \A i \in 1 .. L : i = L \/ i \in 1 .. L - 1
  BY <1>1
<1>8. ASSUME NEW i \in 1 .. L PROVE Below(i) \subseteq heap
  <2>. DEFINE C == heap \ {stack[j] : j \in 1 .. L - 1}
  <2>1. ASSUME NEW p \in Places, p # tweaks, \A j \in 1 .. L - 1 : p # SubOf(stack[j])
        PROVE  Into(ptr[p], C)
    <3>1. ptr[p] # NULL => ptr[p] \in heap
      BY <2>1 DEF IInv, DestroyInv, L
    <3>2. ASSUME NEW j \in 1 .. L - 1, ptr[p] = stack[j] PROVE FALSE
      <4>1. p = ListPlace(j)
        BY <1>1, <1>2, <3>2 DEF IInv, DestroyInv
      <4>2. j # 1 => j - 1 \in 1 .. L - 1
        BY <1>1
      <4>. QED BY <2>1, <4>1, <4>2 DEF ListPlace
    <3>. QED BY <3>1, <3>2 DEF Into
  <2>2. Closed(C)
    <3>. SUFFICES ASSUME NEW n \in C PROVE Into(ptr[NextOf(n)], C) /\ Into(ptr[SubOf(n)], C)
      BY DEF Closed
    <3>1. n \in Nodes /\ \A j \in 1 .. L - 1 : n # stack[j]
      BY DEF IInv, TreeTypeOK
    <3>2. /\ NextOf(n) \in Places /\ NextOf(n) # tweaks
          /\ SubOf(n) \in Places /\ SubOf(n) # tweaks
          /\ \A j \in 1 .. L - 1 : NextOf(n) # SubOf(stack[j]) /\ SubOf(n) # SubOf(stack[j])
      BY <1>2, <3>1, PlaceFacts
    <3>. QED BY <2>1, <3>2
  <2>3. CASE i = L
    <3>1. Into(stack[L], C)
      <4>1. L \in DOMAIN stack /\ \A j \in 1 .. L - 1 : j # L
        BY <1>1
      <4>2. Into(stack[L], heap) /\ \A j \in 1 .. L - 1 : stack[L] = stack[j] => stack[L] = NULL
        BY <1>1, <1>2, <4>1 DEF LostInv, StandInv
      <4>. QED BY <4>2 DEF Into
    <3>2. From({stack[L]}) \subseteq C
      <4>. HIDE DEF C
      <4>1. {stack[L]} \in SUBSET Pointer /\ \A n \in {stack[L]} : Into(n, C)
        BY <1>7, <3>1
      <4>. QED BY <1>4, <2>2, <4>1, FromIsLeast
    <3>. QED BY <1>7, <2>3, <3>2
  <2>4. CASE i \in 1 .. L - 1
    <3>1. Into(ptr[NextOf(stack[i])], C)
      <4>1. /\ NextOf(stack[i]) \in Places /\ NextOf(stack[i]) # tweaks
            /\ \A j \in 1 .. L - 1 : NextOf(stack[i]) # SubOf(stack[j])
        BY <1>2, <2>4, PlaceFacts
      <4>. QED BY <2>1, <4>1
    <3>2. From({ptr[NextOf(stack[i])]}) \subseteq C
      <4>. HIDE DEF C
      <4>. DEFINE S == {ptr[NextOf(stack[i])]}
      <4>1. S \in SUBSET Pointer /\ \A n \in S : Into(n, C)
        BY <1>6, <2>4, <3>1
      <4>. HIDE DEF S
      <4>2. From(S) \subseteq C
        BY <1>4, <2>2, <4>1, FromIsLeast
      <4>. QED BY <4>2 DEF S
    <3>3. stack[i] \in heap
      BY <1>1, <1>2, <2>4 DEF LostInv, StandInv, Into
    <3>. QED BY <1>6, <2>4, <3>2, <3>3
  <2>. QED BY <1>3, <2>3, <2>4
<1>9. ASSUME NEW S \in SUBSET Pointer, NEW n \in From(S)
      PROVE  n \in Nodes /\ Into(ptr[NextOf(n)], From(S)) /\ Into(ptr[SubOf(n)], From(S))
  BY <1>4, FromIsLeast DEF Closed
<1>10. ASSUME NEW n \in Pointer PROVE Into(n, From({n}))
  <2>. DEFINE S == {n}
  <2>1. S \in SUBSET Pointer /\ n \in S
    OBVIOUS
  <2>. HIDE DEF S
  <2>2. Into(n, From(S))
    BY <1>4, <2>1, FromIsLeast
  <2>. QED BY <2>2 DEF S
<1>11. ASSUME NEW i \in 1 .. L, NEW n \in Below(i)
       PROVE  n \in Nodes /\ Into(ptr[NextOf(n)], Below(i))
              /\ (Into(ptr[SubOf(n)], Below(i)) \/ \E j \in 1 .. L - 1 : n = stack[j])
  <2>1. CASE i = L
    BY <1>7, <1>9, <2>1
  <2>2. CASE i \in 1 .. L - 1
    <3>. DEFINE S == {ptr[NextOf(stack[i])]}
    <3>1. S \in SUBSET Pointer /\ Below(i) = {stack[i]} \cup From(S)
      BY <1>6, <2>2
    <3>2. Into(ptr[NextOf(stack[i])], From(S))
      BY <1>6, <1>10, <2>2
    <3>. HIDE DEF S
    <3>3. CASE n = stack[i]
      BY <1>2, <2>2, <3>1, <3>2, <3>3 DEF Into
    <3>4. CASE n \in From(S)
      BY <1>9, <3>1, <3>4 DEF Into
    <3>. QED BY <3>1, <3>3, <3>4
  <2>. QED BY <1>3, <2>1, <2>2
<1>12. Doomed \in SUBSET Nodes
  BY <1>1, <1>5, <1>11
<1>13. Covers(Doomed)
  <2>1. ASSUME NEW i \in DOMAIN stack PROVE Into(stack[i], Doomed)
    <3>1. CASE i = L
      BY <1>5, <1>7, <1>10, <2>1, <3>1 DEF Into
    <3>2. CASE i \in 1 .. L - 1
      BY <1>5, <1>6, <2>1, <3>2 DEF Into
    <3>. QED BY <1>1, <1>3, <3>1, <3>2
  <2>2. ASSUME NEW n \in Doomed
        PROVE  /\ Into(ptr[NextOf(n)], Doomed)
               /\ Into(ptr[SubOf(n)], Doomed) \/ \E j \in 1 .. L - 1 : n = stack[j]
    <3>1. PICK i \in DOMAIN stack : n \in Below(i)
      BY <1>5
    <3>2. /\ Into(ptr[NextOf(n)], Below(i))
          /\ Into(ptr[SubOf(n)], Below(i)) \/ \E j \in 1 .. L - 1 : n = stack[j]
      BY <1>1, <1>11, <3>1
    <3>3. \A x : Into(x, Below(i)) => Into(x, Doomed)
      BY <1>5, <3>1 DEF Into
    <3>. QED BY <3>2, <3>3
  <2>. QED BY <2>1, <2>2 DEF Covers, L
<1>14. heap \subseteq Doomed
  BY <1>12, <1>13 DEF LostInv, ReachInv
<1>15. Doomed \subseteq heap
  BY <1>1, <1>5, <1>8
<1>. QED BY <1>14, <1>15

\* Through every registration, exchange of neighbours and order of destruction
\* each allocated node can be reached, and nothing that can be reached is
\* freed: RegisterTweak, sort_tweak_list and DestroyAllTweaks lose no node.
THEOREM NothingLostAlways == Spec => []NothingLost
<1>1. IInv /\ LostInv => NothingLost
  BY ReachedIsAllocated, DoomedIsAllocated DEF NothingLost
<1>. QED BY <1>1, LostInvariance, PTL

-----------------------------------------------------------------------------
(* The transfer: where the daemon was when it sent what is still on the way *)

Frames == [node : Nodes, at : {"tweak", "sub", "next", "return"}]
Messages == Nodes \cup {"sub", "next", "return"}

WireTypeOK ==
  /\ session \in BOOLEAN /\ sending \in Seq(Frames) /\ socket \in Seq(Messages)
  /\ client \in {"none", "receiving", "has"}
  /\ receiving \in Seq([node : Nodes, dest : Places, message : 1 .. 3])
  /\ called \in Places \cup {NULL}
  /\ copy \in [Places -> Pointer]

\* The place that leads to the node of activation i of s.
PlaceOf(s, i) ==
  IF i = 1 THEN tweaks
  ELSE IF s[i - 1].at = "next" THEN SubOf(s[i - 1].node) ELSE NextOf(s[i - 1].node)

\* Activations of SendTweakStructure, each called by the one before.
Nested(s) ==
  /\ s \in Seq(Frames)
  /\ \A i \in 1 .. Len(s) : ptr[PlaceOf(s, i)] = s[i].node
  /\ \A i \in 1 .. Len(s) - 1 : s[i].at \in {"next", "return"}

\* The number of the message the client expects next when the daemon is there.
Number(at, m) ==
  \/ at = "sub" /\ m = 1
  \/ at = "next" /\ m = 2
  \/ at = "return" /\ m \in {2, 3}

\* The client is where the daemon was with the activations s.
Mirrors(s) ==
  /\ Len(receiving) = IF called = NULL THEN Len(s) ELSE Len(s) - 1
  /\ called # NULL => s # <<>> /\ s[Len(s)].at = "tweak" /\ called = PlaceOf(s, Len(s))
  /\ \A i \in 1 .. Len(receiving) :
       /\ receiving[i].node = s[i].node /\ receiving[i].dest = PlaceOf(s, i)
       /\ Number(s[i].at, receiving[i].message)

\* P are the activations the daemon had before and after each message on the
\* way.
Past(P) ==
  /\ P \in Seq(Seq(Frames)) /\ Len(P) = Len(socket) + 1
  /\ \A i \in 1 .. Len(P) : Nested(P[i])
  /\ \A i \in 1 .. Len(socket) :
       P[i] # <<>> /\ socket[i] = ToSend(Last(P[i])) /\ P[i + 1] = Continue(P[i], socket[i])

\* The lists below and behind n have been copied.
SubDone(n) == copy[SubOf(n)] = ptr[SubOf(n)]
NextDone(n) == copy[NextOf(n)] = ptr[NextOf(n)]

\* What the client has copied when it is where the daemon was with s.
Copied(s) ==
  /\ \A p \in Places : copy[p] \in {ptr[p], NULL}
  /\ \A p \in Places : copy[p] # NULL => SubDone(copy[p]) /\ NextDone(copy[p])
  /\ \A i \in 1 .. Len(receiving) : s[i].at = "return" => SubDone(s[i].node)
  /\ called = NULL /\ receiving # <<>> =>
       LET f == s[Len(s)] IN
       (f.at = "next" => SubDone(f.node)) /\ (f.at = "return" => NextDone(f.node))
  /\ s = <<>> => copy[tweaks] = ptr[tweaks]

WireInv ==
  /\ WireTypeOK
  /\ pc = "serving" => ptr[tweaks] \in Nodes
  /\ client = "none" => /\ ~session /\ sending = <<>> /\ socket = <<>>
                        /\ receiving = <<>> /\ called = NULL /\ copy = NoCopy
  /\ ~session => sending = <<>>
  /\ client # "none" =>
       /\ pc = "serving"
       /\ \E P : /\ Past(P) /\ Mirrors(P[1]) /\ Copied(P[1])
                 /\ IF session THEN P[Len(P)] = sending ELSE P[Len(P)] # <<>>
                 /\ client = "has" <=> P[1] = <<>>

-----------------------------------------------------------------------------
(* Sequences *)

LEMMA TailFacts ==
  ASSUME NEW S, NEW s \in Seq(S), s # <<>>
  PROVE  /\ Head(s) = s[1] /\ s[1] \in S /\ Tail(s) \in Seq(S) /\ Len(Tail(s)) = Len(s) - 1
         /\ Len(s) \in Nat /\ Len(s) # 0
         /\ \A i \in 1 .. Len(s) - 1 : Tail(s)[i] = s[i + 1]
OBVIOUS

LEMMA FrontFacts ==
  ASSUME NEW S, NEW s \in Seq(S), s # <<>>
  PROVE  /\ Front(s) \in Seq(S) /\ Len(Front(s)) = Len(s) - 1 /\ Last(s) = s[Len(s)]
         /\ Len(s) \in Nat /\ Len(s) # 0 /\ s[Len(s)] \in S
         /\ \A i \in 1 .. Len(s) - 1 : Front(s)[i] = s[i]
<1>1. Len(s) \in Nat /\ Len(s) # 0 /\ Last(s) = s[Len(s)] /\ s[Len(s)] \in S
  BY DEF Last
<1>2. /\ Front(s) \in Seq(S) /\ Len(Front(s)) = Len(s) - 1
      /\ \A i \in 1 .. Len(s) - 1 : Front(s)[i] = s[i]
  <2>1. CASE Len(s) = 1
    <3>1. Front(s) = <<>>
      BY <2>1 DEF Front
    <3>. QED BY <2>1, <3>1
  <2>2. CASE Len(s) > 1
    BY <2>2 DEF Front
  <2>3. Len(s) = 1 \/ Len(s) > 1
    <3>. DEFINE L == Len(s)
    <3>1. L \in Nat /\ L # 0
      BY <1>1
    <3>. HIDE DEF L
    <3>2. L = 1 \/ L > 1
      BY <3>1
    <3>. QED BY <3>2 DEF L
  <2>. QED BY <2>1, <2>2, <2>3
<1>. QED BY <1>1, <1>2

LEMMA AppendFacts ==
  ASSUME NEW S, NEW s \in Seq(S), NEW e \in S
  PROVE  /\ Append(s, e) \in Seq(S) /\ Len(Append(s, e)) = Len(s) + 1 /\ Len(s) \in Nat
         /\ Append(s, e)[Len(s) + 1] = e /\ \A i \in 1 .. Len(s) : Append(s, e)[i] = s[i]
OBVIOUS

\* The last element of s is replaced by e.
LEMMA ReplaceFacts ==
  ASSUME NEW S, NEW s \in Seq(S), s # <<>>, NEW e \in S
  PROVE  LET t == Append(Front(s), e) IN
         /\ t \in Seq(S) /\ Len(t) = Len(s) /\ t[Len(s)] = e
         /\ \A i \in 1 .. Len(s) - 1 : t[i] = s[i]
<1>1. /\ Front(s) \in Seq(S) /\ Len(Front(s)) = Len(s) - 1 /\ Len(s) \in Nat /\ Len(s) # 0
      /\ \A i \in 1 .. Len(s) - 1 : Front(s)[i] = s[i]
  BY FrontFacts
<1>. DEFINE r == Front(s)
            t == Append(r, e)
<1>. HIDE DEF r
<1>2. /\ t \in Seq(S) /\ Len(t) = Len(r) + 1 /\ t[Len(r) + 1] = e
      /\ \A i \in 1 .. Len(r) : t[i] = r[i]
  BY <1>1, AppendFacts DEF r
<1>. HIDE DEF t
<1>3. Len(r) = Len(s) - 1 /\ Len(r) + 1 = Len(s)
  BY <1>1 DEF r
<1>4. /\ t \in Seq(S) /\ Len(t) = Len(s) /\ t[Len(s)] = e
      /\ \A i \in 1 .. Len(s) - 1 : t[i] = s[i]
  BY <1>1, <1>2, <1>3 DEF r
<1>. QED BY <1>4 DEF t, r

\* The last element of s is replaced by e, and x is put behind it.
LEMMA CallFacts ==
  ASSUME NEW S, NEW s \in Seq(S), s # <<>>, NEW e \in S, NEW x \in S
  PROVE  LET t == Append(Front(s), e) \o <<x>> IN
         /\ t \in Seq(S) /\ Len(t) = Len(s) + 1 /\ t[Len(s)] = e /\ t[Len(s) + 1] = x
         /\ \A i \in 1 .. Len(s) - 1 : t[i] = s[i]
<1>. DEFINE r == Append(Front(s), e)
            t == r \o <<x>>
<1>1. /\ r \in Seq(S) /\ Len(r) = Len(s) /\ r[Len(s)] = e
      /\ \A i \in 1 .. Len(s) - 1 : r[i] = s[i]
  BY ReplaceFacts
<1>2. Len(s) \in Nat /\ Len(s) # 0
  BY FrontFacts
<1>. HIDE DEF r
<1>3. /\ t \in Seq(S) /\ Len(t) = Len(r) + 1 /\ t[Len(r) + 1] = x
      /\ \A i \in 1 .. Len(r) : t[i] = r[i]
  BY <1>1
<1>. HIDE DEF t
<1>4. Len(s) \in 1 .. Len(r) /\ 1 .. Len(s) - 1 \subseteq 1 .. Len(r)
  BY <1>1, <1>2
<1>5. /\ t \in Seq(S) /\ Len(t) = Len(s) + 1 /\ t[Len(s)] = e /\ t[Len(s) + 1] = x
      /\ \A i \in 1 .. Len(s) - 1 : t[i] = s[i]
  BY <1>1, <1>3, <1>4
<1>. QED BY <1>5 DEF t, r

-----------------------------------------------------------------------------
(* The daemon sends *)

Frame(n, at) == [node |-> n, at |-> at]

\* What the daemon sends next and where it is then.
LEMMA Sends ==
  ASSUME IInv, NEW s, Nested(s), s # <<>>, NEW msg, msg = ToSend(Last(s)), NEW t, t = Continue(s, msg)
  PROVE  LET L == Len(s)
             f == s[L] IN
         /\ L \in Nat /\ L # 0 /\ f \in Frames /\ msg \in Messages /\ t \in Seq(Frames)
         /\ \A i \in 1 .. L - 1 : t[i] = s[i]
         /\ \/ /\ f.at = "tweak" /\ msg = f.node /\ Len(t) = L /\ t[L] = Frame(f.node, "sub")
            \/ /\ f.at = "sub" /\ msg = "sub" /\ ptr[SubOf(f.node)] # NULL
               /\ Len(t) = L + 1 /\ t[L] = Frame(f.node, "next")
               /\ t[L + 1] = Frame(ptr[SubOf(f.node)], "tweak")
            \/ /\ f.at \in {"sub", "next"} /\ msg = "next" /\ ptr[NextOf(f.node)] # NULL
               /\ f.at = "sub" => ptr[SubOf(f.node)] = NULL
               /\ Len(t) = L + 1 /\ t[L] = Frame(f.node, "return")
               /\ t[L + 1] = Frame(ptr[NextOf(f.node)], "tweak")
            \/ /\ f.at # "tweak" /\ msg = "return" /\ Len(t) = L - 1
               /\ f.at = "sub" => ptr[SubOf(f.node)] = NULL
               /\ f.at \in {"sub", "next"} => ptr[NextOf(f.node)] = NULL
<1>. DEFINE L == Len(s)
            f == s[L]
            n == f.node
<1>1. /\ s \in Seq(Frames) /\ L \in Nat /\ L # 0 /\ f \in Frames /\ Last(s) = f
      /\ Front(s) \in Seq(Frames) /\ Len(Front(s)) = L - 1
      /\ \A i \in 1 .. L - 1 : Front(s)[i] = s[i]
  BY FrontFacts DEF Nested
<1>. HIDE DEF L, f
<1>2. n \in Nodes /\ f.at \in {"tweak", "sub", "next", "return"} /\ f = Frame(n, f.at)
  BY <1>1 DEF Frames, Frame
<1>3. ptr[SubOf(n)] \in Nodes \cup {NULL} /\ ptr[NextOf(n)] \in Nodes \cup {NULL}
  BY <1>2, PlaceFacts DEF IInv, TreeTypeOK
<1>4. \A at : [f EXCEPT !.at = at] = Frame(n, at)
  BY <1>2 DEF Frame
<1>5. \A m \in Nodes : Frame(m, "tweak") \in Frames /\ SendTweakStructure(m) = Frame(m, "tweak")
  BY DEF Frame, Frames, SendTweakStructure
<1>6. Frame(n, "sub") \in Frames /\ Frame(n, "next") \in Frames /\ Frame(n, "return") \in Frames
  BY <1>2 DEF Frame, Frames
<1>. HIDE DEF n
<1>7. n \notin {"sub", "next", "return"}
  BY <1>2, WireAssumption
<1>8. msg = ToSend(f) /\ t = Continue(s, msg)
  BY <1>1
<1>9. CASE f.at = "tweak"
  <2>1. msg = n
    BY <1>8, <1>9 DEF ToSend, n
  <2>2. t = Append(Front(s), Frame(n, "sub"))
    BY <1>1, <1>4, <1>7, <1>8, <2>1 DEF Continue
  <2>3. /\ t \in Seq(Frames) /\ Len(t) = L /\ t[L] = Frame(n, "sub")
        /\ \A i \in 1 .. L - 1 : t[i] = s[i]
    BY <1>1, <1>6, <2>2, ReplaceFacts DEF L
  <2>. QED BY <1>1, <1>2, <1>9, <2>1, <2>3 DEF Messages, L, f, n
<1>10. CASE f.at = "sub" /\ ptr[SubOf(n)] # NULL
  <2>1. msg = "sub"
    <3>1. f.at # "tweak" /\ ptr[SubOf(f.node)] # NULL /\ f.at = "sub"
      BY <1>10 DEF n
    <3>2. ToSend(f) = "sub"
      BY <3>1 DEF ToSend
    <3>. QED BY <1>8, <3>2
  <2>2. t = Append(Front(s), Frame(n, "next")) \o <<Frame(ptr[SubOf(n)], "tweak")>>
    BY <1>1, <1>3, <1>4, <1>5, <1>8, <1>10, <2>1 DEF Continue, n
  <2>3. /\ t \in Seq(Frames) /\ Len(t) = L + 1 /\ t[L] = Frame(n, "next")
        /\ t[L + 1] = Frame(ptr[SubOf(n)], "tweak")
        /\ \A i \in 1 .. L - 1 : t[i] = s[i]
    <3>1. Frame(ptr[SubOf(n)], "tweak") \in Frames
      BY <1>3, <1>5, <1>10
    <3>2. s \in Seq(Frames) /\ s # <<>>
      BY <1>1
    <3>. QED BY <1>6, <2>2, <3>1, <3>2, CallFacts DEF L
  <2>. QED BY <1>1, <1>10, <2>1, <2>3 DEF Messages, L, f, n
<1>11. CASE f.at \in {"sub", "next"} /\ ~(f.at = "sub" /\ ptr[SubOf(n)] # NULL) /\ ptr[NextOf(n)] # NULL
  <2>1. msg = "next"
    BY <1>8, <1>11 DEF ToSend, n
  <2>2. t = Append(Front(s), Frame(n, "return")) \o <<Frame(ptr[NextOf(n)], "tweak")>>
    BY <1>1, <1>3, <1>4, <1>5, <1>8, <1>11, <2>1 DEF Continue, n
  <2>3. /\ t \in Seq(Frames) /\ Len(t) = L + 1 /\ t[L] = Frame(n, "return")
        /\ t[L + 1] = Frame(ptr[NextOf(n)], "tweak")
        /\ \A i \in 1 .. L - 1 : t[i] = s[i]
    <3>1. Frame(ptr[NextOf(n)], "tweak") \in Frames
      BY <1>3, <1>5, <1>11
    <3>2. s \in Seq(Frames) /\ s # <<>>
      BY <1>1
    <3>. QED BY <1>6, <2>2, <3>1, <3>2, CallFacts DEF L
  <2>. QED BY <1>1, <1>11, <2>1, <2>3 DEF Messages, L, f, n
<1>12. CASE f.at # "tweak" /\ ~(f.at = "sub" /\ ptr[SubOf(n)] # NULL)
            /\ ~(f.at \in {"sub", "next"} /\ ptr[NextOf(n)] # NULL)
  <2>1. msg = "return"
    <3>1. /\ f.at # "tweak" /\ ~(f.at = "sub" /\ ptr[SubOf(f.node)] # NULL)
          /\ ~(f.at # "return" /\ ptr[NextOf(f.node)] # NULL)
      BY <1>2, <1>12 DEF n
    <3>2. ToSend(f) = "return"
      BY <3>1 DEF ToSend
    <3>. QED BY <1>8, <3>2
  <2>2. t = Front(s)
    BY <1>8, <2>1 DEF Continue
  <2>. QED BY <1>1, <1>12, <2>1, <2>2 DEF Messages, L, f, n
<1>. QED BY <1>2, <1>9, <1>10, <1>11, <1>12

LEMMA SendsNested ==
  ASSUME IInv, NEW s, Nested(s), s # <<>>, NEW msg, msg = ToSend(Last(s)), NEW t, t = Continue(s, msg)
  PROVE  Nested(t) /\ \A i \in 1 .. Len(s) : i <= Len(t) => PlaceOf(t, i) = PlaceOf(s, i)
<1>. DEFINE L == Len(s)
            M == Len(t)
            f == s[L]
<1>1. /\ L \in Nat /\ L # 0 /\ f \in Frames /\ t \in Seq(Frames)
      /\ \A i \in 1 .. L - 1 : t[i] = s[i]
      /\ \/ M = L /\ t[L].node = f.node
         \/ /\ M = L + 1 /\ t[L].node = f.node /\ t[L].at = "next"
            /\ t[L + 1].node = ptr[SubOf(f.node)]
         \/ /\ M = L + 1 /\ t[L].node = f.node /\ t[L].at = "return"
            /\ t[L + 1].node = ptr[NextOf(f.node)]
         \/ M = L - 1
  <2>1. \A n, at : Frame(n, at).node = n /\ Frame(n, at).at = at
    BY DEF Frame
  <2>. QED BY <2>1, Sends
<1>2. /\ \A i \in 1 .. L : ptr[PlaceOf(s, i)] = s[i].node
      /\ \A i \in 1 .. L - 1 : s[i].at \in {"next", "return"}
  BY DEF Nested
<1>. HIDE DEF L, M, f
<1>3. \A i \in 1 .. L : i # 1 => i - 1 \in 1 .. L - 1
  BY <1>1
<1>4. \A i \in 1 .. L : PlaceOf(t, i) = PlaceOf(s, i)
  BY <1>1, <1>3 DEF PlaceOf
<1>5. ASSUME NEW i \in 1 .. M PROVE ptr[PlaceOf(t, i)] = t[i].node
  <2>1. CASE i \in 1 .. L - 1
    BY <1>1, <1>2, <1>4, <2>1
  <2>2. CASE i = L
    <3>1. t[L].node = s[L].node /\ L \in 1 .. L
      BY <1>1, <2>2 DEF f
    <3>. QED BY <1>2, <1>4, <2>2, <3>1
  <2>3. CASE i = L + 1
    <3>1. i # 1 /\ i - 1 = L /\ M = L + 1
      BY <1>1, <2>3
    <3>2. PlaceOf(t, i) = IF t[L].at = "next" THEN SubOf(t[L].node) ELSE NextOf(t[L].node)
      BY <3>1 DEF PlaceOf
    <3>. QED BY <1>1, <2>3, <3>1, <3>2
  <2>4. i \in 1 .. L - 1 \/ i = L \/ i = L + 1
    BY <1>1
  <2>. QED BY <2>1, <2>2, <2>3, <2>4
<1>6. ASSUME NEW i \in 1 .. M - 1 PROVE t[i].at \in {"next", "return"}
  <2>1. i \in 1 .. L - 1 \/ (i = L /\ M = L + 1)
    BY <1>1
  <2>. QED BY <1>1, <1>2, <2>1
<1>. QED BY <1>1, <1>4, <1>5, <1>6 DEF Nested, L, M

-----------------------------------------------------------------------------
(* The past when a message is sent and when one is read *)

\* The part of WireInv that speaks of the daemon's past.
Transfers(P) ==
  /\ Past(P) /\ Mirrors(P[1]) /\ Copied(P[1])
  /\ IF session THEN P[Len(P)] = sending ELSE P[Len(P)] # <<>>
  /\ client = "has" <=> P[1] = <<>>

LEMMA PastFacts ==
  ASSUME WireTypeOK, NEW P, Past(P)
  PROVE  /\ Len(socket) \in Nat /\ Len(P) = Len(socket) + 1 /\ P \in Seq(Seq(Frames))
         /\ P # <<>> /\ Nested(P[1]) /\ Nested(P[Len(P)])
<1>1. Len(socket) \in Nat /\ Len(P) = Len(socket) + 1 /\ P \in Seq(Seq(Frames)) /\ P # <<>>
  BY DEF WireTypeOK, Past
<1>. DEFINE k == Len(P)
<1>2. k \in Nat /\ k # 0
  BY <1>1
<1>. HIDE DEF k
<1>3. 1 \in 1 .. k /\ k \in 1 .. k
  BY <1>2
<1>. QED BY <1>1, <1>3 DEF Past, k

\* With the activations s the daemon sends msg, and has the activations t then.
OneMore(P, s, msg, t, Q) ==
  /\ Past(P) /\ s = P[Len(P)] /\ s # <<>>
  /\ msg = ToSend(Last(s)) /\ t = Continue(s, msg) /\ Q = Append(P, t)

\* One more message is sent.
LEMMA PastSend ==
  ASSUME IInv, WireTypeOK, NEW P, NEW s, NEW msg, NEW t, NEW Q, OneMore(P, s, msg, t, Q),
         socket' = Append(socket, msg), UNCHANGED ptr
  PROVE  Past(Q)' /\ Q[1] = P[1] /\ Q[Len(Q)] = t
<1>0. /\ Past(P) /\ s = P[Len(P)] /\ s # <<>>
      /\ msg = ToSend(Last(s)) /\ t = Continue(s, msg) /\ Q = Append(P, t)
  BY DEF OneMore
<1>. DEFINE k == Len(P)
<1>1. /\ k \in Nat /\ k # 0 /\ Len(socket) = k - 1 /\ Len(socket) \in Nat
      /\ P \in Seq(Seq(Frames)) /\ Nested(s)
  BY <1>0, PastFacts
<1>2. Nested(t) /\ msg \in Messages /\ t \in Seq(Frames)
  <2>2. Nested(t)
    BY <1>0, <1>1, SendsNested
  <2>3. msg \in Messages /\ t \in Seq(Frames)
    BY <1>0, <1>1, Sends
  <2>. QED BY <2>2, <2>3
<1>3. /\ Q \in Seq(Seq(Frames)) /\ Len(Q) = k + 1 /\ Q[k + 1] = t
      /\ \A i \in 1 .. k : Q[i] = P[i]
  BY <1>0, <1>1, <1>2, AppendFacts
<1>4. /\ socket' = Append(socket, msg) /\ socket \in Seq(Messages)
      /\ P[k] = s
  BY <1>0 DEF WireTypeOK
<1>5. /\ Len(socket') = Len(socket) + 1 /\ socket'[Len(socket) + 1] = msg
      /\ \A i \in 1 .. Len(socket) : socket'[i] = socket[i]
  BY <1>2, <1>4, AppendFacts
<1>. HIDE DEF k
<1>6. Len(socket') = k /\ socket'[k] = msg /\ \A i \in 1 .. k - 1 : socket'[i] = socket[i]
  BY <1>1, <1>5
<1>7. \A x : ToSend(x)' = ToSend(x)
  BY DEF ToSend
<1>8. \A x, y : Continue(x, y)' = Continue(x, y)
  BY DEF Continue
<1>9. \A x : Nested(x)' <=> Nested(x)
  BY DEF Nested
<1>10. \A i \in 1 .. k + 1 : Nested(Q[i])
  <2>1. \A i \in 1 .. k : Nested(P[i])
    BY <1>0 DEF Past, k
  <2>. QED BY <1>1, <1>2, <1>3, <2>1
<1>11. ASSUME NEW i \in 1 .. k
       PROVE  Q[i] # <<>> /\ socket'[i] = ToSend(Last(Q[i])) /\ Q[i + 1] = Continue(Q[i], socket'[i])
  <2>1. CASE i \in 1 .. k - 1
    <3>1. P[i] # <<>> /\ socket[i] = ToSend(Last(P[i])) /\ P[i + 1] = Continue(P[i], socket[i])
      BY <1>0, <1>1, <2>1 DEF Past
    <3>2. i + 1 \in 1 .. k
      BY <1>1, <2>1
    <3>. QED BY <1>3, <1>6, <2>1, <3>1, <3>2
  <2>2. CASE i = k
    BY <1>0, <1>3, <1>4, <1>6, <2>2
  <2>3. i \in 1 .. k - 1 \/ i = k
    BY <1>1
  <2>. QED BY <2>1, <2>2, <2>3
<1>12. Past(Q)'
  <2>1. /\ Q \in Seq(Seq(Frames)) /\ Len(Q) = Len(socket') + 1
        /\ 1 .. Len(Q) = 1 .. k + 1 /\ 1 .. Len(socket') = 1 .. k
    BY <1>3, <1>6
  <2>2. \A i \in 1 .. Len(Q) : Nested(Q[i])'
    BY <1>9, <1>10, <2>1
  <2>3. \A i \in 1 .. Len(socket') : /\ Q[i] # <<>> /\ (socket[i] = ToSend(Last(Q[i])))'
                                    /\ (Q[i + 1] = Continue(Q[i], socket[i]))'
    BY <1>7, <1>8, <1>11, <2>1
  <2>. QED BY <2>1, <2>2, <2>3 DEF Past
<1>13. Q[1] = P[1] /\ Q[Len(Q)] = t
  BY <1>0, <1>1, <1>3
<1>. QED BY <1>12, <1>13

\* The first message has been read.
LEMMA PastReceive ==
  ASSUME IInv, WireTypeOK, NEW P, Past(P), socket # <<>>, socket' = Tail(socket), UNCHANGED ptr
  PROVE  /\ Past(Tail(P))' /\ Tail(P)[1] = Continue(P[1], Head(socket))
         /\ Tail(P)[Len(Tail(P))] = P[Len(P)]
         /\ P[1] # <<>> /\ Head(socket) = ToSend(Last(P[1]))
<1>. DEFINE Q == Tail(P)
            k == Len(socket)
<1>1. /\ k \in Nat /\ k # 0 /\ Len(P) = k + 1 /\ P \in Seq(Seq(Frames)) /\ P # <<>>
      /\ socket \in Seq(Messages)
  BY PastFacts DEF WireTypeOK
<1>2. /\ Q \in Seq(Seq(Frames)) /\ Len(Q) = Len(P) - 1
      /\ \A i \in 1 .. Len(P) - 1 : Q[i] = P[i + 1]
  BY <1>1, TailFacts
<1>3. /\ Head(socket) = socket[1] /\ Len(socket') = k - 1
      /\ \A i \in 1 .. k - 1 : socket'[i] = socket[i + 1]
  BY <1>1, TailFacts
<1>4. /\ \A i \in 1 .. k + 1 : Nested(P[i])
      /\ \A i \in 1 .. k :
           P[i] # <<>> /\ socket[i] = ToSend(Last(P[i])) /\ P[i + 1] = Continue(P[i], socket[i])
  BY <1>1 DEF Past
<1>. HIDE DEF Q, k
<1>5. Len(Q) = k /\ \A i \in 1 .. k : Q[i] = P[i + 1]
  BY <1>1, <1>2
<1>6. \A x : ToSend(x)' = ToSend(x)
  BY DEF ToSend
<1>7. \A x, y : Continue(x, y)' = Continue(x, y)
  BY DEF Continue
<1>8. \A x : Nested(x)' <=> Nested(x)
  BY DEF Nested
<1>9. \A i \in 1 .. k : i + 1 \in 1 .. k + 1
  BY <1>1
<1>10. ASSUME NEW i \in 1 .. k - 1
       PROVE  Q[i] # <<>> /\ socket'[i] = ToSend(Last(Q[i])) /\ Q[i + 1] = Continue(Q[i], socket'[i])
  <2>1. i \in 1 .. k /\ i + 1 \in 1 .. k
    BY <1>1
  <2>. QED BY <1>3, <1>4, <1>5, <2>1
<1>11. Past(Q)'
  <2>1. Len(Q) = Len(socket') + 1
    BY <1>1, <1>3, <1>5
  <2>. QED BY <1>2, <1>3, <1>4, <1>5, <1>6, <1>7, <1>8, <1>9, <1>10, <2>1 DEF Past
<1>12. 1 \in 1 .. k /\ k \in 1 .. k
  BY <1>1
<1>13. Q[1] = Continue(P[1], Head(socket)) /\ Q[Len(Q)] = P[Len(P)]
       /\ P[1] # <<>> /\ Head(socket) = ToSend(Last(P[1]))
  BY <1>1, <1>3, <1>4, <1>5, <1>12
<1>. QED BY <1>11, <1>13 DEF Q

-----------------------------------------------------------------------------
(* The client reads *)

\* The client has received the node of a call.
LEMMA TweakReceived ==
  ASSUME IInv, WireTypeOK, ReceiveTweak, NEW s, Nested(s), s # <<>>, Mirrors(s), Copied(s),
         Head(socket) = ToSend(Last(s)), NEW t, t = Continue(s, Head(socket))
  PROVE  Mirrors(t)' /\ Copied(t)' /\ t # <<>> /\ s # <<>> /\ receiving' \in Seq([node : Nodes, dest : Places, message : 1 .. 3])
<1>. DEFINE L == Len(s)
            msg == Head(socket)
            f == s[L]
            e == [node |-> msg, dest |-> called, message |-> 1]
            R == [node : Nodes, dest : Places, message : 1 .. 3]
<1>1. /\ called # NULL /\ called' = NULL /\ receiving' = Append(receiving, e)
      /\ UNCHANGED <<ptr, copy>>
  BY DEF ReceiveTweak, treeVars, nodes
<1>2. /\ L \in Nat /\ L # 0 /\ f \in Frames /\ f.at = "tweak" /\ called = PlaceOf(s, L)
      /\ Len(receiving) = L - 1 /\ receiving \in Seq(R) /\ called \in Places
      /\ \A i \in 1 .. L - 1 : /\ receiving[i].node = s[i].node /\ receiving[i].dest = PlaceOf(s, i)
                               /\ Number(s[i].at, receiving[i].message)
  BY <1>1, Sends DEF Mirrors, WireTypeOK
<1>3. /\ msg = f.node /\ Len(t) = L /\ t[L] = Frame(f.node, "sub")
      /\ t \in Seq(Frames) /\ \A i \in 1 .. L - 1 : t[i] = s[i]
  BY <1>2, Sends
<1>4. \A i \in 1 .. L : PlaceOf(t, i) = PlaceOf(s, i)
  BY <1>2, <1>3, SendsNested
<1>5. e \in R /\ e.node = msg /\ e.dest = called /\ e.message = 1
  BY <1>2, <1>3 DEF Frames
<1>5a. t[L].node = f.node /\ t[L].at = "sub"
  BY <1>3 DEF Frame
<1>. HIDE DEF L, msg, f, e, R
<1>6. /\ receiving' \in Seq(R) /\ Len(receiving') = L /\ receiving'[L] = e
      /\ \A i \in 1 .. L - 1 : receiving'[i] = receiving[i]
  <2>1. /\ Append(receiving, e) \in Seq(R) /\ Len(Append(receiving, e)) = Len(receiving) + 1
        /\ Append(receiving, e)[Len(receiving) + 1] = e
        /\ \A i \in 1 .. Len(receiving) : Append(receiving, e)[i] = receiving[i]
    BY <1>2, <1>5, AppendFacts
  <2>2. Len(receiving) + 1 = L
    BY <1>2
  <2>. QED BY <1>1, <1>2, <2>1, <2>2
<1>7. \A i \in 1 .. L : i \in 1 .. L - 1 \/ i = L
  BY <1>2
<1>8. \A i : PlaceOf(t, i)' = PlaceOf(t, i)
  BY DEF PlaceOf
<1>9. Mirrors(t)'
  <2>1. ASSUME NEW i \in 1 .. L
        PROVE  /\ receiving'[i].node = t[i].node /\ receiving'[i].dest = PlaceOf(t, i)
               /\ Number(t[i].at, receiving'[i].message)
    <3>1. CASE i \in 1 .. L - 1
      BY <1>2, <1>3, <1>4, <1>6, <3>1
    <3>2. CASE i = L
      BY <1>2, <1>3, <1>4, <1>5, <1>5a, <1>6, <3>2 DEF Number
    <3>. QED BY <1>7, <3>1, <3>2
  <2>. QED BY <1>1, <1>3, <1>6, <1>8, <2>1 DEF Mirrors, Number
<1>10. \A n : (SubDone(n)' <=> SubDone(n)) /\ (NextDone(n)' <=> NextDone(n))
  BY <1>1 DEF SubDone, NextDone
<1>11. Copied(t)'
  <2>1. \A i \in 1 .. L : t[i].at = "return" => SubDone(t[i].node)
    BY <1>2, <1>3, <1>5a, <1>7 DEF Copied
  <2>2. t # <<>>
    BY <1>2, <1>3
  <2>3. /\ \A p \in Places : copy'[p] \in {ptr'[p], NULL}
        /\ \A p \in Places : copy'[p] # NULL => SubDone(copy'[p]) /\ NextDone(copy'[p])
    BY <1>1 DEF Copied
  <2>4. \A i \in 1 .. Len(receiving') : t[i].at = "return" => SubDone(t[i].node)'
    BY <1>6, <1>10, <2>1
  <2>5. \A p \in Places : copy'[p] # NULL => SubDone(copy[p])' /\ NextDone(copy[p])'
    BY <1>1, <1>10, <2>3
  <2>. QED BY <1>1, <1>3, <1>5a, <2>2, <2>3, <2>4, <2>5 DEF Copied
<1>12. t # <<>>
  BY <1>2, <1>3
<1>. QED BY <1>6, <1>9, <1>11, <1>12 DEF R

\* Where the client is, with the activations s of the daemon.
LEMMA Inside ==
  ASSUME IInv, WireTypeOK, NEW s, Nested(s), s # <<>>, Mirrors(s), called = NULL
  PROVE  LET L == Len(s)
             f == Last(receiving)
             R == [node : Nodes, dest : Places, message : 1 .. 3] IN
         /\ L \in Nat /\ L # 0 /\ receiving \in Seq(R) /\ receiving # <<>> /\ Len(receiving) = L
         /\ f \in R /\ f.node = s[L].node /\ f.node \in Nodes /\ f.dest = PlaceOf(s, L) /\ f.dest \in Places
         /\ Number(s[L].at, f.message) /\ s[L].at # "tweak"
         /\ Front(receiving) \in Seq(R) /\ Len(Front(receiving)) = L - 1
         /\ \A i \in 1 .. L - 1 : Front(receiving)[i] = receiving[i]
<1>. DEFINE L == Len(s)
            f == Last(receiving)
            R == [node : Nodes, dest : Places, message : 1 .. 3]
<1>1. L \in Nat /\ L # 0 /\ receiving \in Seq(R) /\ Len(receiving) = L
  BY DEF Mirrors, Nested, WireTypeOK
<1>2. receiving # <<>>
  BY <1>1
<1>3. \A x \in R : x.node \in Nodes /\ x.dest \in Places
  OBVIOUS
<1>. HIDE DEF R
<1>4. /\ f = receiving[L] /\ f \in R /\ Front(receiving) \in Seq(R) /\ Len(Front(receiving)) = L - 1
      /\ \A i \in 1 .. L - 1 : Front(receiving)[i] = receiving[i]
  BY <1>1, <1>2, FrontFacts
<1>. HIDE DEF L, f
<1>5. L \in 1 .. L
  BY <1>1
<1>6. f.node = s[L].node /\ f.dest = PlaceOf(s, L) /\ Number(s[L].at, f.message)
  BY <1>1, <1>4, <1>5 DEF Mirrors
<1>7. s[L].at # "tweak"
  BY <1>6 DEF Number
<1>. QED BY <1>1, <1>2, <1>3, <1>4, <1>6, <1>7 DEF L, f, R

\* "sub" and "next" make the client call itself.
LEMMA CallReceived ==
  ASSUME IInv, WireTypeOK, ReceiveMessage, NEW s, Nested(s), s # <<>>, Mirrors(s), Copied(s),
         Head(socket) = ToSend(Last(s)), NEW t, t = Continue(s, Head(socket)),
         Head(socket) \in {"sub", "next"}
  PROVE  /\ Mirrors(t)' /\ Copied(t)' /\ t # <<>>
         /\ receiving' \in Seq([node : Nodes, dest : Places, message : 1 .. 3])
         /\ called' \in Places /\ UNCHANGED <<copy, client>>
<1>. DEFINE L == Len(s)
            msg == Head(socket)
            g == s[L]
            n == g.node
            f == Last(receiving)
            e == [f EXCEPT !.message = @ + 1]
            R == [node : Nodes, dest : Places, message : 1 .. 3]
            c == IF msg = "sub" THEN SubOf(n) ELSE NextOf(n)
<1>1. called = NULL /\ UNCHANGED ptr
  BY DEF ReceiveMessage, treeVars, nodes
<1>2. /\ L \in Nat /\ L # 0 /\ receiving \in Seq(R) /\ receiving # <<>> /\ Len(receiving) = L
      /\ f \in R /\ f.node = n /\ n \in Nodes /\ f.dest = PlaceOf(s, L)
      /\ Number(g.at, f.message) /\ g.at # "tweak"
  BY <1>1, Inside
<1>3. /\ Len(t) = L + 1 /\ t \in Seq(Frames) /\ \A i \in 1 .. L - 1 : t[i] = s[i]
      /\ \/ /\ msg = "sub" /\ g.at = "sub" /\ t[L] = Frame(n, "next")
            /\ t[L + 1] = Frame(ptr[SubOf(n)], "tweak")
         \/ /\ msg = "next" /\ g.at \in {"sub", "next"} /\ t[L] = Frame(n, "return")
            /\ t[L + 1] = Frame(ptr[NextOf(n)], "tweak")
            /\ g.at = "sub" => ptr[SubOf(n)] = NULL
  BY <1>2, Sends
<1>4. /\ t[L].node = n /\ t[L + 1].at = "tweak"
      /\ \/ msg = "sub" /\ g.at = "sub" /\ t[L].at = "next"
         \/ /\ msg = "next" /\ g.at \in {"sub", "next"} /\ t[L].at = "return"
            /\ g.at = "sub" => ptr[SubOf(n)] = NULL
  <2>1. \A x, at : Frame(x, at).node = x /\ Frame(x, at).at = at
    BY DEF Frame
  <2>. QED BY <1>3, <2>1
<1>5. \A i \in 1 .. L : PlaceOf(t, i) = PlaceOf(s, i)
  <2>1. L <= Len(t) /\ \A i \in 1 .. L : i <= Len(t)
    BY <1>2, <1>3
  <2>. QED BY <2>1, SendsNested
<1>6. /\ e \in R /\ e.node = n /\ e.dest = f.dest /\ Number(t[L].at, e.message)
  <2>1. f.message \in {1, 2} /\ e.message = f.message + 1
    BY <1>2, <1>4 DEF Number
  <2>2. e \in R /\ e.node = n /\ e.dest = f.dest
    BY <1>2, <2>1
  <2>3. Number(t[L].at, f.message + 1)
    BY <1>2, <1>4 DEF Number
  <2>. QED BY <2>1, <2>2, <2>3
<1>7. Recurses(f, msg)
  BY <1>2, <1>4 DEF Recurses, Number
<1>8. /\ receiving' = Append(Front(receiving), e) /\ called' = c /\ UNCHANGED <<copy, client>>
  BY <1>2, <1>7 DEF ReceiveMessage
<1>9. c \in Places /\ c # NULL /\ c = PlaceOf(t, L + 1)
  <2>1. c \in Places /\ c # NULL
    BY <1>2, PlaceFacts, WireAssumption
  <2>2. L + 1 # 1 /\ (L + 1) - 1 = L
    BY <1>2
  <2>3. PlaceOf(t, L + 1) = IF t[L].at = "next" THEN SubOf(t[L].node) ELSE NextOf(t[L].node)
    BY <2>2 DEF PlaceOf
  <2>. QED BY <1>4, <2>1, <2>3
<1>. HIDE DEF L, msg, f, e, R, c, g, n
<1>10. /\ receiving' \in Seq(R) /\ Len(receiving') = L /\ receiving'[L] = e
       /\ \A i \in 1 .. L - 1 : receiving'[i] = receiving[i]
  BY <1>2, <1>6, <1>8, ReplaceFacts
<1>11. \A i \in 1 .. L : i \in 1 .. L - 1 \/ i = L
  BY <1>2
<1>12. \A i : PlaceOf(t, i)' = PlaceOf(t, i)
  BY DEF PlaceOf
<1>13. /\ Len(receiving) = L
       /\ \A i \in 1 .. L - 1 : /\ receiving[i].node = s[i].node /\ receiving[i].dest = PlaceOf(s, i)
                                /\ Number(s[i].at, receiving[i].message)
  <2>1. 1 .. L - 1 \subseteq 1 .. L
    BY <1>2
  <2>. QED BY <1>1, <1>2, <2>1 DEF Mirrors
<1>14. Mirrors(t)'
  <2>1. ASSUME NEW i \in 1 .. L
        PROVE  /\ receiving'[i].node = t[i].node /\ receiving'[i].dest = PlaceOf(t, i)
               /\ Number(t[i].at, receiving'[i].message)
    <3>1. CASE i \in 1 .. L - 1
      BY <1>3, <1>5, <1>10, <1>13, <3>1
    <3>2. CASE i = L
      BY <1>2, <1>4, <1>5, <1>6, <1>10, <3>2
    <3>. QED BY <1>11, <3>1, <3>2
  <2>2. t # <<>> /\ Len(t) - 1 = L
    BY <1>2, <1>3
  <2>3. t[Len(t)].at = "tweak" /\ called' = PlaceOf(t, Len(t)) /\ called' # NULL
    BY <1>3, <1>4, <1>8, <1>9
  <2>. QED BY <1>10, <1>12, <2>1, <2>2, <2>3 DEF Mirrors, Number
<1>15. \A x : (SubDone(x)' <=> SubDone(x)) /\ (NextDone(x)' <=> NextDone(x))
  BY <1>1, <1>8 DEF SubDone, NextDone
<1>16. Copied(t)'
  <2>1. SubOf(n) \in Places
    BY <1>2, PlaceFacts
  <2>2. t[L].at = "return" => SubDone(n)
    <3>1. CASE g.at = "sub"
      BY <1>4, <2>1, <3>1 DEF Copied, SubDone
    <3>2. CASE g.at = "next"
      BY <1>1, <1>2, <3>2 DEF Copied, g, n, L
    <3>. QED BY <1>4, <3>1, <3>2
  <2>3. \A i \in 1 .. L : t[i].at = "return" => SubDone(t[i].node)
    <3>1. \A i \in 1 .. L : s[i].at = "return" => SubDone(s[i].node)
      BY <1>2 DEF Copied
    <3>. QED BY <1>3, <1>4, <1>11, <2>2, <3>1
  <2>4. /\ \A p \in Places : copy'[p] \in {ptr'[p], NULL}
        /\ \A p \in Places : copy'[p] # NULL => SubDone(copy[p])' /\ NextDone(copy[p])'
    BY <1>1, <1>8, <1>15 DEF Copied
  <2>5. \A i \in 1 .. Len(receiving') : t[i].at = "return" => SubDone(t[i].node)'
    BY <1>10, <1>15, <2>3
  <2>6. t # <<>> /\ called' # NULL
    BY <1>2, <1>3, <1>8, <1>9
  <2>. QED BY <2>4, <2>5, <2>6 DEF Copied
<1>17. t # <<>>
  BY <1>2, <1>3
<1>. QED BY <1>8, <1>9, <1>10, <1>14, <1>16, <1>17 DEF R

\* "return" makes the client put the node where its caller wants it.
LEMMA ReturnReceived ==
  ASSUME IInv, WireTypeOK, ReceiveMessage, NEW s, Nested(s), s # <<>>, Mirrors(s), Copied(s),
         Head(socket) = ToSend(Last(s)), NEW t, t = Continue(s, Head(socket)),
         Head(socket) = "return"
  PROVE  /\ Mirrors(t)' /\ Copied(t)' /\ called' = NULL
         /\ receiving' \in Seq([node : Nodes, dest : Places, message : 1 .. 3])
         /\ copy' \in [Places -> Pointer]
         /\ client' = IF t = <<>> THEN "has" ELSE client
<1>. DEFINE L == Len(s)
            g == s[L]
            n == g.node
            f == Last(receiving)
            d == f.dest
            R == [node : Nodes, dest : Places, message : 1 .. 3]
<1>1. called = NULL /\ UNCHANGED ptr
  BY DEF ReceiveMessage, treeVars, nodes
<1>2. /\ L \in Nat /\ L # 0 /\ receiving \in Seq(R) /\ receiving # <<>> /\ Len(receiving) = L
      /\ f \in R /\ f.node = n /\ n \in Nodes /\ d = PlaceOf(s, L) /\ d \in Places
      /\ Number(g.at, f.message) /\ g.at # "tweak"
      /\ Front(receiving) \in Seq(R) /\ Len(Front(receiving)) = L - 1
      /\ \A i \in 1 .. L - 1 : Front(receiving)[i] = receiving[i]
  BY <1>1, Inside
<1>3. /\ Len(t) = L - 1 /\ t \in Seq(Frames) /\ \A i \in 1 .. L - 1 : t[i] = s[i]
      /\ g.at = "sub" => ptr[SubOf(n)] = NULL
      /\ g.at \in {"sub", "next"} => ptr[NextOf(n)] = NULL
      /\ g.at \in {"tweak", "sub", "next", "return"}
  <2>1. g \in Frames => g.at \in {"tweak", "sub", "next", "return"}
    BY DEF Frames
  <2>2. n \notin {"sub", "next", "return"}
    BY <1>2, WireAssumption
  <2>. QED BY <1>2, <2>1, <2>2, Sends
<1>4. /\ receiving' = Front(receiving) /\ copy' = [copy EXCEPT ![d] = n] /\ called' = NULL
      /\ client' = IF L = 1 THEN "has" ELSE client
  <2>1. ~Recurses(f, "return")
    BY DEF Recurses
  <2>. QED BY <1>1, <1>2, <2>1 DEF ReceiveMessage
<1>5. ptr[d] = n
  <2>1. L \in 1 .. L
    BY <1>2
  <2>. QED BY <1>2, <2>1 DEF Nested
<1>6. \A i \in 1 .. L - 1 : s[i].node \in Nodes /\ s[i].at \in {"next", "return"}
  <2>1. \A i \in 1 .. L - 1 : s[i] \in Frames /\ s[i].at \in {"next", "return"}
    BY <1>2 DEF Nested
  <2>2. \A x \in Frames : x.node \in Nodes
    BY DEF Frames
  <2>. QED BY <2>1, <2>2
<1>7. copy \in [Places -> Pointer] /\ ptr \in [Places -> Pointer]
  BY DEF WireTypeOK, IInv, TreeTypeOK, Pointer
<1>8. SubDone(n) /\ NextDone(n)
  <2>1. SubOf(n) \in Places /\ NextOf(n) \in Places
    BY <1>2, PlaceFacts
  <2>2. \A p \in Places : ptr[p] = NULL => copy[p] = ptr[p]
    BY DEF Copied
  <2>3. CASE g.at = "sub"
    BY <1>3, <2>1, <2>2, <2>3 DEF SubDone, NextDone
  <2>4. CASE g.at = "next"
    <3>1. SubDone(n)
      BY <1>1, <1>2, <2>4 DEF Copied
    <3>2. NextDone(n)
      BY <1>3, <2>1, <2>2, <2>4 DEF NextDone
    <3>. QED BY <3>1, <3>2
  <2>5. CASE g.at = "return"
    <3>1. NextDone(n)
      BY <1>1, <1>2, <2>5 DEF Copied
    <3>2. SubDone(n)
      <4>1. L \in 1 .. Len(receiving)
        BY <1>2
      <4>. QED BY <2>5, <4>1 DEF Copied
    <3>. QED BY <3>1, <3>2
  <2>. QED BY <1>2, <1>3, <2>3, <2>4, <2>5
<1>. HIDE DEF L, g, n, f, d, R
<1>9. \A p \in Places : copy'[p] = IF p = d THEN ptr[p] ELSE copy[p]
  BY <1>4, <1>5, <1>7
<1>10. \A x \in Nodes : /\ SubDone(x) => SubDone(x)'
                        /\ NextDone(x) => NextDone(x)'
  BY <1>1, <1>9, PlaceFacts DEF SubDone, NextDone
<1>11. \A i : PlaceOf(t, i)' = PlaceOf(t, i)
  BY DEF PlaceOf
<1>12. \A i \in 1 .. L - 1 : PlaceOf(t, i) = PlaceOf(s, i)
  <2>1. \A i \in 1 .. L - 1 : i # 1 => i - 1 \in 1 .. L - 1
    BY <1>2
  <2>. QED BY <1>3, <2>1 DEF PlaceOf
<1>13. Mirrors(t)'
  <2>1. \A i \in 1 .. L - 1 : i \in 1 .. Len(receiving)
    BY <1>2
  <2>2. \A i \in 1 .. L - 1 : /\ receiving'[i].node = t[i].node /\ receiving'[i].dest = PlaceOf(t, i)
                              /\ Number(t[i].at, receiving'[i].message)
    BY <1>2, <1>3, <1>4, <1>12, <2>1 DEF Mirrors
  <2>3. Len(receiving') = L - 1
    BY <1>2, <1>4
  <2>. QED BY <1>3, <1>4, <1>11, <2>2, <2>3 DEF Mirrors, Number
<1>14. Copied(t)'
  <2>1. \A p \in Places : copy'[p] \in {ptr'[p], NULL}
    BY <1>1, <1>9 DEF Copied
  <2>2. ASSUME NEW p \in Places, copy'[p] # NULL
        PROVE  SubDone(copy[p])' /\ NextDone(copy[p])'
    <3>1. CASE p = d
      <4>1. copy'[p] = n
        BY <1>5, <1>9, <3>1
      <4>2. SubDone(n)' /\ NextDone(n)'
        BY <1>2, <1>8, <1>10
      <4>. QED BY <4>1, <4>2
    <3>2. CASE p # d
      <4>1. copy'[p] = copy[p] /\ copy[p] \in Nodes
        BY <1>7, <1>9, <2>2, <3>2 DEF Pointer
      <4>2. SubDone(copy[p]) /\ NextDone(copy[p])
        BY <2>2, <4>1 DEF Copied
      <4>. QED BY <1>10, <4>1, <4>2
    <3>. QED BY <3>1, <3>2
  <2>3. ASSUME NEW i \in 1 .. L - 1, t[i].at = "return"
        PROVE  SubDone(t[i].node)'
    <3>1. i \in 1 .. Len(receiving)
      BY <1>2
    <3>2. SubDone(s[i].node)
      BY <1>3, <2>3, <3>1 DEF Copied
    <3>. QED BY <1>3, <1>6, <1>10, <3>2
  <2>4. ASSUME L # 1
        PROVE  LET h == t[L - 1] IN
               /\ h.at = "next" => SubDone(h.node)'
               /\ h.at = "return" => NextDone(h.node)'
    <3>1. L - 1 \in 1 .. L - 1
      BY <1>2, <2>4
    <3>2. /\ t[L - 1] = s[L - 1] /\ s[L - 1].node \in Nodes
          /\ d = IF s[L - 1].at = "next" THEN SubOf(s[L - 1].node) ELSE NextOf(s[L - 1].node)
      BY <1>2, <1>3, <1>6, <2>4, <3>1 DEF PlaceOf
    <3>. QED BY <1>1, <1>2, <1>9, <3>2, PlaceFacts DEF SubDone, NextDone
  <2>5. L = 1 => copy'[tweaks] = ptr'[tweaks]
    <3>1. L = 1 => d = tweaks
      BY <1>2 DEF PlaceOf
    <3>. QED BY <1>1, <1>9, <3>1, PlaceFacts
  <2>6. Len(t) = L - 1 /\ (t = <<>> <=> L = 1) /\ Len(receiving') = L - 1
        /\ (receiving' # <<>> => L # 1)
    BY <1>2, <1>3, <1>4
  <2>7. \A i \in 1 .. Len(receiving') : t[i].at = "return" => SubDone(t[i].node)'
    BY <2>3, <2>6
  <2>8. receiving' # <<>> => /\ t[Len(t)].at = "next" => SubDone(t[Len(t)].node)'
                             /\ t[Len(t)].at = "return" => NextDone(t[Len(t)].node)'
    <3>. SUFFICES ASSUME L # 1
                  PROVE  /\ t[L - 1].at = "next" => SubDone(t[L - 1].node)'
                         /\ t[L - 1].at = "return" => NextDone(t[L - 1].node)'
      BY <2>6
    <3>. QED BY <2>4
  <2>. QED BY <2>1, <2>2, <2>5, <2>6, <2>7, <2>8 DEF Copied
<1>15. copy' \in [Places -> Pointer]
  BY <1>2, <1>4, <1>7 DEF Pointer
<1>16. t = <<>> <=> L = 1
  BY <1>2, <1>3
<1>. QED BY <1>2, <1>4, <1>13, <1>14, <1>15, <1>16 DEF R

-----------------------------------------------------------------------------
(* The invariant of the transfer *)

LEMMA WireInvInit == Init => WireInv
<1>. SUFFICES ASSUME Init PROVE WireInv
  OBVIOUS
<1>1. WireTypeOK
  BY EmptySeq DEF Init, WireTypeOK, NoCopy, Pointer
<1>2. pc # "serving"
  BY DEF Init, TreeInit
<1>. QED BY <1>1, <1>2 DEF Init, WireInv

\* The client asks for the tree.
LEMMA WireRequest ==
  ASSUME IInv, WireInv, Request
  PROVE  WireInv'
<1>1. /\ pc = "serving" /\ client = "none" /\ session' = TRUE /\ client' = "receiving"
      /\ called' = tweaks /\ sending' = <<SendTweakStructure(ptr[tweaks])>>
      /\ UNCHANGED <<pc, ptr, socket, receiving, copy>>
  BY DEF Request, treeVars, nodes
<1>2. /\ ptr[tweaks] \in Nodes /\ socket = <<>> /\ receiving = <<>> /\ copy = NoCopy
      /\ WireTypeOK
  BY <1>1 DEF WireInv
<1>. DEFINE f == SendTweakStructure(ptr[tweaks])
<1>3. f \in Frames /\ f.node = ptr[tweaks] /\ f.at = "tweak"
  BY <1>2 DEF Frames, SendTweakStructure
<1>. HIDE DEF f
<1>4. PICK s : s = <<f>>
  OBVIOUS
<1>5. PICK P : P = <<s>>
  OBVIOUS
<1>6. s \in Seq(Frames) /\ Len(s) = 1 /\ s[1] = f /\ s # <<>>
  BY <1>3, <1>4
<1>7. P \in Seq(Seq(Frames)) /\ Len(P) = 1 /\ P[1] = s /\ P[Len(P)] = s
  BY <1>5, <1>6
<1>8. Nested(s)'
  <2>1. \A i \in 1 .. 1 : i = 1
    OBVIOUS
  <2>. QED BY <1>1, <1>3, <1>6, <2>1 DEF Nested, PlaceOf
<1>9. Past(P)'
  <2>1. /\ Len(socket') = 0 /\ \A i \in 1 .. 1 : i = 1
        /\ 1 .. 0 = {}
    BY <1>1, <1>2
  <2>. QED BY <1>7, <1>8, <2>1 DEF Past
<1>10. Mirrors(s)'
  <2>1. tweaks \in Places /\ tweaks # NULL
    BY PlaceFacts, WireAssumption
  <2>2. Len(receiving') = 0 /\ Len(s) - 1 = 0 /\ 1 .. 0 = {}
    BY <1>1, <1>2, <1>6
  <2>. QED BY <1>1, <1>3, <1>6, <2>1, <2>2 DEF Mirrors, PlaceOf
<1>11. Copied(s)'
  <2>1. \A p \in Places : copy'[p] = NULL
    BY <1>1, <1>2 DEF NoCopy
  <2>2. Len(receiving') = 0 /\ 1 .. 0 = {} /\ called' # NULL
    BY <1>1, <1>2, PlaceFacts, WireAssumption
  <2>. QED BY <1>6, <2>1, <2>2 DEF Copied
<1>12. WireTypeOK'
  <2>1. sending' \in Seq(Frames)
    BY <1>1, <1>3, <1>6, <1>4 DEF f
  <2>. QED BY <1>1, <1>2, <2>1, PlaceFacts DEF WireTypeOK
<1>13. /\ session' = TRUE /\ P[Len(P)] = sending' /\ client' # "has" /\ P[1] # <<>>
       /\ client' # "none" /\ pc' = "serving" /\ ptr'[tweaks] \in Nodes
  BY <1>1, <1>2, <1>4, <1>6, <1>7 DEF f
<1>14. /\ Past(P)' /\ Mirrors(P[1])' /\ Copied(P[1])'
  BY <1>7, <1>9, <1>10, <1>11
<1>. QED BY <1>12, <1>13, <1>14 DEF WireInv

\* What is known while a transfer is under way.
LEMMA Under ==
  ASSUME WireInv, client # "none"
  PROVE  \E P : Transfers(P)
BY DEF WireInv, Transfers

LEMMA Still ==
  ASSUME WireInv, client # "none", UNCHANGED <<pc, ptr>>, WireTypeOK', client' # "none",
         ~session' => sending' = <<>>, NEW Q, Transfers(Q)'
  PROVE  WireInv'
BY DEF WireInv, Transfers

LEMMA WireSend ==
  ASSUME IInv, WireInv, Send
  PROVE  WireInv'
<1>a. PICK s : s = sending
  OBVIOUS
<1>b. PICK msg : msg = ToSend(Last(s))
  OBVIOUS
<1>c. PICK t : t = Continue(s, msg)
  OBVIOUS
<1>1. /\ s # <<>> /\ socket' = Append(socket, msg) /\ sending' = t
      /\ UNCHANGED <<pc, ptr, session, client, receiving, called, copy>>
  BY <1>a, <1>b, <1>c DEF Send, treeVars, nodes
<1>2. session /\ client # "none" /\ WireTypeOK
  BY <1>a, <1>1 DEF WireInv
<1>3. PICK P : Transfers(P)
  BY <1>2, Under
<1>4. Past(P) /\ P[Len(P)] = s
  BY <1>2, <1>3, <1>a DEF Transfers
<1>d. PICK Q : Q = Append(P, t)
  OBVIOUS
<1>e. PICK p : p = P[1]
  OBVIOUS
<1>5. Past(Q)' /\ Q[1] = p /\ Q[Len(Q)] = t
  <2>1. OneMore(P, s, msg, t, Q)
    BY <1>1, <1>4, <1>b, <1>c, <1>d DEF OneMore
  <2>. QED BY <1>1, <1>2, <1>e, <2>1, PastSend
<1>6. msg \in Messages /\ t \in Seq(Frames)
  <2>1. Nested(s)
    BY <1>2, <1>4, PastFacts
  <2>. QED BY <1>1, <1>b, <1>c, <2>1, Sends
<1>7. WireTypeOK'
  BY <1>1, <1>2, <1>6, AppendFacts DEF WireTypeOK
<1>9. Mirrors(p)' /\ Copied(p)'
  <2>1. Mirrors(p) /\ Copied(p)
    BY <1>3, <1>e DEF Transfers
  <2>2. Mirrors(p)'
    BY <1>1, <2>1 DEF Mirrors, PlaceOf, Number
  <2>3. Copied(p)'
    BY <1>1, <2>1 DEF Copied, SubDone, NextDone
  <2>. QED BY <2>2, <2>3
<1>10. Transfers(Q)'
  <2>1. (client' = "has" <=> Q[1] = <<>>) /\ session' /\ Q[Len(Q)] = sending'
    BY <1>1, <1>2, <1>3, <1>5, <1>e DEF Transfers
  <2>. QED BY <1>5, <1>9, <2>1 DEF Transfers
<1>. QED BY <1>1, <1>2, <1>7, <1>10, Still

\* A cut transfer: what was sent is still read.
LEMMA WireInterrupt ==
  ASSUME IInv, WireInv, Interrupt
  PROVE  WireInv'
<1>1. /\ sending # <<>> /\ sending' = <<>> /\ session' = FALSE
      /\ UNCHANGED <<pc, ptr, socket, client, receiving, called, copy>>
  BY DEF Interrupt, treeVars, nodes
<1>2. session /\ client # "none" /\ WireTypeOK
  BY <1>1 DEF WireInv
<1>3. PICK P : Transfers(P)
  BY <1>2, Under
<1>4. WireTypeOK'
  BY <1>1, <1>2, EmptySeq DEF WireTypeOK
<1>5. Transfers(P)'
  <2>1. PICK p : p = P[1]
    OBVIOUS
  <2>2. Mirrors(p)' /\ Copied(p)'
    <3>1. Mirrors(p) /\ Copied(p)
      BY <1>3, <2>1 DEF Transfers
    <3>2. Mirrors(p)'
      BY <1>1, <3>1 DEF Mirrors, PlaceOf, Number
    <3>3. Copied(p)'
      BY <1>1, <3>1 DEF Copied, SubDone, NextDone
    <3>. QED BY <3>2, <3>3
  <2>3. Past(P)'
    <3>1. Past(P)
      BY <1>3 DEF Transfers
    <3>2. \A x : Nested(x)' <=> Nested(x)
      BY <1>1 DEF Nested, PlaceOf
    <3>3. \A x : ToSend(x)' = ToSend(x)
      BY <1>1 DEF ToSend
    <3>4. \A x, y : Continue(x, y)' = Continue(x, y)
      BY <1>1 DEF Continue
    <3>. QED BY <1>1, <3>1, <3>2, <3>3, <3>4 DEF Past
  <2>. QED BY <1>1, <1>2, <1>3, <2>1, <2>2, <2>3 DEF Transfers
<1>. QED BY <1>1, <1>2, <1>4, <1>5, Still

\* The client reads a message.
LEMMA WireReceive ==
  ASSUME IInv, WireInv, ReceiveTweak \/ ReceiveMessage
  PROVE  WireInv'
<1>1. /\ socket # <<>> /\ socket' = Tail(socket)
      /\ UNCHANGED <<pc, ptr, session, sending>>
  BY DEF ReceiveTweak, ReceiveMessage, treeVars, nodes
<1>2. client # "none" /\ WireTypeOK
  BY <1>1 DEF WireInv
<1>3. PICK P : Transfers(P)
  BY <1>2, Under
<1>4. PICK Q : Q = Tail(P)
  OBVIOUS
<1>5. PICK s : s = P[1]
  OBVIOUS
<1>6. PICK t : t = Continue(s, Head(socket))
  OBVIOUS
<1>7. /\ Past(P) /\ Mirrors(s) /\ Copied(s)
      /\ IF session THEN P[Len(P)] = sending ELSE P[Len(P)] # <<>>
      /\ client = "has" <=> s = <<>>
  BY <1>3, <1>5 DEF Transfers
<1>8. /\ Past(Q)' /\ Q[1] = t /\ Q[Len(Q)] = P[Len(P)] /\ s # <<>>
      /\ Head(socket) = ToSend(Last(s)) /\ Nested(s)
  BY <1>1, <1>2, <1>4, <1>5, <1>6, <1>7, PastReceive, PastFacts
<1>9. /\ Mirrors(t)' /\ Copied(t)' /\ called' \in Places \cup {NULL}
      /\ receiving' \in Seq([node : Nodes, dest : Places, message : 1 .. 3])
      /\ copy' \in [Places -> Pointer]
      /\ client' = IF t = <<>> THEN "has" ELSE client
  <2>1. CASE ReceiveTweak
    <3>1. copy' = copy /\ client' = client /\ called' = NULL
      BY <2>1 DEF ReceiveTweak
    <3>. QED BY <1>2, <1>6, <1>7, <1>8, <2>1, <3>1, TweakReceived DEF WireTypeOK
  <2>2. CASE ReceiveMessage /\ Head(socket) \in {"sub", "next"}
    BY <1>2, <1>6, <1>7, <1>8, <2>2, CallReceived DEF WireTypeOK
  <2>3. CASE ReceiveMessage /\ Head(socket) = "return"
    BY <1>2, <1>6, <1>7, <1>8, <2>3, ReturnReceived
  <2>4. ReceiveMessage => Head(socket) \in {"sub", "next", "return"}
    <3>. SUFFICES ASSUME ReceiveMessage PROVE Head(socket) \in {"sub", "next", "return"}
      OBVIOUS
    <3>1. called = NULL
      BY DEF ReceiveMessage
    <3>2. s[Len(s)].at # "tweak"
      BY <1>2, <1>7, <1>8, <3>1, Inside
    <3>. QED BY <1>6, <1>8, <3>2, Sends
  <2>. QED BY <2>1, <2>2, <2>3, <2>4
<1>10. WireTypeOK'
  <2>1. socket' \in Seq(Messages)
    BY <1>1, <1>2, TailFacts DEF WireTypeOK
  <2>2. client' \in {"none", "receiving", "has"}
    BY <1>2, <1>9 DEF WireTypeOK
  <2>. QED BY <1>1, <1>2, <1>9, <2>1, <2>2 DEF WireTypeOK
<1>11. client' # "none" /\ (client' = "has" <=> t = <<>>)
  BY <1>2, <1>7, <1>8, <1>9
<1>12. Transfers(Q)'
  BY <1>1, <1>7, <1>8, <1>9, <1>11 DEF Transfers
<1>13. ~session' => sending' = <<>>
  BY <1>1 DEF WireInv
<1>. QED BY <1>1, <1>2, <1>10, <1>11, <1>12, <1>13, Still

\* A client that has its tree has read all there was.
LEMMA Complete ==
  ASSUME WireTypeOK, NEW P, Past(P), P[1] = <<>>, Mirrors(P[1])
  PROVE  socket = <<>> /\ receiving = <<>> /\ called = NULL
<1>1. Len(socket) \in Nat
  BY PastFacts
<1>2. socket = <<>>
  <2>. SUFFICES ASSUME socket # <<>> PROVE FALSE
    OBVIOUS
  <2>1. Len(socket) # 0
    BY DEF WireTypeOK
  <2>2. 1 \in 1 .. Len(socket)
    BY <1>1, <2>1
  <2>. QED BY <2>2 DEF Past
<1>3. called = NULL /\ Len(receiving) = 0
  BY DEF Mirrors
<1>4. receiving = <<>>
  BY <1>3 DEF WireTypeOK
<1>. QED BY <1>2, <1>3, <1>4

LEMMA WireBye ==
  ASSUME IInv, WireInv, Bye
  PROVE  WireInv'
<1>1. /\ client = "has" /\ sending = <<>> /\ client' = "none" /\ session' = FALSE /\ copy' = NoCopy
      /\ UNCHANGED <<pc, ptr, sending, socket, receiving, called>>
  BY DEF Bye, treeVars, nodes
<1>2. WireTypeOK
  BY DEF WireInv
<1>3. PICK P : Transfers(P)
  BY <1>1, Under
<1>4. socket = <<>> /\ receiving = <<>> /\ called = NULL
  BY <1>1, <1>2, <1>3, Complete DEF Transfers
<1>5. WireTypeOK'
  BY <1>1, <1>2 DEF WireTypeOK, NoCopy, Pointer
<1>. QED BY <1>1, <1>4, <1>5 DEF WireInv

\* The daemon's own steps are between two sessions.
LEMMA WireTree ==
  ASSUME IInv, WireInv, TreeStep \/ (DestroyAllTweaks /\ client = "none"), UNCHANGED wireVars
  PROVE  WireInv'
<1>1. UNCHANGED <<session, sending, socket, client, receiving, called, copy>>
  BY DEF wireVars
<1>2. client = "none"
  <2>1. TreeStep => pc # "serving"
    BY DEF TreeStep, Register, RegisterTweak, Search, Walk, Enter, additemtolist_create,
           additemtolist_insert, Duplicate, sort_tweak_list, Sort, Swap, Advance, Sorted,
           SortSub, SortReturn, Destroy, DestroySub, DestroyLeaf, DestroyReturn, Destroyed
  <2>. QED BY <2>1 DEF WireInv
<1>3. pc' = "serving" => ptr'[tweaks] \in Nodes
  <2>1. CASE SortReturn
    <3>1. ptr[tweaks] \in Nodes \cup {NULL}
      BY PlaceFacts DEF IInv, TreeTypeOK
    <3>2. ptr' = ptr
      BY <2>1 DEF SortReturn, nodes
    <3>3. pc' = "serving" => ptr[tweaks] # NULL
      BY <2>1 DEF SortReturn
    <3>. QED BY <3>1, <3>2, <3>3
  <2>2. CASE ~SortReturn
    <3>1. pc' # "serving"
      BY <2>2 DEF TreeStep, Register, RegisterTweak, Search, Walk, Enter, additemtolist_create,
           additemtolist_insert, Duplicate, sort_tweak_list, Sort, Swap, Advance, Sorted,
           SortSub, Destroy, DestroySub, DestroyLeaf, DestroyReturn, Destroyed, DestroyAllTweaks
    <3>. QED BY <3>1
  <2>. QED BY <2>1, <2>2
<1>4. WireTypeOK'
  BY <1>1 DEF WireInv, WireTypeOK
<1>. QED BY <1>1, <1>2, <1>3, <1>4 DEF WireInv

LEMMA WireInvNext == IInv /\ WireInv /\ [Next]_vars => WireInv'
<1>. SUFFICES ASSUME IInv, WireInv, [Next]_vars PROVE WireInv'
  OBVIOUS
<1>1. CASE UNCHANGED vars
  <2>1. /\ UNCHANGED <<pc, ptr, session, sending, socket, client, receiving, called, copy>>
    BY <1>1 DEF vars, treeVars, nodes, wireVars
  <2>2. WireTypeOK' /\ (client' = "none" => WireInv')
    BY <2>1 DEF WireInv, WireTypeOK
  <2>3. CASE client # "none"
    <3>1. PICK P : Transfers(P)
      BY <2>3, Under
    <3>2. Transfers(P)'
      BY <2>1, <3>1 DEF Transfers, Past, Mirrors, Copied, Nested, PlaceOf, Number, SubDone, NextDone, ToSend, Continue
    <3>. QED BY <2>1, <2>2, <2>3, <3>2, Still DEF WireInv
  <2>. QED BY <2>1, <2>2, <2>3
<1>. QED BY <1>1, WireRequest, WireSend, WireInterrupt, WireReceive, WireBye, WireTree DEF Next

LEMMA WireInvariance == Spec => [](IInv /\ LostInv /\ WireInv)
<1>1. IInv /\ WireInv /\ [Next]_vars => WireInv'
  BY WireInvNext
<1>2. Init => WireInv
  BY WireInvInit
<1>. QED BY <1>1, <1>2, LostInvariance, PTL DEF Spec

-----------------------------------------------------------------------------
(* What a client has received *)

LEMMA StepByStep ==
  ASSUME IInv, WireInv, session, socket = <<>>, sending # <<>>
  PROVE  /\ Last(sending).at = "tweak" <=> called # NULL
         /\ [i \in DOMAIN receiving |-> receiving[i].node]
              = [i \in 1 .. Len(sending) - (IF called = NULL THEN 0 ELSE 1) |-> sending[i].node]
<1>1. client # "none" /\ WireTypeOK
  BY DEF WireInv
<1>2. PICK P : Transfers(P)
  BY <1>1, Under
<1>3. P[1] = sending /\ Nested(sending) /\ Mirrors(sending)
  <2>1. Len(P) = 1 /\ Nested(P[1])
    <3>1. Len(socket) = 0
      OBVIOUS
    <3>. QED BY <1>1, <1>2, <3>1, PastFacts DEF Transfers
  <2>. QED BY <1>2, <2>1 DEF Transfers
<1>. DEFINE L == Len(sending)
            K == Len(receiving)
<1>4. L \in Nat /\ Last(sending) = sending[L] /\ DOMAIN receiving = 1 .. K
  BY <1>1, <1>3, FrontFacts DEF Nested, WireTypeOK
<1>5. /\ K = IF called = NULL THEN L ELSE L - 1
      /\ called # NULL => sending[L].at = "tweak"
      /\ \A i \in 1 .. K : receiving[i].node = sending[i].node
  BY <1>3 DEF Mirrors
<1>6. called = NULL => sending[L].at # "tweak"
  BY <1>1, <1>3, Inside
<1>. HIDE DEF L, K
<1>7. 1 .. L - (IF called = NULL THEN 0 ELSE 1) = 1 .. K
  BY <1>4, <1>5
<1>. QED BY <1>4, <1>5, <1>6, <1>7 DEF L

\* SendTweakStructure and magic_tweak_code, joined by a socket of any size,
\* stay in step: when nothing is on the way both are inside the same nodes.
THEOREM InStepAlways == Spec => []InStep
<1>1. IInv /\ WireInv => InStep
  BY StepByStep DEF InStep
<1>. QED BY <1>1, WireInvariance, PTL

\* When everything that was copied is complete, and the first pointer was
\* copied, all of the tree was.
LEMMA AllCopied ==
  ASSUME IInv, LostInv, WireInv, pc = "serving", Copied(<<>>)
  PROVE  copy = ptr
<1>. DEFINE S == {n \in Nodes : SubDone(n) /\ NextDone(n)}
<1>1. /\ \A p \in Places : copy[p] \in {ptr[p], NULL}
      /\ \A p \in Places : copy[p] # NULL => SubDone(copy[p]) /\ NextDone(copy[p])
      /\ copy[tweaks] = ptr[tweaks]
  BY DEF Copied
<1>2. ptr \in [Places -> Pointer] /\ copy \in [Places -> Pointer]
  BY DEF IInv, TreeTypeOK, WireInv, WireTypeOK, Pointer
<1>3. \A p \in Places : copy[p] = ptr[p] => Into(ptr[p], S)
  BY <1>1, <1>2 DEF Into, Pointer
<1>4. \A n \in S : copy[SubOf(n)] = ptr[SubOf(n)] /\ copy[NextOf(n)] = ptr[NextOf(n)]
  BY DEF SubDone, NextDone
<1>5. S \in SUBSET Nodes
  OBVIOUS
<1>. HIDE DEF S
<1>6. Into(ptr[tweaks], S) /\ Closed(S)
  BY <1>1, <1>3, <1>4, <1>5, PlaceFacts DEF Closed
<1>7. heap \ {tweak} \subseteq S
  BY <1>5, <1>6 DEF LostInv, ReachInv
<1>8. \A n \in Nodes : n \notin S => ptr[NextOf(n)] = NULL /\ ptr[SubOf(n)] = NULL
  BY <1>7 DEF IInv, BlankInv, Outside
<1>9. ASSUME NEW p \in Places PROVE copy[p] = ptr[p]
  BY <1>1, <1>4, <1>8, PlaceFacts
<1>. QED BY <1>2, <1>9

LEMMA ExactNow ==
  ASSUME IInv, LostInv, WireInv
  PROVE  CopyIsExact
<1>. SUFFICES ASSUME session
              PROVE  /\ \A p \in Places : copy[p] \in {ptr[p], NULL}
                     /\ client = "has" => copy = ptr
  BY DEF CopyIsExact
<1>1. client # "none" /\ pc = "serving"
  BY DEF WireInv
<1>2. PICK P : Transfers(P)
  BY <1>1, Under
<1>3. Copied(P[1])
  BY <1>2 DEF Transfers
<1>4. client = "has" => P[1] = <<>>
  BY <1>2 DEF Transfers
<1>5. client = "has" => copy = ptr
  BY <1>1, <1>3, <1>4, AllCopied
<1>. QED BY <1>3, <1>5 DEF Copied

\* What magic_tweak_code has put together is always a part of the daemon's
\* tree, and all of it when it returns, whatever the tree and the socket.
THEOREM CopyIsExactAlways == Spec => []CopyIsExact
<1>. QED BY ExactNow, WireInvariance, PTL

-----------------------------------------------------------------------------
(* Lists and paths *)

\* The nodes that are in the tree.
Placed == heap \ {tweak}

\* Next pointers do not lead out of S.  (P is the pointers, W the texts.)
Linked(P, S) == \A n \in S : Into(P[NextOf(n)], S)

\* n is in the list that begins at place p: it is in every set that place p
\* leads into and that Next pointers do not leave.
InList(P, p, n) == \A S \in SUBSET Nodes : Linked(P, S) /\ Into(P[p], S) => n \in S

\* dir[n] is the path of the node whose Sub list n is in; the path of n has
\* one text more.
Path(W, dir, n) == Append(dir[n], Fold[W[n]])

\* What dir is of the nodes in the list place p belongs to.
DirAt(W, dir, p) ==
  IF p = tweaks THEN <<>> ELSE IF p[1] = "Next" THEN dir[p[2]] ELSE Path(W, dir, p[2])

\* Where lists begin.
Lists(H) == {tweaks} \cup {SubOf(n) : n \in H}

\* Every node is in the list its path says, and has the path alone.
Names(dir) ==
  /\ dir \in [Nodes -> Seq(Texts)]
  /\ \A n \in heap : WidgetText[n] \in Texts
  /\ \A n \in Placed : dir[n] = <<>> => Type[n] = "tree"
  /\ \A p \in Places : ptr[p] # NULL => dir[ptr[p]] = DirAt(WidgetText, dir, p)
  /\ \A n \in Placed : \E p \in Lists(Placed) : dir[n] = DirAt(WidgetText, dir, p)
  /\ \A p \in Lists(Placed) : \A n \in Placed : dir[n] = DirAt(WidgetText, dir, p) => InList(ptr, p, n)
  /\ \A n, m \in Placed : Path(WidgetText, dir, n) = Path(WidgetText, dir, m) => n = m

\* The part of the list that was searched does not have the text.
Searched(dir) ==
  pc = "search" =>
    /\ \A n \in Placed : dir[n] = DirAt(WidgetText, dir, prev) => InList(ptr, prev, n) \/ ~Matches(n)
    /\ DirAt(WidgetText, dir, prev) = <<>> => rest # <<>> /\ Head(rest).type = "tree"

\* The nodes of B, and no others, are behind the place the sort has come to,
\* in order.
Passed(B) ==
  /\ prev = tweaks => B = {}
  /\ prev # tweaks => ptr[tweaks] \in B
  /\ \A n \in Nodes : prev = NextOf(n) => n \in B
  /\ \A n \in B : prev # NextOf(n) => ptr[NextOf(n)] \in B
  /\ \A n \in B : ptr[NextOf(n)] # NULL => WidgetText[n] <= WidgetText[ptr[NextOf(n)]]

\* The list at the top of the tree is in order.
TopOrdered(dir) ==
  \A n \in Placed : dir[n] = <<>> /\ ptr[NextOf(n)] # NULL =>
    WidgetText[n] <= WidgetText[ptr[NextOf(n)]]

\* The sort is in the list its activation is for; the top is in order once it
\* has gone below.
Ordered(dir) ==
  /\ pc = "sort" => (Len(stack) = 1 <=> DirAt(WidgetText, dir, prev) = <<>>)
  /\ pc = "sort" /\ Len(stack) = 1 => \E B \in SUBSET Nodes : Passed(B)
  /\ pc \in {"descend", "serving"} \/ (pc = "sort" /\ Len(stack) # 1) => TopOrdered(dir)

NameInv ==
  pc # "destroy" => \E dir : Names(dir) /\ Searched(dir) /\ Ordered(dir)

LEMMA DirFacts ==
  ASSUME NEW W, NEW dir, NEW p
  PROVE  /\ p = tweaks => DirAt(W, dir, p) = <<>>
         /\ \A n : p = NextOf(n) => DirAt(W, dir, p) = dir[n]
         /\ \A n : p = SubOf(n) => DirAt(W, dir, p) = Path(W, dir, n)
BY DEF DirAt, tweaks, NextOf, SubOf

\* Where the pointers of the tree are.
LEMMA HolderPlaced ==
  ASSUME IInv, pc # "destroy", NEW p \in Places, ptr[p] # NULL
  PROVE  /\ ptr[p] \in Placed /\ ptr[p] \in Nodes
         /\ p = tweaks \/ \E n \in Placed : n \in Nodes /\ p \in {NextOf(n), SubOf(n)}
<1>1. ptr[p] \in Placed
  BY DEF IInv, TargetInv, Placed
<1>2. p = tweaks \/ \E n \in Placed : n \in Nodes /\ p \in {NextOf(n), SubOf(n)}
  BY PlaceFacts DEF IInv, BlankInv, Outside, Placed
<1>. QED BY <1>1, <1>2 DEF IInv, TreeTypeOK, Placed

\* What n's path is made of.
LEMMA PathFacts ==
  ASSUME IInv, NEW dir, Names(dir), NEW n \in Placed
  PROVE  /\ n \in Nodes /\ dir[n] \in Seq(Texts) /\ Fold[WidgetText[n]] \in Texts
         /\ Path(WidgetText, dir, n) \in Seq(Texts) /\ Path(WidgetText, dir, n) # <<>>
         /\ Len(Path(WidgetText, dir, n)) = Len(dir[n]) + 1 /\ Len(dir[n]) \in Nat
<1>1. n \in Nodes /\ dir[n] \in Seq(Texts) /\ WidgetText[n] \in Texts
  BY DEF IInv, TreeTypeOK, Placed, Names
<1>2. Fold[WidgetText[n]] \in Texts
  BY <1>1, TreeAssumption
<1>3. Path(WidgetText, dir, n) \in Seq(Texts) /\ Len(Path(WidgetText, dir, n)) = Len(dir[n]) + 1 /\ Len(dir[n]) \in Nat
  BY <1>1, <1>2, AppendFacts DEF Path
<1>. QED BY <1>1, <1>2, <1>3

LEMMA SamePath ==
  ASSUME IInv, NEW dir, Names(dir), NEW n \in Placed, NEW m \in Placed
  PROVE  Path(WidgetText, dir, n) = Path(WidgetText, dir, m)
           <=> dir[n] = dir[m] /\ Fold[WidgetText[n]] = Fold[WidgetText[m]]
<1>1. /\ dir[n] \in Seq(Texts) /\ Fold[WidgetText[n]] \in Texts
      /\ dir[m] \in Seq(Texts) /\ Fold[WidgetText[m]] \in Texts
  BY PathFacts
<1>. DEFINE p == dir[n]
            q == dir[m]
            x == Fold[WidgetText[n]]
            y == Fold[WidgetText[m]]
<1>2. Append(p, x) = Append(q, y) <=> p = q /\ x = y
  <2>. HIDE DEF p, q, x, y
  <2>1. p \in Seq(Texts) /\ x \in Texts /\ q \in Seq(Texts) /\ y \in Texts
    BY <1>1 DEF p, q, x, y
  <2>. QED BY ONLY <2>1, AppendInjective
<1>. QED BY <1>2 DEF Path

-----------------------------------------------------------------------------
(* Being in a list *)

LEMMA NotInEmpty ==
  ASSUME NEW P, NEW p, NEW n, P[p] = NULL
  PROVE  ~InList(P, p, n)
<1>1. {} \in SUBSET Nodes /\ Linked(P, {}) /\ Into(P[p], {})
  BY DEF Linked, Into
<1>. QED BY <1>1 DEF InList

\* Past the first node.
LEMMA InRest ==
  ASSUME NEW P, NEW p, NEW n, InList(P, p, n), P[p] \in Nodes, n # P[p]
  PROVE  InList(P, NextOf(P[p]), n)
<1>. SUFFICES ASSUME NEW S \in SUBSET Nodes, Linked(P, S), Into(P[NextOf(P[p])], S) PROVE n \in S
  BY DEF InList
<1>. DEFINE R == S \cup {P[p]}
<1>1. R \in SUBSET Nodes /\ Linked(P, R) /\ Into(P[p], R)
  BY DEF Linked, Into
<1>2. n \in R
  <2>. HIDE DEF R
  <2>. QED BY <1>1 DEF InList
<1>. QED BY <1>2

\* A node is put where a list ends.
LEMMA InLonger ==
  ASSUME NEW P, NEW q \in Places, P[q] = NULL, NEW f, NEW R,
         \A p \in Places : R[p] = IF p = q THEN f ELSE P[p],
         NEW p \in Places, NEW n, InList(P, p, n)
  PROVE  InList(R, p, n)
<1>. SUFFICES ASSUME NEW S \in SUBSET Nodes, Linked(R, S), Into(R[p], S) PROVE n \in S
  BY DEF InList
<1>1. \A r \in Places : Into(R[r], S) => Into(P[r], S)
  BY DEF Into
<1>2. Linked(P, S) /\ Into(P[p], S)
  BY <1>1, PlaceFacts DEF Linked
<1>. QED BY <1>2 DEF InList

\* The node that was put there is in the list.
LEMMA InEnd ==
  ASSUME NEW P, NEW m, NEW f, f # NULL, P[NextOf(m)] = f, NEW p, InList(P, p, m)
  PROVE  InList(P, p, f)
<1>. SUFFICES ASSUME NEW S \in SUBSET Nodes, Linked(P, S), Into(P[p], S) PROVE f \in S
  BY DEF InList
<1>1. m \in S
  BY DEF InList
<1>. QED BY <1>1 DEF Linked, Into

LEMMA InFirst ==
  ASSUME NEW P, NEW p, NEW f, P[p] = f, f # NULL
  PROVE  InList(P, p, f)
BY DEF InList, Into

-----------------------------------------------------------------------------
(* A node is put at the end of a list *)

\* Where texts stay paths stay.
Stay(H, W, V, dir, e) == \A n \in H : V[n] = W[n] /\ e[n] = dir[n]

LEMMA PathsStay ==
  ASSUME NEW H, NEW W, NEW V, NEW dir, NEW e, Stay(H, W, V, dir, e)
  PROVE  /\ \A n \in H : Path(V, e, n) = Path(W, dir, n)
         /\ \A p : p = tweaks \/ (\E n \in H : p \in {NextOf(n), SubOf(n)})
                     => DirAt(V, e, p) = DirAt(W, dir, p)
<1>1. \A n \in H : e[n] = dir[n] /\ Path(V, e, n) = Path(W, dir, n)
  BY DEF Path, Stay
<1>. QED BY <1>1, DirFacts

\* Nothing in the tree changes but types below the top, if any.
LEMMA NamesSame ==
  ASSUME IInv, pc # "destroy", NEW dir, Names(dir), ptr' = ptr, Placed' = Placed,
         \A n \in Placed : /\ WidgetText'[n] = WidgetText[n]
                           /\ dir[n] = <<>> => Type'[n] = "tree",
         \A n \in heap' : WidgetText'[n] \in Texts
  PROVE  /\ Names(dir)'
         /\ \A p : p = tweaks \/ (\E n \in Placed : p \in {NextOf(n), SubOf(n)})
                     => DirAt(WidgetText', dir, p) = DirAt(WidgetText, dir, p)
         /\ \A n \in Placed : Path(WidgetText', dir, n) = Path(WidgetText, dir, n)
<1>0. Stay(Placed, WidgetText, WidgetText', dir, dir)
  BY DEF Stay
<1>1. /\ \A n \in Placed : Path(WidgetText', dir, n) = Path(WidgetText, dir, n)
      /\ \A p : p = tweaks \/ (\E n \in Placed : p \in {NextOf(n), SubOf(n)})
                     => DirAt(WidgetText', dir, p) = DirAt(WidgetText, dir, p)
  BY <1>0, PathsStay
<1>2. \A p \in Places : ptr[p] # NULL => DirAt(WidgetText', dir, p) = DirAt(WidgetText, dir, p)
  BY <1>1, HolderPlaced
<1>3. \A p \in Lists(Placed) : DirAt(WidgetText', dir, p) = DirAt(WidgetText, dir, p)
  BY <1>1 DEF Lists
<1>. QED BY <1>1, <1>2, <1>3 DEF Names

\* In the list that is searched there is none of the text.
LEMMA NoneThere ==
  ASSUME IInv, NEW dir, Names(dir), Searched(dir), pc = "search", ptr[prev] = NULL,
         NEW n \in Placed, dir[n] = DirAt(WidgetText, dir, prev)
  PROVE  Fold[WidgetText[n]] # Fold[Item]
BY NotInEmpty DEF Searched, Matches

\* The place that is searched is one of the tree.
LEMMA PlaceSearched ==
  ASSUME IInv, NEW dir, Names(dir), pc = "search"
  PROVE  /\ prev \in Places
         /\ prev = tweaks \/ \E m \in Placed : prev \in {NextOf(m), SubOf(m)}
         /\ DirAt(WidgetText, dir, prev) \in Seq(Texts)
         /\ \E p \in Lists(Placed) : DirAt(WidgetText, dir, prev) = DirAt(WidgetText, dir, p)
<1>1. prev \in Places
  BY DEF IInv, TreeTypeOK
<1>2. prev = tweaks \/ \E m \in Placed : prev \in {NextOf(m), SubOf(m)}
  BY <1>1, PlaceFacts DEF IInv, SearchInv, Outside, Placed
<1>. DEFINE D == DirAt(WidgetText, dir, prev)
<1>3. D \in Seq(Texts) /\ \E p \in Lists(Placed) : D = DirAt(WidgetText, dir, p)
  <2>1. CASE prev = tweaks
    BY <2>1, DirFacts, EmptySeq DEF Lists
  <2>2. ASSUME NEW m \in Placed, prev = NextOf(m)
        PROVE  D \in Seq(Texts) /\ \E p \in Lists(Placed) : D = DirAt(WidgetText, dir, p)
    <3>1. D = dir[m] /\ dir[m] \in Seq(Texts)
      BY <2>2, DirFacts, PathFacts
    <3>. HIDE DEF D
    <3>. QED BY <3>1 DEF Names
  <2>3. ASSUME NEW m \in Placed, prev = SubOf(m)
        PROVE  D \in Seq(Texts) /\ \E p \in Lists(Placed) : D = DirAt(WidgetText, dir, p)
    <3>1. D = Path(WidgetText, dir, m) /\ Path(WidgetText, dir, m) \in Seq(Texts)
      BY <2>3, DirFacts, PathFacts
    <3>2. prev \in Lists(Placed)
      BY <2>3 DEF Lists
    <3>. QED BY <3>1, <3>2
  <2>. QED BY <1>2, <2>1, <2>2, <2>3
<1>. QED BY <1>1, <1>2, <1>3

\* Node f is put where the search has come to the end of a list: e is what dir
\* becomes.
Puts(dir, e, f) ==
  /\ pc = "search" /\ ptr[prev] = NULL /\ f \in Nodes /\ f \notin Placed
  /\ ptr' = [ptr EXCEPT ![prev] = f] /\ Placed' = Placed \cup {f}
  /\ Fold[WidgetText'[f]] = Fold[Item]
  /\ \A n \in Placed : WidgetText'[n] = WidgetText[n] /\ Type'[n] = Type[n]
  /\ \A n \in heap' : WidgetText'[n] \in Texts
  /\ DirAt(WidgetText, dir, prev) = <<>> => Type'[f] = "tree"
  /\ e = [dir EXCEPT ![f] = DirAt(WidgetText, dir, prev)]

LEMMA NamesPut ==
  ASSUME IInv, NEW dir, Names(dir), Searched(dir), NEW e, NEW f, Puts(dir, e, f)
  PROVE  /\ Names(e)' /\ e[f] = DirAt(WidgetText, dir, prev)
         /\ \A n \in Placed : /\ e[n] = dir[n] /\ e[n] # Path(WidgetText', e, f)
                              /\ Path(WidgetText', e, n) = Path(WidgetText, dir, n)
<1>. USE DEF Puts
<1>. DEFINE D == DirAt(WidgetText, dir, prev)
            F == Path(WidgetText', e, f)
            Old == WidgetText
            New == WidgetText'
<1>1. /\ prev \in Places /\ f # NULL /\ pc # "destroy"
      /\ prev = tweaks \/ \E m \in Placed : prev \in {NextOf(m), SubOf(m)}
      /\ D \in Seq(Texts) /\ \E p \in Lists(Placed) : D = DirAt(Old, dir, p)
  BY PlaceSearched, TreeAssumption
<1>. HIDE DEF D, Old
<1>2. /\ e \in [Nodes -> Seq(Texts)] /\ e[f] = D
      /\ \A n \in Placed : e[n] = dir[n] /\ n \in Nodes /\ n # f
  BY <1>1 DEF Names, D, Placed, IInv, TreeTypeOK
<1>3. Placed \in SUBSET Nodes /\ Stay(Placed, Old, New, dir, e)
  BY <1>2 DEF Old, Stay
<1>. HIDE DEF New
<1>4. /\ \A n \in Placed : Path(New, e, n) = Path(Old, dir, n)
      /\ \A p : p = tweaks \/ (\E n \in Placed : p \in {NextOf(n), SubOf(n)})
                     => DirAt(New, e, p) = DirAt(Old, dir, p)
  BY ONLY <1>3, PathsStay
<1>5. /\ F = Append(D, Fold[Item]) /\ Fold[Item] \in Texts
      /\ F # <<>> /\ F # D
  <2>1. F = Append(D, Fold[Item])
    BY <1>2 DEF Path
  <2>2. Fold[Item] \in Texts
    <3>1. f \in heap'
      BY DEF Placed
    <3>. QED BY <3>1, TreeAssumption
  <2>. HIDE DEF F
  <2>3. /\ Append(D, Fold[Item]) \in Seq(Texts) /\ Len(Append(D, Fold[Item])) = Len(D) + 1
        /\ Len(D) \in Nat
    BY <1>1, <2>2, AppendFacts
  <2>. QED BY <2>1, <2>2, <2>3
<1>6. F = Path(New, e, f)
  BY DEF New
<1>. HIDE DEF F
\* Nobody has the new path yet, nor is anybody below it.
<1>7. ASSUME NEW n \in Placed PROVE Path(Old, dir, n) # F
  <2>. SUFFICES ASSUME Path(Old, dir, n) = F PROVE FALSE
    OBVIOUS
  <2>1. dir[n] \in Seq(Texts) /\ Fold[Old[n]] \in Texts
    BY PathFacts DEF Old
  <2>2. dir[n] = D /\ Fold[Old[n]] = Fold[Item]
    <3>1. Append(dir[n], Fold[Old[n]]) = Append(D, Fold[Item])
      BY <1>5 DEF Path
    <3>2. /\ dir[n] \in Seq(Texts) /\ D \in Seq(Texts)
          /\ Fold[Old[n]] \in Texts /\ Fold[Item] \in Texts
      BY <1>1, <1>5, <2>1
    <3>. DEFINE x == Fold[Old[n]]
                y == Fold[Item]
    <3>. HIDE DEF x, y
    <3>3. Append(dir[n], x) = Append(D, y) => dir[n] = D /\ x = y
      BY ONLY <3>2, AppendInjective DEF x, y
    <3>. QED BY <3>1, <3>3 DEF x, y
  <2>. QED BY <2>2, NoneThere DEF D, Old
<1>8. \A p \in Lists(Placed) : p \in Places /\ (p = tweaks \/ \E n \in Placed : p = SubOf(n))
  BY <1>3, PlaceFacts DEF Lists
<1>9. ASSUME NEW p \in Lists(Placed) PROVE DirAt(Old, dir, p) # F
  <2>1. p = tweaks \/ \E n \in Placed : n \in Nodes /\ p = SubOf(n)
    BY <1>3, <1>8
  <2>. QED BY <1>5, <1>7, <2>1, DirFacts
<1>10. \A n \in Placed : dir[n] # F
  BY <1>9 DEF Names, Old
<1>11. Lists(Placed') = Lists(Placed) \cup {SubOf(f)} /\ DirAt(New, e, SubOf(f)) = F
  BY <1>6, DirFacts DEF Lists
<1>12. \A p \in Lists(Placed) : DirAt(New, e, p) = DirAt(Old, dir, p)
  BY <1>4, <1>8
<1>13. \A p \in Places : ptr'[p] = IF p = prev THEN f ELSE ptr[p]
  BY <1>1 DEF IInv, TreeTypeOK
<1>14. ASSUME NEW p \in Places, ptr'[p] # NULL PROVE e[ptr'[p]] = DirAt(New, e, p)
  <2>1. CASE p = prev
    BY <1>1, <1>2, <1>4, <1>13, <2>1 DEF D, Old
  <2>2. CASE p # prev
    <3>1. ptr'[p] = ptr[p] /\ ptr[p] # NULL
      BY <1>13, <1>14, <2>2
    <3>2. /\ ptr[p] \in Placed
          /\ p = tweaks \/ \E n \in Placed : p \in {NextOf(n), SubOf(n)}
      BY <1>1, <3>1, HolderPlaced
    <3>3. dir[ptr[p]] = DirAt(Old, dir, p)
      BY <3>1 DEF Names, Old
    <3>. QED BY <1>2, <1>4, <3>1, <3>2, <3>3
  <2>. QED BY <2>1, <2>2
<1>15. \A n \in Placed' : \E p \in Lists(Placed') : e[n] = DirAt(New, e, p)
  <2>1. \A n \in Placed : \E p \in Lists(Placed) : dir[n] = DirAt(Old, dir, p)
    BY DEF Names, Old
  <2>2. \A n \in Placed : \E p \in Lists(Placed) : e[n] = DirAt(New, e, p)
    BY <1>2, <1>12, <2>1
  <2>3. \E p \in Lists(Placed) : e[f] = DirAt(New, e, p)
    BY <1>1, <1>2, <1>12
  <2>. QED BY <1>11, <2>2, <2>3
<1>16. \A n, m \in Placed' : Path(New, e, n) = Path(New, e, m) => n = m
  <2>1. \A n, m \in Placed : Path(Old, dir, n) = Path(Old, dir, m) => n = m
    BY DEF Names, Old
  <2>2. \A n, m \in Placed : Path(New, e, n) = Path(New, e, m) => n = m
    BY <1>4, <2>1
  <2>3. \A n \in Placed : Path(New, e, n) # Path(New, e, f)
    BY <1>4, <1>6, <1>7
  <2>. QED BY <2>2, <2>3
<1>17. \A p \in Lists(Placed) : \A n : InList(ptr, p, n) => InList(ptr', p, n)
  <2>1. prev \in Places /\ ptr[prev] = NULL /\ \A p \in Lists(Placed) : p \in Places
    BY <1>1, <1>8
  <2>. QED BY ONLY <1>13, <2>1, InLonger
<1>18. ASSUME NEW p \in Lists(Placed'), NEW n \in Placed', e[n] = DirAt(New, e, p)
       PROVE  InList(ptr', p, n)
  <2>1. p \in Lists(Placed) /\ p \in Places /\ DirAt(New, e, p) = DirAt(Old, dir, p)
        /\ (p = tweaks \/ \E q \in Placed : q \in Nodes /\ p = SubOf(q))
    BY <1>2, <1>3, <1>5, <1>8, <1>10, <1>11, <1>12, <1>18
  <2>2. CASE n \in Placed
    BY <1>2, <1>17, <1>18, <2>1, <2>2 DEF Names, Old
  <2>3. CASE n = f
    <3>1. D = DirAt(Old, dir, p)
      BY <1>2, <1>18, <2>1, <2>3
    <3>2. ASSUME NEW m \in Placed, prev = NextOf(m) PROVE InList(ptr', p, f)
      <4>1. m \in Nodes /\ dir[m] = D
        BY <1>3, <3>2, DirFacts DEF D
      <4>2. InList(ptr', p, m)
        BY <1>17, <2>1, <3>1, <4>1 DEF Names, Old
      <4>3. ptr'[NextOf(m)] = f
        BY <1>1, <1>13, <3>2
      <4>. QED BY <1>1, <4>2, <4>3, InEnd
    <3>3. ASSUME prev = p PROVE InList(ptr', p, f)
      BY <1>1, <1>13, <3>3, InFirst
    <3>4. ASSUME prev = tweaks PROVE prev = p
      <4>1. D = <<>>
        BY <3>4, DirFacts DEF D
      <4>2. \A q \in Placed : Path(Old, dir, q) # <<>>
        BY PathFacts DEF Old
      <4>3. \A q \in Placed : p # SubOf(q)
        BY ONLY <3>1, <4>1, <4>2, DirFacts
      <4>. QED BY <2>1, <3>4, <4>3
    <3>5. ASSUME NEW m \in Placed, prev = SubOf(m) PROVE prev = p
      <4>1. m \in Nodes /\ D = Path(Old, dir, m) /\ Path(Old, dir, m) # <<>>
        BY <1>3, <3>5, DirFacts, PathFacts DEF D, Old
      <4>2. \A q \in Placed : Path(Old, dir, q) = Path(Old, dir, m) => q = m
        BY DEF Names, Old
      <4>3. p # tweaks
        BY ONLY <3>1, <4>1, DirFacts
      <4>4. PICK q \in Placed : p = SubOf(q)
        BY <2>1, <4>3
      <4>5. Path(Old, dir, q) = Path(Old, dir, m)
        BY ONLY <3>1, <4>1, <4>4, DirFacts
      <4>. QED BY <3>5, <4>2, <4>4, <4>5
    <3>. QED BY <1>1, <2>3, <3>2, <3>3, <3>4, <3>5
  <2>. QED BY <2>2, <2>3
<1>19. \A n \in Placed' : e[n] = <<>> => Type'[n] = "tree"
  <2>1. \A n \in Placed : e[n] = <<>> => Type'[n] = "tree"
    BY <1>2 DEF Names
  <2>. QED BY <1>2, <2>1 DEF D
<1>20. Names(e)'
  BY <1>2, <1>14, <1>15, <1>16, <1>18, <1>19 DEF Names, New
<1>. QED BY <1>2, <1>4, <1>6, <1>10, <1>20 DEF D, New, Old

-----------------------------------------------------------------------------
(* Neighbours change places *)

\* R is P with the neighbours a, in place q, and b exchanged.
Exchanged(P, R, q, a, b, c) ==
  /\ q \in Places /\ a \in Nodes /\ b \in Nodes /\ a # NULL /\ b # NULL /\ a # b
  /\ q # NextOf(a) /\ q # NextOf(b)
  /\ P[q] = a /\ P[NextOf(a)] = b /\ P[NextOf(b)] = c
  /\ R[q] = b /\ R[NextOf(b)] = a /\ R[NextOf(a)] = c
  /\ \A p \in Places : p \notin {q, NextOf(a), NextOf(b)} => R[p] = P[p]
  /\ \A p \in Places : P[p] = a => p = q

\* An exchange leaves every node in its list.
LEMMA InExchanged ==
  ASSUME NEW P, NEW R, NEW q, NEW a, NEW b, NEW c, Exchanged(P, R, q, a, b, c),
         NEW p \in Places, \A n \in Nodes : p # NextOf(n), NEW n, InList(P, p, n)
  PROVE  InList(R, p, n)
<1>. USE DEF Exchanged
<1>. SUFFICES ASSUME NEW S \in SUBSET Nodes, Linked(R, S), Into(R[p], S) PROVE n \in S
  BY DEF InList
<1>1. \A m \in S : Into(R[NextOf(m)], S)
  BY DEF Linked
<1>2. NextOf(a) \in Places /\ NextOf(b) \in Places /\ NextOf(a) # NextOf(b)
      /\ p # NextOf(a) /\ p # NextOf(b)
  BY PlaceFacts
<1>3. CASE b \in S
  <2>1. a \in S /\ Into(c, S)
    BY <1>1, <1>3 DEF Into
  <2>2. \A r \in Places : Into(R[r], S) => Into(P[r], S)
    BY <1>2, <1>3, <2>1 DEF Into
  <2>3. Linked(P, S) /\ Into(P[p], S)
    BY <1>1, <2>2, PlaceFacts DEF Linked
  <2>. QED BY <2>3 DEF InList
<1>4. CASE b \notin S
  <2>. DEFINE T == S \ {a}
  <2>1. p # q /\ \A m \in S : NextOf(m) # q
    BY <1>1, <1>4 DEF Into
  <2>2. Into(P[p], T)
    BY <1>2, <2>1 DEF Into
  <2>3. ASSUME NEW m \in T PROVE Into(P[NextOf(m)], T)
    <3>1. NextOf(m) \in Places /\ NextOf(m) \notin {q, NextOf(a), NextOf(b)}
      BY <1>4, <2>1, PlaceFacts
    <3>. QED BY <1>1, <2>1, <3>1 DEF Into
  <2>4. T \in SUBSET Nodes /\ Linked(P, T)
    BY <2>3 DEF Linked
  <2>5. n \in T
    <3>. HIDE DEF T
    <3>. QED BY <2>2, <2>4 DEF InList
  <2>. QED BY <2>5
<1>. QED BY <1>3, <1>4

\* Two neighbours of a list, and the place of the first.
LEMMA SwapExchanges ==
  ASSUME IInv, Swap
  PROVE  LET a == ptr[prev]
             b == ptr[NextOf(a)]
             c == ptr[NextOf(b)] IN
         /\ Exchanged(ptr, ptr', prev, a, b, c) /\ c \in Pointer
         /\ pc = "sort" /\ pc' = "sort" /\ prev' = TopList
         /\ UNCHANGED <<heap, WidgetText, Type, tweak, rest, stack>>
<1>. DEFINE a == ptr[prev]
            b == ptr[NextOf(a)]
            c == ptr[NextOf(b)]
<1>1. /\ prev \in Places /\ a \in Nodes /\ b \in Nodes /\ c \in Pointer
      /\ a # NULL /\ b # NULL /\ pc = "sort" /\ pc' = "sort"
  BY PlaceFacts DEF IInv, TreeTypeOK, Swap, Comparing, Current, Following, Pointer
<1>2. /\ ptr' = [ptr EXCEPT ![prev] = b, ![NextOf(b)] = a, ![NextOf(a)] = c]
      /\ prev' = TopList /\ UNCHANGED <<heap, WidgetText, Type, tweak, rest, stack>>
  BY DEF Swap, Current, Following
<1>3. /\ NextOf(a) \in Places /\ NextOf(b) \in Places /\ a # b
      /\ NextOf(a) # NextOf(b) /\ prev # NextOf(a) /\ prev # NextOf(b)
  BY <1>1, PlaceFacts DEF IInv, AheadInv
<1>4. ptr[prev] = a /\ ptr[NextOf(a)] = b /\ ptr[NextOf(b)] = c
  OBVIOUS
<1>. HIDE DEF a, b, c
<1>5. /\ ptr'[prev] = b /\ ptr'[NextOf(b)] = a /\ ptr'[NextOf(a)] = c
      /\ \A p \in Places : p \notin {prev, NextOf(a), NextOf(b)} => ptr'[p] = ptr[p]
  BY <1>1, <1>2, <1>3 DEF IInv, TreeTypeOK
<1>6. \A p \in Places : ptr[p] = a => p = prev
  BY <1>1, <1>4 DEF IInv, Injective
<1>7. Exchanged(ptr, ptr', prev, a, b, c)
  BY <1>1, <1>3, <1>4, <1>5, <1>6 DEF Exchanged
<1>. QED BY <1>1, <1>2, <1>7 DEF a, b, c

LEMMA NamesSwap ==
  ASSUME IInv, NEW dir, Names(dir), Swap
  PROVE  Names(dir)'
<1>1. PICK a, b, c : /\ Exchanged(ptr, ptr', prev, a, b, c) /\ c \in Pointer
                     /\ pc = "sort" /\ UNCHANGED <<heap, WidgetText, Type, tweak>>
  BY SwapExchanges
<1>2. \A p \in Places : ptr[p] # NULL => dir[ptr[p]] = DirAt(WidgetText, dir, p)
  BY DEF Names
<1>3. /\ prev \in Places /\ a \in Nodes /\ b \in Nodes /\ a # NULL /\ b # NULL
      /\ ptr[prev] = a /\ ptr[NextOf(a)] = b /\ ptr[NextOf(b)] = c
      /\ ptr'[prev] = b /\ ptr'[NextOf(b)] = a /\ ptr'[NextOf(a)] = c
      /\ \A p \in Places : p \notin {prev, NextOf(a), NextOf(b)} => ptr'[p] = ptr[p]
  BY <1>1 DEF Exchanged
<1>4. NextOf(a) \in Places /\ NextOf(b) \in Places
  BY <1>3, PlaceFacts
<1>5. /\ dir[a] = DirAt(WidgetText, dir, prev) /\ dir[b] = dir[a]
      /\ c # NULL => dir[c] = dir[a]
  BY <1>2, <1>3, <1>4, DirFacts
<1>6. \A p \in Places : ptr'[p] # NULL => dir[ptr'[p]] = DirAt(WidgetText, dir, p)
  <2>. SUFFICES ASSUME NEW p \in Places, ptr'[p] # NULL
                PROVE  dir[ptr'[p]] = DirAt(WidgetText, dir, p)
    OBVIOUS
  <2>1. CASE p = prev
    BY <1>3, <1>5, <2>1
  <2>2. CASE p = NextOf(a)
    <3>1. DirAt(WidgetText, dir, p) = dir[a]
      BY <2>2, DirFacts
    <3>. QED BY <1>3, <1>5, <2>2, <3>1
  <2>3. CASE p = NextOf(b)
    <3>1. DirAt(WidgetText, dir, p) = dir[b]
      BY <2>3, DirFacts
    <3>. QED BY <1>3, <1>5, <2>3, <3>1
  <2>4. CASE p \notin {prev, NextOf(a), NextOf(b)}
    BY <1>2, <1>3, <2>4
  <2>. QED BY <2>1, <2>2, <2>3, <2>4
<1>7. \A p \in Lists(Placed) : p \in Places /\ \A n \in Nodes : p # NextOf(n)
  BY PlaceFacts DEF Lists, Placed, IInv, TreeTypeOK
<1>8. \A p \in Lists(Placed) : \A n : InList(ptr, p, n) => InList(ptr', p, n)
  BY ONLY <1>1, <1>7, InExchanged
<1>9. Placed' = Placed
  BY <1>1 DEF Placed
<1>. QED BY <1>1, <1>6, <1>8, <1>9 DEF Names

-----------------------------------------------------------------------------
(* Registering keeps the paths *)

\* A search begins at the front of a list.
LEMMA SearchBegins ==
  ASSUME NEW dir, Names(dir)', prev' \in Lists(Placed'),
         DirAt(WidgetText', dir, prev') = <<>> => rest' # <<>> /\ Head(rest').type = "tree"
  PROVE  Searched(dir)'
BY DEF Names, Searched

LEMMA NameRegister ==
  ASSUME IInv, NEW dir, Names(dir), Register
  PROVE  Names(dir)' /\ Searched(dir)' /\ pc' = "search" /\ Placed' = Placed
         /\ \A n \in Placed : WidgetText'[n] = WidgetText[n]
<1>1. PICK r \in Registrations : RegisterTweak(r)
  BY DEF Register
<1>2. Fresh \in Nodes /\ Fresh \notin heap /\ tweak = NULL
  BY <1>1, FreshIsNew DEF RegisterTweak, IInv, TreeTypeOK, SearchInv
<1>3. /\ ptr' = ptr /\ heap' = heap \cup {Fresh} /\ tweak' = Fresh /\ prev' = tweaks
      /\ rest' = r.path /\ pc' = "search" /\ pc # "destroy"
      /\ \A n \in Nodes : WidgetText'[n] = IF n = Fresh THEN r.text ELSE WidgetText[n]
      /\ \A n \in Nodes : Type'[n] = IF n = Fresh THEN "tweak" ELSE Type[n]
  BY <1>1 DEF RegisterTweak, alloc_tweak, IInv, TreeTypeOK
<1>4. Placed' = Placed /\ heap \subseteq Nodes /\ Placed \subseteq heap
  BY <1>2, <1>3, TreeAssumption DEF Placed, IInv, TreeTypeOK
<1>5. r.text \in Texts /\ r.path # <<>> /\ Head(r.path).type = "tree"
  BY TreeAssumption, MenuAssumption
<1>6. \A n \in Placed : /\ WidgetText'[n] = WidgetText[n]
                        /\ dir[n] = <<>> => Type'[n] = "tree"
  BY <1>2, <1>3, <1>4 DEF Names
<1>7. \A n \in heap' : WidgetText'[n] \in Texts
  BY <1>2, <1>3, <1>4, <1>5 DEF Names
<1>8. Names(dir)'
  BY <1>3, <1>4, <1>6, <1>7, NamesSame
<1>9. prev' \in Lists(Placed')
  BY <1>3 DEF Lists
<1>10. Searched(dir)'
  BY <1>3, <1>5, <1>8, <1>9, SearchBegins
<1>. QED BY <1>3, <1>4, <1>6, <1>8, <1>10

\* The node the search has come to is not the one.
LEMMA NameWalk ==
  ASSUME IInv, NEW dir, Names(dir), Searched(dir), Walk
  PROVE  Names(dir)' /\ Searched(dir)'
<1>. DEFINE m == ptr[prev]
<1>1. /\ pc = "search" /\ prev \in Places /\ m # NULL /\ ~Matches(m)
      /\ prev' = NextOf(m) /\ UNCHANGED <<pc, ptr, heap, WidgetText, Type, tweak, rest>>
  BY DEF Walk, nodes, IInv, TreeTypeOK
<1>2. Names(dir)'
  BY <1>1 DEF Names, Placed
<1>3. m \in Nodes /\ dir[m] = DirAt(WidgetText, dir, prev)
  BY <1>1, HolderPlaced DEF Names
<1>4. DirAt(WidgetText, dir, prev') = DirAt(WidgetText, dir, prev)
  BY <1>1, <1>3, DirFacts
<1>5. ASSUME NEW n \in Placed, dir[n] = DirAt(WidgetText, dir, prev'), Matches(n)
      PROVE  InList(ptr, prev', n)
  <2>1. InList(ptr, prev, n) /\ n # m
    BY <1>1, <1>4, <1>5 DEF Searched
  <2>. QED BY <1>1, <1>3, <2>1, InRest
<1>6. \A n : Matches(n)' <=> Matches(n)
  BY <1>1 DEF Matches, Item
<1>7. Placed' = Placed
  BY <1>1 DEF Placed
<1>. QED BY <1>1, <1>2, <1>4, <1>5, <1>6, <1>7 DEF Searched

\* The path goes on in the Sub list of the node the search has come to.
LEMMA NameEnter ==
  ASSUME IInv, NEW dir, Names(dir), Searched(dir), Enter
  PROVE  Names(dir)' /\ Searched(dir)'
<1>. DEFINE m == ptr[prev]
<1>1. /\ pc = "search" /\ prev \in Places /\ m # NULL /\ rest # <<>>
      /\ Type' = [Type EXCEPT ![m] = Head(rest).type]
      /\ prev' = SubOf(m) /\ UNCHANGED <<pc, ptr, heap, WidgetText, tweak>>
  BY DEF Enter, IInv, TreeTypeOK
<1>2. m \in Placed /\ dir[m] = DirAt(WidgetText, dir, prev)
  BY <1>1, HolderPlaced DEF Names
<1>3. Placed' = Placed
  BY <1>1 DEF Placed
<1>4. dir[m] = <<>> => Head(rest).type = "tree"
  BY <1>1, <1>2 DEF Searched
<1>5. \A n \in Placed : /\ WidgetText'[n] = WidgetText[n]
                        /\ dir[n] = <<>> => Type'[n] = "tree"
  BY <1>1, <1>4 DEF Names, IInv, TreeTypeOK, Placed
<1>6. \A n \in heap' : WidgetText'[n] \in Texts
  BY <1>1 DEF Names
<1>7. Names(dir)'
  BY <1>1, <1>3, <1>5, <1>6, NamesSame
<1>8. prev' \in Lists(Placed')
  BY <1>1, <1>2, <1>3 DEF Lists
<1>9. DirAt(WidgetText', dir, prev') = Path(WidgetText, dir, m)
  BY <1>1, DirFacts
<1>10. Path(WidgetText, dir, m) # <<>>
  BY <1>2, PathFacts
<1>. QED BY <1>7, <1>8, <1>9, <1>10, SearchBegins

\* An entry of the path is added: nobody is below it yet.
LEMMA NameCreate ==
  ASSUME IInv, NEW dir, Names(dir), Searched(dir), additemtolist_create,
         NEW e, e = [dir EXCEPT ![Fresh] = DirAt(WidgetText, dir, prev)]
  PROVE  /\ Names(e)' /\ Searched(e)' /\ e[Fresh] = DirAt(WidgetText, dir, prev)
         /\ Placed' = Placed \cup {Fresh} /\ Fresh \notin Placed
         /\ \A n \in Placed : /\ e[n] = dir[n]
                              /\ Path(WidgetText', e, n) = Path(WidgetText, dir, n)
<1>1. PICK f : f = Fresh
  OBVIOUS
<1>2. f \in Nodes /\ f \notin heap /\ f \notin Placed
  BY <1>1, FreshIsNew DEF additemtolist_create, IInv, TreeTypeOK, Placed
<1>3. /\ pc = "search" /\ ptr[prev] = NULL /\ rest # <<>> /\ rest \in Seq([text : Texts, type : Types])
      /\ ptr' = [ptr EXCEPT ![prev] = f] /\ heap' = heap \cup {f}
      /\ prev' = SubOf(f) /\ UNCHANGED <<pc, tweak>>
      /\ \A n \in Nodes : WidgetText'[n] = IF n = f THEN Head(rest).text ELSE WidgetText[n]
      /\ \A n \in Nodes : Type'[n] = IF n = f THEN Head(rest).type ELSE Type[n]
  BY <1>1 DEF additemtolist_create, alloc_tweak, IInv, TreeTypeOK
<1>4. tweak \in heap /\ heap \subseteq Nodes
  BY <1>3 DEF IInv, SearchInv, TreeTypeOK
<1>5. Placed' = Placed \cup {f}
  BY <1>2, <1>3, <1>4 DEF Placed
<1>6. Head(rest).text \in Texts /\ Item = Head(rest).text
  BY <1>3, PathStep DEF Item
<1>7. Fold[WidgetText'[f]] = Fold[Item]
  BY <1>2, <1>3, <1>6
<1>8. \A n \in Placed : WidgetText'[n] = WidgetText[n] /\ Type'[n] = Type[n]
  BY <1>2, <1>3, <1>4 DEF Placed
<1>9. \A n \in heap' : WidgetText'[n] \in Texts
  BY <1>2, <1>3, <1>4, <1>6 DEF Names
<1>10. DirAt(WidgetText, dir, prev) = <<>> => Type'[f] = "tree"
  BY <1>2, <1>3 DEF Searched
<1>16. Puts(dir, e, f)
  BY <1>1, <1>2, <1>3, <1>5, <1>7, <1>8, <1>9, <1>10 DEF Puts
<1>11. /\ Names(e)' /\ e[f] = DirAt(WidgetText, dir, prev)
       /\ \A n \in Placed : /\ e[n] = dir[n] /\ e[n] # Path(WidgetText', e, f)
                            /\ Path(WidgetText', e, n) = Path(WidgetText, dir, n)
  BY ONLY IInv, Names(dir), Searched(dir), <1>16, NamesPut
<1>12. prev' \in Lists(Placed')
  BY <1>3, <1>5 DEF Lists
<1>13. DirAt(WidgetText', e, prev') = Path(WidgetText', e, f)
  BY <1>3, DirFacts
<1>14. Path(WidgetText', e, f) # <<>>
  <2>1. e[f] \in Seq(Texts) /\ Fold[WidgetText'[f]] \in Texts
    BY <1>2, <1>3, <1>6, <1>11, PlaceSearched, TreeAssumption
  <2>. DEFINE d == e[f]
              t == Fold[WidgetText'[f]]
  <2>2. Path(WidgetText', e, f) = Append(d, t)
    BY DEF Path
  <2>. HIDE DEF d, t
  <2>3. d \in Seq(Texts) /\ t \in Texts
    BY <2>1 DEF d, t
  <2>4. Len(Append(d, t)) = Len(d) + 1 /\ Len(d) \in Nat
    BY ONLY <2>3, AppendFacts
  <2>. QED BY <2>2, <2>4
<1>15. Searched(e)'
  BY <1>11, <1>12, <1>13, <1>14, SearchBegins
<1>. QED BY <1>1, <1>2, <1>5, <1>11, <1>15

\* The tweak is put at the end of the list its path has led to.
LEMMA NameInsert ==
  ASSUME IInv, NEW dir, Names(dir), Searched(dir), additemtolist_insert,
         NEW e, e = [dir EXCEPT ![tweak] = DirAt(WidgetText, dir, prev)]
  PROVE  /\ Names(e)' /\ e[tweak] = DirAt(WidgetText, dir, prev)
         /\ Placed' = Placed \cup {tweak} /\ tweak \notin Placed /\ pc' = "build"
         /\ \A n \in Placed : /\ e[n] = dir[n]
                              /\ Path(WidgetText', e, n) = Path(WidgetText, dir, n)
<1>1. PICK f : f = tweak
  OBVIOUS
<1>2. /\ pc = "search" /\ ptr[prev] = NULL /\ rest = <<>> /\ pc' = "build"
      /\ ptr' = [ptr EXCEPT ![prev] = f] /\ tweak' = NULL
      /\ UNCHANGED <<heap, WidgetText, Type>>
  BY <1>1 DEF additemtolist_insert
<1>3. f \in heap /\ f \in Nodes /\ f \notin Placed /\ heap \subseteq Nodes
  BY <1>1, <1>2 DEF IInv, SearchInv, TreeTypeOK, Placed
<1>4. Placed' = Placed \cup {f}
  BY <1>1, <1>2, <1>3, TreeAssumption DEF Placed
<1>5. Fold[WidgetText'[f]] = Fold[Item]
  BY <1>1, <1>2 DEF Item
<1>6. \A n \in Placed : WidgetText'[n] = WidgetText[n] /\ Type'[n] = Type[n]
  BY <1>2
<1>7. \A n \in heap' : WidgetText'[n] \in Texts
  BY <1>2 DEF Names
<1>8. DirAt(WidgetText, dir, prev) = <<>> => Type'[f] = "tree"
  BY <1>2 DEF Searched
<1>10. Puts(dir, e, f)
  BY <1>1, <1>2, <1>3, <1>4, <1>5, <1>6, <1>7, <1>8 DEF Puts
<1>9. /\ Names(e)' /\ e[f] = DirAt(WidgetText, dir, prev)
      /\ \A n \in Placed : /\ e[n] = dir[n] /\ e[n] # Path(WidgetText', e, f)
                           /\ Path(WidgetText', e, n) = Path(WidgetText, dir, n)
  BY ONLY IInv, Names(dir), Searched(dir), <1>10, NamesPut
<1>. QED BY <1>1, <1>2, <1>3, <1>4, <1>9

\* A duplicate leaves without having been in the tree.
LEMMA NameDuplicate ==
  ASSUME IInv, NEW dir, Names(dir), Duplicate
  PROVE  Names(dir)' /\ ptr' = ptr /\ Placed' = Placed /\ pc' = "build"
         /\ \A n \in Placed : WidgetText'[n] = WidgetText[n]
<1>1. /\ pc = "search" /\ pc' = "build" /\ heap' = heap \ {tweak} /\ tweak' = NULL
      /\ ptr' = [ptr EXCEPT ![NextOf(tweak)] = NULL, ![SubOf(tweak)] = NULL]
      /\ tweak \in heap /\ tweak \in Nodes /\ heap \subseteq Nodes
  BY DEF Duplicate, free, IInv, SearchInv, TreeTypeOK
<1>2. \A p \in Places : ptr'[p] = ptr[p]
  BY <1>1, PlaceFacts DEF IInv, TreeTypeOK, BlankInv, Outside
<1>3. ptr' = ptr
  BY <1>1, <1>2 DEF IInv, TreeTypeOK
<1>4. Placed' = Placed
  BY <1>1, TreeAssumption DEF Placed
<1>5. \A n \in Nodes : n # tweak => WidgetText'[n] = WidgetText[n] /\ Type'[n] = Type[n]
  BY DEF Duplicate, free, IInv, TreeTypeOK
<1>6. \A n \in Placed : /\ WidgetText'[n] = WidgetText[n]
                        /\ dir[n] = <<>> => Type'[n] = "tree"
  BY <1>1, <1>5 DEF Names, Placed
<1>7. \A n \in heap' : WidgetText'[n] \in Texts
  BY <1>1, <1>5 DEF Names
<1>8. Names(dir)'
  BY <1>1, <1>3, <1>4, <1>6, <1>7, NamesSame
<1>. QED BY <1>1, <1>3, <1>4, <1>6, <1>8

-----------------------------------------------------------------------------
(* Sorting keeps the paths and comes to an ordered top *)

LEMMA NotTop ==
  ASSUME NEW W, NEW dir, dir \in [Nodes -> Seq(Texts)], NEW n \in Nodes
  PROVE  DirAt(W, dir, SubOf(n)) # <<>>
<1>. DEFINE t == Fold[W[n]]
            d == dir[n]
<1>1. DirAt(W, dir, SubOf(n)) = Append(d, t)
  BY DirFacts DEF Path
<1>2. d \in Seq(Texts \cup {t})
  OBVIOUS
<1>. HIDE DEF d, t
<1>3. Append(d, t) \in Seq(Texts \cup {t}) /\ Len(Append(d, t)) = Len(d) + 1 /\ Len(d) \in Nat
  BY <1>2, AppendFacts
<1>. QED BY <1>1, <1>3

\* Where the loop begins again.
LEMMA TopListAt ==
  ASSUME IInv, stack # <<>>, NEW W, NEW dir, dir \in [Nodes -> Seq(Texts)]
  PROVE  /\ Len(stack) = 1 <=> DirAt(W, dir, TopList) = <<>>
         /\ Len(stack) = 1 => TopList = tweaks
<1>1. CASE Len(stack) = 1
  BY <1>1, DirFacts DEF TopList
<1>2. CASE Len(stack) # 1
  <2>. DEFINE k == Len(stack)
  <2>1. k \in Nat /\ k # 0 /\ k # 1
    BY <1>2 DEF IInv, TreeTypeOK
  <2>2. (\A i \in 1 .. k : stack[i] \in Nodes \cup {NULL}) /\ \A i \in 1 .. k - 1 : stack[i] # NULL
    BY DEF IInv, TreeTypeOK, StackInv
  <2>3. TopList = SubOf(stack[k - 1])
    BY <1>2 DEF TopList
  <2>. HIDE DEF k
  <2>4. k - 1 \in 1 .. k - 1 /\ k - 1 \in 1 .. k
    BY <2>1
  <2>5. stack[k - 1] \in Nodes
    BY <2>2, <2>4
  <2>. QED BY <1>2, <2>3, <2>5, NotTop
<1>. QED BY <1>1, <1>2

LEMMA NamesUnchanged ==
  ASSUME NEW dir, Names(dir), UNCHANGED <<ptr, heap, WidgetText, Type, tweak>>
  PROVE  Names(dir)' /\ Placed' = Placed /\ (TopOrdered(dir)' <=> TopOrdered(dir))
BY DEF Names, Placed, TopOrdered

LEMMA NoneIsPassed ==
  ASSUME prev' = tweaks
  PROVE  \E B \in SUBSET Nodes : Passed(B)'
<1>1. {} \in SUBSET Nodes /\ Passed({})'
  BY PlaceFacts DEF Passed
<1>. QED BY <1>1

LEMMA OrderSwap ==
  ASSUME IInv, NEW dir, Names(dir), Ordered(dir), Swap
  PROVE  Ordered(dir)'
<1>1. PICK a, b, c : /\ Exchanged(ptr, ptr', prev, a, b, c)
                     /\ pc = "sort" /\ pc' = "sort" /\ prev' = TopList
                     /\ UNCHANGED <<heap, WidgetText, Type, tweak, rest, stack>>
  BY SwapExchanges
<1>2. stack # <<>> /\ dir \in [Nodes -> Seq(Texts)]
  BY <1>1 DEF IInv, StackInv, Names
<1>3. /\ Len(stack) = 1 <=> DirAt(WidgetText, dir, prev') = <<>>
      /\ Len(stack) = 1 => prev' = tweaks
  BY <1>1, <1>2, TopListAt
<1>4. Len(stack) = 1 => \E B \in SUBSET Nodes : Passed(B)'
  BY <1>3, NoneIsPassed
<1>5. ASSUME Len(stack) # 1, NEW n \in Placed, dir[n] = <<>>, ptr'[NextOf(n)] # NULL
      PROVE  WidgetText[n] <= WidgetText[ptr'[NextOf(n)]]
  <2>1. TopOrdered(dir) /\ DirAt(WidgetText, dir, prev) # <<>>
    BY <1>1, <1>5 DEF Ordered
  <2>2. /\ prev \in Places /\ a \in Nodes /\ a # NULL /\ ptr[prev] = a /\ b # NULL
        /\ ptr[NextOf(a)] = b
        /\ \A p \in Places : p \notin {prev, NextOf(a), NextOf(b)} => ptr'[p] = ptr[p]
    BY <1>1 DEF Exchanged
  <2>3. dir[a] = DirAt(WidgetText, dir, prev) /\ dir[b] = dir[a] /\ NextOf(a) \in Places
    BY <2>2, PlaceFacts, DirFacts DEF Names
  <2>4. n \in Nodes /\ b \in Nodes
    BY <1>1 DEF IInv, TreeTypeOK, Placed, Exchanged
  <2>5. NextOf(n) \notin {prev, NextOf(a), NextOf(b)} /\ NextOf(n) \in Places
    BY <1>5, <2>1, <2>2, <2>3, <2>4, PlaceFacts, DirFacts
  <2>. QED BY <1>5, <2>1, <2>2, <2>5 DEF TopOrdered
<1>6. Len(stack) # 1 => TopOrdered(dir)'
  BY <1>1, <1>5 DEF TopOrdered, Placed
<1>. QED BY <1>1, <1>3, <1>4, <1>6 DEF Ordered

LEMMA OrderAdvance ==
  ASSUME IInv, NEW dir, Names(dir), Ordered(dir), Advance
  PROVE  Ordered(dir)'
<1>0. PICK a, b : a = ptr[prev] /\ b = ptr[NextOf(a)]
  OBVIOUS
<1>1. /\ pc = "sort" /\ pc' = "sort" /\ prev' = NextOf(a) /\ a # NULL /\ b # NULL
      /\ WidgetText[a] <= WidgetText[b] /\ prev \in Places
      /\ UNCHANGED <<ptr, heap, WidgetText, Type, tweak, rest, stack>>
  BY <1>0 DEF Advance, Comparing, Current, Following, nodes, IInv, TreeTypeOK
<1>2. a \in Nodes /\ dir[a] = DirAt(WidgetText, dir, prev)
  BY <1>0, <1>1, HolderPlaced DEF Names
<1>3. DirAt(WidgetText', dir, prev') = DirAt(WidgetText, dir, prev)
  BY <1>1, <1>2, DirFacts
<1>4. ASSUME NEW B \in SUBSET Nodes, Passed(B) PROVE Passed(B \cup {a})'
  <2>1. prev' # tweaks /\ ptr[tweaks] \in B \cup {a}
    BY <1>0, <1>1, <1>2, <1>4, PlaceFacts DEF Passed
  <2>2. \A n \in Nodes : prev' = NextOf(n) => n \in B \cup {a}
    BY <1>1, <1>2, PlaceFacts
  <2>3. \A n \in B \cup {a} : prev' # NextOf(n) => ptr[NextOf(n)] \in B \cup {a}
    BY <1>0, <1>1, <1>2, <1>4 DEF Passed
  <2>4. \A n \in B \cup {a} : ptr[NextOf(n)] # NULL => WidgetText[n] <= WidgetText[ptr[NextOf(n)]]
    BY <1>0, <1>1, <1>4 DEF Passed
  <2>. QED BY <1>1, <2>1, <2>2, <2>3, <2>4 DEF Passed
<1>5. (\E B \in SUBSET Nodes : Passed(B)) => \E B \in SUBSET Nodes : Passed(B)'
  <2>1. \A B \in SUBSET Nodes : B \cup {a} \in SUBSET Nodes
    BY <1>2
  <2>. QED BY <1>4, <2>1
<1>6. TopOrdered(dir)' <=> TopOrdered(dir)
  BY <1>1, NamesUnchanged
<1>. QED BY <1>1, <1>3, <1>5, <1>6 DEF Ordered

\* After a round of the loop without an exchange the list is in order.
LEMMA OrderSorted ==
  ASSUME IInv, NEW dir, Names(dir), Ordered(dir), Sorted
  PROVE  Ordered(dir)'
<1>1. /\ pc = "sort" /\ pc' = "descend" /\ ~Comparing /\ prev \in Places
      /\ UNCHANGED <<ptr, heap, WidgetText, Type, tweak>>
  BY DEF Sorted, nodes, IInv, TreeTypeOK
<1>2. CASE Len(stack) # 1
  BY <1>1, <1>2, NamesUnchanged DEF Ordered
<1>3. CASE Len(stack) = 1
  <2>. DEFINE a == ptr[prev]
  <2>1. PICK B \in SUBSET Nodes : Passed(B)
    BY <1>1, <1>3 DEF Ordered
  <2>2. a # NULL => ptr[NextOf(a)] = NULL /\ a \in Nodes
    <3>. SUFFICES ASSUME a # NULL PROVE ptr[NextOf(a)] = NULL /\ a \in Nodes
      OBVIOUS
    <3>1. a \in Placed /\ a \in Nodes /\ dir[a] = <<>>
      BY <1>1, <1>3, HolderPlaced DEF Names, Ordered
    <3>2. Type[a] = "tree"
      BY <3>1 DEF Names
    <3>. QED BY <1>1, <3>1, <3>2 DEF Comparing, Current, Following
  <2>. DEFINE S == IF a = NULL THEN B ELSE B \cup {a}
  <2>3. S \in SUBSET Nodes
    BY <2>2
  <2>4. Into(ptr[tweaks], S)
    BY <2>1 DEF Into, Passed
  <2>5. \A n \in S : Into(ptr[NextOf(n)], S)
    BY <2>1, <2>2 DEF Into, Passed
  <2>6. \A n \in S : ptr[NextOf(n)] # NULL => WidgetText[n] <= WidgetText[ptr[NextOf(n)]]
    BY <2>1, <2>2 DEF Passed
  <2>. HIDE DEF S, a
  <2>7. ASSUME NEW n \in Placed, dir[n] = <<>> PROVE n \in S
    <3>1. tweaks \in Lists(Placed) /\ DirAt(WidgetText, dir, tweaks) = <<>>
      BY DirFacts DEF Lists
    <3>2. InList(ptr, tweaks, n)
      BY <2>7, <3>1 DEF Names
    <3>. QED BY <2>3, <2>4, <2>5, <3>2 DEF InList, Linked
  <2>8. TopOrdered(dir)
    BY <2>6, <2>7 DEF TopOrdered
  <2>. QED BY <1>1, <2>8, NamesUnchanged DEF Ordered
<1>. QED BY <1>2, <1>3

LEMMA OrderSort ==
  ASSUME IInv, NEW dir, Names(dir), Ordered(dir), sort_tweak_list \/ Sort
  PROVE  Names(dir)' /\ Ordered(dir)' /\ pc' # "search" /\ Placed' = Placed
         /\ WidgetText' = WidgetText
<1>0. dir \in [Nodes -> Seq(Texts)]
  BY DEF Names
<1>1. CASE sort_tweak_list
  <2>1. /\ pc' = "sort" /\ prev' = tweaks /\ Len(stack') = 1
        /\ UNCHANGED <<ptr, heap, WidgetText, Type, tweak>>
    BY <1>1 DEF sort_tweak_list, nodes
  <2>2. DirAt(WidgetText', dir, prev') = <<>> /\ \E B \in SUBSET Nodes : Passed(B)'
    BY <2>1, DirFacts, NoneIsPassed
  <2>. QED BY <2>1, <2>2, NamesUnchanged DEF Ordered
<1>2. CASE Swap
  <2>1. pc' = "sort" /\ UNCHANGED <<heap, WidgetText, tweak>>
    BY <1>2 DEF Swap
  <2>. QED BY <1>2, <2>1, NamesSwap, OrderSwap DEF Placed
<1>3. CASE Advance
  <2>1. pc' = "sort" /\ UNCHANGED <<ptr, heap, WidgetText, Type, tweak>>
    BY <1>3 DEF Advance, nodes
  <2>. QED BY <1>3, <2>1, NamesUnchanged, OrderAdvance
<1>4. CASE Sorted
  <2>1. pc' = "descend" /\ UNCHANGED <<ptr, heap, WidgetText, Type, tweak>>
    BY <1>4 DEF Sorted, nodes
  <2>. QED BY <1>4, <2>1, NamesUnchanged, OrderSorted
<1>5. CASE SortSub
  <2>1. /\ pc = "descend" /\ UNCHANGED <<ptr, heap, WidgetText, Type, tweak>> /\ Top # NULL
        /\ pc' = "descend" \/ (pc' = "sort" /\ prev' = SubOf(Top) /\ stack' = Append(stack, ptr[SubOf(Top)]))
    BY <1>5 DEF SortSub, nodes, Call
  <2>2. stack # <<>> /\ stack \in Seq(Nodes \cup {NULL})
    BY <2>1 DEF IInv, StackInv, TreeTypeOK
  <2>3. Top \in Nodes
    BY <2>1, <2>2, FrontFacts DEF Top
  <2>4. ptr[SubOf(Top)] \in Nodes \cup {NULL}
    BY <2>3, PlaceFacts DEF IInv, TreeTypeOK
  <2>5. DirAt(WidgetText', dir, SubOf(Top)) # <<>>
    BY <1>0, <2>3, NotTop
  <2>6. pc' = "sort" => Len(stack') # 1
    <3>1. Len(stack) \in Nat /\ Len(stack) # 0
      BY <2>2, FrontFacts
    <3>2. Len(Append(stack, ptr[SubOf(Top)])) = Len(stack) + 1
      BY <2>2, <2>4, AppendFacts
    <3>. QED BY <2>1, <3>1, <3>2
  <2>7. TopOrdered(dir)' /\ Names(dir)' /\ Placed' = Placed
    BY <2>1, NamesUnchanged DEF Ordered
  <2>8. Ordered(dir)'
    BY <2>1, <2>5, <2>6, <2>7 DEF Ordered
  <2>. QED BY <2>1, <2>7, <2>8
<1>6. CASE SortReturn
  <2>1. /\ pc = "descend" /\ pc' \in {"descend", "gone", "serving"}
        /\ UNCHANGED <<ptr, heap, WidgetText, Type, tweak>>
    BY <1>6 DEF SortReturn, nodes
  <2>. QED BY <2>1, NamesUnchanged DEF Ordered
<1>. QED BY <1>1, <1>2, <1>3, <1>4, <1>5, <1>6 DEF Sort

\* When the tree is gone every node may be said to be at the top.
LEMMA NamesGone ==
  ASSUME IInv', LostInv', pc' \in {"build", "gone"}, ptr'[tweaks] = NULL, NEW dir,
         dir \in [Nodes -> Seq(Texts)]
  PROVE  Names(dir)' /\ Placed' = {}
<1>1. tweak' = NULL
  BY DEF IInv, SearchInv
<1>2. {} \in SUBSET Nodes /\ Into(ptr'[tweaks], {}) /\ Closed({})'
  BY DEF Into, Closed
<1>3. Placed' = {}
  BY <1>2 DEF LostInv, ReachInv, Placed
<1>4. heap' = {}
  BY <1>1, <1>3, TreeAssumption DEF Placed, IInv, TreeTypeOK
<1>5. \A p \in Places : ptr'[p] = NULL
  BY <1>4 DEF IInv, TargetInv
<1>. QED BY <1>3, <1>4, <1>5 DEF Names

-----------------------------------------------------------------------------
(* Every step has its paths *)

LEMMA NameInit == TreeInit => NameInv
<1>. SUFFICES ASSUME TreeInit PROVE NameInv
  OBVIOUS
<1>. DEFINE dir == [n \in Nodes |-> <<>>]
<1>1. dir \in [Nodes -> Seq(Texts)]
  BY EmptySeq
<1>. HIDE DEF dir
<1>2. Placed = {} /\ heap = {} /\ (\A p \in Places : ptr[p] = NULL) /\ pc = "build"
  BY DEF TreeInit, Placed
<1>3. Names(dir) /\ Searched(dir) /\ Ordered(dir)
  BY <1>1, <1>2 DEF Names, Searched, Ordered
<1>. QED BY <1>3 DEF NameInv

LEMMA NameStutter ==
  ASSUME NameInv, UNCHANGED treeVars
  PROVE  NameInv'
<1>1. UNCHANGED <<pc, ptr, heap, WidgetText, Type, tweak, rest, prev, stack>>
  BY DEF treeVars, nodes
<1>. SUFFICES ASSUME pc # "destroy" PROVE NameInv'
  BY <1>1 DEF NameInv
<1>2. PICK dir : Names(dir) /\ Searched(dir) /\ Ordered(dir)
  BY DEF NameInv
<1>3. Names(dir)' /\ (TopOrdered(dir)' <=> TopOrdered(dir)) /\ Placed' = Placed
  BY <1>1, <1>2, NamesUnchanged
<1>4. \A n : Matches(n)' <=> Matches(n)
  BY <1>1 DEF Matches, Item
<1>5. Searched(dir)'
  BY <1>1, <1>2, <1>3, <1>4 DEF Searched
<1>6. \A B : Passed(B)' <=> Passed(B)
  BY <1>1 DEF Passed
<1>7. Ordered(dir)'
  BY <1>1, <1>2, <1>3, <1>6 DEF Ordered
<1>. QED BY <1>3, <1>5, <1>7 DEF NameInv

LEMMA NameSearch ==
  ASSUME IInv, NEW dir, Names(dir), Searched(dir), Search
  PROVE  \E e : Names(e)' /\ Searched(e)' /\ pc' \in {"search", "build"}
<1>1. CASE Walk
  <2>1. pc' = "search"
    BY <1>1 DEF Walk
  <2>. QED BY <1>1, <2>1, NameWalk
<1>2. CASE Enter
  <2>1. pc' = "search"
    BY <1>2 DEF Enter
  <2>. QED BY <1>2, <2>1, NameEnter
<1>3. CASE additemtolist_create
  <2>1. pc' = "search"
    BY <1>3 DEF additemtolist_create
  <2>2. PICK e : e = [dir EXCEPT ![Fresh] = DirAt(WidgetText, dir, prev)]
    OBVIOUS
  <2>3. Names(e)' /\ Searched(e)'
    BY <1>3, <2>2, NameCreate
  <2>. QED BY <2>1, <2>3
<1>4. CASE additemtolist_insert
  <2>1. PICK e : e = [dir EXCEPT ![tweak] = DirAt(WidgetText, dir, prev)]
    OBVIOUS
  <2>2. Names(e)' /\ pc' = "build"
    BY <1>4, <2>1, NameInsert
  <2>. QED BY <2>2 DEF Searched
<1>5. CASE Duplicate
  BY <1>5, NameDuplicate DEF Searched
<1>. QED BY <1>1, <1>2, <1>3, <1>4, <1>5 DEF Search

LEMMA NameNext == IInv /\ LostInv /\ NameInv /\ [TreeNext]_treeVars => NameInv'
<1>. SUFFICES ASSUME IInv, LostInv, NameInv, [TreeNext]_treeVars PROVE NameInv'
  OBVIOUS
<1>1. CASE UNCHANGED treeVars
  BY <1>1, NameStutter
<1>2. CASE Register
  <2>1. pc # "destroy"
    BY <1>2 DEF Register, RegisterTweak
  <2>2. PICK dir : Names(dir)
    BY <2>1 DEF NameInv
  <2>3. Names(dir)' /\ Searched(dir)' /\ pc' = "search"
    BY <1>2, <2>2, NameRegister
  <2>. QED BY <2>3 DEF NameInv, Ordered
<1>3. CASE Search
  <2>1. pc # "destroy"
    BY <1>3 DEF Search, Walk, Enter, additemtolist_create, additemtolist_insert, Duplicate
  <2>2. PICK dir : Names(dir) /\ Searched(dir)
    BY <2>1 DEF NameInv
  <2>3. PICK e : Names(e)' /\ Searched(e)' /\ pc' \in {"search", "build"}
    BY <1>3, <2>2, NameSearch
  <2>. QED BY <2>3 DEF NameInv, Ordered
<1>4. CASE sort_tweak_list \/ Sort
  <2>1. pc # "destroy"
    BY <1>4 DEF sort_tweak_list, Sort, Swap, Advance, Sorted, SortSub, SortReturn
  <2>2. PICK dir : Names(dir) /\ Ordered(dir)
    BY <2>1 DEF NameInv
  <2>3. Names(dir)' /\ Ordered(dir)' /\ pc' # "search"
    BY <1>4, <2>2, OrderSort
  <2>. QED BY <2>3 DEF NameInv, Searched
<1>5. CASE DestroySub \/ DestroyLeaf \/ DestroyReturn \/ DestroyAllTweaks
  BY <1>5 DEF DestroySub, DestroyLeaf, DestroyReturn, DestroyAllTweaks, NameInv
<1>6. CASE Destroyed
  <2>1. pc' \in {"build", "gone"} /\ ptr'[tweaks] = NULL
    BY <1>6, PlaceFacts DEF Destroyed, IInv, TreeTypeOK
  <2>2. IInv' /\ LostInv'
    BY InvNext, LostNext
  <2>3. PICK dir : dir = [n \in Nodes |-> <<>>]
    OBVIOUS
  <2>4. dir \in [Nodes -> Seq(Texts)]
    BY <2>3, EmptySeq
  <2>5. Names(dir)'
    BY <2>1, <2>2, <2>4, NamesGone
  <2>. QED BY <2>1, <2>5 DEF NameInv, Searched, Ordered
<1>. QED BY <1>1, <1>2, <1>3, <1>4, <1>5, <1>6 DEF TreeNext, TreeStep, Destroy

LEMMA NameInvariance == Spec => [](IInv /\ LostInv /\ NameInv)
<1>1. Init => NameInv
  BY NameInit DEF Init
<1>2. IInv /\ LostInv /\ NameInv /\ [Next]_vars => NameInv'
  BY NameNext, WireStep
<1>. QED BY <1>1, <1>2, LostInvariance, PTL DEF Spec

-----------------------------------------------------------------------------
(* The list of a place *)

Listing(T) == (UNION {{n, ptr[NextOf(n)]} : n \in T}) \ {NULL}

LEMMA ListingMember ==
  ASSUME NEW T, NEW x
  PROVE  x \in Listing(T) <=> x # NULL /\ \E n \in T : x = n \/ x = ptr[NextOf(n)]
<1>. DEFINE R(n) == {n, ptr[NextOf(n)]}
            U == UNION {R(n) : n \in T}
<1>1. \A n : x \in R(n) <=> x = n \/ x = ptr[NextOf(n)]
  OBVIOUS
<1>2. Listing(T) = U \ {NULL}
  BY DEF Listing
<1>. HIDE DEF R
<1>3. x \in U <=> \E n \in T : x \in R(n)
  OBVIOUS
<1>. HIDE DEF U
<1>. QED BY <1>1, <1>2, <1>3

Listed == [T \in SUBSET Nodes |-> Listing(T)]

LEMMA ListedType ==
  ASSUME TreeTypeOK
  PROVE  /\ Listed \in [SUBSET Nodes -> SUBSET Nodes] /\ Adds(Listed, Nodes)
         /\ \A T \in SUBSET Nodes : Listed[T] = Listing(T)
<1>1. \A n \in Nodes : ptr[NextOf(n)] \in Nodes \cup {NULL}
  BY PlaceFacts DEF TreeTypeOK
<1>2. \A T \in SUBSET Nodes : \A x \in Listing(T) : x \in Nodes
  BY <1>1, ListingMember
<1>3. \A T \in SUBSET Nodes : \A x \in T : x \in Listing(T)
  BY ListingMember, TreeAssumption
<1>. QED BY <1>2, <1>3 DEF Listed, Adds

LEMMA ListComputed ==
  ASSUME TreeTypeOK, NEW p \in Places
  PROVE  \E g : Computes(g, 0, Cardinality(Nodes), {ptr[p]} \ {NULL}, Listed)
                /\ List(p) = g[Cardinality(Nodes)]
<1>. DEFINE c == Cardinality(Nodes)
            A == {ptr[p]} \ {NULL}
            Raw(f) == f = [k \in 0 .. c |-> IF k = 0 THEN A ELSE Listing(f[k - 1])]
            f == CHOOSE f : Raw(f)
<1>1. c \in Nat /\ 0 \in 0 .. c /\ A \in SUBSET Nodes
  BY FS_CardinalityType, TreeAssumption DEF TreeTypeOK
<1>2. List(p) = f[c]
  BY DEF List, Listing
<1>. HIDE DEF c, A
<1>3. PICK g : Computes(g, 0, c, A, Listed)
  BY <1>1, ListedType, ComputesExists
<1>4. Raw(g)
  <2>1. g \in [0 .. c -> SUBSET Nodes] /\ \A k \in 0 .. c : k # 0 => k - 1 \in 0 .. c
    BY <1>1, <1>3, ListedType, ComputedIn
  <2>2. \A k \in 0 .. c : k # 0 => Listed[g[k - 1]] = Listing(g[k - 1])
    BY <2>1, ListedType
  <2>. QED BY <1>3, <2>2 DEF Computes
<1>5. Raw(f)
  BY <1>4
<1>. HIDE DEF f
<1>6. \A k \in 0 .. c : f[k] \in SUBSET Nodes
  <2>. DEFINE T == {k \in 0 .. c : f[k] \in SUBSET Nodes}
  <2>1. 0 \in T
    BY <1>1, <1>5
  <2>2. ASSUME NEW k \in 0 .. c, k \in T, k # c PROVE k + 1 \in T
    <3>1. k + 1 \in 0 .. c /\ k + 1 # 0 /\ (k + 1) - 1 = k
      BY <1>1, <2>2
    <3>2. f[k + 1] = Listing(f[k])
      BY <1>5, <3>1
    <3>. QED BY <2>2, <3>1, <3>2, ListedType
  <2>3. 0 .. c \subseteq T
    <3>. HIDE DEF T
    <3>. QED BY <1>1, <2>1, <2>2, CountUp
  <2>. QED BY <2>3
<1>7. Computes(f, 0, c, A, Listed)
  <2>1. \A k \in 0 .. c : k # 0 => k - 1 \in 0 .. c
    BY <1>1
  <2>2. \A k \in 0 .. c : k # 0 => Listed[f[k - 1]] = Listing(f[k - 1])
    BY <1>6, <2>1, ListedType
  <2>. QED BY <1>5, <2>2 DEF Computes
<1>. QED BY <1>2, <1>7 DEF c, A

\* List(p) is the smallest linked set place p leads into.
LEMMA ListIsLeast ==
  ASSUME TreeTypeOK, NEW p \in Places
  PROVE  /\ List(p) \in SUBSET Nodes /\ Into(ptr[p], List(p)) /\ Linked(ptr, List(p))
         /\ \A D : Into(ptr[p], D) /\ Linked(ptr, D) => List(p) \subseteq D
<1>. DEFINE A == {ptr[p]} \ {NULL}
            G == Listed
            c == Cardinality(Nodes)
<1>1. A \in SUBSET Nodes /\ IsFiniteSet(Nodes)
  BY TreeAssumption DEF TreeTypeOK
<1>2. Adds(G, Nodes) /\ \A T \in SUBSET Nodes : G[T] = Listing(T)
  BY ListedType
<1>3. PICK g : Computes(g, 0, Cardinality(Nodes), A, G) /\ List(p) = g[Cardinality(Nodes)]
  BY ListComputed
<1>. HIDE DEF G, A
<1>. DEFINE F == g[Cardinality(Nodes)]
<1>4. /\ F \in SUBSET Nodes /\ A \subseteq F /\ G[F] = F
      /\ \A D : A \subseteq D /\ Keeps(G, Nodes, D) => F \subseteq D
  <2>. HIDE DEF F
  <2>1. Adds(G, Nodes) /\ Computes(g, 0, Cardinality(Nodes), A, G)
    BY <1>2, <1>3
  <2>2. /\ g[Cardinality(Nodes)] \in SUBSET Nodes /\ A \subseteq g[Cardinality(Nodes)]
        /\ G[g[Cardinality(Nodes)]] = g[Cardinality(Nodes)]
        /\ \A D : A \subseteq D /\ Keeps(G, Nodes, D) => g[Cardinality(Nodes)] \subseteq D
    BY <1>1, <2>1, Closure
  <2>. QED BY <2>2 DEF F
<1>. HIDE DEF F
<1>5. List(p) = F
  BY <1>3 DEF F
<1>6. Into(ptr[p], F)
  BY <1>4 DEF Into, A
<1>7. ASSUME NEW n \in F PROVE Into(ptr[NextOf(n)], F)
  <2>. SUFFICES ASSUME ptr[NextOf(n)] # NULL PROVE ptr[NextOf(n)] \in F
    BY DEF Into
  <2>1. ptr[NextOf(n)] \in G[F]
    BY <1>2, <1>4, ListingMember
  <2>. QED BY <1>4, <2>1
<1>8. ASSUME NEW D, Into(ptr[p], D), Linked(ptr, D)
      PROVE  F \subseteq D
  <2>1. A \subseteq D
    BY <1>8 DEF A, Into
  <2>2. ASSUME NEW T \in SUBSET Nodes, T \subseteq D PROVE G[T] \subseteq D
    BY <1>2, <1>8, <2>2, ListingMember DEF Linked, Into
  <2>3. Keeps(G, Nodes, D)
    BY <2>2 DEF Keeps
  <2>. QED BY <1>4, <2>1, <2>3
<1>9. Linked(ptr, F)
  BY <1>7 DEF Linked
<1>. QED BY <1>4, <1>5, <1>6, <1>8, <1>9

\* A list is what has its path.
LEMMA ListHasItsPath ==
  ASSUME IInv, pc # "destroy", NEW dir, Names(dir), NEW p \in Lists(Placed)
  PROVE  List(p) = {n \in Placed : dir[n] = DirAt(WidgetText, dir, p)}
<1>. DEFINE D == {n \in Placed : dir[n] = DirAt(WidgetText, dir, p)}
<1>1. p \in Places /\ TreeTypeOK /\ Placed \in SUBSET Nodes
  BY PlaceFacts DEF Lists, Placed, IInv, TreeTypeOK
<1>2. /\ List(p) \in SUBSET Nodes /\ Into(ptr[p], List(p)) /\ Linked(ptr, List(p))
      /\ \A S : Into(ptr[p], S) /\ Linked(ptr, S) => List(p) \subseteq S
  BY <1>1, ListIsLeast
<1>3. Into(ptr[p], D)
  BY <1>1, HolderPlaced DEF Into, Names
<1>4. ASSUME NEW n \in D, ptr[NextOf(n)] # NULL PROVE ptr[NextOf(n)] \in D
  <2>1. NextOf(n) \in Places
    BY <1>1, PlaceFacts
  <2>2. ptr[NextOf(n)] \in Placed /\ dir[ptr[NextOf(n)]] = DirAt(WidgetText, dir, NextOf(n))
    BY <1>4, <2>1, HolderPlaced DEF Names
  <2>3. DirAt(WidgetText, dir, NextOf(n)) = dir[n]
    BY DirFacts
  <2>. QED BY <2>2, <2>3
<1>5. Linked(ptr, D)
  BY <1>4 DEF Linked, Into
<1>6. \A n \in D : n \in List(p)
  BY <1>2 DEF Names, InList
<1>. QED BY <1>2, <1>3, <1>5, <1>6

\* Once sort_tweak_list has sorted its list the top of the tree is in the order
\* of strcmp, and stays so while it sorts what is below and the process serves.
THEOREM TopLevelInOrderAlways == Spec => []TopLevelInOrder
<1>1. IInv /\ NameInv => TopLevelInOrder
  <2>. SUFFICES ASSUME IInv, NameInv, pc \in {"descend", "serving"} PROVE InOrder(tweaks)
    BY DEF TopLevelInOrder
  <2>1. PICK dir : Names(dir) /\ TopOrdered(dir)
    BY DEF NameInv, Ordered
  <2>2. List(tweaks) = {n \in Placed : dir[n] = <<>>}
    BY <2>1, ListHasItsPath, DirFacts DEF Lists
  <2>3. ASSUME NEW n \in List(tweaks), NEW m, m = ptr[NextOf(n)], m # NULL
        PROVE  WidgetText[n] < WidgetText[m]
    <3>1. n \in Placed /\ n \in Nodes /\ dir[n] = <<>> /\ NextOf(n) \in Places
      BY <2>2, PlaceFacts DEF Placed, IInv, TreeTypeOK
    <3>2. m \in Placed /\ m \in Nodes /\ dir[m] = dir[n]
      BY <2>1, <2>3, <3>1, HolderPlaced, DirFacts DEF Names
    <3>3. WidgetText[n] \in Texts /\ WidgetText[m] \in Texts
      BY <2>1, <3>1, <3>2 DEF Names, Placed
    <3>4. WidgetText[n] <= WidgetText[m]
      BY <2>1, <2>3, <3>1 DEF TopOrdered
    <3>5. n # m
      BY <2>3, <3>1 DEF IInv, AheadInv
    <3>6. WidgetText[n] # WidgetText[m]
      <4>1. Path(WidgetText, dir, n) # Path(WidgetText, dir, m)
        BY <2>1, <3>1, <3>2, <3>5 DEF Names
      <4>. QED BY <3>2, <4>1 DEF Path
    <3>7. WidgetText[n] \in Nat /\ WidgetText[m] \in Nat
      BY <3>3, TreeAssumption
    <3>. QED BY <3>4, <3>6, <3>7
  <2>. QED BY <2>3 DEF InOrder
<1>. QED BY <1>1, NameInvariance, PTL

-----------------------------------------------------------------------------
(* The catalogue *)

Entry(W, dir, n) == [path |-> Path(W, dir, n), node |-> n]

\* The entries of the nodes of H down to depth k.
EntriesTo(W, dir, H, k) == {Entry(W, dir, n) : n \in {m \in H : Len(dir[m]) < k}}

\* The entries of the nodes at depth k.
AtDepth(W, dir, H, k) == {Entry(W, dir, n) : n \in {m \in H : Len(dir[m]) = k - 1}}

\* The entries one level below those of T.
Lower(T) ==
  UNION {{[path |-> Append(e.path, Fold[WidgetText[n]]), node |-> n] : n \in List(SubOf(e.node))} : e \in T}

LEMMA LowerMember ==
  ASSUME NEW T, NEW x
  PROVE  x \in Lower(T)
           <=> \E e \in T : \E n \in List(SubOf(e.node)) :
                 x = [path |-> Append(e.path, Fold[WidgetText[n]]), node |-> n]
<1>. DEFINE R(e) == {[path |-> Append(e.path, Fold[WidgetText[n]]), node |-> n] : n \in List(SubOf(e.node))}
            U == UNION {R(e) : e \in T}
<1>1. \A e : x \in R(e) <=> \E n \in List(SubOf(e.node)) :
                              x = [path |-> Append(e.path, Fold[WidgetText[n]]), node |-> n]
  OBVIOUS
<1>2. Lower(T) = U
  BY DEF Lower
<1>. HIDE DEF R
<1>3. x \in U <=> \E e \in T : x \in R(e)
  OBVIOUS
<1>. HIDE DEF U
<1>. QED BY <1>1, <1>2, <1>3

LEMMA TopEntries ==
  ASSUME IInv, pc # "destroy", NEW dir, Names(dir)
  PROVE  {[path |-> Append(<<>>, Fold[WidgetText[n]]), node |-> n] : n \in List(tweaks)}
           = AtDepth(WidgetText, dir, Placed, 1)
<1>1. List(tweaks) = {n \in Placed : dir[n] = <<>>}
  BY ListHasItsPath, DirFacts DEF Lists
<1>2. \A n \in Placed : Len(dir[n]) = 1 - 1 <=> dir[n] = <<>>
  <2>. SUFFICES ASSUME NEW n \in Placed PROVE Len(dir[n]) = 0 <=> dir[n] = <<>>
    OBVIOUS
  <2>1. dir[n] \in Seq(Texts)
    BY PathFacts
  <2>. QED BY <2>1, EmptySeq
<1>3. {m \in Placed : Len(dir[m]) = 1 - 1} = List(tweaks)
  BY <1>1, <1>2
<1>4. \A n \in List(tweaks) : Entry(WidgetText, dir, n) = [path |-> Append(<<>>, Fold[WidgetText[n]]), node |-> n]
  BY <1>1 DEF Entry, Path
<1>. QED BY <1>3, <1>4 DEF AtDepth

LEMMA LowerEntries ==
  ASSUME IInv, pc # "destroy", NEW dir, Names(dir), NEW k \in Nat
  PROVE  Lower(AtDepth(WidgetText, dir, Placed, k + 1)) = AtDepth(WidgetText, dir, Placed, k + 2)
<1>. DEFINE T == AtDepth(WidgetText, dir, Placed, k + 1)
            U == AtDepth(WidgetText, dir, Placed, k + 2)
\* A node in the Sub list of m.
<1>1. ASSUME NEW m \in Placed, NEW n \in Placed, dir[n] = Path(WidgetText, dir, m)
      PROVE  /\ n \in List(SubOf(m)) /\ Len(dir[n]) = Len(dir[m]) + 1 /\ Len(dir[m]) \in Nat
             /\ Entry(WidgetText, dir, n)
                  = [path |-> Append(Entry(WidgetText, dir, m).path, Fold[WidgetText[n]]), node |-> n]
             /\ Entry(WidgetText, dir, m).node = m
  <2>1. List(SubOf(m)) = {i \in Placed : dir[i] = DirAt(WidgetText, dir, SubOf(m))}
    BY ListHasItsPath DEF Lists
  <2>2. DirAt(WidgetText, dir, SubOf(m)) = Path(WidgetText, dir, m)
    BY DirFacts
  <2>3. n \in List(SubOf(m))
    BY <1>1, <2>1, <2>2
  <2>4. Len(dir[n]) = Len(dir[m]) + 1 /\ Len(dir[m]) \in Nat
    BY <1>1, PathFacts
  <2>5. /\ Entry(WidgetText, dir, m).path = dir[n] /\ Entry(WidgetText, dir, m).node = m
    BY <1>1 DEF Entry
  <2>6. Path(WidgetText, dir, n) = Append(dir[n], Fold[WidgetText[n]])
    BY DEF Path
  <2>. QED BY <2>3, <2>4, <2>5, <2>6 DEF Entry
<1>2. ASSUME NEW x \in Lower(T) PROVE x \in U
  <2>1. PICK e \in T : \E n \in List(SubOf(e.node)) :
                         x = [path |-> Append(e.path, Fold[WidgetText[n]]), node |-> n]
    BY <1>2, LowerMember
  <2>2. PICK m \in Placed : Len(dir[m]) = k /\ e = Entry(WidgetText, dir, m)
    BY <2>1 DEF AtDepth
  <2>3. e.node = m
    BY <2>2 DEF Entry
  <2>4. PICK n \in List(SubOf(m)) : x = [path |-> Append(e.path, Fold[WidgetText[n]]), node |-> n]
    BY <2>1, <2>3
  <2>5. n \in Placed /\ dir[n] = Path(WidgetText, dir, m)
    <3>1. SubOf(m) \in Lists(Placed) /\ DirAt(WidgetText, dir, SubOf(m)) = Path(WidgetText, dir, m)
      BY DirFacts DEF Lists
    <3>. QED BY <2>4, <3>1, ListHasItsPath
  <2>6. x = Entry(WidgetText, dir, n) /\ Len(dir[n]) = k + 1
    BY <1>1, <2>2, <2>4, <2>5
  <2>. QED BY <2>5, <2>6 DEF AtDepth
<1>3. ASSUME NEW x \in U PROVE x \in Lower(T)
  <2>1. PICK n \in Placed : Len(dir[n]) = k + 1 /\ x = Entry(WidgetText, dir, n)
    BY <1>3 DEF AtDepth
  <2>2. PICK p \in Lists(Placed) : dir[n] = DirAt(WidgetText, dir, p)
    BY DEF Names
  <2>3. p # tweaks
    <3>1. Len(<<>>) = 0
      BY EmptySeq
    <3>. QED BY <2>1, <2>2, <3>1, DirFacts
  <2>4. PICK m \in Placed : p = SubOf(m)
    BY <2>3 DEF Lists
  <2>5. dir[n] = Path(WidgetText, dir, m)
    BY <2>2, <2>4, DirFacts
  <2>6. Len(dir[m]) = k
    BY <1>1, <2>1, <2>5
  <2>7. Entry(WidgetText, dir, m) \in T
    BY <2>6 DEF AtDepth
  <2>8. \E e \in T : \E i \in List(SubOf(e.node)) : x = [path |-> Append(e.path, Fold[WidgetText[i]]), node |-> i]
    BY <1>1, <2>1, <2>5, <2>7
  <2>. QED BY <2>8, LowerMember
<1>. QED BY <1>2, <1>3

\* What Entries computes is the entries of the nodes of the tree.
EntriesAre ==
  \A dir : IInv /\ pc # "destroy" /\ Names(dir) => Entries = EntriesTo(WidgetText, dir, Placed, Depth)

LEMMA EntriesNow == EntriesAre
<1>. SUFFICES ASSUME NEW dir, IInv, pc # "destroy", Names(dir)
              PROVE  Entries = EntriesTo(WidgetText, dir, Placed, Depth)
  BY DEF EntriesAre
<1>. DEFINE first == {[path |-> Append(<<>>, Fold[WidgetText[n]]), node |-> n] : n \in List(tweaks)}
            Raw(f) == f = [k \in 1 .. Depth |-> IF k = 1 THEN first ELSE Lower(f[k - 1])]
            level == CHOOSE f : Raw(f)
            at(k) == AtDepth(WidgetText, dir, Placed, k)
<1>1. Entries = UNION {level[k] : k \in 1 .. Depth}
  BY DEF Entries, Lower
<1>2. first = at(1)
  BY TopEntries
<1>3. ASSUME NEW k \in 1 .. Depth, k # 1 PROVE at(k) = Lower(at(k - 1)) /\ k - 1 \in 1 .. Depth
  <2>1. k - 2 \in Nat /\ (k - 2) + 1 = k - 1 /\ (k - 2) + 2 = k /\ k - 1 \in 1 .. Depth
    BY <1>3 DEF Depth
  <2>2. Lower(at((k - 2) + 1)) = at((k - 2) + 2)
    BY <2>1, LowerEntries
  <2>. QED BY <2>1, <2>2
<1>. HIDE DEF first, at
<1>4. Raw([k \in 1 .. Depth |-> at(k)])
  <2>. DEFINE g == [k \in 1 .. Depth |-> at(k)]
  <2>1. \A k \in 1 .. Depth : g[k] = at(k)
    OBVIOUS
  <2>. HIDE DEF g
  <2>2. \A k \in 1 .. Depth : at(k) = IF k = 1 THEN first ELSE Lower(g[k - 1])
    BY <1>2, <1>3, <2>1
  <2>. QED BY <2>2 DEF g
<1>5. Raw(level)
  BY <1>4
<1>. HIDE DEF level
<1>6. \A k \in 1 .. Depth : level[k] = at(k)
  <2>. DEFINE S == {k \in 1 .. Depth : level[k] = at(k)}
  <2>1. 1 \in S
    BY <1>2, <1>5 DEF Depth
  <2>2. ASSUME NEW k \in 1 .. Depth, k \in S, k # Depth PROVE k + 1 \in S
    <3>1. k + 1 \in 1 .. Depth /\ k + 1 # 1 /\ (k + 1) - 1 = k
      BY <2>2 DEF Depth
    <3>. QED BY <1>3, <1>5, <2>2, <3>1
  <2>3. 1 .. Depth \subseteq S
    <3>. HIDE DEF S
    <3>1. Depth \in Nat /\ 1 \in 0 .. Depth
      BY DEF Depth
    <3>. QED BY <2>1, <2>2, <3>1, CountUp
  <2>. QED BY <2>3
<1>7. ASSUME NEW x PROVE x \in Entries <=> \E k \in 1 .. Depth : x \in at(k)
  BY <1>1, <1>6
<1>8. ASSUME NEW x
      PROVE  (\E k \in 1 .. Depth : x \in at(k)) <=> x \in EntriesTo(WidgetText, dir, Placed, Depth)
  <2>1. \A n \in Placed : Len(dir[n]) \in Nat
    BY PathFacts
  <2>2. \A l \in Nat : l < Depth <=> \E k \in 1 .. Depth : l = k - 1
    <3>. SUFFICES ASSUME NEW l \in Nat PROVE l < Depth <=> \E k \in 1 .. Depth : l = k - 1
      OBVIOUS
    <3>1. l < Depth => l + 1 \in 1 .. Depth /\ l = (l + 1) - 1
      BY DEF Depth
    <3>2. (\E k \in 1 .. Depth : l = k - 1) => l < Depth
      BY DEF Depth
    <3>. QED BY <3>1, <3>2
  <2>3. \A k \in 1 .. Depth : x \in at(k) <=> \E n \in Placed : Len(dir[n]) = k - 1 /\ x = Entry(WidgetText, dir, n)
    BY DEF at, AtDepth
  <2>4. x \in EntriesTo(WidgetText, dir, Placed, Depth)
          <=> \E n \in Placed : Len(dir[n]) < Depth /\ x = Entry(WidgetText, dir, n)
    BY DEF EntriesTo
  <2>. QED BY <2>1, <2>2, <2>3, <2>4
<1>. QED BY <1>7, <1>8

LEMMA EntriesNext == EntriesAre'
BY EntriesNow, PTL

-----------------------------------------------------------------------------
(* Every step is one of the catalogue *)

InCatalogue == IF pc = "destroy" THEN {} ELSE Entries

LEMMA EntriesBefore ==
  ASSUME IInv, pc # "destroy", NEW dir, Names(dir), NEW x
  PROVE  x \in Entries <=> \E n \in Placed : Len(dir[n]) < Depth /\ x = Entry(WidgetText, dir, n)
<1>1. Entries = EntriesTo(WidgetText, dir, Placed, Depth)
  BY EntriesNow DEF EntriesAre
<1>. QED BY <1>1 DEF EntriesTo

LEMMA EntriesAfter ==
  ASSUME IInv', pc' # "destroy", NEW dir, Names(dir)', NEW x
  PROVE  x \in Entries' <=> \E n \in Placed' : Len(dir[n]) < Depth /\ x = Entry(WidgetText', dir, n)
<1>1. Entries' = EntriesTo(WidgetText', dir, Placed', Depth)
  BY EntriesNext DEF EntriesAre
<1>. QED BY <1>1 DEF EntriesTo

LEMMA EntriesStay ==
  ASSUME IInv, IInv', pc # "destroy", pc' # "destroy", NEW dir, Names(dir), Names(dir)',
         Placed' = Placed, \A n \in Placed : WidgetText'[n] = WidgetText[n]
  PROVE  InCatalogue' = InCatalogue
<1>1. \A n \in Placed : Entry(WidgetText', dir, n) = Entry(WidgetText, dir, n)
  BY DEF Entry, Path
<1>2. \A x : x \in Entries' <=> x \in Entries
  BY <1>1, EntriesBefore, EntriesAfter
<1>3. Entries' = Entries
  <2>1. Entries = UNION {Entries} /\ Entries' = UNION {Entries'}
    OBVIOUS
  <2>. QED BY <1>2, <2>1
<1>. QED BY <1>3 DEF InCatalogue

LEMMA FrontOfPath ==
  ASSUME NEW S, NEW s \in Seq(S), NEW t \in S
  PROVE  Abstract!Front(Append(s, t)) = s
<1>1. Abstract!Front(Append(s, t)) = SubSeq(Append(s, t), 1, Len(Append(s, t)) - 1)
  BY DEF Abstract!Front
<1>. QED BY <1>1

\* A new path below one that is there.
LEMMA EntryAdded ==
  ASSUME pc # "destroy", pc' # "destroy", NEW x, x \in Entries',
         \A y \in Entries : y.path # x.path,
         Len(x.path) = 1 \/ \E y \in Entries : y.path = Abstract!Front(x.path),
         \A y : y \in Entries' <=> y \in Entries \/ y = x
  PROVE  Abstract!Next
<1>1. \A y : y \in Entries' <=> y \in Entries \cup {x}
  OBVIOUS
<1>2. Entries' = Entries \cup {x} /\ x \notin Entries
  <2>1. Entries' = UNION {Entries'}
    OBVIOUS
  <2>. QED BY <1>1, <2>1
<1>3. Abstract!Add(x)
  BY <1>2 DEF Abstract!Add, Abstract!HasPath
<1>. QED BY <1>2, <1>3 DEF Abstract!Next

\* Node f is put below a node that is there, or at the top.
LEMMA EntryPut ==
  ASSUME IInv, IInv', pc = "search", pc' # "destroy", NEW dir, Names(dir), NEW e, Names(e)',
         NEW f, f \notin Placed, Placed' = Placed \cup {f},
         e[f] = DirAt(WidgetText, dir, prev),
         \A n \in Placed : /\ e[n] = dir[n]
                           /\ Path(WidgetText', e, n) = Path(WidgetText, dir, n)
  PROVE  Abstract!Next \/ InCatalogue' = InCatalogue
<1>1. \A n \in Placed : Entry(WidgetText', e, n) = Entry(WidgetText, dir, n) /\ n # f
  BY DEF Entry
<1>2. PICK x : x = Entry(WidgetText', e, f)
  OBVIOUS
<1>3. \A y : y \in Entries' <=> y \in Entries \/ (y = x /\ Len(e[f]) < Depth)
  <2>. SUFFICES ASSUME NEW y
                PROVE  y \in Entries' <=> y \in Entries \/ (y = x /\ Len(e[f]) < Depth)
    OBVIOUS
  <2>1. y \in Entries' <=> \E n \in Placed' : Len(e[n]) < Depth /\ y = Entry(WidgetText', e, n)
    BY EntriesAfter
  <2>2. y \in Entries <=> \E n \in Placed : Len(dir[n]) < Depth /\ y = Entry(WidgetText, dir, n)
    BY EntriesBefore
  <2>. QED BY <1>1, <1>2, <2>1, <2>2
<1>4. CASE Len(e[f]) < Depth
  <2>1. x \in Entries' /\ \A y : y \in Entries' <=> y \in Entries \/ y = x
    BY <1>3, <1>4
  <2>2. \A y \in Entries : y.path # x.path
    <3>. SUFFICES ASSUME NEW y \in Entries PROVE y.path # x.path
      OBVIOUS
    <3>1. PICK n \in Placed : y = Entry(WidgetText, dir, n)
      BY EntriesBefore
    <3>2. Path(WidgetText', e, n) # Path(WidgetText', e, f)
      BY <1>1, <3>1 DEF Names
    <3>. QED BY <1>1, <1>2, <3>1, <3>2 DEF Entry
  <2>. DEFINE d == e[f]
              t == Fold[WidgetText'[f]]
  <2>3. x.path = Append(d, t)
    BY <1>2 DEF Entry, Path
  <2>4. d \in Seq(Texts) /\ t \in Texts
    <3>1. f \in heap' /\ WidgetText'[f] \in Texts
      BY DEF Names, Placed
    <3>. QED BY <3>1, PlaceSearched, TreeAssumption
  <2>. HIDE DEF d, t
  <2>5. Abstract!Front(x.path) = d /\ Len(x.path) = Len(d) + 1
    BY <2>3, <2>4, FrontOfPath, AppendFacts
  <2>6. PICK p \in Lists(Placed) : d = DirAt(WidgetText, dir, p)
    BY PlaceSearched DEF d
  <2>7. CASE p = tweaks
    <3>1. Len(d) = 0
      BY <2>6, <2>7, DirFacts, EmptySeq
    <3>2. Len(x.path) = 1
      BY <2>5, <3>1
    <3>. QED BY <1>2, <2>1, <2>2, <3>2, EntryAdded
  <2>8. CASE p # tweaks
    <3>1. PICK m \in Placed : p = SubOf(m)
      BY <2>8 DEF Lists
    <3>2. d = Path(WidgetText, dir, m)
      BY <2>6, <3>1, DirFacts
    <3>3. Len(d) = Len(dir[m]) + 1 /\ Len(dir[m]) \in Nat
      BY <3>2, PathFacts
    <3>4. Len(dir[m]) < Depth
      BY <1>4, <3>3 DEF Depth, d
    <3>5. Entry(WidgetText, dir, m) \in Entries /\ Entry(WidgetText, dir, m).path = d
      BY <3>2, <3>4, EntriesBefore DEF Entry
    <3>6. \E y \in Entries : y.path = Abstract!Front(x.path)
      BY <2>5, <3>5
    <3>. QED BY <2>1, <2>2, <3>6, EntryAdded
  <2>. QED BY <2>7, <2>8
<1>5. CASE ~(Len(e[f]) < Depth)
  <2>1. \A y : y \in Entries' <=> y \in Entries
    BY <1>3, <1>5
  <2>2. Entries' = Entries
    <3>1. Entries = UNION {Entries} /\ Entries' = UNION {Entries'}
      OBVIOUS
    <3>. QED BY <2>1, <3>1
  <2>. QED BY <2>2 DEF InCatalogue
<1>. QED BY <1>4, <1>5

LEMMA CatalogueInit == TreeInit => Abstract!Init
<1>. SUFFICES ASSUME TreeInit PROVE Abstract!Init
  OBVIOUS
<1>1. IInv /\ NameInv /\ pc = "build" /\ Placed = {}
  BY InvInit, NameInit DEF TreeInit, Placed
<1>2. PICK dir : Names(dir)
  BY <1>1 DEF NameInv
<1>3. \A x : x \notin Entries
  BY <1>1, <1>2, EntriesBefore
<1>4. Entries = {}
  <2>1. Entries = UNION {Entries}
    OBVIOUS
  <2>. QED BY <1>3, <2>1
<1>. QED BY <1>4 DEF Abstract!Init

LEMMA CatalogueNext ==
  IInv /\ LostInv /\ NameInv /\ [TreeNext]_treeVars => Abstract!Next \/ InCatalogue' = InCatalogue
<1>. SUFFICES ASSUME IInv, LostInv, NameInv, [TreeNext]_treeVars
              PROVE  Abstract!Next \/ InCatalogue' = InCatalogue
  OBVIOUS
<1>0. IInv' /\ LostInv'
  BY InvNext, LostNext
<1>1. CASE UNCHANGED treeVars
  <2>1. UNCHANGED <<pc, ptr, heap, WidgetText, Type, tweak>>
    BY <1>1 DEF treeVars, nodes
  <2>2. CASE pc # "destroy"
    <3>1. PICK dir : Names(dir)
      BY <2>2 DEF NameInv
    <3>2. Names(dir)' /\ Placed' = Placed
      BY <2>1, <3>1, NamesUnchanged
    <3>. QED BY <1>0, <2>1, <2>2, <3>1, <3>2, EntriesStay
  <2>. QED BY <2>1, <2>2 DEF InCatalogue
<1>2. CASE Register
  <2>1. pc = "build" /\ pc # "destroy"
    BY <1>2 DEF Register, RegisterTweak
  <2>2. PICK dir : Names(dir)
    BY <2>1 DEF NameInv
  <2>3. /\ Names(dir)' /\ pc' # "destroy" /\ Placed' = Placed
        /\ \A n \in Placed : WidgetText'[n] = WidgetText[n]
    BY <1>2, <2>2, NameRegister
  <2>. QED BY <1>0, <2>1, <2>2, <2>3, EntriesStay
<1>3. CASE Search
  <2>1. pc = "search" /\ pc # "destroy"
    BY <1>3 DEF Search, Walk, Enter, additemtolist_create, additemtolist_insert, Duplicate
  <2>2. PICK dir : Names(dir) /\ Searched(dir)
    BY <2>1 DEF NameInv
  <2>3. CASE Walk
    <3>1. Names(dir)' /\ pc' # "destroy" /\ Placed' = Placed /\ WidgetText' = WidgetText
      BY <2>1, <2>2, <2>3, NameWalk DEF Walk, nodes, Placed
    <3>. QED BY <1>0, <2>1, <2>2, <3>1, EntriesStay
  <2>4. CASE Enter
    <3>1. Names(dir)' /\ pc' # "destroy" /\ Placed' = Placed /\ WidgetText' = WidgetText
      BY <2>1, <2>2, <2>4, NameEnter DEF Enter, Placed
    <3>. QED BY <1>0, <2>1, <2>2, <3>1, EntriesStay
  <2>5. CASE additemtolist_create
    <3>1. pc' # "destroy"
      BY <2>1, <2>5 DEF additemtolist_create
    <3>2. PICK e : e = [dir EXCEPT ![Fresh] = DirAt(WidgetText, dir, prev)]
      OBVIOUS
    <3>3. PICK f : f = Fresh
      OBVIOUS
    <3>4. /\ Names(e)' /\ e[f] = DirAt(WidgetText, dir, prev)
          /\ Placed' = Placed \cup {f} /\ f \notin Placed
          /\ \A n \in Placed : /\ e[n] = dir[n]
                               /\ Path(WidgetText', e, n) = Path(WidgetText, dir, n)
      BY <2>2, <2>5, <3>2, <3>3, NameCreate
    <3>. QED BY ONLY IInv, <1>0, <2>1, <2>2, <3>1, <3>4, EntryPut
  <2>6. CASE additemtolist_insert
    <3>2. PICK e : e = [dir EXCEPT ![tweak] = DirAt(WidgetText, dir, prev)]
      OBVIOUS
    <3>3. PICK f : f = tweak
      OBVIOUS
    <3>4. /\ Names(e)' /\ e[f] = DirAt(WidgetText, dir, prev) /\ pc' # "destroy"
          /\ Placed' = Placed \cup {f} /\ f \notin Placed
          /\ \A n \in Placed : /\ e[n] = dir[n]
                               /\ Path(WidgetText', e, n) = Path(WidgetText, dir, n)
      BY <2>2, <2>6, <3>2, <3>3, NameInsert
    <3>. QED BY ONLY IInv, <1>0, <2>1, <2>2, <3>4, EntryPut
  <2>7. CASE Duplicate
    <3>1. Names(dir)' /\ pc' # "destroy" /\ Placed' = Placed
          /\ \A n \in Placed : WidgetText'[n] = WidgetText[n]
      BY <2>2, <2>7, NameDuplicate
    <3>. QED BY <1>0, <2>1, <2>2, <3>1, EntriesStay
  <2>. QED BY <1>3, <2>3, <2>4, <2>5, <2>6, <2>7 DEF Search
<1>4. CASE sort_tweak_list \/ Sort
  <2>1. pc # "destroy" /\ pc' # "destroy"
    BY <1>4 DEF sort_tweak_list, Sort, Swap, Advance, Sorted, SortSub, SortReturn
  <2>2. PICK dir : Names(dir) /\ Ordered(dir)
    BY <2>1 DEF NameInv
  <2>3. Names(dir)' /\ Placed' = Placed /\ WidgetText' = WidgetText
    BY <1>4, <2>2, OrderSort
  <2>. QED BY <1>0, <2>1, <2>2, <2>3, EntriesStay
<1>5. CASE DestroyAllTweaks
  BY <1>5 DEF DestroyAllTweaks, Abstract!Next, Abstract!Clear
<1>6. CASE DestroySub \/ DestroyLeaf \/ DestroyReturn
  BY <1>6 DEF DestroySub, DestroyLeaf, DestroyReturn, InCatalogue
<1>7. CASE Destroyed
  <2>1. pc = "destroy" /\ pc' \in {"build", "gone"} /\ ptr'[tweaks] = NULL
    BY <1>7, PlaceFacts DEF Destroyed, IInv, TreeTypeOK
  <2>2. PICK dir : dir = [n \in Nodes |-> <<>>]
    OBVIOUS
  <2>3. dir \in [Nodes -> Seq(Texts)]
    BY <2>2, EmptySeq
  <2>4. Names(dir)' /\ Placed' = {}
    BY <1>0, <2>1, <2>3, NamesGone
  <2>5. \A x : x \notin Entries'
    BY <1>0, <2>1, <2>4, EntriesAfter
  <2>6. Entries' = {}
    <3>1. Entries' = UNION {Entries'}
      OBVIOUS
    <3>. QED BY <2>5, <3>1
  <2>. QED BY <2>1, <2>6 DEF InCatalogue
<1>. QED BY <1>1, <1>2, <1>3, <1>4, <1>5, <1>6, <1>7 DEF TreeNext, TreeStep, Destroy

\* The tree implements the catalogue of paths: RegisterTweak adds a path below
\* one that is there and none twice, the sort moves no path, and only
\* DestroyAllTweaks takes paths away, all of them.
THEOREM TreeIsCatalogue == Spec => IsCatalogue
<1>1. Init => Abstract!Init
  BY CatalogueInit DEF Init
<1>2. IInv /\ LostInv /\ NameInv /\ [Next]_vars
        => [Abstract!Next]_(IF pc = "destroy" THEN {} ELSE Entries)
  BY CatalogueNext, WireStep DEF InCatalogue
<1>. QED BY <1>1, <1>2, NameInvariance, PTL DEF Spec, IsCatalogue, Abstract!Spec

-----------------------------------------------------------------------------
(* Lists have an end *)

\* No node comes behind itself.
LEMMA ListAcyclic ==
  ASSUME IInv, LostInv, pc # "destroy", NEW n \in Placed
  PROVE  ~InList(ptr, NextOf(n), n)
<1>. SUFFICES ASSUME InList(ptr, NextOf(n), n) PROVE FALSE
  OBVIOUS
<1>. DEFINE C == {m \in Nodes : InList(ptr, NextOf(n), m)}
<1>1. n \in C /\ n \in Nodes /\ Placed \in SUBSET Nodes
  BY DEF Placed, IInv, TreeTypeOK
\* Every node of the circle has one in front of it.
<1>2. ASSUME NEW c \in C PROVE \E k \in C : ptr[NextOf(k)] = c
  <2>. SUFFICES ASSUME \A k \in C : ptr[NextOf(k)] # c PROVE FALSE
    OBVIOUS
  <2>. DEFINE S == C \ {c}
  <2>1. Into(ptr[NextOf(n)], S)
    <3>1. ptr[NextOf(n)] \in Nodes \cup {NULL} /\ ptr[NextOf(n)] # c
      BY <1>1, PlaceFacts DEF IInv, TreeTypeOK
    <3>2. ptr[NextOf(n)] # NULL => InList(ptr, NextOf(n), ptr[NextOf(n)])
      BY InFirst
    <3>. QED BY <3>1, <3>2 DEF Into
  <2>2. ASSUME NEW m \in S PROVE Into(ptr[NextOf(m)], S)
    <3>1. ptr[NextOf(m)] \in Nodes \cup {NULL} /\ ptr[NextOf(m)] # c
      BY PlaceFacts DEF IInv, TreeTypeOK
    <3>2. ptr[NextOf(m)] # NULL => InList(ptr, NextOf(n), ptr[NextOf(m)])
      BY InEnd
    <3>. QED BY <3>1, <3>2 DEF Into
  <2>3. S \in SUBSET Nodes /\ Linked(ptr, S)
    BY <2>2 DEF Linked
  <2>4. c \in S
    <3>1. InList(ptr, NextOf(n), c)
      OBVIOUS
    <3>. HIDE DEF S
    <3>. QED BY <2>1, <2>3, <3>1 DEF InList
  <2>. QED BY <2>4
<1>. HIDE DEF C
\* So nothing else leads into it.
<1>3. ASSUME NEW p \in Places, ptr[p] \in C PROVE \E k \in C : k \in Nodes /\ p = NextOf(k)
  <2>1. PICK k \in C : ptr[NextOf(k)] = ptr[p]
    BY <1>2, <1>3
  <2>2. k \in Nodes /\ ptr[p] # NULL /\ NextOf(k) \in Places
    BY <1>3, PlaceFacts, TreeAssumption DEF C
  <2>. QED BY <2>1, <2>2 DEF IInv, Injective
<1>. DEFINE S == Placed \ C
<1>4. Into(ptr[tweaks], S)
  <2>1. ptr[tweaks] \notin C
    BY <1>3, PlaceFacts
  <2>. QED BY <2>1, PlaceFacts, HolderPlaced DEF Into
<1>5. ASSUME NEW m \in S PROVE Into(ptr[NextOf(m)], S) /\ Into(ptr[SubOf(m)], S)
  <2>1. m \in Nodes /\ NextOf(m) \in Places /\ SubOf(m) \in Places
    BY <1>1, PlaceFacts
  <2>2. ptr[NextOf(m)] \notin C /\ ptr[SubOf(m)] \notin C
    BY <1>3, <2>1, PlaceFacts
  <2>. QED BY <2>1, <2>2, HolderPlaced DEF Into
<1>6. S \in SUBSET Nodes /\ Closed(S)
  BY <1>1, <1>5 DEF Closed
<1>7. Placed \subseteq S
  <2>. HIDE DEF S
  <2>. QED BY <1>4, <1>6 DEF LostInv, ReachInv, Placed
<1>. QED BY <1>1, <1>7

-----------------------------------------------------------------------------
(* Exchanges come to an end *)

\* A tree behind one that it should be in front of.
Inversions ==
  {nm \in Nodes \X Nodes : InList(ptr, NextOf(nm[1]), nm[2]) /\ WidgetText[nm[1]] > WidgetText[nm[2]]}

\* Nothing but a comes to be behind anything, and that behind b.
LEMMA BehindExchanged ==
  ASSUME NEW P, NEW R, NEW q, NEW a, NEW b, NEW c, Exchanged(P, R, q, a, b, c),
         \A p \in Places : P[p] = b => p = NextOf(a),
         NEW n \in Nodes, NEW m, InList(R, NextOf(n), m), n # b \/ m # a
  PROVE  InList(P, NextOf(n), m)
<1>. USE DEF Exchanged
<1>. SUFFICES ASSUME NEW S \in SUBSET Nodes, Linked(P, S), Into(P[NextOf(n)], S) PROVE m \in S
  BY DEF InList
<1>1. \A k \in S : Into(P[NextOf(k)], S)
  BY DEF Linked
<1>2. /\ \A k \in Nodes : NextOf(k) \in Places
      /\ \A k \in Nodes : NextOf(k) = NextOf(a) => k = a
      /\ \A k \in Nodes : NextOf(k) = NextOf(b) => k = b
  BY PlaceFacts
<1>3. ASSUME NEW T \in SUBSET Nodes, \A k \in T : Into(R[NextOf(k)], T), Into(R[NextOf(n)], T)
      PROVE  m \in T
  BY <1>3 DEF InList, Linked
<1>4. a \in S => b \in S
  BY <1>1 DEF Into
<1>5. b \in S => Into(c, S)
  BY <1>1 DEF Into
<1>6. CASE n = b
  <2>. DEFINE T == S \cup {a}
  <2>1. ASSUME NEW k \in T PROVE Into(R[NextOf(k)], T)
    <3>1. CASE k = a
      BY <1>6, <3>1 DEF Into
    <3>2. CASE k = b
      BY <3>2 DEF Into
    <3>3. CASE k # a /\ k # b /\ NextOf(k) = q
      BY <1>1, <1>4, <3>3 DEF Into
    <3>4. CASE k # a /\ k # b /\ NextOf(k) # q
      <4>1. k \in S /\ R[NextOf(k)] = P[NextOf(k)]
        BY <1>2, <3>4
      <4>. QED BY <1>1, <4>1 DEF Into
    <3>. QED BY <3>1, <3>2, <3>3, <3>4
  <2>2. T \in SUBSET Nodes /\ Into(R[NextOf(n)], T)
    BY <1>6 DEF Into
  <2>3. m \in T
    <3>. HIDE DEF T
    <3>. QED BY <1>3, <2>1, <2>2
  <2>. QED BY <1>6, <2>3
<1>7. CASE n # b /\ a \in S
  <2>1. ASSUME NEW k \in S PROVE Into(R[NextOf(k)], S)
    <3>1. CASE k = a \/ k = b
      BY <1>4, <1>5, <1>7, <3>1 DEF Into
    <3>2. CASE k # a /\ k # b /\ NextOf(k) = q
      BY <1>4, <1>7, <3>2 DEF Into
    <3>3. CASE k # a /\ k # b /\ NextOf(k) # q
      <4>1. R[NextOf(k)] = P[NextOf(k)]
        BY <1>2, <3>3
      <4>. QED BY <1>1, <4>1 DEF Into
    <3>. QED BY <3>1, <3>2, <3>3
  <2>2. Into(R[NextOf(n)], S)
    <3>1. CASE n = a
      BY <1>4, <1>5, <1>7, <3>1
    <3>2. CASE n # a /\ NextOf(n) = q
      BY <1>4, <1>7, <3>2 DEF Into
    <3>3. CASE n # a /\ NextOf(n) # q
      BY <1>2, <1>7, <3>3
    <3>. QED BY <3>1, <3>2, <3>3
  <2>. QED BY <1>3, <2>1, <2>2
<1>8. CASE n # b /\ a \notin S
  <2>. DEFINE T == S \ {b}
  <2>1. \A k \in Nodes : Into(P[NextOf(k)], S) => NextOf(k) # q
    BY <1>8 DEF Into
  <2>2. c # b
    <3>1. NextOf(b) # NextOf(a) /\ NextOf(b) \in Places
      BY <1>2
    <3>. QED BY <3>1
  <2>3. ASSUME NEW k \in Nodes, k # a, k # b, Into(P[NextOf(k)], S) PROVE Into(R[NextOf(k)], T)
    <3>1. R[NextOf(k)] = P[NextOf(k)] /\ P[NextOf(k)] # b
      BY <1>2, <2>1, <2>3
    <3>. QED BY <2>3, <3>1 DEF Into
  <2>4. ASSUME NEW k \in T PROVE Into(R[NextOf(k)], T)
    BY <1>1, <1>8, <2>3, <2>4
  <2>5. Into(R[NextOf(n)], T)
    <3>1. CASE n = a
      <4>1. b \in S
        BY <3>1 DEF Into
      <4>. QED BY <1>5, <2>2, <3>1, <4>1 DEF Into
    <3>. QED BY <1>8, <2>3, <3>1
  <2>6. T \in SUBSET Nodes
    OBVIOUS
  <2>7. m \in T
    <3>. HIDE DEF T
    <3>. QED BY <1>3, <2>4, <2>5, <2>6
  <2>. QED BY <2>7
<1>. QED BY <1>6, <1>7, <1>8

LEMMA InversionsFinite == IsFiniteSet(Inversions)
<1>1. IsFiniteSet(Nodes \X Nodes)
  BY TreeAssumption, FS_Product
<1>. QED BY <1>1, FS_Subset DEF Inversions

\* An exchange puts one pair right and no other pair wrong.
LEMMA SwapShrinks ==
  ASSUME IInv, LostInv, NameInv, Swap
  PROVE  Inversions' \subseteq Inversions /\ Inversions' # Inversions
<1>1. PICK a, b, c : /\ a = ptr[prev] /\ b = ptr[NextOf(a)]
                     /\ Exchanged(ptr, ptr', prev, a, b, c)
                     /\ pc = "sort" /\ UNCHANGED WidgetText
  BY SwapExchanges
<1>2. a \in Nodes /\ b \in Nodes /\ a # NULL /\ b # NULL /\ a # b /\ ptr[NextOf(a)] = b
      /\ ptr'[NextOf(b)] = a /\ prev \in Places /\ ptr[prev] = a
  BY <1>1 DEF Exchanged
<1>3. WidgetText[a] > WidgetText[b]
  BY <1>1 DEF Swap, Comparing, Current, Following
<1>4. a \in Placed /\ b \in Placed
  BY <1>1, <1>2, HolderPlaced, PlaceFacts
<1>5. WidgetText[a] \in Nat /\ WidgetText[b] \in Nat
  <2>1. PICK dir : Names(dir)
    BY <1>1 DEF NameInv
  <2>2. WidgetText[a] \in Texts /\ WidgetText[b] \in Texts
    BY <1>4, <2>1 DEF Names, Placed
  <2>. QED BY <2>2, TreeAssumption
<1>6. \A p \in Places : ptr[p] = b => p = NextOf(a)
  BY <1>2, PlaceFacts DEF IInv, Injective
<1>7. ASSUME NEW n \in Nodes, NEW m, InList(ptr', NextOf(n), m), n # b \/ m # a
      PROVE  InList(ptr, NextOf(n), m)
  BY ONLY <1>1, <1>6, <1>7, BehindExchanged
<1>8. Inversions' \subseteq Inversions
  <2>. SUFFICES ASSUME NEW x \in Nodes, NEW y \in Nodes, InList(ptr', NextOf(x), y),
                       WidgetText[x] > WidgetText[y]
                PROVE  InList(ptr, NextOf(x), y)
    BY <1>1 DEF Inversions, NextOf
  <2>1. x # b \/ y # a
    BY <1>3, <1>5
  <2>. QED BY <1>7, <2>1
<1>9. <<a, b>> \in Inversions
  BY <1>2, <1>3, InFirst DEF Inversions
<1>10. <<a, b>> \notin Inversions'
  <2>. SUFFICES ASSUME InList(ptr', NextOf(a), b) PROVE FALSE
    BY DEF Inversions, NextOf
  <2>1. InList(ptr', NextOf(a), a)
    BY <1>2, InEnd
  <2>2. InList(ptr, NextOf(a), a)
    BY <1>2, <1>7, <2>1
  <2>. QED BY <1>1, <1>4, <2>2, ListAcyclic
<1>. QED BY <1>8, <1>9, <1>10

-----------------------------------------------------------------------------
(* What is under a node *)

Kept(P, S) == \A n \in S : Into(P[NextOf(n)], S) /\ Into(P[SubOf(n)], S)

\* The pointers lead from x to m: m is in every set that x is in and that
\* they do not leave.
Leads(P, x, m) == \A S \in SUBSET Nodes : Kept(P, S) /\ Into(x, S) => m \in S

LEMMA UnderFacts ==
  ASSUME NEW P, NEW x
  PROVE  /\ x # NULL => Leads(P, x, x)
         /\ \A m : Leads(P, P[NextOf(x)], m) /\ x # NULL => Leads(P, x, m)
         /\ \A m : Leads(P, P[SubOf(x)], m) /\ x # NULL => Leads(P, x, m)
         /\ \A m : ~Leads(P, NULL, m)
<1>1. \A m : ~Leads(P, NULL, m)
  <2>1. {} \in SUBSET Nodes /\ Kept(P, {}) /\ Into(NULL, {})
    BY DEF Kept, Into
  <2>. QED BY <2>1 DEF Leads
<1>2. ASSUME NEW S \in SUBSET Nodes, Kept(P, S), Into(x, S), x # NULL
      PROVE  x \in S /\ Into(P[NextOf(x)], S) /\ Into(P[SubOf(x)], S)
  BY <1>2 DEF Kept, Into
<1>. QED BY <1>1, <1>2 DEF Leads

\* Path q is the path r or that of a node above it.
Begins(q, r) == Len(q) <= Len(r) /\ \A i \in 1 .. Len(q) : q[i] = r[i]

LEMMA BeginsFacts ==
  ASSUME NEW q \in Seq(Texts), NEW r \in Seq(Texts)
  PROVE  /\ Begins(r, r)
         /\ Begins(q, r) /\ Len(q) = Len(r) => q = r
         /\ \A t \in Texts : Begins(q, r) => Begins(q, Append(r, t))
         /\ \A s \in Seq(Texts) : Begins(q, s) /\ Begins(r, s) /\ Len(q) = Len(r) => q = r
<1>1. Len(q) \in Nat /\ Len(r) \in Nat
  OBVIOUS
<1>2. Begins(r, r)
  BY <1>1 DEF Begins
<1>3. ASSUME Len(q) = Len(r), \A i \in 1 .. Len(q) : q[i] = r[i] PROVE q = r
  BY <1>3, SeqEqual
<1>4. \A t \in Texts : Begins(q, r) => Begins(q, Append(r, t))
  <2>. SUFFICES ASSUME NEW t \in Texts, Begins(q, r) PROVE Begins(q, Append(r, t))
    OBVIOUS
  <2>1. Len(Append(r, t)) = Len(r) + 1 /\ \A i \in 1 .. Len(r) : Append(r, t)[i] = r[i]
    BY AppendFacts
  <2>. QED BY <1>1, <2>1 DEF Begins
<1>5. Begins(q, r) /\ Len(q) = Len(r) => q = r
  BY <1>3 DEF Begins
<1>6. \A s \in Seq(Texts) : Begins(q, s) /\ Begins(r, s) /\ Len(q) = Len(r) => q = r
  BY <1>1, <1>3 DEF Begins
<1>. QED BY <1>2, <1>4, <1>5, <1>6

\* What is under the Sub list of n has a path that begins with that of n.
LEMMA UnderSub ==
  ASSUME IInv, pc # "destroy", NEW dir, Names(dir), NEW n \in Placed, NEW m, Leads(ptr, ptr[SubOf(n)], m)
  PROVE  m \in Placed /\ Begins(Path(WidgetText, dir, n), dir[m])
<1>. DEFINE q == Path(WidgetText, dir, n)
            E == {k \in Placed : Begins(q, dir[k])}
<1>1. n \in Nodes /\ SubOf(n) \in Places /\ q \in Seq(Texts) /\ Placed \in SUBSET Nodes
  BY PathFacts, PlaceFacts DEF Placed, IInv, TreeTypeOK
<1>2. Into(ptr[SubOf(n)], E)
  <2>. SUFFICES ASSUME ptr[SubOf(n)] # NULL PROVE ptr[SubOf(n)] \in Placed /\ Begins(q, dir[ptr[SubOf(n)]])
    BY DEF Into
  <2>1. ptr[SubOf(n)] \in Placed /\ dir[ptr[SubOf(n)]] = q
    BY <1>1, HolderPlaced, DirFacts DEF Names
  <2>. QED BY <1>1, <2>1, BeginsFacts
<1>3. ASSUME NEW k \in E PROVE Into(ptr[NextOf(k)], E) /\ Into(ptr[SubOf(k)], E)
  <2>1. k \in Placed /\ k \in Nodes /\ NextOf(k) \in Places /\ SubOf(k) \in Places /\ Begins(q, dir[k])
    BY <1>1, PlaceFacts
  <2>2. Into(ptr[NextOf(k)], E)
    <3>. SUFFICES ASSUME ptr[NextOf(k)] # NULL PROVE ptr[NextOf(k)] \in Placed /\ dir[ptr[NextOf(k)]] = dir[k]
      BY <2>1 DEF Into
    <3>. QED BY <2>1, HolderPlaced, DirFacts DEF Names
  <2>3. Into(ptr[SubOf(k)], E)
    <3>. SUFFICES ASSUME ptr[SubOf(k)] # NULL
                  PROVE  ptr[SubOf(k)] \in Placed /\ Begins(q, dir[ptr[SubOf(k)]])
      BY DEF Into
    <3>1. ptr[SubOf(k)] \in Placed /\ dir[ptr[SubOf(k)]] = Append(dir[k], Fold[WidgetText[k]])
      BY <2>1, HolderPlaced, DirFacts DEF Names, Path
    <3>2. dir[k] \in Seq(Texts) /\ Fold[WidgetText[k]] \in Texts
      BY <2>1, PathFacts
    <3>. QED BY <1>1, <2>1, <3>1, <3>2, BeginsFacts
  <2>. QED BY <2>2, <2>3
<1>4. E \in SUBSET Nodes /\ Kept(ptr, E)
  BY <1>1, <1>3 DEF Kept
<1>5. m \in E
  <2>. HIDE DEF E
  <2>. QED BY <1>2, <1>4 DEF Leads
<1>. QED BY <1>5

\* What is under the node after n is behind it or under one that is.
LEMMA UnderNext ==
  ASSUME IInv, pc # "destroy", NEW dir, Names(dir), NEW n \in Placed, NEW m, Leads(ptr, ptr[NextOf(n)], m)
  PROVE  m \in Placed /\ \E k \in Placed : /\ InList(ptr, NextOf(n), k) /\ dir[k] = dir[n]
                                           /\ m = k \/ Begins(Path(WidgetText, dir, k), dir[m])
<1>. DEFINE B == {k \in Placed : InList(ptr, NextOf(n), k) /\ dir[k] = dir[n]}
            E == {k \in Placed : \E l \in B : k = l \/ Begins(Path(WidgetText, dir, l), dir[k])}
<1>1. n \in Nodes /\ NextOf(n) \in Places /\ Placed \in SUBSET Nodes
  BY PathFacts, PlaceFacts DEF Placed, IInv, TreeTypeOK
<1>2. Into(ptr[NextOf(n)], E)
  <2>. SUFFICES ASSUME ptr[NextOf(n)] # NULL PROVE ptr[NextOf(n)] \in B
    BY DEF Into
  <2>. QED BY <1>1, HolderPlaced, DirFacts, InFirst DEF Names
<1>3. ASSUME NEW k \in E PROVE Into(ptr[NextOf(k)], E) /\ Into(ptr[SubOf(k)], E)
  <2>1. k \in Placed /\ k \in Nodes /\ NextOf(k) \in Places /\ SubOf(k) \in Places
    BY <1>1, PlaceFacts
  <2>2. PICK l \in B : k = l \/ Begins(Path(WidgetText, dir, l), dir[k])
    OBVIOUS
  <2>3. /\ dir[k] \in Seq(Texts) /\ Fold[WidgetText[k]] \in Texts
        /\ Path(WidgetText, dir, l) \in Seq(Texts) /\ Path(WidgetText, dir, k) \in Seq(Texts)
    BY <2>1, <2>2, PathFacts
  <2>4. ptr[NextOf(k)] # NULL => ptr[NextOf(k)] \in Placed /\ dir[ptr[NextOf(k)]] = dir[k]
    BY <2>1, HolderPlaced, DirFacts DEF Names
  <2>5. ptr[SubOf(k)] # NULL => /\ ptr[SubOf(k)] \in Placed
                                /\ dir[ptr[SubOf(k)]] = Path(WidgetText, dir, k)
    BY <2>1, HolderPlaced, DirFacts DEF Names
  <2>6. k = l /\ ptr[NextOf(k)] # NULL => ptr[NextOf(k)] \in B
    BY <2>4, InEnd
  <2>7. Into(ptr[NextOf(k)], E)
    BY <2>2, <2>4, <2>6 DEF Into
  <2>8. Begins(Path(WidgetText, dir, l), Path(WidgetText, dir, k))
    <3>1. CASE k = l
      BY <2>3, <3>1, BeginsFacts
    <3>2. CASE Begins(Path(WidgetText, dir, l), dir[k])
      <4>1. Begins(Path(WidgetText, dir, l), Append(dir[k], Fold[WidgetText[k]]))
        BY <2>3, <3>2, BeginsFacts
      <4>. QED BY <4>1 DEF Path
    <3>. QED BY <2>2, <3>1, <3>2
  <2>9. Into(ptr[SubOf(k)], E)
    BY <2>2, <2>5, <2>8 DEF Into
  <2>. QED BY <2>7, <2>9
<1>4. E \in SUBSET Nodes /\ Kept(ptr, E)
  BY <1>1, <1>3 DEF Kept
<1>5. m \in E
  <2>. HIDE DEF E
  <2>. QED BY <1>2, <1>4 DEF Leads
<1>. QED BY <1>5

-----------------------------------------------------------------------------
(* The way down *)

\* The stack of the sort is a way down the tree: the first list is the top,
\* each further one is the Sub list of the node before it.
WayDown(dir) ==
  \A i \in 1 .. Len(stack) : stack[i] # NULL =>
    /\ stack[i] \in Placed
    /\ dir[stack[i]] = IF i = 1 THEN <<>> ELSE Path(WidgetText, dir, stack[i - 1])

WayInv == pc \in {"sort", "descend"} => \E dir : Names(dir) /\ WayDown(dir)

LEMMA WayBegin ==
  ASSUME IInv, NameInv, sort_tweak_list
  PROVE  WayInv'
<1>1. /\ pc = "build" /\ pc' = "sort" /\ stack' = <<ptr[tweaks]>>
      /\ UNCHANGED <<ptr, heap, WidgetText, Type, tweak>>
  BY DEF sort_tweak_list, nodes
<1>2. PICK dir : Names(dir)
  BY <1>1 DEF NameInv
<1>3. Names(dir)' /\ Placed' = Placed
  BY <1>1, <1>2, NamesUnchanged
<1>4. Len(stack') = 1 /\ stack'[1] = ptr[tweaks]
  BY <1>1
<1>5. ptr[tweaks] # NULL => ptr[tweaks] \in Placed /\ dir[ptr[tweaks]] = <<>>
  BY <1>1, <1>2, PlaceFacts, HolderPlaced, DirFacts DEF Names
<1>6. WayDown(dir)'
  BY <1>3, <1>4, <1>5 DEF WayDown
<1>. QED BY <1>3, <1>6 DEF WayInv

LEMMA WaySort ==
  ASSUME IInv, WayInv, Sort
  PROVE  WayInv'
<1>0. pc \in {"sort", "descend"} /\ stack # <<>> /\ stack \in Seq(Nodes \cup {NULL})
  BY DEF Sort, Swap, Advance, Sorted, SortSub, SortReturn, IInv, StackInv, TreeTypeOK
<1>1. PICK dir : Names(dir) /\ WayDown(dir)
  BY <1>0 DEF WayInv
<1>2. CASE Swap
  <2>1. Names(dir)' /\ UNCHANGED <<heap, WidgetText, tweak, stack>>
    BY <1>1, <1>2, NamesSwap DEF Swap
  <2>2. WayDown(dir)'
    BY <1>1, <2>1 DEF WayDown, Placed
  <2>. QED BY <2>1, <2>2 DEF WayInv
<1>3. ASSUME UNCHANGED <<nodes, tweak>>
      PROVE  Names(dir)' /\ Placed' = Placed /\ UNCHANGED <<ptr, WidgetText>>
  BY <1>1, <1>3, NamesUnchanged DEF nodes
<1>4. CASE Advance \/ Sorted
  <2>1. UNCHANGED <<nodes, tweak, stack>>
    BY <1>4 DEF Advance, Sorted
  <2>2. WayDown(dir)'
    BY <1>1, <1>3, <2>1 DEF WayDown
  <2>. QED BY <1>3, <2>1, <2>2 DEF WayInv
<1>. DEFINE L == Len(stack)
<1>5. L \in Nat /\ L # 0 /\ \A i \in 1 .. L : stack[i] \in Nodes \cup {NULL}
  BY <1>0
<1>6. ASSUME NEW i \in 1 .. L, stack[i] # NULL
      PROVE  LET n == stack[i] IN
             /\ n \in Placed /\ n \in Nodes
             /\ ptr[NextOf(n)] \in Nodes \cup {NULL} /\ ptr[SubOf(n)] \in Nodes \cup {NULL}
             /\ ptr[NextOf(n)] # NULL =>
                  ptr[NextOf(n)] \in Placed /\ dir[ptr[NextOf(n)]] = dir[n]
             /\ ptr[SubOf(n)] # NULL =>
                  ptr[SubOf(n)] \in Placed /\ dir[ptr[SubOf(n)]] = Path(WidgetText, dir, n)
  <2>1. PICK n : n = stack[i]
    OBVIOUS
  <2>2. n \in Placed /\ n \in Nodes /\ NextOf(n) \in Places /\ SubOf(n) \in Places
    BY <1>1, <1>5, <1>6, <2>1, PlaceFacts DEF WayDown
  <2>3. ptr \in [Places -> Nodes \cup {NULL}]
    BY DEF IInv, TreeTypeOK
  <2>4. ptr[NextOf(n)] # NULL => ptr[NextOf(n)] \in Placed /\ dir[ptr[NextOf(n)]] = dir[n]
    BY <1>0, <1>1, <2>2, HolderPlaced, DirFacts DEF Names
  <2>5. ptr[SubOf(n)] # NULL =>
          ptr[SubOf(n)] \in Placed /\ dir[ptr[SubOf(n)]] = Path(WidgetText, dir, n)
    BY <1>0, <1>1, <2>2, HolderPlaced, DirFacts DEF Names
  <2>. QED BY <2>1, <2>2, <2>3, <2>4, <2>5
<1>7. ASSUME NEW t, Len(t) \in Nat, UNCHANGED <<nodes, tweak>>, stack' = t,
             \A i \in 1 .. Len(t) - 1 : i \in 1 .. L /\ t[i] = stack[i],
             t[Len(t)] # NULL /\ Len(t) # 0 =>
               /\ t[Len(t)] \in Placed
               /\ \/ Len(t) \in 1 .. L /\ stack[Len(t)] # NULL /\ dir[t[Len(t)]] = dir[stack[Len(t)]]
                  \/ Len(t) # 1 /\ dir[t[Len(t)]] = Path(WidgetText, dir, t[Len(t) - 1])
      PROVE  WayInv'
  <2>1. ASSUME NEW i \in 1 .. Len(t), t[i] # NULL
        PROVE  /\ t[i] \in Placed
               /\ dir[t[i]] = IF i = 1 THEN <<>> ELSE Path(WidgetText, dir, t[i - 1])
    <3>1. i # 1 => i - 1 \in 1 .. Len(t) - 1
      BY <1>7
    <3>2. CASE i # Len(t)
      <4>1. i \in 1 .. Len(t) - 1
        BY <1>7, <3>2
      <4>. QED BY <1>1, <1>7, <2>1, <3>1, <4>1 DEF WayDown
    <3>3. CASE i = Len(t)
      BY <1>1, <1>7, <2>1, <3>1, <3>3 DEF WayDown
    <3>. QED BY <3>2, <3>3
  <2>2. WayDown(dir)'
    BY <1>3, <1>7, <2>1 DEF WayDown
  <2>. QED BY <1>3, <1>7, <2>2 DEF WayInv
<1>8. CASE SortSub
  <2>1. Top = stack[L] /\ L \in 1 .. L /\ Top # NULL /\ UNCHANGED <<nodes, tweak>>
    BY <1>0, <1>5, <1>8, FrontFacts DEF SortSub, Top
  <2>2. CASE ptr[SubOf(Top)] # NULL
    <3>1. stack' = Append(stack, ptr[SubOf(Top)])
      BY <1>8, <2>2 DEF SortSub, Call
    <3>2. /\ Len(stack') = L + 1 /\ stack'[L + 1] = ptr[SubOf(Top)]
          /\ \A i \in 1 .. L : stack'[i] = stack[i]
      BY <1>0, <1>6, <2>1, <3>1, CallStack
    <3>3. L + 1 \in Nat /\ L + 1 # 1 /\ L + 1 - 1 = L
      BY <1>5
    <3>. HIDE DEF L
    <3>. QED BY <1>6, <1>7, <2>1, <2>2, <3>2, <3>3
  <2>3. CASE ptr[SubOf(Top)] = NULL
    <3>1. stack' = [stack EXCEPT ![L] = ptr[NextOf(Top)]]
      BY <1>8, <2>3 DEF SortSub, Goto
    <3>2. /\ Len(stack') = L /\ stack'[L] = ptr[NextOf(Top)]
          /\ \A i \in 1 .. L - 1 : stack'[i] = stack[i]
      BY <1>0, <1>6, <2>1, <3>1, GotoStack
    <3>3. \A i \in 1 .. L - 1 : i \in 1 .. L
      BY <1>5
    <3>. HIDE DEF L
    <3>. QED BY <1>5, <1>6, <1>7, <2>1, <3>2, <3>3
  <2>. QED BY <2>2, <2>3
<1>9. CASE SortReturn
  <2>1. UNCHANGED <<nodes, tweak>>
    BY <1>9 DEF SortReturn
  <2>2. CASE L > 1
    <3>1. L - 1 \in 1 .. L /\ stack[L - 1] # NULL
      BY <1>5, <2>2 DEF IInv, StackInv
    <3>2. stack' = [Front(stack) EXCEPT ![L - 1] = ptr[NextOf(stack[L - 1])]]
      BY <1>9, <2>2 DEF SortReturn, Return
    <3>3. /\ Len(stack') = L - 1 /\ stack'[L - 1] = ptr[NextOf(stack[L - 1])]
          /\ \A i \in 1 .. L - 2 : stack'[i] = stack[i]
      BY <1>0, <1>6, <2>2, <3>1, <3>2, ReturnStack
    <3>4. L - 1 \in Nat /\ L - 1 - 1 = L - 2 /\ \A i \in 1 .. L - 2 : i \in 1 .. L
      BY <1>5, <2>2
    <3>. HIDE DEF L
    <3>. QED BY <1>6, <1>7, <2>1, <3>1, <3>3, <3>4
  <2>3. CASE ~(L > 1)
    BY <1>9, <2>3 DEF SortReturn, WayInv
  <2>. QED BY <2>2, <2>3
<1>. QED BY <1>2, <1>4, <1>8, <1>9 DEF Sort

LEMMA WayNext ==
  ASSUME IInv, NameInv, WayInv, TreeNext
  PROVE  WayInv'
<1>1. CASE sort_tweak_list
  BY <1>1, WayBegin
<1>2. CASE Sort
  BY <1>2, WaySort
<1>3. CASE Register
  BY <1>3 DEF Register, RegisterTweak, WayInv
<1>4. CASE Search
  BY <1>4 DEF Search, Walk, Enter, additemtolist_create, additemtolist_insert, Duplicate, WayInv
<1>5. CASE Destroy \/ DestroyAllTweaks
  BY <1>5 DEF Destroy, DestroySub, DestroyLeaf, DestroyReturn, Destroyed, DestroyAllTweaks, WayInv
<1>. QED BY <1>1, <1>2, <1>3, <1>4, <1>5 DEF TreeNext, TreeStep

\* The sort does not come to a node again: it is not under what is left of
\* the lists above it, nor under the next node, nor under its own Sub list.
LEMMA NotAgain ==
  ASSUME IInv, LostInv, WayInv, pc = "descend", Top # NULL
  PROVE  /\ ~Leads(ptr, ptr[SubOf(Top)], Top)
         /\ \A i \in 1 .. Len(stack) : ~Leads(ptr, ptr[NextOf(stack[i])], Top)
<1>0. stack # <<>> /\ stack \in Seq(Nodes \cup {NULL})
  BY DEF IInv, StackInv, TreeTypeOK
<1>1. PICK dir : Names(dir) /\ WayDown(dir)
  BY DEF WayInv
<1>. DEFINE L == Len(stack)
<1>2. PICK t : t = Top
  OBVIOUS
<1>3. L \in Nat /\ L # 0 /\ t = stack[L] /\ t # NULL
  BY <1>0, <1>2, FrontFacts DEF Top
<1>4. t \in Placed
  BY <1>1, <1>3 DEF WayDown
<1>5. \A n \in Placed : /\ dir[n] \in Seq(Texts) /\ Path(WidgetText, dir, n) \in Seq(Texts)
                        /\ Len(Path(WidgetText, dir, n)) = Len(dir[n]) + 1 /\ Len(dir[n]) \in Nat
                        /\ Path(WidgetText, dir, n) = Append(dir[n], Fold[WidgetText[n]])
                        /\ Fold[WidgetText[n]] \in Texts
  BY <1>1, PathFacts DEF Path
<1>6. ~Leads(ptr, ptr[SubOf(t)], t)
  <2>. SUFFICES ASSUME Leads(ptr, ptr[SubOf(t)], t) PROVE FALSE
    OBVIOUS
  <2>1. Begins(Path(WidgetText, dir, t), dir[t])
    BY <1>1, <1>4, UnderSub
  <2>. QED BY <1>4, <1>5, <2>1 DEF Begins
<1>7. ASSUME NEW n \in Placed, Leads(ptr, ptr[NextOf(n)], t),
             n = t \/ Begins(Path(WidgetText, dir, n), dir[t])
      PROVE  FALSE
  <2>1. PICK k \in Placed : /\ InList(ptr, NextOf(n), k) /\ dir[k] = dir[n]
                            /\ t = k \/ Begins(Path(WidgetText, dir, k), dir[t])
    BY <1>1, <1>7, UnderNext
  <2>2. k # n
    BY <2>1, ListAcyclic
  <2>3. /\ dir[t] \in Seq(Texts) /\ Len(dir[t]) \in Nat
        /\ Len(dir[n]) \in Nat /\ Path(WidgetText, dir, n) \in Seq(Texts)
        /\ Path(WidgetText, dir, k) \in Seq(Texts)
        /\ Len(Path(WidgetText, dir, n)) = Len(dir[n]) + 1
        /\ Len(Path(WidgetText, dir, k)) = Len(dir[n]) + 1
    BY <1>4, <1>5, <2>1
  <2>4. t # k /\ t # n
    BY <1>7, <2>1, <2>2, <2>3 DEF Begins
  <2>5. Path(WidgetText, dir, n) = Path(WidgetText, dir, k)
    BY <1>7, <2>1, <2>3, <2>4, BeginsFacts
  <2>. QED BY <1>1, <2>1, <2>2, <2>5 DEF Names
<1>8. ASSUME NEW i \in 1 .. L, i # L PROVE Begins(Path(WidgetText, dir, stack[i]), dir[t])
  <2>. DEFINE q == Path(WidgetText, dir, stack[i])
              S == {j \in i + 1 .. L : stack[j] # NULL => Begins(q, dir[stack[j]])}
  <2>1. \A j \in 1 .. L : j # L => stack[j] # NULL
    BY <1>3 DEF IInv, StackInv
  <2>2. \A j \in 1 .. L : /\ stack[j] # NULL => stack[j] \in Placed
                          /\ stack[j] # NULL /\ j # 1 => dir[stack[j]] = Path(WidgetText, dir, stack[j - 1])
    BY <1>1 DEF WayDown
  <2>3. stack[i] # NULL /\ stack[i] \in Placed /\ q \in Seq(Texts)
    BY <1>5, <1>8, <2>1, <2>2
  <2>4. i + 1 \in 1 .. L /\ i + 1 # 1 /\ i + 1 - 1 = i /\ i + 1 \in 0 .. L /\ i + 1 \in i + 1 .. L
    BY <1>3, <1>8
  <2>5. i + 1 \in S
    BY <2>2, <2>3, <2>4, BeginsFacts
  <2>6. ASSUME NEW j \in i + 1 .. L, j \in S, j # L PROVE j + 1 \in S
    <3>1. j \in 1 .. L /\ j + 1 \in 1 .. L /\ j + 1 # 1 /\ j + 1 - 1 = j /\ j + 1 \in i + 1 .. L
      BY <1>3, <1>8, <2>6
    <3>2. stack[j] # NULL /\ Begins(q, dir[stack[j]]) /\ stack[j] \in Placed
      BY <2>1, <2>2, <2>6, <3>1
    <3>3. Begins(q, Append(dir[stack[j]], Fold[WidgetText[stack[j]]]))
      BY <1>5, <2>3, <3>2, BeginsFacts
    <3>4. stack[j + 1] # NULL => Begins(q, dir[stack[j + 1]])
      <4>1. stack[j + 1] # NULL => dir[stack[j + 1]] = Path(WidgetText, dir, stack[j])
        BY <2>2, <3>1
      <4>2. Path(WidgetText, dir, stack[j]) = Append(dir[stack[j]], Fold[WidgetText[stack[j]]])
        BY <1>5, <3>2
      <4>. QED BY <3>3, <4>1, <4>2
    <3>. QED BY <3>1, <3>4
  <2>7. i + 1 .. L \subseteq S
    <3>. HIDE DEF S, L
    <3>. QED BY <1>3, <2>4, <2>5, <2>6, CountUp
  <2>8. L \in S
    BY <1>3, <1>8, <2>7
  <2>. QED BY <1>3, <2>8
<1>9. ASSUME NEW i \in 1 .. L PROVE ~Leads(ptr, ptr[NextOf(stack[i])], t)
  <2>1. CASE i = L
    BY <1>3, <1>4, <1>7, <2>1
  <2>2. CASE i # L
    <3>1. stack[i] # NULL
      BY <1>3, <2>2 DEF IInv, StackInv
    <3>2. stack[i] \in Placed
      BY <1>1, <3>1 DEF WayDown
    <3>. QED BY <1>7, <1>8, <2>2, <3>2
  <2>. QED BY <2>1, <2>2
<1>. QED BY <1>2, <1>6, <1>9

-----------------------------------------------------------------------------
(* The sort gets on *)

\* What the sort has still to come to: what is under the innermost list from
\* where it is, and under the nodes after those whose Sub lists it is in.
\* (P is the pointers, s the stack.)
LeftOf(P, s) ==
  {m \in Nodes : \E i \in 1 .. Len(s) :
     Leads(P, IF i = Len(s) THEN s[i] ELSE P[NextOf(s[i])], m)}

Remaining == LeftOf(ptr, stack)

\* What the inner loop has still to compare.
Ahead == {m \in Nodes : InList(ptr, prev, m)}

Smaller(A, B) == A \subseteq B /\ A # B

\* Every step of the sort puts a pair of trees right and none wrong, or else
\* leaves fewer nodes to come to, or else returns, or else ends a loop, or
\* else leaves less of the list.
SortGetsOn ==
  \/ Smaller(Inversions', Inversions)
  \/ /\ Inversions' = Inversions
     /\ \/ Smaller(Remaining', Remaining)
        \/ /\ Remaining' = Remaining
           /\ \/ Len(stack') < Len(stack)
              \/ /\ Len(stack') = Len(stack)
                 /\ \/ pc = "sort" /\ pc' = "descend"
                    \/ pc' = pc /\ Smaller(Ahead', Ahead)

LEMMA MeasureFinite == IsFiniteSet(Inversions) /\ IsFiniteSet(Remaining) /\ IsFiniteSet(Ahead)
<1>1. Remaining \subseteq Nodes /\ Ahead \subseteq Nodes
  BY DEF Remaining, LeftOf, Ahead
<1>. QED BY <1>1, TreeAssumption, InversionsFinite, FS_Subset

\* One node further less of the list is ahead.
LEMMA AheadShrinks ==
  ASSUME IInv, LostInv, pc # "destroy", NEW a \in Nodes, a = ptr[prev], a \in Placed, a # NULL,
         ptr' = ptr, prev' = NextOf(a)
  PROVE  Smaller(Ahead', Ahead)
<1>1. a \in Ahead
  BY InFirst DEF Ahead
<1>2. ~InList(ptr, NextOf(a), a)
  BY ListAcyclic
<1>3. Ahead' = {m \in Nodes : InList(ptr, NextOf(a), m)}
  BY DEF Ahead
<1>4. Ahead' \subseteq Ahead
  <2>. SUFFICES ASSUME NEW m \in Nodes, InList(ptr, NextOf(a), m) PROVE InList(ptr, prev, m)
    BY <1>3 DEF Ahead
  <2>1. ASSUME NEW S, Linked(ptr, S), Into(ptr[prev], S) PROVE Into(ptr[NextOf(a)], S)
    BY <2>1 DEF Linked, Into
  <2>. QED BY <2>1 DEF InList
<1>. QED BY <1>1, <1>2, <1>3, <1>4 DEF Smaller

LEMMA AdvanceGetsOn ==
  ASSUME IInv, LostInv, Advance
  PROVE  SortGetsOn
<1>0. PICK a : a = ptr[prev]
  OBVIOUS
<1>1. /\ pc = "sort" /\ pc' = "sort" /\ prev' = NextOf(a) /\ a # NULL /\ prev \in Places
      /\ UNCHANGED <<ptr, WidgetText, stack>>
  BY <1>0 DEF Advance, Comparing, Current, nodes, IInv, TreeTypeOK
<1>2. a \in Placed /\ a \in Nodes
  BY <1>0, <1>1, HolderPlaced
<1>3. Smaller(Ahead', Ahead)
  BY <1>0, <1>1, <1>2, AheadShrinks
<1>4. Inversions' = Inversions /\ Remaining' = Remaining
  BY <1>1 DEF Inversions, Remaining, NextOf
<1>. QED BY <1>1, <1>3, <1>4 DEF SortGetsOn

LEMMA SortedGetsOn ==
  ASSUME Sorted
  PROVE  SortGetsOn
<1>1. pc = "sort" /\ pc' = "descend" /\ UNCHANGED <<ptr, WidgetText, stack>>
  BY DEF Sorted, nodes
<1>2. Inversions' = Inversions /\ Remaining' = Remaining
  BY <1>1 DEF Inversions, Remaining, NextOf
<1>. QED BY <1>1, <1>2 DEF SortGetsOn

LEMMA SortSubGetsOn ==
  ASSUME IInv, LostInv, WayInv, SortSub
  PROVE  SortGetsOn
<1>0. PICK L, t, x, y : L = Len(stack) /\ t = Top /\ x = ptr[NextOf(t)] /\ y = ptr[SubOf(t)]
  OBVIOUS
<1>1. /\ pc = "descend" /\ t # NULL /\ stack # <<>> /\ stack \in Seq(Nodes \cup {NULL})
      /\ UNCHANGED <<ptr, WidgetText>>
  BY <1>0 DEF SortSub, nodes, IInv, StackInv, TreeTypeOK
<1>2. L \in Nat /\ L # 0 /\ t = stack[L] /\ t \in Nodes /\ L \in 1 .. L
  BY <1>0, <1>1, FrontFacts DEF Top
<1>3. x \in Nodes \cup {NULL} /\ y \in Nodes \cup {NULL}
  BY <1>0, <1>2, PlaceFacts DEF IInv, TreeTypeOK
<1>4. ~Leads(ptr, y, t) /\ \A i \in 1 .. L : ~Leads(ptr, ptr[NextOf(stack[i])], t)
  BY <1>0, <1>1, NotAgain
<1>5. \A m : Leads(ptr, x, m) \/ Leads(ptr, y, m) => Leads(ptr, t, m)
  BY <1>0, <1>1, UnderFacts
<1>6. t \in LeftOf(ptr, stack)
  <2>1. Leads(ptr, t, t)
    BY <1>1, UnderFacts
  <2>. QED BY <1>0, <1>2, <2>1 DEF LeftOf
<1>7. \A i \in 1 .. L : i # L => \A m \in Nodes : Leads(ptr, ptr[NextOf(stack[i])], m) => m \in LeftOf(ptr, stack)
  BY <1>0 DEF LeftOf
<1>8. \A m \in Nodes : Leads(ptr, t, m) => m \in LeftOf(ptr, stack)
  BY <1>0, <1>2 DEF LeftOf
<1>9. ASSUME NEW m \in LeftOf(ptr, stack')
      PROVE  \/ \E i \in 1 .. L : i # L /\ Leads(ptr, ptr[NextOf(stack[i])], m)
             \/ Leads(ptr, x, m) \/ Leads(ptr, y, m)
  <2>0. PICK s : s = stack'
    OBVIOUS
  <2>1. PICK i \in 1 .. Len(s) : Leads(ptr, IF i = Len(s) THEN s[i] ELSE ptr[NextOf(s[i])], m)
    BY <1>9, <2>0 DEF LeftOf
  <2>2. CASE y # NULL
    <3>1. s = Append(stack, y)
      BY <1>0, <2>0, <2>2 DEF SortSub, Call
    <3>2. Len(s) = L + 1 /\ s[L + 1] = y /\ \A j \in 1 .. L : s[j] = stack[j]
      BY <1>0, <1>1, <1>3, <3>1, CallStack
    <3>3. i \in 1 .. L \/ i = L + 1
      BY <1>2, <2>1, <3>2
    <3>4. L # L + 1
      BY <1>2
    <3>. QED BY <1>0, <1>2, <2>1, <3>2, <3>3, <3>4
  <2>3. CASE y = NULL
    <3>1. s = [stack EXCEPT ![L] = x]
      BY <1>0, <2>0, <2>3 DEF SortSub, Goto
    <3>2. Len(s) = L /\ s[L] = x /\ \A j \in 1 .. L - 1 : s[j] = stack[j]
      BY <1>0, <1>1, <1>3, <3>1, GotoStack
    <3>3. i = L \/ (i # L /\ i \in 1 .. L - 1)
      BY <1>2, <2>1, <3>2
    <3>. QED BY <2>1, <3>2, <3>3
  <2>. QED BY <2>2, <2>3
<1>10. LeftOf(ptr, stack') \subseteq LeftOf(ptr, stack)
  <2>1. LeftOf(ptr, stack') \subseteq Nodes
    BY DEF LeftOf
  <2>. QED BY <1>5, <1>7, <1>8, <1>9, <2>1
<1>11. t \notin LeftOf(ptr, stack')
  BY <1>0, <1>2, <1>4, <1>9
<1>12. Inversions' = Inversions /\ Smaller(Remaining', Remaining)
  BY <1>1, <1>6, <1>10, <1>11 DEF Inversions, NextOf, Smaller, Remaining
<1>. QED BY <1>12 DEF SortGetsOn

LEMMA SortReturnGetsOn ==
  ASSUME IInv, SortReturn
  PROVE  SortGetsOn
<1>0. PICK L : L = Len(stack)
  OBVIOUS
<1>1. /\ pc = "descend" /\ Top = NULL /\ stack # <<>> /\ stack \in Seq(Nodes \cup {NULL})
      /\ UNCHANGED <<ptr, WidgetText>>
  BY DEF SortReturn, nodes, IInv, StackInv, TreeTypeOK
<1>2. L \in Nat /\ L # 0 /\ stack[L] = NULL /\ L \in 1 .. L
  BY <1>0, <1>1, FrontFacts DEF Top
<1>3. \A m : ~Leads(ptr, stack[L], m)
  BY <1>2, UnderFacts
<1>4. CASE L > 1
  <2>0. PICK s, c : s = stack' /\ c = ptr[NextOf(stack[L - 1])]
    OBVIOUS
  <2>1. L - 1 \in 1 .. L /\ stack[L - 1] \in Nodes
    <3>1. L - 1 \in 1 .. L - 1 /\ L - 1 \in 1 .. L
      BY <1>2, <1>4
    <3>. QED BY <1>0, <1>1, <3>1 DEF IInv, StackInv
  <2>2. c \in Nodes \cup {NULL}
    BY <2>0, <2>1, PlaceFacts DEF IInv, TreeTypeOK
  <2>3. s = [Front(stack) EXCEPT ![L - 1] = c]
    BY <1>0, <1>4, <2>0 DEF SortReturn, Return
  <2>4. Len(s) = L - 1 /\ s[L - 1] = c /\ \A i \in 1 .. L - 2 : s[i] = stack[i]
    BY <1>0, <1>1, <1>4, <2>2, <2>3, ReturnStack
  <2>5. ASSUME NEW m
        PROVE  (\E i \in 1 .. L : Leads(ptr, IF i = L THEN stack[i] ELSE ptr[NextOf(stack[i])], m))
          <=>  \E i \in 1 .. L - 1 : Leads(ptr, IF i = L - 1 THEN s[i] ELSE ptr[NextOf(s[i])], m)
    <3>. DEFINE U(i) == Leads(ptr, IF i = L THEN stack[i] ELSE ptr[NextOf(stack[i])], m)
                V(i) == Leads(ptr, IF i = L - 1 THEN s[i] ELSE ptr[NextOf(s[i])], m)
    <3>1. ~U(L)
      BY <1>3
    <3>2. ASSUME NEW i \in 1 .. L - 1 PROVE U(i) <=> V(i)
      <4>1. i # L
        BY <1>2, <3>2
      <4>2. CASE i = L - 1
        BY <2>0, <2>4, <4>1, <4>2
      <4>3. CASE i # L - 1
        <5>1. i \in 1 .. L - 2
          BY <1>2, <3>2, <4>3
        <5>2. s[i] = stack[i]
          BY <2>4, <5>1
        <5>. QED BY <4>1, <4>3, <5>2
      <4>. QED BY <4>2, <4>3
    <3>3. \A i \in 1 .. L : i = L \/ i \in 1 .. L - 1
      BY <1>2
    <3>4. \A i \in 1 .. L - 1 : i \in 1 .. L
      BY <1>2
    <3>. HIDE DEF U, V
    <3>5. (\E i \in 1 .. L : U(i)) <=> \E i \in 1 .. L - 1 : V(i)
      BY <3>1, <3>2, <3>3, <3>4
    <3>. QED BY <3>5 DEF U, V
  <2>6. LeftOf(ptr, s) = LeftOf(ptr, stack)
    BY <1>0, <2>4, <2>5 DEF LeftOf
  <2>7. Len(stack') < Len(stack)
    BY <1>0, <1>2, <2>0, <2>4
  <2>8. Inversions' = Inversions /\ Remaining' = Remaining
    BY <1>1, <2>0, <2>6 DEF Inversions, NextOf, Remaining
  <2>. QED BY <2>7, <2>8 DEF SortGetsOn
<1>5. CASE L = 1
  <2>1. stack' = <<>>
    BY <1>0, <1>5 DEF SortReturn
  <2>2. Len(stack') = 0 /\ 1 .. 0 = {} /\ 1 .. 1 = {1}
    BY <2>1
  <2>3. LeftOf(ptr, stack') = {}
    BY <2>2 DEF LeftOf
  <2>4. LeftOf(ptr, stack) = {}
    BY <1>0, <1>3, <1>5, <2>2 DEF LeftOf
  <2>5. Inversions' = Inversions /\ Remaining' = Remaining
    BY <1>1, <2>3, <2>4 DEF Inversions, NextOf, Remaining
  <2>6. Len(stack') < Len(stack)
    BY <1>0, <1>5, <2>2
  <2>. QED BY <2>5, <2>6 DEF SortGetsOn
<1>. QED BY <1>2, <1>4, <1>5

\* The sort cannot go on for ever: every step of it decreases what is finite.
\* (sort_tweak_list, whose loop begins again after every exchange and which
\* calls itself for the Sub lists.)
THEOREM SortGetsOnAlways == Spec => [][Sort => SortGetsOn]_vars
<1>1. Init => WayInv
  BY DEF Init, TreeInit, WayInv
<1>2. IInv /\ NameInv /\ WayInv /\ [Next]_vars => WayInv'
  <2>1. IInv /\ NameInv /\ WayInv /\ TreeNext => WayInv'
    BY WayNext
  <2>2. WayInv /\ UNCHANGED treeVars => WayInv'
    <3>. SUFFICES ASSUME WayInv, UNCHANGED treeVars, pc \in {"sort", "descend"}
                  PROVE  \E dir : Names(dir)' /\ WayDown(dir)'
      BY DEF WayInv, treeVars
    <3>1. PICK dir : Names(dir) /\ WayDown(dir)
      BY DEF WayInv
    <3>2. UNCHANGED <<ptr, heap, WidgetText, Type, tweak, stack>>
      BY DEF treeVars, nodes
    <3>3. Names(dir)' /\ Placed' = Placed
      BY <3>1, <3>2, NamesUnchanged
    <3>4. WayDown(dir)'
      BY <3>1, <3>2, <3>3 DEF WayDown
    <3>. QED BY <3>3, <3>4
  <2>. QED BY <2>1, <2>2, WireStep
<1>3. IInv /\ LostInv /\ NameInv /\ WayInv => (Sort => SortGetsOn)
  <2>. SUFFICES ASSUME IInv, LostInv, NameInv, WayInv, Sort PROVE SortGetsOn
    OBVIOUS
  <2>1. CASE Swap
    BY <2>1, SwapShrinks DEF SortGetsOn, Smaller
  <2>. QED BY <2>1, AdvanceGetsOn, SortedGetsOn, SortSubGetsOn, SortReturnGetsOn DEF Sort
<1>. QED BY <1>1, <1>2, <1>3, NameInvariance, PTL DEF Spec

-----------------------------------------------------------------------------
(* The search gets on *)

\* A step of the search ends it, or leaves less of the path, or else less of
\* the list.
SearchGetsOn ==
  \/ pc' = "build"
  \/ Len(rest') < Len(rest)
  \/ rest' = rest /\ Smaller(Ahead', Ahead)

\* No registration searches for ever: an entry of the path is found or made
\* where the list ends.  (RegisterTweak with additemtolist.)
THEOREM SearchGetsOnAlways == Spec => [][Search => SearchGetsOn]_vars
<1>1. ASSUME IInv, LostInv, Walk PROVE SearchGetsOn
  <2>0. PICK a : a = ptr[prev]
    OBVIOUS
  <2>1. /\ pc = "search" /\ prev' = NextOf(a) /\ a # NULL /\ prev \in Places
        /\ UNCHANGED <<ptr, rest>>
    BY <1>1, <2>0 DEF Walk, nodes, IInv, TreeTypeOK
  <2>2. a \in Placed /\ a \in Nodes
    BY <1>1, <2>0, <2>1, HolderPlaced
  <2>3. Smaller(Ahead', Ahead)
    BY <1>1, <2>0, <2>1, <2>2, AheadShrinks
  <2>. QED BY <2>1, <2>3 DEF SearchGetsOn
<1>2. ASSUME IInv, Enter \/ additemtolist_create PROVE SearchGetsOn
  <2>1. rest # <<>> /\ rest' = Tail(rest) /\ rest \in Seq([text : Texts, type : Types])
    BY <1>2 DEF Enter, additemtolist_create, IInv, TreeTypeOK
  <2>2. Len(rest') < Len(rest)
    BY <2>1
  <2>. QED BY <2>2 DEF SearchGetsOn
<1>3. ASSUME additemtolist_insert \/ Duplicate PROVE SearchGetsOn
  BY <1>3 DEF additemtolist_insert, Duplicate, SearchGetsOn
<1>4. IInv /\ LostInv => (Search => SearchGetsOn)
  BY <1>1, <1>2, <1>3 DEF Search
<1>. QED BY <1>4, LostInvariance, PTL

=============================================================================
