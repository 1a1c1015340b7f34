------------------------------ MODULE TweakTree ------------------------------
(***************************************************************************)
(* The tree of tweaks in the memory of one process: RegisterTweak,         *)
(* sort_tweak_list and DestroyAllTweaks (libpowertweak/register.c, misc.c, *)
(* libpowertweak.c), pointer by pointer.                                   *)
(*                                                                         *)
(* A node has two pointers, Next and Sub; with the global pointer tweaks   *)
(* they are the places a `struct tweak **' can lead to.                    *)
(***************************************************************************)
EXTENDS Naturals, FiniteSets, SequencesExt

CONSTANTS
  Nodes, NULL,   \* addresses of nodes
  Texts, Fold,   \* texts, as numbers in the order of strcmp; Fold[t] is the
                 \* text that stands for those strcasecmp finds equal to t
  Registrations, \* calls of RegisterTweak: the text of the tweak, and the
                 \* texts and types its path is made of
  MaxTweaks      \* bound on the number of calls

Types == {"tree", "tab", "frame", "tweak"}

ASSUME TreeAssumption ==
  /\ NULL \notin Nodes /\ IsFiniteSet(Nodes)
  /\ Texts \subseteq Nat /\ Fold \in [Texts -> Texts]
  /\ Registrations \subseteq [text : Texts, path : Seq([text : Texts, type : Types])]
  /\ MaxTweaks \in Nat

\* Every caller's format begins with "m": the path begins with a menu.
ASSUME MenuAssumption ==
  \A r \in Registrations : r.path # <<>> /\ Head(r.path).type = "tree"

tweaks == <<"tweaks", NULL>>
NextOf(n) == <<"Next", n>>
SubOf(n) == <<"Sub", n>>
Fields == {"Next", "Sub"} \X Nodes
Places == {tweaks} \cup Fields

VARIABLES
  pc,          \* what the process is doing
  ptr,         \* the pointer in each place
  heap,        \* allocated nodes
  WidgetText, Type,  \* of each node
  tweak,       \* the tweak being registered
  rest,        \* the part of its path that is still to be walked
  prev,        \* Prev of the searches, prev of the sort: a place
  stack,       \* tweak in every activation of the recursive functions
  registered   \* number of calls so far

nodes == <<ptr, heap, WidgetText, Type>>
treeVars == <<pc, nodes, tweak, rest, prev, stack, registered>>

TreeInit ==
  /\ pc = "build"
  /\ ptr = [p \in Places |-> NULL] /\ heap = {}
  /\ WidgetText = [n \in Nodes |-> NULL] /\ Type = [n \in Nodes |-> NULL]
  /\ tweak = NULL /\ rest = <<>> /\ prev = tweaks /\ stack = <<>>
  /\ registered = 0

Fresh == CHOOSE n \in Nodes : n \notin heap

alloc_tweak(n, txt, type) ==
  /\ heap' = heap \cup {n}
  /\ WidgetText' = [WidgetText EXCEPT ![n] = txt]
  /\ Type' = [Type EXCEPT ![n] = type]

\* What is in a freed node is not told apart.
free(n) ==
  /\ heap' = heap \ {n}
  /\ ptr' = [ptr EXCEPT ![NextOf(n)] = NULL, ![SubOf(n)] = NULL]
  /\ WidgetText' = [WidgetText EXCEPT ![n] = NULL]
  /\ Type' = [Type EXCEPT ![n] = NULL]

-----------------------------------------------------------------------------
(* Registering *)

RegisterTweak(r) ==
  /\ pc = "build" /\ registered < MaxTweaks /\ heap # Nodes
  /\ alloc_tweak(Fresh, r.text, "tweak")
  /\ tweak' = Fresh /\ rest' = r.path
  /\ prev' = tweaks
  /\ registered' = registered + 1
  /\ pc' = "search"
  /\ UNCHANGED <<ptr, stack>>

\* The text that is looked for: the next one of the path, at last the tweak's.
Item == IF rest = <<>> THEN WidgetText[tweak] ELSE Head(rest).text

\* Variant: strcmp instead of strcasecmp.
MatchesExactly(n) == WidgetText[n] = Item

Matches(n) == Fold[WidgetText[n]] = Fold[Item]

Walk ==
  /\ pc = "search" /\ ptr[prev] # NULL /\ ~Matches(ptr[prev])
  /\ prev' = NextOf(ptr[prev])
  /\ UNCHANGED <<pc, nodes, tweak, rest, stack, registered>>

\* An entry of the path is there already: it takes the type of this path.
Enter ==
  /\ pc = "search" /\ ptr[prev] # NULL /\ Matches(ptr[prev]) /\ rest # <<>>
  /\ Type' = [Type EXCEPT ![ptr[prev]] = Head(rest).type]
  /\ prev' = SubOf(ptr[prev])
  /\ rest' = Tail(rest)
  /\ UNCHANGED <<pc, ptr, heap, WidgetText, tweak, stack, registered>>

\* An entry of the path is not there: it is put at the end of the list.
additemtolist_create ==
  /\ pc = "search" /\ ptr[prev] = NULL /\ rest # <<>> /\ heap # Nodes
  /\ alloc_tweak(Fresh, Head(rest).text, Head(rest).type)
  /\ ptr' = [ptr EXCEPT ![prev] = Fresh]
  /\ prev' = SubOf(Fresh)
  /\ rest' = Tail(rest)
  /\ UNCHANGED <<pc, tweak, stack, registered>>

additemtolist_insert ==
  /\ pc = "search" /\ rest = <<>> /\ ptr[prev] = NULL
  /\ ptr' = [ptr EXCEPT ![prev] = tweak]
  /\ tweak' = NULL /\ prev' = tweaks
  /\ pc' = "build"
  /\ UNCHANGED <<heap, WidgetText, Type, rest, stack, registered>>

\* The tweak has the text of one that is there: it is destroyed.
Duplicate ==
  /\ pc = "search" /\ rest = <<>> /\ ptr[prev] # NULL /\ Matches(ptr[prev])
  /\ free(tweak)
  /\ tweak' = NULL /\ prev' = tweaks
  /\ pc' = "build"
  /\ UNCHANGED <<rest, stack, registered>>

-----------------------------------------------------------------------------
(* Recursion over the tree *)

Top == Last(stack)

\* The list the innermost activation was called with.
TopList == IF Len(stack) = 1 THEN tweaks ELSE SubOf(stack[Len(stack) - 1])

Goto(n) == stack' = [stack EXCEPT ![Len(stack)] = n]

Call(n) == stack' = Append(stack, n)

\* Variant: the caller goes on with the address of the pointer.
ReturnPlace ==
  LET caller == Len(stack) - 1 IN
  stack' = [Front(stack) EXCEPT ![caller] = NextOf(stack[caller])]

\* The innermost activation returns; its caller goes on with the next node.
Return ==
  LET caller == Len(stack) - 1 IN
  stack' = [Front(stack) EXCEPT ![caller] = ptr[NextOf(stack[caller])]]

-----------------------------------------------------------------------------
(* Sorting *)

\* After the plugins.  What the list begins with is remembered before it is
\* sorted (the variable tweak of sort_tweak_list).
sort_tweak_list ==
  /\ pc = "build"
  /\ stack' = <<ptr[tweaks]>>
  /\ prev' = tweaks
  /\ pc' = "sort"
  /\ UNCHANGED <<nodes, tweak, rest, registered>>

\* The inner loop compares the node in place prev with the one after it.
Current == ptr[prev]
Following == ptr[NextOf(Current)]
Comparing == Current # NULL /\ Following # NULL /\ Type[Current] = "tree"

\* Variants: nodes are exchanged because they differ; the Next pointer of the
\* first is forgotten; after an exchange the loop goes on from there.
SwapDifferent ==
  /\ pc = "sort" /\ Comparing /\ WidgetText[Current] # WidgetText[Following]
  /\ ptr' = [ptr EXCEPT ![prev] = Following, ![NextOf(Following)] = Current,
                     ![NextOf(Current)] = ptr[NextOf(Following)]]
  /\ prev' = TopList
  /\ UNCHANGED <<pc, heap, WidgetText, Type, tweak, rest, stack, registered>>

SwapForgetting ==
  /\ pc = "sort" /\ Comparing /\ WidgetText[Current] > WidgetText[Following]
  /\ ptr' = [ptr EXCEPT ![prev] = Following, ![NextOf(Following)] = Current]
  /\ prev' = TopList
  /\ UNCHANGED <<pc, heap, WidgetText, Type, tweak, rest, stack, registered>>

SwapGoingOn ==
  /\ pc = "sort" /\ Comparing /\ WidgetText[Current] > WidgetText[Following]
  /\ ptr' = [ptr EXCEPT ![prev] = Following, ![NextOf(Following)] = Current,
                     ![NextOf(Current)] = ptr[NextOf(Following)]]
  /\ prev' = NextOf(Following)
  /\ UNCHANGED <<pc, heap, WidgetText, Type, tweak, rest, stack, registered>>

\* Two neighbours change places and the loop begins again.
Swap ==
  /\ pc = "sort" /\ Comparing /\ WidgetText[Current] > WidgetText[Following]
  /\ ptr' = [ptr EXCEPT ![prev] = Following, ![NextOf(Following)] = Current,
                     ![NextOf(Current)] = ptr[NextOf(Following)]]
  /\ prev' = TopList
  /\ UNCHANGED <<pc, heap, WidgetText, Type, tweak, rest, stack, registered>>

Advance ==
  /\ pc = "sort" /\ Comparing /\ WidgetText[Current] <= WidgetText[Following]
  /\ prev' = NextOf(Current)
  /\ UNCHANGED <<pc, nodes, tweak, rest, stack, registered>>

\* A whole round without an exchange: on to the Sub lists.
Sorted ==
  /\ pc = "sort" /\ ~Comparing
  /\ pc' = "descend"
  /\ UNCHANGED <<nodes, tweak, rest, prev, stack, registered>>

SortSub ==
  /\ pc = "descend" /\ Top # NULL
  /\ IF ptr[SubOf(Top)] # NULL
     THEN Call(ptr[SubOf(Top)]) /\ prev' = SubOf(Top) /\ pc' = "sort"
     ELSE Goto(ptr[NextOf(Top)]) /\ UNCHANGED <<prev, pc>>
  /\ UNCHANGED <<nodes, tweak, rest, registered>>

SortReturn ==
  /\ pc = "descend" /\ Top = NULL
  /\ IF Len(stack) > 1
     THEN Return /\ UNCHANGED <<prev, pc>>
     ELSE /\ stack' = <<>> /\ prev' = tweaks
          /\ pc' = IF ptr[tweaks] = NULL THEN "gone" ELSE "serving"
  /\ UNCHANGED <<nodes, tweak, rest, registered>>

-----------------------------------------------------------------------------
(* Destroying *)

\* restart(), and main() when daemon_loop() is over.
DestroyAllTweaks ==
  /\ pc = "serving"
  /\ stack' = <<ptr[tweaks]>>
  /\ pc' = "destroy"
  /\ UNCHANGED <<nodes, tweak, rest, prev, registered>>

DestroySub ==
  /\ pc = "destroy" /\ Top # NULL /\ ptr[SubOf(Top)] # NULL
  /\ Call(ptr[SubOf(Top)])
  /\ UNCHANGED <<pc, nodes, tweak, rest, prev, registered>>

DestroyLeaf ==
  /\ pc = "destroy" /\ Top # NULL /\ ptr[SubOf(Top)] = NULL
  /\ free(Top)
  /\ Goto(ptr[NextOf(Top)])
  /\ UNCHANGED <<pc, tweak, rest, prev, registered>>

\* Variant: the node whose Sub list is gone stays.
DestroyReturnLeaking ==
  /\ pc = "destroy" /\ Top = NULL /\ Len(stack) > 1
  /\ Return
  /\ UNCHANGED <<pc, nodes, tweak, rest, prev, registered>>

\* The Sub list of a node is gone: the node goes too.
DestroyReturn ==
  /\ pc = "destroy" /\ Top = NULL /\ Len(stack) > 1
  /\ Return
  /\ free(stack[Len(stack) - 1])
  /\ UNCHANGED <<pc, tweak, rest, prev, registered>>

Destroyed ==
  /\ pc = "destroy" /\ Top = NULL /\ Len(stack) = 1
  /\ ptr' = [ptr EXCEPT ![tweaks] = NULL]
  /\ stack' = <<>>
  /\ pc' \in {"build", "gone"}
  /\ UNCHANGED <<heap, WidgetText, Type, tweak, rest, prev, registered>>

-----------------------------------------------------------------------------
(* Specification *)

Register == \E r \in Registrations : RegisterTweak(r)

Search == Walk \/ Enter \/ additemtolist_create \/ additemtolist_insert \/ Duplicate

Sort == Swap \/ Advance \/ Sorted \/ SortSub \/ SortReturn

Destroy == DestroySub \/ DestroyLeaf \/ DestroyReturn \/ Destroyed

TreeStep == Register \/ Search \/ sort_tweak_list \/ Sort \/ Destroy

TreeNext == TreeStep \/ DestroyAllTweaks

TreeSpec == TreeInit /\ [][TreeNext]_treeVars

-----------------------------------------------------------------------------
(* Properties *)

TreeTypeOK ==
  /\ pc \in {"build", "search", "sort", "descend", "serving", "destroy", "gone"}
  /\ ptr \in [Places -> Nodes \cup {NULL}] /\ heap \subseteq Nodes
  /\ WidgetText \in [Nodes -> Texts \cup {NULL}] /\ Type \in [Nodes -> Types \cup {NULL}]
  /\ tweak \in Nodes \cup {NULL} /\ rest \in Seq([text : Texts, type : Types])
  /\ prev \in Places /\ stack \in Seq(Nodes \cup {NULL})
  /\ registered \in Nat

\* The nodes that pointers lead to from those in S, S included.
From(S) ==
  LET f[k \in 0 .. Cardinality(Nodes)] ==
        IF k = 0 THEN S \ {NULL}
        ELSE (UNION {{n, ptr[NextOf(n)], ptr[SubOf(n)]} : n \in f[k - 1]}) \ {NULL}
  IN f[Cardinality(Nodes)]

\* The nodes DestroyAllTweaks still has to free.
Doomed ==
  UNION {LET n == stack[i] IN
         IF i = Len(stack) \/ n = NULL THEN From({n}) ELSE {n} \cup From({ptr[NextOf(n)]})
         : i \in DOMAIN stack}

\* Every allocated node can be reached, and every pointer that is followed
\* leads to an allocated node: no exchange of neighbours, no duplicate and no
\* order of destruction loses a node or keeps one that was freed.
NothingLost ==
  heap = IF pc = "destroy" THEN Doomed ELSE From({ptr[tweaks], tweak})

\* Two pointers never lead to the same node, so that no node is destroyed
\* twice; the tweak being registered is in nobody's list.
OnePointer ==
  pc # "destroy" =>
    /\ \A p, q \in Places : ptr[p] = ptr[q] /\ ptr[p] # NULL => p = q
    /\ \A p \in Places : ptr[p] # NULL => ptr[p] \in heap \ {tweak}

List(p) ==
  LET f[k \in 0 .. Cardinality(Nodes)] ==
        IF k = 0 THEN {ptr[p]} \ {NULL}
        ELSE (UNION {{n, ptr[NextOf(n)]} : n \in f[k - 1]}) \ {NULL}
  IN f[Cardinality(Nodes)]

\* Trees that follow each other are in the order of strcmp.
InOrder(p) ==
  \A n \in List(p) :
    LET m == ptr[NextOf(n)] IN
    m # NULL /\ Type[n] = "tree" /\ Type[m] = "tree" => WidgetText[n] < WidgetText[m]

\* Once its list has been sorted the top level of the tree is in order, and
\* stays so while the lists below are sorted and the process serves.
TopLevelInOrder == pc \in {"descend", "serving"} => InOrder(tweaks)

\* ChangeLog:37, "Subtrees are now sorted alphabetically in UIs."
SubtreesInOrder == pc = "serving" => \A n \in heap : InOrder(SubOf(n))

\* The exchanging of neighbours and the descent come to an end.
SortEnds == pc = "sort" ~> pc \in {"serving", "gone"}

\* The paths of the nodes below a place.
Depth == 5
Entries ==
  LET entry(path, n) == [path |-> Append(path, Fold[WidgetText[n]]), node |-> n]
      level[k \in 1 .. Depth] ==
        IF k = 1 THEN {entry(<<>>, n) : n \in List(tweaks)}
        ELSE UNION {{entry(e.path, n) : n \in List(SubOf(e.node))} : e \in level[k - 1]}
  IN UNION {level[k] : k \in 1 .. Depth}

\* The tree is a catalogue of paths: RegisterTweak adds what is new below what
\* is there, whoever came first keeps the path, no sorting adds, drops or
\* moves a path.
Abstract == INSTANCE Catalogue WITH entries <- IF pc = "destroy" THEN {} ELSE Entries
IsCatalogue == Abstract!Spec

=============================================================================
