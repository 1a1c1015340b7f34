------------------------------ MODULE TweakWire ------------------------------
(***************************************************************************)
(* The transfer of the tree to a client: SendTweakStructure of the daemon  *)
(* (daemon.c) against magic_tweak_code of the client (client.c), two       *)
(* recursive functions joined by a socket.                                 *)
(*                                                                         *)
(* A message is a node - its texts, type and limits - or one of "sub",     *)
(* "next", "return".  The client's copy of node n is named n too.          *)
(***************************************************************************)
EXTENDS TweakTree

CONSTANT Room  \* messages that fit into the socket

\* Nodes are told apart from the other messages, places from NULL.
ASSUME WireAssumption ==
  /\ Room \in Nat \ {0}
  /\ Nodes \cap {"sub", "next", "return"} = {}
  /\ NULL \notin Places

VARIABLES
  session,   \* the daemon is in message_loop()
  sending,   \* activations of SendTweakStructure: node, and what comes next
  socket,    \* messages on the way
  client,    \* the client's state: "none", "receiving", "has"
  receiving, \* activations of magic_tweak_code: node, the place its caller
             \* puts the result in, and the number of the next message
  called,    \* the place a call is for that waits for its node, or NULL
  copy       \* the client's memory: the pointer in each place

wireVars == <<session, sending, socket, client, receiving, called, copy>>
vars == <<treeVars, wireVars>>

NoCopy == [p \in Places |-> NULL]

Init ==
  /\ TreeInit
  /\ session = FALSE /\ sending = <<>> /\ socket = <<>>
  /\ client = "none" /\ receiving = <<>> /\ called = NULL /\ copy = NoCopy

-----------------------------------------------------------------------------
(* The daemon *)

SendTweakStructure(n) == [node |-> n, at |-> "tweak"]

\* A client connects and asks for the tree.
Request ==
  /\ pc = "serving" /\ ~session /\ client = "none"
  /\ session' = TRUE /\ client' = "receiving" /\ called' = tweaks
  /\ sending' = <<SendTweakStructure(ptr[tweaks])>>
  /\ UNCHANGED <<treeVars, socket, receiving, copy>>

\* Variant: the Sub list is sent after the rest of the list.
ToSendNextFirst(f) ==
  IF f.at = "tweak" THEN f.node
  ELSE IF f.at = "sub" /\ ptr[NextOf(f.node)] # NULL THEN "next"
  ELSE IF f.at # "return" /\ ptr[SubOf(f.node)] # NULL THEN "sub"
  ELSE "return"

\* What the innermost activation sends next: the node, its Sub list, the rest
\* of the list it is in, and "return".
ToSend(f) ==
  IF f.at = "tweak" THEN f.node
  ELSE IF f.at = "sub" /\ ptr[SubOf(f.node)] # NULL THEN "sub"
  ELSE IF f.at # "return" /\ ptr[NextOf(f.node)] # NULL THEN "next"
  ELSE "return"

\* Variant: the rest of a list is sent in a loop, with one "return" for all.
ContinueLooping(s, msg) ==
  LET f == Last(s) IN
  CASE msg = "sub" -> Append(Front(s), [f EXCEPT !.at = "next"]) \o <<SendTweakStructure(ptr[SubOf(f.node)])>>
    [] msg = "next" -> Append(Front(s), SendTweakStructure(ptr[NextOf(f.node)]))
    [] msg = "return" -> Front(s)
    [] OTHER -> Append(Front(s), [f EXCEPT !.at = "sub"])

\* The activations once msg has been sent.
Continue(s, msg) ==
  LET f == Last(s) IN
  CASE msg = "sub" -> Append(Front(s), [f EXCEPT !.at = "next"]) \o <<SendTweakStructure(ptr[SubOf(f.node)])>>
    [] msg = "next" -> Append(Front(s), [f EXCEPT !.at = "return"]) \o <<SendTweakStructure(ptr[NextOf(f.node)])>>
    [] msg = "return" -> Front(s)
    [] OTHER -> Append(Front(s), [f EXCEPT !.at = "sub"])

Send ==
  /\ sending # <<>> /\ Len(socket) < Room
  /\ LET msg == ToSend(Last(sending)) IN
     /\ socket' = Append(socket, msg)
     /\ sending' = Continue(sending, msg)
  /\ UNCHANGED <<treeVars, session, client, receiving, called, copy>>

\* A signal interrupts write(): HaveError silences the rest of the tree and
\* message_loop() returns.  The connection stays open.
Interrupt ==
  /\ sending # <<>> /\ Len(socket) = Room
  /\ sending' = <<>>
  /\ session' = FALSE
  /\ UNCHANGED <<treeVars, socket, client, receiving, called, copy>>

-----------------------------------------------------------------------------
(* The client *)

\* magic_tweak_code begins by receiving its node.
ReceiveTweak ==
  /\ called # NULL /\ socket # <<>>
  /\ receiving' = Append(receiving, [node |-> Head(socket), dest |-> called, message |-> 1])
  /\ socket' = Tail(socket)
  /\ called' = NULL
  /\ UNCHANGED <<treeVars, session, sending, client, copy>>

\* Variant: the list after a Sub list is not expected.
RecursesSubOnly(f, msg) == msg \in {"sub", "next"} /\ f.message = 1

\* Whether the message makes the activation call itself: "sub" is expected
\* only first, "next" first or second.
Recurses(f, msg) ==
  \/ msg = "sub" /\ f.message = 1
  \/ msg = "next" /\ f.message \in {1, 2}

\* The result of a call is put into its place when it returns, so that the
\* tree grows from the leaves.
ReceiveMessage ==
  /\ called = NULL /\ receiving # <<>> /\ socket # <<>>
  /\ LET f == Last(receiving)
         msg == Head(socket)
         second == [f EXCEPT !.message = @ + 1]
     IN IF Recurses(f, msg)
        THEN /\ receiving' = Append(Front(receiving), second)
             /\ called' = IF msg = "sub" THEN SubOf(f.node) ELSE NextOf(f.node)
             /\ UNCHANGED <<copy, client>>
        ELSE IF msg = "return" \/ f.message = 3
        THEN /\ receiving' = Front(receiving)
             /\ copy' = [copy EXCEPT ![f.dest] = f.node]
             /\ client' = IF Len(receiving) = 1 THEN "has" ELSE client
             /\ UNCHANGED called
        ELSE /\ receiving' = Append(Front(receiving), second)
             /\ UNCHANGED <<called, copy, client>>
  /\ socket' = Tail(socket)
  /\ UNCHANGED <<treeVars, session, sending>>

\* The client has its tree, and later leaves.
Bye ==
  /\ client = "has" /\ sending = <<>>
  /\ client' = "none" /\ session' = FALSE /\ copy' = NoCopy
  /\ UNCHANGED <<treeVars, sending, socket, receiving, called>>

-----------------------------------------------------------------------------
(* Specification *)

\* The daemon reloads, or ends, between two sessions.  A client whose transfer
\* was cut waits for ever; what the daemon does after that is not followed.
Next ==
  \/ TreeStep /\ UNCHANGED wireVars
  \/ DestroyAllTweaks /\ client = "none" /\ UNCHANGED wireVars
  \/ Request \/ Send \/ Interrupt \/ ReceiveTweak \/ ReceiveMessage \/ Bye

Spec == Init /\ [][Next]_vars

\* One process runs its own code, and a process whose message there is room
\* for, or that has one to read, goes on.
FairSpec ==
  /\ Spec
  /\ WF_vars(TreeStep /\ UNCHANGED wireVars)
  /\ WF_vars(Send) /\ WF_vars(ReceiveTweak \/ ReceiveMessage)

-----------------------------------------------------------------------------
(* Properties *)

\* What the client has built so far is a part of the daemon's tree, with
\* every node in its place; a transfer that is not cut gives all of it.
CopyIsExact ==
  session =>
    /\ \A p \in Places : copy[p] \in {ptr[p], NULL}
    /\ client = "has" => copy = ptr

\* The two recursions stay in step: with nothing on the way the client is
\* inside the activations the daemon is inside, and expects a node when a
\* node comes next.
InStep ==
  session /\ socket = <<>> /\ sending # <<>> =>
    /\ Last(sending).at = "tweak" <=> called # NULL
    /\ [i \in DOMAIN receiving |-> receiving[i].node]
         = [i \in 1 .. Len(sending) - (IF called = NULL THEN 0 ELSE 1) |-> sending[i].node]

\* A client that waits for the tree gets it, unless a signal cut it.
TransferEnds == client = "receiving" ~> client = "has" \/ ~session

=============================================================================
