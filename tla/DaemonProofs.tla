---------------------------- MODULE DaemonProofs ----------------------------
(***************************************************************************)
(* Proofs about module Daemon, for any sets of instances and clients.      *)
(***************************************************************************)
EXTENDS Daemon, TLAPS

\* Next with its actions named, for case distinctions.
LEMMA NextCases ==
  ASSUME Next
  PROVE
    \/ \E d \in Instances : Start(d)
    \/ \E d \in Instances : CreateServer(d)
    \/ \E d \in Instances : WritePid(d)
    \/ \E d \in Instances : InitTweaks(d)
    \/ \E d \in Instances : CheckTERM(d)
    \/ \E d \in Instances : Accept(d)
    \/ \E d \in Instances : GotConn(d)
    \/ \E d \in Instances : Restart(d)
    \/ \E d \in Instances : Authenticate(d)
    \/ \E d \in Instances : EndSession(d)
    \/ \E d \in Instances : ReadMessage(d)
    \/ \E d \in Instances : ReadArgs(d)
    \/ \E d \in Instances : ReadAtEOF(d)
    \/ \E d \in Instances : Reply(d)
    \/ \E d \in Instances : UnlinkPid(d)
    \/ \E d \in Instances : CloseSocket(d)
    \/ \E d \in Instances : UnlinkSocket(d)
    \/ \E d \in Instances : Teardown(d)
    \/ \E d \in Instances : ReceiveHUP(d)
    \/ \E d \in Instances : ReceiveTERM(d)
    \/ \E d \in Instances : Crash(d)
    \/ \E c \in Clients : Connect(c)
    \/ \E c \in Clients : Hello(c)
    \/ \E c \in Clients : SendArgs(c)
    \/ \E c \in Clients : Receive(c)
    \/ \E c \in Clients : ReceiveEOF(c)
    \/ \E c \in Clients : Request(c)
    \/ \E c \in Clients : Quit(c)
    \/ \E c \in Clients : Kill(c)
    \/ CleanRun
  BY Zenon DEF Next, DaemonStep, ClientStep

\* A connection is talked to, or about to be, over a descriptor that is open;
\* it belongs to root once it has been authenticated.
ConnInv ==
  \A d \in Instances :
    /\ dpc[d] = "gotconn" => conn[d] = Nobody \/ conn[d] \in fds[d]
    /\ dpc[d] = "auth" => conn[d] \in fds[d]
    /\ dpc[d] \in Talking => conn[d] \in RootClients /\ conn[d] \in fds[d]

LEMMA PcFacts ==
  /\ "new" \in Pcs
  /\ "bind" \in Pcs
  /\ "pid" \in Pcs
  /\ "init" \in Pcs
  /\ "check" \in Pcs
  /\ "accept" \in Pcs
  /\ "gotconn" \in Pcs
  /\ "restart" \in Pcs
  /\ "auth" \in Pcs
  /\ "read" \in Pcs
  /\ "args" \in Pcs
  /\ "reply" \in Pcs
  /\ "endsession" \in Pcs
  /\ "unlinkpid" \in Pcs
  /\ "closesock" \in Pcs
  /\ "unlinksock" \in Pcs
  /\ "teardown" \in Pcs
  /\ "dead" \in Pcs
  BY DEF Pcs

LEMMA CPcFacts ==
  /\ "idle" \in CPcs
  /\ "connected" \in CPcs
  /\ "waiting" \in CPcs
  /\ "ready" \in CPcs
  /\ "args" \in CPcs
  /\ "local" \in CPcs
  /\ "gone" \in CPcs
  /\ "broken" \in CPcs
  BY DEF CPcs

LEMMA PartFacts ==
  /\ {"hello", "bye", "saveconfig", "requesttweaks", "args"} \subseteq Parts
  /\ WithArgs \subseteq Parts
  /\ Headers \subseteq Parts
  BY DEF Parts, Headers, WithArgs

LEMMA HeaderFacts == \A m : AfterHeader(m) \in Pcs
  BY PcFacts DEF AfterHeader

\* The control state and the flags stay in their ranges, and so do the
\* contents of the sockets.
LEMMA RangesStep ==
  ASSUME Ranges, ConnInv, [Next]_vars
  PROVE  Ranges'
<1>dpc. dpc \in [Instances -> Pcs]
  BY DEF Ranges
<1>conn. conn \in [Instances -> Clients \cup {Nobody}]
  BY DEF Ranges
<1>request. request \in [Instances -> Parts]
  BY DEF Ranges
<1>gotHUP. gotHUP \in [Instances -> BOOLEAN]
  BY DEF Ranges
<1>gotTERM. gotTERM \in [Instances -> BOOLEAN]
  BY DEF Ranges
<1>hupIgnored. hupIgnored \in [Instances -> BOOLEAN]
  BY DEF Ranges
<1>cut. cut \subseteq Clients
  BY DEF Ranges
<1>gen. gen \in [Instances -> Nat]
  BY DEF Ranges
<1>fds. fds \in [Instances -> SUBSET Clients]
  BY DEF Ranges
<1>listening. listening \in [Instances -> BOOLEAN]
  BY DEF Ranges
<1>queue. queue \in [Instances -> Seq(Clients)]
  BY DEF Ranges
<1>sockfile. sockfile \in Instances \cup {Nobody}
  BY DEF Ranges
<1>pidfile. pidfile \in Instances \cup {Nobody}
  BY DEF Ranges
<1>cpc. cpc \in [Clients -> CPcs]
  BY DEF Ranges
<1>want. want \in [Clients -> {"none", "tree", "value"}]
  BY DEF Ranges
<1>budget. budget \in [Clients -> Nat]
  BY DEF Ranges
<1>cgen. cgen \in [Clients -> Nat]
  BY DEF Ranges
<1>toD. toD \in [Clients -> Seq(Parts)]
  BY DEF Ranges
<1>toC. toC \in [Clients -> Seq(Replies)]
  BY DEF Ranges
<1>1. ASSUME NEW d \in Instances, Start(d) PROVE Ranges'
  <2>1. (dpc \in [Instances -> Pcs])'
    BY <1>1, <1>dpc, PcFacts DEF Start, Goto
  <2> QED
    BY <1>1, <2>1 DEF Ranges, Start, Goto, signals, files, clientVars, NetUnchanged
<1>2. ASSUME NEW d \in Instances, CreateServer(d) PROVE Ranges'
  <2>1. (dpc \in [Instances -> Pcs])'
    BY <1>2, <1>dpc, PcFacts DEF CreateServer, Exit, Goto
  <2>2. (sockfile \in Instances \cup {Nobody})'
    BY <1>2, <1>sockfile DEF CreateServer, Exit, Goto
  <2>3. (listening \in [Instances -> BOOLEAN])'
    BY <1>2, <1>listening DEF CreateServer, Exit, Goto, NetUnchanged
  <2>4. (fds \in [Instances -> SUBSET Clients])'
    BY <1>2, <1>fds DEF CreateServer, Exit, Goto, NetUnchanged
  <2>5. (queue \in [Instances -> Seq(Clients)])'
    <3>1. queue' = queue \/ queue' = [queue EXCEPT ![d] = <<>>]
      BY <1>2 DEF CreateServer, Exit, NetUnchanged
    <3>2. <<>> \in Seq(Clients)
      OBVIOUS
    <3> QED
      BY <1>queue, <3>1, <3>2
  <2> QED
    BY <1>2, <2>1, <2>2, <2>3, <2>4, <2>5 DEF Ranges, CreateServer, Exit, Goto, signals, files, clientVars, NetUnchanged
<1>3. ASSUME NEW d \in Instances, WritePid(d) PROVE Ranges'
  <2>1. (dpc \in [Instances -> Pcs])'
    BY <1>3, <1>dpc, PcFacts DEF WritePid, Goto
  <2>2. (pidfile \in Instances \cup {Nobody})'
    BY <1>3, <1>pidfile DEF WritePid, Goto
  <2> QED
    BY <1>3, <2>1, <2>2 DEF Ranges, WritePid, Goto, signals, files, clientVars, NetUnchanged
<1>4. ASSUME NEW d \in Instances, InitTweaks(d) PROVE Ranges'
  <2>1. (dpc \in [Instances -> Pcs])'
    BY <1>4, <1>dpc, PcFacts DEF InitTweaks, Exit, Goto
  <2>2. (gen \in [Instances -> Nat])'
    BY <1>4, <1>gen DEF InitTweaks, Exit, Goto
  <2>3. (fds \in [Instances -> SUBSET Clients])'
    BY <1>4, <1>fds DEF InitTweaks, Exit, Goto, NetUnchanged
  <2>4. (queue \in [Instances -> Seq(Clients)])'
    <3>1. queue' = queue \/ queue' = [queue EXCEPT ![d] = <<>>]
      BY <1>4 DEF InitTweaks, Exit, NetUnchanged
    <3>2. <<>> \in Seq(Clients)
      OBVIOUS
    <3> QED
      BY <1>queue, <3>1, <3>2
  <2>5. (listening \in [Instances -> BOOLEAN])'
    BY <1>4, <1>listening DEF InitTweaks, Exit, Goto, NetUnchanged
  <2> QED
    BY <1>4, <2>1, <2>2, <2>3, <2>4, <2>5 DEF Ranges, InitTweaks, Exit, Goto, signals, files, clientVars, NetUnchanged
<1>5. ASSUME NEW d \in Instances, CheckTERM(d) PROVE Ranges'
  <2>1. (dpc \in [Instances -> Pcs])'
    BY <1>5, <1>dpc, PcFacts DEF CheckTERM, Goto, ExitStep
  <2>2. (conn \in [Instances -> Clients \cup {Nobody}])'
    BY <1>5, <1>conn DEF CheckTERM, Goto, ExitStep
  <2> QED
    BY <1>5, <2>1, <2>2 DEF Ranges, CheckTERM, Goto, ExitStep, signals, files, clientVars, NetUnchanged
<1>6. ASSUME NEW d \in Instances, Accept(d) PROVE Ranges'
  <2>1. (dpc \in [Instances -> Pcs])'
    BY <1>6, <1>dpc, PcFacts DEF Accept, Goto
  <2>2. (conn \in [Instances -> Clients \cup {Nobody}])'
    <3>1. queue[d] # <<>> => Head(queue[d]) \in Clients
      BY <1>queue
    <3> QED
      BY <1>6, <3>1, <1>conn DEF Accept
  <2>3. (fds \in [Instances -> SUBSET Clients])'
    <3>1. queue[d] # <<>> => Head(queue[d]) \in Clients
      BY <1>queue
    <3> QED
      BY <1>6, <3>1, <1>fds DEF Accept
  <2>4. (queue \in [Instances -> Seq(Clients)])'
    <3>1. queue[d] # <<>> => Tail(queue[d]) \in Seq(Clients)
      BY <1>queue
    <3> QED
      BY <1>6, <3>1, <1>queue DEF Accept
  <2> QED
    BY <1>6, <2>1, <2>2, <2>3, <2>4 DEF Ranges, Accept, Goto, signals, files, clientVars, NetUnchanged
<1>7. ASSUME NEW d \in Instances, GotConn(d) PROVE Ranges'
  <2>1. (dpc \in [Instances -> Pcs])'
    BY <1>7, <1>dpc, PcFacts DEF GotConn, Goto
  <2>2. (conn \in [Instances -> Clients \cup {Nobody}])'
    BY <1>7, <1>conn DEF GotConn, Goto
  <2>3. (fds \in [Instances -> SUBSET Clients])'
    BY <1>7, <1>fds DEF GotConn, Goto, NetUnchanged
  <2> QED
    BY <1>7, <2>1, <2>2, <2>3 DEF Ranges, GotConn, Goto, signals, files, clientVars, NetUnchanged
<1>8. ASSUME NEW d \in Instances, Restart(d) PROVE Ranges'
  <2>1. (dpc \in [Instances -> Pcs])'
    BY <1>8, <1>dpc, PcFacts DEF Restart, Exit, Goto
  <2>2. (gen \in [Instances -> Nat])'
    BY <1>8, <1>gen DEF Restart, Exit, Goto
  <2>3. (gotHUP \in [Instances -> BOOLEAN])'
    BY <1>8, <1>gotHUP DEF Restart, Exit, Goto
  <2>4. (fds \in [Instances -> SUBSET Clients])'
    BY <1>8, <1>fds DEF Restart, Exit, Goto, NetUnchanged
  <2>5. (queue \in [Instances -> Seq(Clients)])'
    <3>1. queue' = queue \/ queue' = [queue EXCEPT ![d] = <<>>]
      BY <1>8 DEF Restart, Exit, NetUnchanged
    <3>2. <<>> \in Seq(Clients)
      OBVIOUS
    <3> QED
      BY <1>queue, <3>1, <3>2
  <2>6. (listening \in [Instances -> BOOLEAN])'
    BY <1>8, <1>listening DEF Restart, Exit, Goto, NetUnchanged
  <2> QED
    BY <1>8, <2>1, <2>2, <2>3, <2>4, <2>5, <2>6 DEF Ranges, Restart, Exit, Goto, signals, files, clientVars, NetUnchanged
<1>9. ASSUME NEW d \in Instances, Authenticate(d) PROVE Ranges'
  <2>1. (dpc \in [Instances -> Pcs])'
    BY <1>9, <1>dpc, PcFacts DEF Authenticate, Goto
  <2>2. (fds \in [Instances -> SUBSET Clients])'
    BY <1>9, <1>fds DEF Authenticate, Goto, NetUnchanged
  <2> QED
    BY <1>9, <2>1, <2>2 DEF Ranges, Authenticate, Goto, signals, files, clientVars, NetUnchanged
<1>10. ASSUME NEW d \in Instances, EndSession(d) PROVE Ranges'
  <2>1. (dpc \in [Instances -> Pcs])'
    BY <1>10, <1>dpc, PcFacts DEF EndSession, Goto
  <2>2. (conn \in [Instances -> Clients \cup {Nobody}])'
    BY <1>10, <1>conn DEF EndSession, Goto
  <2> QED
    BY <1>10, <2>1, <2>2 DEF Ranges, EndSession, Goto, signals, files, clientVars, NetUnchanged
<1>11. ASSUME NEW d \in Instances, ReadMessage(d) PROVE Ranges'
  <2>1. (dpc \in [Instances -> Pcs])'
    BY <1>11, <1>dpc, PcFacts, HeaderFacts DEF ReadMessage, Goto
  <2>2. (request \in [Instances -> Parts])'
    <3>1. conn[d] \in Clients
      BY <1>11, DaemonAssumption DEF ReadMessage, ConnInv, Talking
    <3>2. Head(toD[conn[d]]) \in Parts
      BY <1>11, <1>toD, <3>1 DEF ReadMessage
    <3> QED
      BY <1>11, <3>2, <1>request DEF ReadMessage
  <2>3. (toD \in [Clients -> Seq(Parts)])'
    <3>1. conn[d] \in Clients
      BY <1>11, DaemonAssumption DEF ReadMessage, ConnInv, Talking
    <3>2. Tail(toD[conn[d]]) \in Seq(Parts)
      BY <1>11, <1>toD, <3>1 DEF ReadMessage
    <3> QED
      BY <1>11, <1>toD, <3>2 DEF ReadMessage
  <2> QED
    BY <1>11, <2>1, <2>2, <2>3 DEF Ranges, ReadMessage, Goto, signals, files, clientVars, NetUnchanged
<1>12. ASSUME NEW d \in Instances, ReadArgs(d) PROVE Ranges'
  <2>1. (dpc \in [Instances -> Pcs])'
    BY <1>12, <1>dpc, PcFacts DEF ReadArgs, Goto
  <2>2. (toD \in [Clients -> Seq(Parts)])'
    <3>1. conn[d] \in Clients
      BY <1>12, DaemonAssumption DEF ReadArgs, ConnInv, Talking
    <3>2. Tail(toD[conn[d]]) \in Seq(Parts)
      BY <1>12, <1>toD, <3>1 DEF ReadArgs
    <3> QED
      BY <1>12, <1>toD, <3>2 DEF ReadArgs
  <2> QED
    BY <1>12, <2>1, <2>2 DEF Ranges, ReadArgs, Goto, signals, files, clientVars, NetUnchanged
<1>13. ASSUME NEW d \in Instances, ReadAtEOF(d) PROVE Ranges'
  <2>1. (dpc \in [Instances -> Pcs])'
    BY <1>13, <1>dpc, PcFacts, HeaderFacts DEF ReadAtEOF, Exit, Goto
  <2>2. (request \in [Instances -> Parts])'
    BY <1>13, <1>request, PartFacts DEF ReadAtEOF, Exit, Goto
  <2>3. (fds \in [Instances -> SUBSET Clients])'
    BY <1>13, <1>fds DEF ReadAtEOF, Exit, Goto, NetUnchanged
  <2>4. (queue \in [Instances -> Seq(Clients)])'
    <3>1. queue' = queue \/ queue' = [queue EXCEPT ![d] = <<>>]
      BY <1>13 DEF ReadAtEOF, Exit, NetUnchanged
    <3>2. <<>> \in Seq(Clients)
      OBVIOUS
    <3> QED
      BY <1>queue, <3>1, <3>2
  <2>5. (listening \in [Instances -> BOOLEAN])'
    BY <1>13, <1>listening DEF ReadAtEOF, Exit, Goto, NetUnchanged
  <2> QED
    BY <1>13, <2>1, <2>2, <2>3, <2>4, <2>5 DEF Ranges, ReadAtEOF, Exit, Goto, signals, files, clientVars, NetUnchanged
<1>14. ASSUME NEW d \in Instances, Reply(d) PROVE Ranges'
  <2>1. (dpc \in [Instances -> Pcs])'
    BY <1>14, <1>dpc, PcFacts DEF Reply, Exit, Goto
  <2>2. (toC \in [Clients -> Seq(Replies)])'
    <3> DEFINE r == [kind |-> IF request[d] = "requesttweaks" THEN "tree" ELSE "value",
                     gen |-> gen[d]]
    <3>1. r \in Replies
      BY <1>gen DEF Replies
    <3> HIDE DEF r
    <3>2. toC' = [toC EXCEPT ![conn[d]] = Append(@, r)] \/ toC' = toC
      BY <1>14 DEF Reply, r
    <3> QED
      BY <1>toC, <3>1, <3>2
  <2>3. (fds \in [Instances -> SUBSET Clients])'
    BY <1>14, <1>fds DEF Reply, Exit, Goto, NetUnchanged
  <2>4. (queue \in [Instances -> Seq(Clients)])'
    <3>1. queue' = queue \/ queue' = [queue EXCEPT ![d] = <<>>]
      BY <1>14 DEF Reply, Exit, NetUnchanged
    <3>2. <<>> \in Seq(Clients)
      OBVIOUS
    <3> QED
      BY <1>queue, <3>1, <3>2
  <2>5. (listening \in [Instances -> BOOLEAN])'
    BY <1>14, <1>listening DEF Reply, Exit, Goto, NetUnchanged
  <2> QED
    BY <1>14, <2>1, <2>2, <2>3, <2>4, <2>5 DEF Ranges, Reply, Exit, Goto, signals, files, clientVars, NetUnchanged
<1>15. ASSUME NEW d \in Instances, UnlinkPid(d) PROVE Ranges'
  <2>1. (dpc \in [Instances -> Pcs])'
    BY <1>15, <1>dpc, PcFacts DEF UnlinkPid, Goto, ExitStep
  <2>2. (pidfile \in Instances \cup {Nobody})'
    BY <1>15, <1>pidfile DEF UnlinkPid, Goto, ExitStep
  <2> QED
    BY <1>15, <2>1, <2>2 DEF Ranges, UnlinkPid, Goto, ExitStep, signals, files, clientVars, NetUnchanged
<1>16. ASSUME NEW d \in Instances, CloseSocket(d) PROVE Ranges'
  <2>1. (dpc \in [Instances -> Pcs])'
    BY <1>16, <1>dpc, PcFacts DEF CloseSocket, Goto, ExitStep
  <2>2. (listening \in [Instances -> BOOLEAN])'
    BY <1>16, <1>listening DEF CloseSocket, Goto, ExitStep, NetUnchanged
  <2>3. (queue \in [Instances -> Seq(Clients)])'
    BY <1>16, <1>queue DEF CloseSocket, Goto, ExitStep, NetUnchanged
  <2> QED
    BY <1>16, <2>1, <2>2, <2>3 DEF Ranges, CloseSocket, Goto, ExitStep, signals, files, clientVars, NetUnchanged
<1>17. ASSUME NEW d \in Instances, UnlinkSocket(d) PROVE Ranges'
  <2>1. (dpc \in [Instances -> Pcs])'
    BY <1>17, <1>dpc, PcFacts DEF UnlinkSocket, Goto, ExitStep
  <2>2. (sockfile \in Instances \cup {Nobody})'
    BY <1>17, <1>sockfile DEF UnlinkSocket, Goto, ExitStep
  <2> QED
    BY <1>17, <2>1, <2>2 DEF Ranges, UnlinkSocket, Goto, ExitStep, signals, files, clientVars, NetUnchanged
<1>18. ASSUME NEW d \in Instances, Teardown(d) PROVE Ranges'
  <2>1. (dpc \in [Instances -> Pcs])'
    BY <1>18, <1>dpc, PcFacts DEF Teardown, Exit, Goto
  <2>2. (gen \in [Instances -> Nat])'
    BY <1>18, <1>gen DEF Teardown, Exit, Goto
  <2>3. (fds \in [Instances -> SUBSET Clients])'
    BY <1>18, <1>fds DEF Teardown, Exit, Goto, NetUnchanged
  <2>4. (queue \in [Instances -> Seq(Clients)])'
    BY <1>18, <1>queue DEF Teardown, Exit, Goto, NetUnchanged
  <2>5. (listening \in [Instances -> BOOLEAN])'
    BY <1>18, <1>listening DEF Teardown, Exit, Goto, NetUnchanged
  <2> QED
    BY <1>18, <2>1, <2>2, <2>3, <2>4, <2>5 DEF Ranges, Teardown, Exit, Goto, signals, files, clientVars, NetUnchanged
<1>19. ASSUME NEW d \in Instances, ReceiveHUP(d) PROVE Ranges'
  <2>1. (dpc \in [Instances -> Pcs])'
    BY <1>19, <1>dpc, PcFacts DEF ReceiveHUP, Goto, Interrupt
  <2>2. (conn \in [Instances -> Clients \cup {Nobody}])'
    BY <1>19, <1>conn DEF ReceiveHUP, Goto, Interrupt
  <2>3. (gotHUP \in [Instances -> BOOLEAN])'
    BY <1>19, <1>gotHUP DEF ReceiveHUP, Goto, Interrupt
  <2>4. (hupIgnored \in [Instances -> BOOLEAN])'
    BY <1>19, <1>hupIgnored DEF ReceiveHUP, Goto, Interrupt
  <2>5. (cut \subseteq Clients)'
    <3>1. dpc'[d] = "endsession" /\ dpc[d] # "endsession" => dpc[d] \in Talking
      BY <1>19, <1>dpc DEF ReceiveHUP, Goto, Interrupt, Blocked, Talking
    <3>2. dpc[d] \in Talking => conn[d] \in Clients
      BY DaemonAssumption DEF ConnInv
    <3>. QED
      BY <1>19, <1>cut, <3>1, <3>2 DEF ReceiveHUP
  <2> QED
    BY <1>19, <2>1, <2>2, <2>3, <2>4, <2>5 DEF Ranges, ReceiveHUP, Goto, Interrupt, signals, files, clientVars, NetUnchanged
<1>20. ASSUME NEW d \in Instances, ReceiveTERM(d) PROVE Ranges'
  <2>1. (dpc \in [Instances -> Pcs])'
    BY <1>20, <1>dpc, PcFacts DEF ReceiveTERM, Goto, Interrupt
  <2>2. (conn \in [Instances -> Clients \cup {Nobody}])'
    BY <1>20, <1>conn DEF ReceiveTERM, Goto, Interrupt
  <2>3. (gotTERM \in [Instances -> BOOLEAN])'
    BY <1>20, <1>gotTERM DEF ReceiveTERM, Goto, Interrupt
  <2> QED
    BY <1>20, <2>1, <2>2, <2>3 DEF Ranges, ReceiveTERM, Goto, Interrupt, signals, files, clientVars, NetUnchanged
<1>21. ASSUME NEW d \in Instances, Crash(d) PROVE Ranges'
  <2>1. (dpc \in [Instances -> Pcs])'
    BY <1>21, <1>dpc, PcFacts DEF Crash, Exit, Goto
  <2>2. (fds \in [Instances -> SUBSET Clients])'
    BY <1>21, <1>fds DEF Crash, Exit, Goto, NetUnchanged
  <2>3. (queue \in [Instances -> Seq(Clients)])'
    BY <1>21, <1>queue DEF Crash, Exit, Goto, NetUnchanged
  <2>4. (listening \in [Instances -> BOOLEAN])'
    BY <1>21, <1>listening DEF Crash, Exit, Goto, NetUnchanged
  <2> QED
    BY <1>21, <2>1, <2>2, <2>3, <2>4 DEF Ranges, Crash, Exit, Goto, signals, files, clientVars, NetUnchanged
<1>22. ASSUME NEW c \in Clients, Connect(c) PROVE Ranges'
  <2>1. (cpc \in [Clients -> CPcs])'
    BY <1>22, <1>cpc, CPcFacts DEF Connect
  <2>2. (queue \in [Instances -> Seq(Clients)])'
    <3>1. queue' = queue \/ \E d \in Instances : queue' = [queue EXCEPT ![d] = Append(@, c)]
      BY <1>22 DEF Connect
    <3> QED
      BY <1>22, <1>queue, <3>1
  <2> QED
    BY <1>22, <2>1, <2>2 DEF Ranges, Connect, signals, files, clientVars
<1>23. ASSUME NEW c \in Clients, Hello(c) PROVE Ranges'
  <2>1. (cpc \in [Clients -> CPcs])'
    BY <1>23, <1>cpc, CPcFacts DEF Hello, Send, BrokenPipe
  <2>2. (want \in [Clients -> {"none", "tree", "value"}])'
    BY <1>23, <1>want DEF Hello, Send, BrokenPipe
  <2>3. (toD \in [Clients -> Seq(Parts)])'
    <3>1. <<"hello", "requesttweaks">> \in Seq(Parts)
      BY PartFacts
    <3>2. toD' = toD \/ toD' = [toD EXCEPT ![c] = @ \o <<"hello", "requesttweaks">>]
      BY <1>23 DEF Hello, Send, BrokenPipe
    <3>3. toD[c] \o <<"hello", "requesttweaks">> \in Seq(Parts)
      BY <1>23, <1>toD, <3>1
    <3> QED
      BY <1>23, <1>toD, <3>2, <3>3
  <2> QED
    BY <1>23, <2>1, <2>2, <2>3 DEF Ranges, Hello, Send, BrokenPipe, signals, files, clientVars
<1>24. ASSUME NEW c \in Clients, SendArgs(c) PROVE Ranges'
  <2>1. (cpc \in [Clients -> CPcs])'
    BY <1>24, <1>cpc, CPcFacts DEF SendArgs, Send, BrokenPipe
  <2>2. (toD \in [Clients -> Seq(Parts)])'
    <3>1. <<"args">> \in Seq(Parts)
      BY PartFacts
    <3>2. toD' = toD \/ toD' = [toD EXCEPT ![c] = @ \o <<"args">>]
      BY <1>24 DEF SendArgs, Send, BrokenPipe
    <3>3. toD[c] \o <<"args">> \in Seq(Parts)
      BY <1>24, <1>toD, <3>1
    <3> QED
      BY <1>24, <1>toD, <3>2, <3>3
  <2> QED
    BY <1>24, <2>1, <2>2 DEF Ranges, SendArgs, Send, BrokenPipe, signals, files, clientVars
<1>25. ASSUME NEW c \in Clients, Receive(c) PROVE Ranges'
  <2>1. (cpc \in [Clients -> CPcs])'
    BY <1>25, <1>cpc, CPcFacts DEF Receive
  <2>2. (want \in [Clients -> {"none", "tree", "value"}])'
    BY <1>25, <1>want DEF Receive
  <2>3. (cgen \in [Clients -> Nat])'
    <3>1. Head(toC[c]) \in Replies
      BY <1>25, <1>toC DEF Receive
    <3>2. Head(toC[c]).gen \in Nat
      BY <3>1 DEF Replies
    <3> QED
      BY <1>25, <1>cgen, <3>2 DEF Receive
  <2>4. (toC \in [Clients -> Seq(Replies)])'
    BY <1>25, <1>toC DEF Receive
  <2> QED
    BY <1>25, <2>1, <2>2, <2>3, <2>4 DEF Ranges, Receive, signals, files, clientVars
<1>26. ASSUME NEW c \in Clients, ReceiveEOF(c) PROVE Ranges'
  <2>1. (cpc \in [Clients -> CPcs])'
    BY <1>26, <1>cpc, CPcFacts DEF ReceiveEOF
  <2> QED
    BY <1>26, <2>1 DEF Ranges, ReceiveEOF, signals, files, clientVars
<1>27. ASSUME NEW c \in Clients, Request(c) PROVE Ranges'
  <2>1. (cpc \in [Clients -> CPcs])'
    BY <1>27, <1>cpc, CPcFacts DEF Request, Send, BrokenPipe
  <2>2. (want \in [Clients -> {"none", "tree", "value"}])'
    BY <1>27, <1>want DEF Request, Send, BrokenPipe
  <2>3. (budget \in [Clients -> Nat])'
    BY <1>27, <1>budget DEF Request, Send, BrokenPipe
  <2>4. (toD \in [Clients -> Seq(Parts)])'
    <3>1. \A m \in WithArgs \cup {"saveconfig"} : <<m>> \in Seq(Parts)
      BY PartFacts
    <3>2. ASSUME NEW m \in WithArgs \cup {"saveconfig"},
                 toD' = [toD EXCEPT ![c] = @ \o <<m>>]
          PROVE  toD' \in [Clients -> Seq(Parts)]
      BY <1>27, <1>toD, <3>1, <3>2
    <3>3. toD' = toD \/ \E m \in WithArgs \cup {"saveconfig"} :
                           toD' = [toD EXCEPT ![c] = @ \o <<m>>]
      BY <1>27 DEF Request, Send, BrokenPipe
    <3> QED
      BY <1>toD, <3>2, <3>3
  <2> QED
    BY <1>27, <2>1, <2>2, <2>3, <2>4 DEF Ranges, Request, Send, BrokenPipe, signals, files, clientVars
<1>28. ASSUME NEW c \in Clients, Quit(c) PROVE Ranges'
  <2>1. (cpc \in [Clients -> CPcs])'
    BY <1>28, <1>cpc, CPcFacts DEF Quit, Send
  <2>2. (toD \in [Clients -> Seq(Parts)])'
    <3>1. <<"bye">> \in Seq(Parts)
      BY PartFacts
    <3>2. toD' = toD \/ toD' = [toD EXCEPT ![c] = @ \o <<"bye">>]
      BY <1>28 DEF Quit, Send, BrokenPipe
    <3>3. toD[c] \o <<"bye">> \in Seq(Parts)
      BY <1>28, <1>toD, <3>1
    <3> QED
      BY <1>28, <1>toD, <3>2, <3>3
  <2> QED
    BY <1>28, <2>1, <2>2 DEF Ranges, Quit, Send, signals, files, clientVars
<1>29. ASSUME NEW c \in Clients, Kill(c) PROVE Ranges'
  <2>1. (cpc \in [Clients -> CPcs])'
    BY <1>29, <1>cpc, CPcFacts DEF Kill
  <2> QED
    BY <1>29, <2>1 DEF Ranges, Kill, signals, files, clientVars
<1>30. CASE CleanRun
  BY <1>30 DEF Ranges, CleanRun, signals, files, clientVars
<1>31. CASE UNCHANGED vars
  BY <1>31 DEF Ranges, vars, signals, files, clientVars
<1> QED
  BY NextCases, <1>1, <1>2, <1>3, <1>4, <1>5, <1>6, <1>7, <1>8, <1>9, <1>10, <1>11, <1>12, <1>13, <1>14, <1>15, <1>16, <1>17, <1>18, <1>19, <1>20, <1>21, <1>22, <1>23, <1>24, <1>25, <1>26, <1>27, <1>28, <1>29, <1>30, <1>31

LEMMA RangesInit == Init => Ranges
  BY DaemonAssumption, PcFacts, CPcFacts, PartFacts DEF Init, Ranges, Parts, Headers

-----------------------------------------------------------------------------

LEMMA ConnStep ==
  ASSUME TypeOK, ConnInv, [Next]_vars
  PROVE  ConnInv'
<1>t. /\ dpc \in [Instances -> Pcs]
      /\ conn \in [Instances -> Clients \cup {Nobody}]
      /\ fds \in [Instances -> SUBSET Clients]
      /\ Nobody \notin Clients
  BY DaemonAssumption DEF TypeOK, Ranges
<1>1. ASSUME NEW d \in Instances, Start(d) PROVE ConnInv'
  BY <1>1, <1>t DEF ConnInv, Talking, Start, Goto, NetUnchanged, files, signals
<1>2. ASSUME NEW d \in Instances, CreateServer(d) PROVE ConnInv'
  BY <1>2, <1>t DEF ConnInv, Talking, CreateServer, Goto, NetUnchanged, files, signals, Exit
<1>3. ASSUME NEW d \in Instances, WritePid(d) PROVE ConnInv'
  BY <1>3, <1>t DEF ConnInv, Talking, WritePid, Goto, NetUnchanged, files, signals
<1>4. ASSUME NEW d \in Instances, InitTweaks(d) PROVE ConnInv'
  BY <1>4, <1>t DEF ConnInv, Talking, InitTweaks, Goto, NetUnchanged, files, signals, Exit
<1>5. ASSUME NEW d \in Instances, CheckTERM(d) PROVE ConnInv'
  BY <1>5, <1>t DEF ConnInv, Talking, CheckTERM, Goto, NetUnchanged, files, signals, ExitStep
<1>6. ASSUME NEW d \in Instances, Accept(d) PROVE ConnInv'
  BY <1>6, <1>t DEF ConnInv, Talking, Accept, Goto, NetUnchanged, files, signals
<1>7. ASSUME NEW d \in Instances, GotConn(d) PROVE ConnInv'
  BY <1>7, <1>t DEF ConnInv, Talking, GotConn, Goto, NetUnchanged, files, signals
<1>8. ASSUME NEW d \in Instances, Restart(d) PROVE ConnInv'
  BY <1>8, <1>t DEF ConnInv, Talking, Restart, Goto, NetUnchanged, files, signals, Exit
<1>9. ASSUME NEW d \in Instances, Authenticate(d) PROVE ConnInv'
  BY <1>9, <1>t DEF ConnInv, Talking, Authenticate, Goto, NetUnchanged, files, signals
<1>10. ASSUME NEW d \in Instances, EndSession(d) PROVE ConnInv'
  BY <1>10, <1>t DEF ConnInv, Talking, EndSession, Goto, NetUnchanged, files, signals
<1>11. ASSUME NEW d \in Instances, ReadMessage(d) PROVE ConnInv'
  BY <1>11, <1>t DEF ConnInv, Talking, ReadMessage, Goto, NetUnchanged, files, signals, AfterHeader, Headers, WithArgs
<1>12. ASSUME NEW d \in Instances, ReadArgs(d) PROVE ConnInv'
  BY <1>12, <1>t DEF ConnInv, Talking, ReadArgs, Goto, NetUnchanged, files, signals
<1>13. ASSUME NEW d \in Instances, ReadAtEOF(d) PROVE ConnInv'
  BY <1>13, <1>t DEF ConnInv, Talking, ReadAtEOF, Goto, NetUnchanged, files, signals, Exit, AfterHeader, Headers, WithArgs
<1>14. ASSUME NEW d \in Instances, Reply(d) PROVE ConnInv'
  BY <1>14, <1>t DEF ConnInv, Talking, Reply, Goto, NetUnchanged, files, signals, Exit
<1>15. ASSUME NEW d \in Instances, UnlinkPid(d) PROVE ConnInv'
  BY <1>15, <1>t DEF ConnInv, Talking, UnlinkPid, Goto, NetUnchanged, files, signals, ExitStep
<1>16. ASSUME NEW d \in Instances, CloseSocket(d) PROVE ConnInv'
  BY <1>16, <1>t DEF ConnInv, Talking, CloseSocket, Goto, NetUnchanged, files, signals, ExitStep
<1>17. ASSUME NEW d \in Instances, UnlinkSocket(d) PROVE ConnInv'
  BY <1>17, <1>t DEF ConnInv, Talking, UnlinkSocket, Goto, NetUnchanged, files, signals, ExitStep
<1>18. ASSUME NEW d \in Instances, Teardown(d) PROVE ConnInv'
  BY <1>18, <1>t DEF ConnInv, Talking, Teardown, Goto, NetUnchanged, files, signals, Exit
<1>19. ASSUME NEW d \in Instances, ReceiveHUP(d) PROVE ConnInv'
  BY <1>19, <1>t DEF ConnInv, Talking, ReceiveHUP, Goto, NetUnchanged, files, signals, Interrupt, Blocked
<1>20. ASSUME NEW d \in Instances, ReceiveTERM(d) PROVE ConnInv'
  BY <1>20, <1>t DEF ConnInv, Talking, ReceiveTERM, Goto, NetUnchanged, files, signals, Interrupt, Blocked
<1>21. ASSUME NEW d \in Instances, Crash(d) PROVE ConnInv'
  BY <1>21, <1>t DEF ConnInv, Talking, Crash, Goto, NetUnchanged, files, signals, Exit
<1>22. ASSUME NEW c \in Clients,
            \/ Connect(c)
            \/ Hello(c)
            \/ SendArgs(c)
            \/ Receive(c)
            \/ ReceiveEOF(c)
            \/ Request(c)
            \/ Quit(c)
            \/ Kill(c)
       PROVE  ConnInv'
  BY <1>22 DEF ConnInv, Talking, Connect, Hello, SendArgs, Receive, ReceiveEOF, Request, Quit, Kill, files
<1>23. CASE CleanRun
  BY <1>23 DEF ConnInv, Talking, CleanRun, signals
<1>24. CASE UNCHANGED vars
  BY <1>24 DEF ConnInv, Talking, vars, files
<1> QED
  BY NextCases, <1>1, <1>2, <1>3, <1>4, <1>5, <1>6, <1>7, <1>8, <1>9, <1>10, <1>11, <1>12, <1>13, <1>14, <1>15, <1>16, <1>17, <1>18, <1>19, <1>20, <1>21, <1>22, <1>23, <1>24

LEMMA TypeInit == Init => TypeOK
<1>1. Init => \A d \in Instances : dpc[d] \notin {"auth"} \cup Talking
  BY DEF Init, Talking
<1>. QED
  BY <1>1, RangesInit DEF TypeOK

LEMMA TypeStep ==
  ASSUME TypeOK, ConnInv, [Next]_vars
  PROVE  TypeOK'
<1>1. Ranges' /\ ConnInv'
  BY RangesStep, ConnStep DEF TypeOK
<1>2. \A d \in Instances : dpc'[d] \in {"auth"} \cup Talking => conn'[d] # Nobody
  BY <1>1, DaemonAssumption DEF Ranges, ConnInv
<1>. QED
  BY <1>1, <1>2 DEF TypeOK

\* Where an instance owns the socket file, and where the pid file is its own.
\* An instance that has closed its socket still owns the file until it has
\* unlinked it, which is what keeps a successor from binding in between.
Bound == {"pid", "closesock", "unlinkpid"} \cup Serving

FilesInv ==
  \A d \in Instances :
    /\ listening[d] => dpc[d] \in Bound
    /\ dpc[d] \in Bound \cup {"unlinksock"} => sockfile = d
    /\ dpc[d] \in Serving \cup {"unlinkpid"} => pidfile = d

LEMMA FilesStep ==
  ASSUME TypeOK, FilesInv, [Next]_vars
  PROVE  FilesInv'
<1>t. /\ dpc \in [Instances -> Pcs]
      /\ listening \in [Instances -> BOOLEAN]
      /\ Nobody \notin Instances
  BY DaemonAssumption DEF TypeOK, Ranges
<1>1. ASSUME NEW d \in Instances, Start(d) PROVE FilesInv'
  BY <1>1, <1>t DEF FilesInv, Bound, Serving, Talking, Start, Goto, NetUnchanged, files, signals
<1>2. ASSUME NEW d \in Instances, CreateServer(d) PROVE FilesInv'
  BY <1>2, <1>t DEF FilesInv, Bound, Serving, Talking, CreateServer, Goto, NetUnchanged, files, signals, Exit
<1>3. ASSUME NEW d \in Instances, WritePid(d) PROVE FilesInv'
  BY <1>3, <1>t DEF FilesInv, Bound, Serving, Talking, WritePid, Goto, NetUnchanged, files, signals
<1>4. ASSUME NEW d \in Instances, InitTweaks(d) PROVE FilesInv'
  BY <1>4, <1>t DEF FilesInv, Bound, Serving, Talking, InitTweaks, Goto, NetUnchanged, files, signals, Exit
<1>5. ASSUME NEW d \in Instances, CheckTERM(d) PROVE FilesInv'
  BY <1>5, <1>t DEF FilesInv, Bound, Serving, Talking, CheckTERM, Goto, NetUnchanged, files, signals, ExitStep
<1>6. ASSUME NEW d \in Instances, Accept(d) PROVE FilesInv'
  BY <1>6, <1>t DEF FilesInv, Bound, Serving, Talking, Accept, Goto, NetUnchanged, files, signals
<1>7. ASSUME NEW d \in Instances, GotConn(d) PROVE FilesInv'
  BY <1>7, <1>t DEF FilesInv, Bound, Serving, Talking, GotConn, Goto, NetUnchanged, files, signals
<1>8. ASSUME NEW d \in Instances, Restart(d) PROVE FilesInv'
  BY <1>8, <1>t DEF FilesInv, Bound, Serving, Talking, Restart, Goto, NetUnchanged, files, signals, Exit
<1>9. ASSUME NEW d \in Instances, Authenticate(d) PROVE FilesInv'
  BY <1>9, <1>t DEF FilesInv, Bound, Serving, Talking, Authenticate, Goto, NetUnchanged, files, signals
<1>10. ASSUME NEW d \in Instances, EndSession(d) PROVE FilesInv'
  BY <1>10, <1>t DEF FilesInv, Bound, Serving, Talking, EndSession, Goto, NetUnchanged, files, signals
<1>11. ASSUME NEW d \in Instances, ReadMessage(d) PROVE FilesInv'
  BY <1>11, <1>t DEF FilesInv, Bound, Serving, Talking, ReadMessage, Goto, NetUnchanged, files, signals, AfterHeader, Headers, WithArgs
<1>12. ASSUME NEW d \in Instances, ReadArgs(d) PROVE FilesInv'
  BY <1>12, <1>t DEF FilesInv, Bound, Serving, Talking, ReadArgs, Goto, NetUnchanged, files, signals
<1>13. ASSUME NEW d \in Instances, ReadAtEOF(d) PROVE FilesInv'
  BY <1>13, <1>t DEF FilesInv, Bound, Serving, Talking, ReadAtEOF, Goto, NetUnchanged, files, signals, Exit, AfterHeader, Headers, WithArgs
<1>14. ASSUME NEW d \in Instances, Reply(d) PROVE FilesInv'
  BY <1>14, <1>t DEF FilesInv, Bound, Serving, Talking, Reply, Goto, NetUnchanged, files, signals, Exit
<1>15. ASSUME NEW d \in Instances, UnlinkPid(d) PROVE FilesInv'
  BY <1>15, <1>t DEF FilesInv, Bound, Serving, Talking, UnlinkPid, Goto, NetUnchanged, files, signals, ExitStep
<1>16. ASSUME NEW d \in Instances, CloseSocket(d) PROVE FilesInv'
  BY <1>16, <1>t DEF FilesInv, Bound, Serving, Talking, CloseSocket, Goto, NetUnchanged, files, signals, ExitStep
<1>17. ASSUME NEW d \in Instances, UnlinkSocket(d) PROVE FilesInv'
  BY <1>17, <1>t DEF FilesInv, Bound, Serving, Talking, UnlinkSocket, Goto, NetUnchanged, files, signals, ExitStep
<1>18. ASSUME NEW d \in Instances, Teardown(d) PROVE FilesInv'
  BY <1>18, <1>t DEF FilesInv, Bound, Serving, Talking, Teardown, Goto, NetUnchanged, files, signals, Exit
<1>19. ASSUME NEW d \in Instances, ReceiveHUP(d) PROVE FilesInv'
  BY <1>19, <1>t DEF FilesInv, Bound, Serving, Talking, ReceiveHUP, Goto, NetUnchanged, files, signals, Interrupt, Blocked
<1>20. ASSUME NEW d \in Instances, ReceiveTERM(d) PROVE FilesInv'
  BY <1>20, <1>t DEF FilesInv, Bound, Serving, Talking, ReceiveTERM, Goto, NetUnchanged, files, signals, Interrupt, Blocked
<1>21. ASSUME NEW d \in Instances, Crash(d) PROVE FilesInv'
  BY <1>21, <1>t DEF FilesInv, Bound, Serving, Talking, Crash, Goto, NetUnchanged, files, signals, Exit
<1>22. ASSUME NEW c \in Clients,
            \/ Connect(c)
            \/ Hello(c)
            \/ SendArgs(c)
            \/ Receive(c)
            \/ ReceiveEOF(c)
            \/ Request(c)
            \/ Quit(c)
            \/ Kill(c)
       PROVE  FilesInv'
  BY <1>22 DEF FilesInv, Bound, Serving, Talking, Connect, Hello, SendArgs, Receive, ReceiveEOF, Request, Quit, Kill, files
<1>23. CASE CleanRun
  BY <1>23 DEF FilesInv, Bound, Serving, Talking, CleanRun, signals
<1>24. CASE UNCHANGED vars
  BY <1>24 DEF FilesInv, Bound, Serving, Talking, vars, files
<1> QED
  BY NextCases, <1>1, <1>2, <1>3, <1>4, <1>5, <1>6, <1>7, <1>8, <1>9, <1>10, <1>11, <1>12, <1>13, <1>14, <1>15, <1>16, <1>17, <1>18, <1>19, <1>20, <1>21, <1>22, <1>23, <1>24

-----------------------------------------------------------------------------
(* The two ends of a connection *)

\* Connections in the hands of an instance: the one it has accepted (place 0)
\* and those that wait.  A session that is over is in no place.
Taken == {"gotconn", "auth"} \cup Talking
In(d, i, c) ==
  \/ i = 0 /\ dpc[d] \in Taken /\ conn[d] = c
  \/ i \in 1 .. Len(queue[d]) /\ queue[d][i] = c

\* Whether the stream s has arguments where they belong, read from a point
\* where arguments are expected (first) or not, and whether they come next.
WellFormed(first, s) ==
  \A k \in 1 .. Len(s) :
    s[k] = "args" <=> IF k = 1 THEN first ELSE s[k - 1] \in WithArgs
Ends(first, s) == IF s = <<>> THEN first ELSE s[Len(s)] \in WithArgs

\* The messages with a reply, its kind, and the k-th message an instance has
\* to work on: q is the one it is at.
Asking == {"requesttweaks", "getvalue", "getvalueraw"}
KindOf(m) == IF m = "requesttweaks" THEN "tree" ELSE "value"
Message(q, s, k) == IF k = 0 THEN q ELSE s[k]

NoneAsks(q, s) == \A k \in 0 .. Len(s) : Message(q, s, k) \notin Asking
NoneEarlier(q, s) == \A k \in 0 .. Len(s) - 1 : Message(q, s, k) \notin Asking
OneAsks(q, s, w) ==
  /\ \A j, k \in 0 .. Len(s) :
       Message(q, s, j) \in Asking /\ Message(q, s, k) \in Asking => j = k
  /\ \A k \in 0 .. Len(s) : Message(q, s, k) \in Asking => KindOf(Message(q, s, k)) = w

\* A client that is going to wait, or waits and has no reply, has one message
\* on its way that asks for what it wants; any other client has none.
Asked(q, s, pc, w, r) ==
  IF pc \in {"waiting", "args"} /\ r = <<>> THEN OneAsks(q, s, w) ELSE NoneAsks(q, s)

InArgs(d, i) == i = 0 /\ dpc[d] = "args"
Working(d, i) == IF i = 0 /\ dpc[d] \in {"args", "reply"} THEN request[d] ELSE "hello"
Begun(d, i) == i = 0 /\ dpc[d] \in Talking

Current(d, c) ==
  /\ cgen[c] \in {0, gen[d]}
  /\ \A k \in 1 .. Len(toC[c]) : toC[c][k].gen = gen[d]

\* What holds of a connection in a place.
Linked(d, i, c) ==
  /\ WellFormed(InArgs(d, i), toD[c])
  /\ cpc[c] \in OpenCPcs =>
       /\ cpc[c] = "args" <=> Ends(InArgs(d, i), toD[c])
       /\ cpc[c] = "args" => NoneEarlier(Working(d, i), toD[c])
       /\ Asked(Working(d, i), toD[c], cpc[c], want[c], toC[c])
  /\ IF Begun(d, i) THEN Current(d, c) ELSE cgen[c] = 0 /\ toC[c] = <<>>

\* A client that has sent nothing.
Silent(c) == toD[c] = <<>> /\ toC[c] = <<>> /\ cgen[c] = 0

LinkInv ==
  /\ \A d \in Instances : /\ dpc[d] = "args" => request[d] \in WithArgs
                          /\ dpc[d] = "reply" => request[d] \in Asking
  /\ \A c \in Clients : cpc[c] \in {"idle", "connected"} => Silent(c)
  /\ \A c \in Clients, d, e \in Instances, i, j \in Nat :
       In(d, i, c) /\ In(e, j, c) => d = e /\ i = j
  /\ \A c \in Clients, d \in Instances, i \in Nat :
       In(d, i, c) => cpc[c] # "idle" /\ Linked(d, i, c)

LEMMA NoLength ==
  ASSUME NEW s \in Seq(Parts)
  PROVE  s = <<>> <=> Len(s) = 0
OBVIOUS

\* Reading the next message of a stream.
LEMMA StreamTail ==
  ASSUME NEW s \in Seq(Parts), s # <<>>, NEW first \in BOOLEAN, WellFormed(first, s)
  PROVE  /\ Head(s) = "args" <=> first
         /\ WellFormed(Head(s) \in WithArgs, Tail(s))
         /\ Ends(Head(s) \in WithArgs, Tail(s)) <=> Ends(first, s)
<1>1. /\ Len(s) \in Nat \ {0} /\ Head(s) = s[1] /\ Tail(s) \in Seq(Parts)
      /\ Len(Tail(s)) = Len(s) - 1
      /\ \A k \in 1 .. Len(Tail(s)) : Tail(s)[k] = s[k + 1]
  OBVIOUS
<1>2. Head(s) = "args" <=> first
  BY <1>1 DEF WellFormed
<1>3. WellFormed(Head(s) \in WithArgs, Tail(s))
  <2>. SUFFICES ASSUME NEW k \in 1 .. Len(Tail(s))
                PROVE  Tail(s)[k] = "args" <=>
                         IF k = 1 THEN Head(s) \in WithArgs ELSE Tail(s)[k - 1] \in WithArgs
    BY DEF WellFormed
  <2>1. k + 1 \in 1 .. Len(s) /\ k + 1 # 1 /\ (k + 1) - 1 = k
    BY <1>1
  <2>2. s[k + 1] = "args" <=> s[k] \in WithArgs
    BY <2>1 DEF WellFormed
  <2>3. k # 1 => k - 1 \in 1 .. Len(Tail(s)) /\ (k - 1) + 1 = k
    BY <1>1
  <2>. QED BY <1>1, <2>2, <2>3
<1>4. Ends(Head(s) \in WithArgs, Tail(s)) <=> Ends(first, s)
  <2>0. Tail(s) = <<>> <=> Len(Tail(s)) = 0
    BY ONLY <1>1, NoLength
  <2>1. CASE Len(s) = 1
    <3>1. Tail(s) = <<>>
      BY <1>1, <2>0, <2>1
    <3>. QED BY <1>1, <2>1, <3>1 DEF Ends
  <2>2. CASE Len(s) # 1
    <3>1. Len(Tail(s)) \in 1 .. Len(Tail(s)) /\ Len(Tail(s)) + 1 = Len(s) /\ Tail(s) # <<>>
      BY <1>1, <2>0, <2>2
    <3>2. Tail(s)[Len(Tail(s))] = s[Len(s)]
      BY <1>1, <3>1
    <3>. QED BY <3>1, <3>2 DEF Ends
  <2>. QED BY <2>1, <2>2
<1>. QED BY <1>2, <1>3, <1>4

\* Sending one more.
LEMMA StreamAppend ==
  ASSUME NEW s \in Seq(Parts), NEW first \in BOOLEAN, WellFormed(first, s),
         NEW m \in Parts, m = "args" <=> Ends(first, s)
  PROVE  /\ WellFormed(first, s \o <<m>>)
         /\ Ends(first, s \o <<m>>) <=> m \in WithArgs
<1>. DEFINE t == s \o <<m>>
<1>1. /\ Len(s) \in Nat /\ Len(t) = Len(s) + 1 /\ t # <<>>
      /\ t[Len(t)] = m /\ \A k \in 1 .. Len(s) : t[k] = s[k]
  OBVIOUS
<1>2. s = <<>> <=> Len(s) = 0
  OBVIOUS
<1>. HIDE DEF t
<1>3. WellFormed(first, t)
  <2>. SUFFICES ASSUME NEW k \in 1 .. Len(t)
                PROVE  t[k] = "args" <=> IF k = 1 THEN first ELSE t[k - 1] \in WithArgs
    BY DEF WellFormed
  <2>1. CASE k \in 1 .. Len(s)
    <3>1. s[k] = "args" <=> IF k = 1 THEN first ELSE s[k - 1] \in WithArgs
      BY <2>1 DEF WellFormed
    <3>2. k # 1 => k - 1 \in 1 .. Len(s)
      BY <2>1
    <3>. QED BY <1>1, <2>1, <3>1, <3>2
  <2>2. CASE k = Len(t)
    <3>1. CASE s = <<>>
      BY <1>1, <1>2, <2>2, <3>1 DEF Ends
    <3>2. CASE s # <<>>
      <4>1. k - 1 = Len(s) /\ k # 1 /\ k - 1 \in 1 .. Len(s)
        BY <1>1, <1>2, <2>2, <3>2
      <4>. QED BY <1>1, <2>2, <3>2, <4>1 DEF Ends
    <3>. QED BY <3>1, <3>2
  <2>. QED BY <1>1, <2>1, <2>2
<1>4. Ends(first, t) <=> m \in WithArgs
  BY <1>1 DEF Ends
<1>. QED BY <1>3, <1>4 DEF t

\* Reading and sending, seen from the messages that ask for a reply.
LEMMA AskingTail ==
  ASSUME NEW s \in Seq(Parts), s # <<>>, NEW q, q \notin Asking, NEW w
  PROVE  /\ NoneAsks(q, s) => NoneAsks(Head(s), Tail(s))
         /\ NoneEarlier(q, s) => NoneEarlier(Head(s), Tail(s))
         /\ OneAsks(q, s, w) => OneAsks(Head(s), Tail(s), w)
<1>1. /\ Len(s) \in Nat \ {0} /\ Len(Tail(s)) = Len(s) - 1
      /\ \A k \in 0 .. Len(Tail(s)) : k + 1 \in 1 .. Len(s) /\ k + 1 \in 0 .. Len(s) /\ k + 1 # 0
  OBVIOUS
<1>2. \A k \in 0 .. Len(Tail(s)) : Message(Head(s), Tail(s), k) = Message(q, s, k + 1)
  <2>1. Head(s) = s[1] /\ \A k \in 1 .. Len(Tail(s)) : Tail(s)[k] = s[k + 1]
    OBVIOUS
  <2>. QED BY <1>1, <2>1 DEF Message
<1>3. NoneAsks(q, s) => NoneAsks(Head(s), Tail(s))
  BY <1>1, <1>2 DEF NoneAsks
<1>4. ASSUME OneAsks(q, s, w) PROVE OneAsks(Head(s), Tail(s), w)
  <2>1. ASSUME NEW j \in 0 .. Len(Tail(s)), NEW k \in 0 .. Len(Tail(s)),
               Message(Head(s), Tail(s), j) \in Asking, Message(Head(s), Tail(s), k) \in Asking
        PROVE  j = k
    <3>1. j + 1 = k + 1
      BY <1>1, <1>2, <1>4, <2>1 DEF OneAsks
    <3>. QED BY <3>1
  <2>2. ASSUME NEW k \in 0 .. Len(Tail(s)), Message(Head(s), Tail(s), k) \in Asking
        PROVE  KindOf(Message(Head(s), Tail(s), k)) = w
    BY <1>1, <1>2, <1>4, <2>2 DEF OneAsks
  <2>. QED BY <2>1, <2>2 DEF OneAsks
<1>5. NoneEarlier(q, s) => NoneEarlier(Head(s), Tail(s))
  <2>1. \A k \in 0 .. Len(Tail(s)) - 1 : k \in 0 .. Len(Tail(s)) /\ k + 1 \in 0 .. Len(s) - 1
    BY <1>1
  <2>. QED BY <1>2, <2>1 DEF NoneEarlier
<1>. QED BY <1>3, <1>4, <1>5

LEMMA AskingDone ==
  ASSUME NEW s \in Seq(Parts), NEW q, NEW p, p \notin Asking, NEW w
  PROVE  /\ NoneAsks(q, s) => NoneAsks(p, s)
         /\ NoneEarlier(q, s) => NoneEarlier(p, s)
         /\ OneAsks(q, s, w) => OneAsks(p, s, w)
         /\ OneAsks(q, s, w) /\ q \in Asking => NoneAsks(p, s) /\ KindOf(q) = w
<1>1. \A k \in 0 .. Len(s) : k # 0 => Message(p, s, k) = Message(q, s, k)
  BY DEF Message
<1>2. Message(p, s, 0) = p /\ Message(q, s, 0) = q /\ 0 \in 0 .. Len(s)
  BY DEF Message
<1>3. NoneEarlier(q, s) => NoneEarlier(p, s)
  <2>1. \A k \in 0 .. Len(s) - 1 : k \in 0 .. Len(s)
    OBVIOUS
  <2>. QED BY <1>1, <1>2, <2>1 DEF NoneEarlier
<1>. QED BY <1>1, <1>2, <1>3 DEF NoneAsks, OneAsks

LEMMA AskingAppend ==
  ASSUME NEW s \in Seq(Parts), NEW q, NEW m, NEW w
  PROVE  /\ NoneAsks(q, s) /\ m \notin Asking => NoneAsks(q, s \o <<m>>)
         /\ NoneAsks(q, s) => NoneEarlier(q, s \o <<m>>)
         /\ NoneAsks(q, s) => OneAsks(q, s \o <<m>>, KindOf(m))
         /\ OneAsks(q, s, w) /\ m \notin Asking => OneAsks(q, s \o <<m>>, w)
<1>. DEFINE t == s \o <<m>>
<1>1. Len(s) \in Nat /\ Len(t) = Len(s) + 1 /\ t[Len(t)] = m /\ \A k \in 1 .. Len(s) : t[k] = s[k]
  OBVIOUS
<1>. HIDE DEF t
<1>2. /\ \A k \in 0 .. Len(s) : Message(q, t, k) = Message(q, s, k)
      /\ Message(q, t, Len(t)) = m
      /\ \A k \in 0 .. Len(t) : k \in 0 .. Len(s) \/ k = Len(t)
  BY <1>1 DEF Message
<1>3. NoneAsks(q, s) /\ m \notin Asking => NoneAsks(q, t)
  BY <1>2 DEF NoneAsks
<1>4. NoneAsks(q, s) => OneAsks(q, t, KindOf(m))
  BY <1>2 DEF NoneAsks, OneAsks
<1>5. OneAsks(q, s, w) /\ m \notin Asking => OneAsks(q, t, w)
  BY <1>2 DEF OneAsks
<1>6. NoneAsks(q, s) => NoneEarlier(q, t)
  <2>1. \A k \in 0 .. Len(t) - 1 : k \in 0 .. Len(s)
    BY <1>1
  <2>. QED BY <1>2, <2>1 DEF NoneAsks, NoneEarlier
<1>. QED BY <1>3, <1>4, <1>5, <1>6 DEF t

\* Whoever wants no reply has not asked for one.
LEMMA WantsNone ==
  ASSUME NEW s, NEW q
  PROVE  OneAsks(q, s, "none") => NoneAsks(q, s)
BY DEF OneAsks, NoneAsks, KindOf

\* Reading arguments, which ask for nothing.
LEMMA ArgsTail ==
  ASSUME NEW s \in Seq(Parts), s # <<>>, Head(s) \notin Asking, NEW q, NEW w
  PROVE  /\ NoneAsks(q, s) => NoneAsks(q, Tail(s))
         /\ NoneEarlier(q, s) => NoneEarlier(q, Tail(s))
         /\ OneAsks(q, s, w) => OneAsks(q, Tail(s), w)
<1>1. /\ Len(s) \in Nat \ {0} /\ Len(Tail(s)) = Len(s) - 1 /\ Head(s) = s[1]
      /\ \A k \in 1 .. Len(Tail(s)) : Tail(s)[k] = s[k + 1]
  OBVIOUS
<1>. DEFINE At(k) == IF k = 0 THEN 0 ELSE k + 1
<1>2. \A j, k \in 0 .. Len(Tail(s)) : /\ At(k) \in 0 .. Len(s) /\ (At(j) = At(k) => j = k)
                                      /\ Message(q, Tail(s), k) = Message(q, s, At(k))
  BY <1>1 DEF Message
<1>3. \A k \in 0 .. Len(Tail(s)) - 1 : k \in 0 .. Len(Tail(s)) /\ At(k) \in 0 .. Len(s) - 1
  BY <1>1
<1>. HIDE DEF At
<1>4. NoneEarlier(q, s) => NoneEarlier(q, Tail(s))
  BY <1>2, <1>3 DEF NoneEarlier
<1>. QED BY <1>2, <1>4 DEF NoneAsks, OneAsks

\* The same of what a client has asked for.
LEMMA AskedTail ==
  ASSUME NEW s \in Seq(Parts), s # <<>>, NEW q, q \notin Asking, NEW pc, NEW w, NEW r,
         Asked(q, s, pc, w, r)
  PROVE  Asked(Head(s), Tail(s), pc, w, r)
BY AskingTail DEF Asked

LEMMA AskedDone ==
  ASSUME NEW s \in Seq(Parts), NEW q, NEW p, p \notin Asking, NEW pc, NEW w, NEW r,
         Asked(q, s, pc, w, r)
  PROVE  Asked(p, s, pc, w, r)
BY AskingDone DEF Asked

LEMMA AskedArgs ==
  ASSUME NEW s \in Seq(Parts), s # <<>>, Head(s) \notin Asking, NEW q, NEW pc, NEW w, NEW r,
         Asked(q, s, pc, w, r)
  PROVE  Asked(q, Tail(s), pc, w, r)
BY ArgsTail DEF Asked

\* What does not concern a connection leaves it as it was.
LEMMA LinkedKept ==
  ASSUME NEW d \in Instances, NEW i \in Nat, NEW j \in Nat, NEW c \in Clients, Linked(d, i, c),
         InArgs(d, j)' = InArgs(d, i), Working(d, j)' = Working(d, i), Begun(d, j)' = Begun(d, i),
         Begun(d, i) => gen'[d] = gen[d], toD'[c] = toD[c], toC'[c] = toC[c], cgen'[c] = cgen[c],
         want'[c] = want[c], cpc'[c] = cpc[c] \/ cpc'[c] \notin OpenCPcs
  PROVE  Linked(d, j, c)'
BY DEF Linked, Current

\* An instance that begins, ends or is between sessions.
LEMMA QuietKeeps ==
  ASSUME LinkInv, NEW d \in Instances,
         dpc'[d] \notin Taken \/ (dpc'[d] = "gotconn" /\ conn'[d] = Nobody), queue'[d] = queue[d] \/ queue'[d] = <<>>,
         \A e \in Instances \ {d} :
            /\ dpc'[e] = dpc[e] /\ conn'[e] = conn[e] /\ queue'[e] = queue[e]
            /\ request'[e] = request[e] /\ gen'[e] = gen[e],
         UNCHANGED <<cpc, want, cgen, toD, toC>>
  PROVE  LinkInv'
<1>1. dpc'[d] # "args" /\ dpc'[d] # "reply"
  BY DEF Taken, Talking
<1>2. Len(<<>>) = 0
  OBVIOUS
<1>3. ASSUME NEW e \in Instances, NEW i \in Nat, NEW c \in Clients, In(e, i, c)'
      PROVE  In(e, i, c) /\ (e = d => i # 0)
  BY <1>2, <1>3, DaemonAssumption DEF In
<1>4. ASSUME NEW e \in Instances, NEW i \in Nat, NEW c \in Clients, In(e, i, c)'
      PROVE  cpc'[c] # "idle" /\ Linked(e, i, c)'
  <2>1. In(e, i, c) /\ (e = d => i # 0)
    BY <1>3, <1>4
  <2>2. Linked(e, i, c) /\ cpc[c] # "idle"
    BY <2>1 DEF LinkInv
  <2>3. /\ InArgs(e, i)' = InArgs(e, i) /\ Working(e, i)' = Working(e, i)
        /\ Begun(e, i)' = Begun(e, i) /\ (Begun(e, i) => gen'[e] = gen[e])
    BY <2>1 DEF InArgs, Working, Begun
  <2>. QED BY <2>2, <2>3, LinkedKept
<1>5. \A e \in Instances : /\ dpc'[e] = "args" => request'[e] \in WithArgs
                           /\ dpc'[e] = "reply" => request'[e] \in Asking
  BY <1>1 DEF LinkInv
<1>6. \A c \in Clients : cpc'[c] \in {"idle", "connected"} => Silent(c)'
  BY DEF LinkInv, Silent
<1>7. \A c \in Clients, e, f \in Instances, i, j \in Nat :
         In(e, i, c)' /\ In(f, j, c)' => e = f /\ i = j
  BY <1>3 DEF LinkInv
<1>. QED BY <1>4, <1>5, <1>6, <1>7 DEF LinkInv

\* A step in a session, or from accept() to it.
LEMMA SessionKeeps ==
  ASSUME LinkInv, NEW d \in Instances, NEW c \in Clients, In(d, 0, c), In(d, 0, c)', Linked(d, 0, c)',
         \A e \in Instances \ {d} : dpc'[e] = dpc[e] /\ request'[e] = request[e],
         dpc'[d] = "args" => request'[d] \in WithArgs, dpc'[d] = "reply" => request'[d] \in Asking,
         \A b \in Clients \ {c} : toD'[b] = toD[b] /\ toC'[b] = toC[b],
         cpc[c] = "connected" => toD'[c] = toD[c] /\ toC'[c] = toC[c],
         UNCHANGED <<conn, queue, gen, cpc, want, cgen>>
  PROVE  LinkInv'
<1>1. cpc[c] # "idle"
  BY DEF LinkInv
<1>2. ASSUME NEW e \in Instances, NEW i \in Nat, NEW b \in Clients, In(e, i, b)'
      PROVE  In(e, i, b) /\ (e = d /\ i = 0 => b = c) /\ (e # d \/ i # 0 => b # c)
  <2>1. In(e, i, b)
    BY <1>2 DEF In
  <2>2. e = d /\ i = 0 => b = c
    BY <1>2 DEF In
  <2>3. b = c => e = d /\ i = 0
    BY <2>1 DEF LinkInv
  <2>. QED BY <2>1, <2>2, <2>3
<1>3. ASSUME NEW e \in Instances, NEW i \in Nat, NEW b \in Clients, In(e, i, b)', e # d \/ i # 0
      PROVE  Linked(e, i, b)'
  <2>1. Linked(e, i, b) /\ b # c
    BY <1>2, <1>3 DEF LinkInv
  <2>2. /\ InArgs(e, i)' = InArgs(e, i) /\ Working(e, i)' = Working(e, i)
        /\ Begun(e, i)' = Begun(e, i)
    BY <1>3 DEF InArgs, Working, Begun
  <2>. QED BY <2>1, <2>2, LinkedKept
<1>4. \A e \in Instances, i \in Nat, b \in Clients : In(e, i, b)' => cpc'[b] # "idle" /\ Linked(e, i, b)'
  BY <1>2, <1>3 DEF LinkInv
<1>5. \A e \in Instances : /\ dpc'[e] = "args" => request'[e] \in WithArgs
                           /\ dpc'[e] = "reply" => request'[e] \in Asking
  BY DEF LinkInv
<1>6. \A b \in Clients : cpc'[b] \in {"idle", "connected"} => Silent(b)'
  BY <1>1 DEF LinkInv, Silent
<1>7. \A b \in Clients, e, f \in Instances, i, j \in Nat :
         In(e, i, b)' /\ In(f, j, b)' => e = f /\ i = j
  BY <1>2 DEF LinkInv
<1>. QED BY <1>4, <1>5, <1>6, <1>7 DEF LinkInv

\* A step of a client that has connected.
LEMMA ClientKeeps ==
  ASSUME LinkInv, NEW c \in Clients, cpc'[c] \notin {"idle", "connected"},
         \A d \in Instances, i \in Nat : In(d, i, c) => Linked(d, i, c)',
         \A b \in Clients \ {c} : /\ cpc'[b] = cpc[b] /\ want'[b] = want[b] /\ cgen'[b] = cgen[b]
                                  /\ toD'[b] = toD[b] /\ toC'[b] = toC[b],
         UNCHANGED <<dpc, conn, queue, request, gen>>
  PROVE  LinkInv'
<1>1. \A e \in Instances, i \in Nat, b \in Clients : In(e, i, b)' = In(e, i, b)
  BY DEF In
<1>2. \A e \in Instances, i \in Nat : /\ InArgs(e, i)' = InArgs(e, i) /\ Working(e, i)' = Working(e, i)
                                      /\ Begun(e, i)' = Begun(e, i) /\ gen'[e] = gen[e]
  BY DEF InArgs, Working, Begun
<1>3. ASSUME NEW e \in Instances, NEW i \in Nat, NEW b \in Clients, In(e, i, b)'
      PROVE  cpc'[b] # "idle" /\ Linked(e, i, b)'
  <2>1. In(e, i, b)
    BY <1>1, <1>3
  <2>2. CASE b = c
    BY <2>1, <2>2
  <2>3. CASE b # c
    <3>1. Linked(e, i, b) /\ cpc[b] # "idle"
      BY <2>1 DEF LinkInv
    <3>. QED BY <1>2, <2>3, <3>1, LinkedKept
  <2>. QED BY <2>2, <2>3
<1>4. \A e \in Instances : /\ dpc'[e] = "args" => request'[e] \in WithArgs
                           /\ dpc'[e] = "reply" => request'[e] \in Asking
  BY DEF LinkInv
<1>5. \A b \in Clients : cpc'[b] \in {"idle", "connected"} => Silent(b)'
  BY DEF LinkInv, Silent
<1>6. \A b \in Clients, e, f \in Instances, i, j \in Nat :
         In(e, i, b)' /\ In(f, j, b)' => e = f /\ i = j
  BY <1>1 DEF LinkInv
<1>. QED BY <1>3, <1>4, <1>5, <1>6 DEF LinkInv

\* The steps that are quiet in the sense of QuietKeeps.
Quiet(d) ==
  /\ dpc'[d] \notin Taken /\ (queue'[d] = queue[d] \/ queue'[d] = <<>>)
  /\ \A e \in Instances \ {d} :
       /\ dpc'[e] = dpc[e] /\ conn'[e] = conn[e] /\ queue'[e] = queue[e]
       /\ request'[e] = request[e] /\ gen'[e] = gen[e]
  /\ UNCHANGED <<cpc, want, cgen, toD, toC>>

LEMMA QuietSteps ==
  ASSUME TypeOK, NEW d \in Instances
  PROVE  /\ Start(d) => Quiet(d)
         /\ CreateServer(d) => Quiet(d)
         /\ WritePid(d) => Quiet(d)
         /\ InitTweaks(d) => Quiet(d)
         /\ CheckTERM(d) => Quiet(d)
         /\ Restart(d) => Quiet(d)
         /\ EndSession(d) => Quiet(d)
         /\ UnlinkPid(d) => Quiet(d)
         /\ CloseSocket(d) => Quiet(d)
         /\ UnlinkSocket(d) => Quiet(d)
         /\ Teardown(d) => Quiet(d)
         /\ Crash(d) => Quiet(d)
<1>t. DOMAIN dpc = Instances /\ DOMAIN conn = Instances /\ DOMAIN queue = Instances
      /\ DOMAIN request = Instances /\ DOMAIN gen = Instances
  BY DEF TypeOK, Ranges
<1>. USE <1>t DEF Quiet, Taken, Talking, Goto, Exit, NetUnchanged, clientVars
<1>1. Start(d) => Quiet(d)
  BY DEF Start
<1>2. CreateServer(d) => Quiet(d)
  BY DEF CreateServer
<1>3. WritePid(d) => Quiet(d)
  BY DEF WritePid
<1>4. InitTweaks(d) => Quiet(d)
  BY DEF InitTweaks
<1>5. CheckTERM(d) => Quiet(d)
  BY DEF CheckTERM, ExitStep
<1>6. Restart(d) => Quiet(d)
  BY DEF Restart
<1>7. EndSession(d) => Quiet(d)
  BY DEF EndSession
<1>8. UnlinkPid(d) => Quiet(d)
  BY DEF UnlinkPid, ExitStep
<1>9. CloseSocket(d) => Quiet(d)
  BY DEF CloseSocket, ExitStep
<1>10. UnlinkSocket(d) => Quiet(d)
  BY DEF UnlinkSocket, ExitStep
<1>11. Teardown(d) => Quiet(d)
  BY DEF Teardown
<1>12. Crash(d) => Quiet(d)
  BY DEF Crash
<1>. QED BY <1>1, <1>2, <1>3, <1>4, <1>5, <1>6, <1>7, <1>8, <1>9, <1>10, <1>11, <1>12

\* Two steps begin a session.
LEMMA AcceptKeeps ==
  ASSUME TypeOK, LinkInv, NEW d \in Instances, Accept(d)
  PROVE  LinkInv'
<1>t. /\ DOMAIN dpc = Instances /\ DOMAIN conn = Instances /\ queue \in [Instances -> Seq(Clients)]
      /\ Nobody \notin Clients
  BY DaemonAssumption DEF TypeOK, Ranges
<1>1. /\ dpc[d] = "accept" /\ dpc'[d] = "gotconn"
      /\ \A e \in Instances \ {d} : dpc'[e] = dpc[e] /\ conn'[e] = conn[e] /\ queue'[e] = queue[e]
      /\ UNCHANGED <<request, gen, cpc, want, cgen, toD, toC>>
  BY <1>t DEF Accept, Goto, clientVars
<1>2. \/ queue[d] # <<>> /\ conn'[d] = Head(queue[d]) /\ queue'[d] = Tail(queue[d])
      \/ conn'[d] = Nobody /\ queue'[d] = queue[d]
  BY <1>t DEF Accept
<1>3. ASSUME NEW e \in Instances, NEW i \in Nat, NEW c \in Clients, In(e, i, c)'
      PROVE  In(e, IF e = d /\ queue'[d] # queue[d] THEN i + 1 ELSE i, c) /\ (e = d => ~Begun(e, i)')
  <2>1. CASE e # d
    BY <1>1, <1>3, <2>1 DEF In
  <2>2. CASE e = d /\ conn'[d] = Nobody /\ queue'[d] = queue[d]
    BY <1>t, <1>1, <1>3, <2>2 DEF In, Begun, Talking
  <2>3. CASE e = d /\ queue[d] # <<>> /\ conn'[d] = Head(queue[d]) /\ queue'[d] = Tail(queue[d])
    <3>1. queue[d] \in Seq(Clients)
      BY <1>t
    <3>2. /\ Len(queue[d]) \in Nat \ {0} /\ Head(queue[d]) = queue[d][1]
          /\ Len(queue'[d]) = Len(queue[d]) - 1 /\ queue'[d] # queue[d]
          /\ \A k \in 1 .. Len(queue'[d]) : queue'[d][k] = queue[d][k + 1]
      <4>1. PICK q \in Seq(Clients) : q = queue[d]
        BY <3>1
      <4>2. q # <<>> /\ queue'[d] = Tail(q)
        BY <2>3, <4>1
      <4>3. /\ Len(q) \in Nat \ {0} /\ Head(q) = q[1] /\ Len(Tail(q)) = Len(q) - 1
            /\ \A k \in 1 .. Len(Tail(q)) : Tail(q)[k] = q[k + 1]
        BY <4>2
      <4>4. ASSUME Tail(q) = q PROVE FALSE
        <5>1. Len(q) = Len(q) - 1
          BY <4>3, <4>4, Zenon
        <5>. QED BY <4>3, <5>1
      <4>. QED BY <4>1, <4>2, <4>3, <4>4
    <3>3. i + 1 \in 1 .. Len(queue[d]) /\ queue[d][i + 1] = c
      <4>1. CASE i = 0
        BY <1>3, <2>3, <3>2, <4>1 DEF In
      <4>2. CASE i # 0
        BY <1>3, <2>3, <3>2, <4>2 DEF In
      <4>. QED BY <4>1, <4>2
    <3>4. ~Begun(e, i)'
      BY <1>1, <2>3 DEF Begun, Talking
    <3>. QED BY <2>3, <3>2, <3>3, <3>4 DEF In
  <2>. QED BY <1>2, <2>1, <2>2, <2>3
<1>. DEFINE Was(e, i) == IF e = d /\ queue'[d] # queue[d] THEN i + 1 ELSE i
<1>4. ASSUME NEW e \in Instances, NEW i \in Nat, NEW c \in Clients, In(e, i, c)'
      PROVE  cpc'[c] # "idle" /\ Linked(e, i, c)'
  <2>1. In(e, Was(e, i), c) /\ Was(e, i) \in Nat /\ (e = d => ~Begun(e, i)')
    BY <1>3, <1>4
  <2>2. Linked(e, Was(e, i), c) /\ cpc[c] # "idle"
    BY <2>1 DEF LinkInv
  <2>3. InArgs(e, i)' = InArgs(e, Was(e, i)) /\ Working(e, i)' = Working(e, Was(e, i))
    BY <1>1, <1>t DEF InArgs, Working
  <2>4. Begun(e, i)' = Begun(e, Was(e, i))
    BY <1>1, <1>t DEF Begun, Talking
  <2>. HIDE DEF Was
  <2>. QED BY <1>1, <2>1, <2>2, <2>3, <2>4, LinkedKept
<1>5. \A e \in Instances : /\ dpc'[e] = "args" => request'[e] \in WithArgs
                           /\ dpc'[e] = "reply" => request'[e] \in Asking
  BY <1>1 DEF LinkInv
<1>6. \A c \in Clients : cpc'[c] \in {"idle", "connected"} => Silent(c)'
  BY <1>1 DEF LinkInv, Silent
<1>7. ASSUME NEW c \in Clients, NEW e \in Instances, NEW f \in Instances, NEW i \in Nat, NEW j \in Nat,
             In(e, i, c)', In(f, j, c)'
      PROVE  e = f /\ i = j
  <2>1. In(e, Was(e, i), c) /\ In(f, Was(f, j), c) /\ Was(e, i) \in Nat /\ Was(f, j) \in Nat
    BY <1>3, <1>7
  <2>2. e = f /\ Was(e, i) = Was(f, j)
    <3>. HIDE DEF Was
    <3>. QED BY <2>1 DEF LinkInv
  <2>. QED BY <2>2
<1>. QED BY <1>4, <1>5, <1>6, <1>7 DEF LinkInv

\* A connection goes on through daemon_loop to the session, or is over.
LEMMA AdmitKeeps ==
  ASSUME TypeOK, ConnInv, LinkInv, NEW d \in Instances, GotConn(d) \/ Authenticate(d)
  PROVE  LinkInv'
<1>t. /\ DOMAIN dpc = Instances /\ conn \in [Instances -> Clients \cup {Nobody}]
      /\ fds \in [Instances -> SUBSET Clients]
  BY DEF TypeOK, Ranges
<1>1. /\ \A e \in Instances \ {d} : dpc'[e] = dpc[e] /\ conn'[e] = conn[e]
      /\ UNCHANGED <<queue, request, gen, cpc, want, cgen, toD, toC>>
  BY <1>t DEF GotConn, Authenticate, Goto, clientVars
<1>2. CASE dpc'[d] \notin Taken
  <2>1. /\ queue'[d] = queue[d] \/ queue'[d] = <<>>
        /\ \A e \in Instances \ {d} :
             /\ dpc'[e] = dpc[e] /\ conn'[e] = conn[e] /\ queue'[e] = queue[e]
             /\ request'[e] = request[e] /\ gen'[e] = gen[e]
    BY <1>1
  <2>2. UNCHANGED <<cpc, want, cgen, toD, toC>>
    BY <1>1
  <2>3. dpc'[d] \notin Taken \/ (dpc'[d] = "gotconn" /\ conn'[d] = Nobody)
    BY <1>2
  <2>. QED BY <2>1, <2>2, <2>3, QuietKeeps
<1>3. CASE dpc'[d] \in Taken
  <2>1. /\ conn' = conn /\ conn[d] \in Clients
        /\ \/ dpc[d] = "gotconn" /\ dpc'[d] = "auth"
           \/ dpc[d] = "auth" /\ dpc'[d] = "read"
    BY <1>t, <1>3 DEF GotConn, Authenticate, Goto, Taken, Talking, ConnInv
  <2>2. PICK c \in Clients : c = conn[d]
    BY <2>1
  <2>3. In(d, 0, c) /\ In(d, 0, c)' /\ Linked(d, 0, c)
    <3>1. In(d, 0, c) /\ In(d, 0, c)'
      BY <1>3, <2>1, <2>2 DEF In, Taken
    <3>. QED BY <3>1 DEF LinkInv
  <2>4. /\ InArgs(d, 0)' = InArgs(d, 0) /\ Working(d, 0)' = Working(d, 0) /\ ~Begun(d, 0)
    BY <2>1 DEF InArgs, Working, Begun, Talking
  <2>5. cgen[c] = 0 /\ toC[c] = <<>>
    BY <2>3, <2>4 DEF Linked
  <2>6. Linked(d, 0, c)'
    <3>1. Current(d, c)'
      BY <1>1, <2>5 DEF Current
    <3>. QED BY <1>1, <2>3, <2>4, <2>5, <3>1 DEF Linked
  <2>7. dpc'[d] # "args" /\ dpc'[d] # "reply"
    BY <2>1
  <2>. QED BY <1>1, <2>1, <2>3, <2>6, <2>7, SessionKeeps
<1>. QED BY <1>2, <1>3

\* Messages move a session on.
LEMMA ReadKeeps ==
  ASSUME TypeOK, ConnInv, LinkInv, NEW d \in Instances, ReadMessage(d) \/ ReadArgs(d)
  PROVE  LinkInv'
<1>t. /\ DOMAIN dpc = Instances /\ DOMAIN request = Instances
      /\ toD \in [Clients -> Seq(Parts)]
  BY DEF TypeOK, Ranges
<1>0. dpc[d] \in {"read", "args"}
  BY DEF ReadMessage, ReadArgs
<1>1. PICK c \in Clients : c = conn[d]
  BY <1>0, DaemonAssumption DEF ConnInv, Talking
<1>2. PICK s \in Seq(Parts) : s = toD[c]
  BY <1>t
<1>3. /\ s # <<>> /\ toD'[c] = Tail(s)
      /\ \A b \in Clients \ {c} : toD'[b] = toD[b]
      /\ \A e \in Instances \ {d} : dpc'[e] = dpc[e] /\ request'[e] = request[e]
      /\ UNCHANGED <<conn, queue, gen, cpc, want, cgen, toC>>
  BY <1>t, <1>1, <1>2 DEF ReadMessage, ReadArgs, Goto, NetUnchanged, clientVars
<1>4. In(d, 0, c) /\ Linked(d, 0, c) /\ Begun(d, 0) /\ Current(d, c)
  <2>1. In(d, 0, c) /\ Begun(d, 0)
    BY <1>0, <1>1 DEF In, Begun, Taken, Talking
  <2>. QED BY <2>1 DEF LinkInv, Linked
<1>. DEFINE first == dpc[d] = "args"
            next == Head(s) \in WithArgs
<1>5. /\ WellFormed(first, s)
      /\ cpc[c] \in OpenCPcs => /\ cpc[c] = "args" <=> Ends(first, s)
                                /\ cpc[c] = "args" => NoneEarlier(Working(d, 0), s)
                                /\ Asked(Working(d, 0), s, cpc[c], want[c], toC[c])
  BY <1>2, <1>4 DEF Linked, InArgs
<1>6. /\ Head(s) = "args" <=> first
      /\ WellFormed(next, Tail(s))
      /\ Ends(next, Tail(s)) <=> Ends(first, s)
  BY <1>3, <1>5, StreamTail
<1>7. "hello" \notin Asking /\ "args" \notin WithArgs
  BY DEF Asking, WithArgs
<1>. HIDE DEF first, next
<1>8. CASE dpc'[d] \notin Taken
  <2>1. \A b \in Clients : toD'[b] = toD[b] \/ b = c
    BY <1>3
  <2>2. \A e \in Instances, i \in Nat, b \in Clients : In(e, i, b)' => In(e, i, b) /\ (e # d \/ i # 0) /\ b # c
    BY <1>3, <1>4, <1>8 DEF In, LinkInv
  <2>3. ASSUME NEW e \in Instances, NEW i \in Nat, NEW b \in Clients, In(e, i, b)'
        PROVE  cpc'[b] # "idle" /\ Linked(e, i, b)'
    <3>1. Linked(e, i, b) /\ cpc[b] # "idle" /\ b # c /\ (e # d \/ i # 0)
      BY <2>2, <2>3 DEF LinkInv
    <3>2. InArgs(e, i)' = InArgs(e, i) /\ Working(e, i)' = Working(e, i) /\ Begun(e, i)' = Begun(e, i)
      BY <1>3, <3>1 DEF InArgs, Working, Begun
    <3>. QED BY <1>3, <3>1, <3>2, LinkedKept
  <2>4. \A e \in Instances : /\ dpc'[e] = "args" => request'[e] \in WithArgs
                             /\ dpc'[e] = "reply" => request'[e] \in Asking
    BY <1>3, <1>8 DEF LinkInv, Taken, Talking
  <2>5. \A b \in Clients : cpc'[b] \in {"idle", "connected"} => Silent(b)'
    BY <1>2, <1>3 DEF LinkInv, Silent
  <2>6. \A b \in Clients, e, f \in Instances, i, j \in Nat :
           In(e, i, b)' /\ In(f, j, b)' => e = f /\ i = j
    BY <2>2 DEF LinkInv
  <2>. QED BY <2>3, <2>4, <2>5, <2>6 DEF LinkInv
<1>9. CASE dpc'[d] \in Taken
  <2>1. dpc'[d] \in Talking
    BY <1>9, <1>t DEF ReadMessage, ReadArgs, Goto, Taken, Talking, AfterHeader
  <2>2. In(d, 0, c)' /\ Begun(d, 0)'
    BY <1>1, <1>3, <1>9, <2>1 DEF In, Begun
  <2>3. /\ dpc'[d] = "args" <=> next
        /\ dpc'[d] = "args" => request'[d] \in WithArgs
        /\ dpc'[d] = "reply" => request'[d] \in Asking
    <3>1. CASE ReadMessage(d)
      <4>1. request'[d] = Head(s) /\ dpc'[d] = AfterHeader(Head(s))
        BY <1>t, <1>1, <1>2, <3>1 DEF ReadMessage, Goto
      <4>. QED BY <4>1, <2>1 DEF AfterHeader, WithArgs, Asking, next, Talking
    <3>2. CASE ReadArgs(d)
      <4>1. request' = request /\ dpc'[d] = (IF request[d] = "setvalue" THEN "read" ELSE "reply")
            /\ dpc[d] = "args"
        BY <1>t, <3>2 DEF ReadArgs, Goto
      <4>2. request[d] \in WithArgs
        BY <4>1 DEF LinkInv
      <4>3. ~next
        BY <1>6, <1>7, <4>1 DEF first, next
      <4>. QED BY <4>1, <4>2, <4>3 DEF WithArgs, Asking
    <3>. QED BY <3>1, <3>2
  <2>4. InArgs(d, 0)' = next
    BY <2>3 DEF InArgs, next
  <2>5. cpc[c] \in OpenCPcs => /\ Asked(Working(d, 0)', Tail(s), cpc[c], want[c], toC[c])
                               /\ cpc[c] = "args" => NoneEarlier(Working(d, 0)', Tail(s))
    <3>. SUFFICES ASSUME cpc[c] \in OpenCPcs
                  PROVE  /\ Asked(Working(d, 0)', Tail(s), cpc[c], want[c], toC[c])
                         /\ cpc[c] = "args" => NoneEarlier(Working(d, 0)', Tail(s))
      OBVIOUS
    <3>0. /\ Tail(s) \in Seq(Parts) /\ Asked(Working(d, 0), s, cpc[c], want[c], toC[c])
          /\ cpc[c] = "args" => NoneEarlier(Working(d, 0), s)
      BY <1>3, <1>5
    <3>1. CASE ReadMessage(d)
      <4>1. /\ Working(d, 0) = "hello" /\ dpc'[d] = AfterHeader(Head(s))
            /\ Working(d, 0)' \in {Head(s), "hello"}
        BY <1>t, <1>1, <1>2, <3>1 DEF ReadMessage, Goto, Working
      <4>2. /\ Asked(Head(s), Tail(s), cpc[c], want[c], toC[c])
            /\ cpc[c] = "args" => NoneEarlier(Head(s), Tail(s))
        BY <1>3, <1>7, <3>0, <4>1, AskedTail, AskingTail
      <4>3. /\ Asked("hello", Tail(s), cpc[c], want[c], toC[c])
            /\ cpc[c] = "args" => NoneEarlier("hello", Tail(s))
        <5>1. Asked("hello", Tail(s), cpc[c], want[c], toC[c])
          BY <1>7, <3>0, <4>2, AskedDone
        <5>2. NoneEarlier(Head(s), Tail(s)) => NoneEarlier("hello", Tail(s))
          BY <1>7, <3>0, AskingDone
        <5>. QED BY <4>2, <5>1, <5>2
      <4>. QED BY <4>1, <4>2, <4>3
    <3>2. CASE ReadArgs(d)
      <4>1. /\ Working(d, 0) = request[d] /\ dpc[d] = "args"
            /\ Working(d, 0)' \in {request[d], "hello"}
        BY <1>t, <3>2 DEF ReadArgs, Goto, Working
      <4>2. Head(s) \notin Asking
        BY <1>6, <4>1 DEF first, Asking
      <4>3. /\ Asked(request[d], Tail(s), cpc[c], want[c], toC[c])
            /\ cpc[c] = "args" => NoneEarlier(request[d], Tail(s))
        <5>1. Asked(request[d], Tail(s), cpc[c], want[c], toC[c])
          BY <1>3, <3>0, <4>1, <4>2, AskedArgs
        <5>2. NoneEarlier(request[d], s) => NoneEarlier(request[d], Tail(s))
          BY <1>3, <4>2, ArgsTail
        <5>. QED BY <3>0, <4>1, <5>1, <5>2
      <4>4. /\ Asked("hello", Tail(s), cpc[c], want[c], toC[c])
            /\ cpc[c] = "args" => NoneEarlier("hello", Tail(s))
        <5>1. Asked("hello", Tail(s), cpc[c], want[c], toC[c])
          BY <1>7, <3>0, <4>3, AskedDone
        <5>2. NoneEarlier(request[d], Tail(s)) => NoneEarlier("hello", Tail(s))
          BY <1>7, <3>0, AskingDone
        <5>. QED BY <4>3, <5>1, <5>2
      <4>. QED BY <4>1, <4>3, <4>4
    <3>. QED BY <3>1, <3>2
  <2>6. cpc[c] \in OpenCPcs => (cpc[c] = "args" <=> Ends(next, Tail(s)))
    BY <1>5, <1>6
  <2>7. Linked(d, 0, c)'
    <3>1. Current(d, c)'
      BY <1>3, <1>4 DEF Current
    <3>2. WellFormed(InArgs(d, 0)', toD'[c])
      BY <1>3, <1>6, <2>4
    <3>3. cpc'[c] \in OpenCPcs => (cpc'[c] = "args" <=> Ends(InArgs(d, 0)', toD'[c]))
      BY <1>3, <2>4, <2>6
    <3>4. toD'[c] = Tail(s) /\ cpc'[c] = cpc[c] /\ want'[c] = want[c] /\ toC'[c] = toC[c]
      BY <1>3
    <3>5. ASSUME cpc'[c] \in OpenCPcs
          PROVE  Asked(Working(d, 0)', toD'[c], cpc'[c], want'[c], toC'[c])
      BY <2>5, <3>4, <3>5
    <3>6. ASSUME cpc'[c] \in OpenCPcs, cpc'[c] = "args"
          PROVE  NoneEarlier(Working(d, 0)', toD'[c])
      BY <2>5, <3>4, <3>6
    <3>. QED BY <2>2, <3>1, <3>2, <3>3, <3>5, <3>6 DEF Linked
  <2>8. cpc[c] # "connected"
    BY <1>2, <1>3 DEF LinkInv, Silent
  <2>. QED BY <1>3, <1>4, <2>2, <2>3, <2>7, <2>8, SessionKeeps
<1>. QED BY <1>8, <1>9

\* The client is gone: whatever the instance makes of the end of the stream,
\* nobody is left to be out of step with.
LEMMA ReadAtEOFKeeps ==
  ASSUME TypeOK, ConnInv, LinkInv, NEW d \in Instances, ReadAtEOF(d)
  PROVE  LinkInv'
<1>t. DOMAIN dpc = Instances /\ DOMAIN request = Instances /\ DOMAIN queue = Instances
  BY DEF TypeOK, Ranges
<1>1. /\ dpc[d] \in {"read", "args"} /\ cpc[conn[d]] \notin OpenCPcs /\ toD[conn[d]] = <<>>
      /\ queue'[d] = queue[d] \/ queue'[d] = <<>>
      /\ \A e \in Instances \ {d} : /\ dpc'[e] = dpc[e] /\ queue'[e] = queue[e]
                                    /\ request'[e] = request[e]
      /\ UNCHANGED <<conn, gen, cpc, want, cgen, toD, toC>>
  BY <1>t DEF ReadAtEOF, Goto, Exit, NetUnchanged, clientVars
<1>2. CASE dpc'[d] \notin Taken
  <2>1. /\ queue'[d] = queue[d] \/ queue'[d] = <<>>
        /\ \A e \in Instances \ {d} :
             /\ dpc'[e] = dpc[e] /\ conn'[e] = conn[e] /\ queue'[e] = queue[e]
             /\ request'[e] = request[e] /\ gen'[e] = gen[e]
    BY <1>1
  <2>2. UNCHANGED <<cpc, want, cgen, toD, toC>>
    BY <1>1
  <2>3. dpc'[d] \notin Taken \/ (dpc'[d] = "gotconn" /\ conn'[d] = Nobody)
    BY <1>2
  <2>. QED BY <2>1, <2>2, <2>3, QuietKeeps
<1>3. CASE dpc'[d] \in Taken
  <2>1. /\ queue' = queue /\ dpc'[d] \in Talking
        /\ dpc'[d] = "args" => request'[d] \in WithArgs
        /\ dpc'[d] = "reply" => request'[d] \in Asking
    BY <1>3, <1>t DEF ReadAtEOF, Goto, Exit, NetUnchanged, Taken, Talking, AfterHeader, Asking,
                      WithArgs
  <2>2. PICK c \in Clients : c = conn[d]
    BY <1>1, DaemonAssumption DEF ConnInv, Talking
  <2>3. In(d, 0, c) /\ In(d, 0, c)' /\ Begun(d, 0) /\ Begun(d, 0)'
    BY <1>1, <1>3, <2>1, <2>2 DEF In, Taken, Talking, Begun
  <2>4. Linked(d, 0, c)'
    <3>1. Current(d, c)'
      <4>1. Current(d, c)
        BY <2>3 DEF LinkInv, Linked
      <4>. QED BY <1>1, <4>1 DEF Current
    <3>2. WellFormed(InArgs(d, 0)', <<>>)
      BY DEF WellFormed
    <3>. QED BY <1>1, <2>2, <2>3, <3>1, <3>2 DEF Linked
  <2>5. cpc[c] # "connected"
    BY <1>1, <2>2 DEF OpenCPcs
  <2>6. /\ \A e \in Instances \ {d} : dpc'[e] = dpc[e] /\ request'[e] = request[e]
        /\ \A b \in Clients \ {c} : toD'[b] = toD[b] /\ toC'[b] = toC[b]
        /\ UNCHANGED <<conn, queue, gen, cpc, want, cgen>>
    BY <1>1, <2>1
  <2>. QED BY <2>1, <2>3, <2>4, <2>5, <2>6, SessionKeeps
<1>. QED BY <1>2, <1>3

\* A client that is answered is one that waits, for that kind of reply, and has
\* had none: a client still about to send arguments has asked for nothing before.
LEMMA ReplyIsWanted ==
  ASSUME TypeOK, LinkInv, NEW d \in Instances, NEW c \in Clients,
         dpc[d] = "reply", conn[d] = c, cpc[c] \in OpenCPcs
  PROVE  cpc[c] = "waiting" /\ toC[c] = <<>> /\ want[c] = KindOf(request[d])
<1>1. In(d, 0, c) /\ Working(d, 0) = request[d] /\ request[d] \in Asking
      /\ InArgs(d, 0) = FALSE
  BY DEF In, Taken, Talking, Working, LinkInv, InArgs
<1>2. PICK s \in Seq(Parts) : s = toD[c]
  BY DEF TypeOK, Ranges
<1>3. /\ cpc[c] = "args" <=> Ends(FALSE, s)
      /\ cpc[c] = "args" => NoneEarlier(request[d], s)
      /\ Asked(request[d], s, cpc[c], want[c], toC[c])
  <2>1. Linked(d, 0, c)
    BY <1>1 DEF LinkInv
  <2>. QED BY <1>1, <1>2, <2>1 DEF Linked
<1>4. Message(request[d], s, 0) = request[d] /\ Len(s) \in Nat
  BY DEF Message
<1>5. ~NoneAsks(request[d], s)
  BY <1>1, <1>4 DEF NoneAsks
<1>6. cpc[c] \in {"waiting", "args"} /\ toC[c] = <<>> /\ OneAsks(request[d], s, want[c])
  BY <1>3, <1>5 DEF Asked
<1>7. want[c] = KindOf(request[d])
  BY <1>1, <1>4, <1>6 DEF OneAsks
<1>8. cpc[c] # "args"
  <2>. SUFFICES ASSUME cpc[c] = "args" PROVE FALSE
    OBVIOUS
  <2>1. s # <<>>
    BY <1>3 DEF Ends
  <2>2. 0 \in 0 .. Len(s) - 1
    BY <2>1, NoLength, <1>4
  <2>. QED BY <1>1, <1>3, <1>4, <2>2 DEF NoneEarlier
<1>. QED BY <1>6, <1>7, <1>8

LEMMA ReplyKeeps ==
  ASSUME TypeOK, ConnInv, LinkInv, NEW d \in Instances, Reply(d)
  PROVE  LinkInv'
<1>t. /\ DOMAIN dpc = Instances /\ DOMAIN queue = Instances
      /\ toC \in [Clients -> Seq(Replies)] /\ toD \in [Clients -> Seq(Parts)]
      /\ gen \in [Instances -> Nat]
  BY DEF TypeOK, Ranges
<1>1. PICK c \in Clients : c = conn[d]
  BY DaemonAssumption DEF ConnInv, Talking, Reply
<1>2. /\ dpc[d] = "reply"
      /\ \A e \in Instances \ {d} : dpc'[e] = dpc[e] /\ queue'[e] = queue[e]
      /\ \A b \in Clients \ {c} : toC'[b] = toC[b]
      /\ UNCHANGED <<conn, request, gen, cpc, want, cgen, toD>>
  BY <1>t, <1>1 DEF Reply, Goto, Exit, NetUnchanged, clientVars
<1>3. CASE cpc[c] \notin OpenCPcs
  <2>1. /\ queue'[d] = <<>> /\ dpc'[d] = "dead" /\ toC' = toC
    BY <1>t, <1>1, <1>3 DEF Reply, Exit, Goto
  <2>2. /\ queue'[d] = queue[d] \/ queue'[d] = <<>>
        /\ \A e \in Instances \ {d} :
             /\ dpc'[e] = dpc[e] /\ conn'[e] = conn[e] /\ queue'[e] = queue[e]
             /\ request'[e] = request[e] /\ gen'[e] = gen[e]
    BY <1>2, <2>1
  <2>3. UNCHANGED <<cpc, want, cgen, toD, toC>>
    BY <1>2, <2>1
  <2>4. dpc'[d] \notin Taken \/ (dpc'[d] = "gotconn" /\ conn'[d] = Nobody)
    BY <2>1 DEF Taken, Talking
  <2>. QED BY <2>2, <2>3, <2>4, QuietKeeps
<1>4. CASE cpc[c] \in OpenCPcs
  <2>1. PICK r : /\ r.gen = gen[d] /\ r \in Replies
                 /\ toC'[c] = Append(toC[c], r) /\ dpc'[d] = "read" /\ queue' = queue
    <3>. DEFINE r == [kind |-> IF request[d] = "requesttweaks" THEN "tree" ELSE "value",
                      gen |-> gen[d]]
    <3>1. r.gen = gen[d] /\ r \in Replies
      BY <1>t DEF Replies
    <3>2. toC'[c] = Append(toC[c], r) /\ dpc'[d] = "read" /\ queue' = queue
      BY <1>t, <1>1, <1>4 DEF Reply, Goto, NetUnchanged
    <3>. QED BY <3>1, <3>2
  <2>2. /\ In(d, 0, c) /\ In(d, 0, c)' /\ Begun(d, 0) /\ Begun(d, 0)'
        /\ InArgs(d, 0) = FALSE /\ InArgs(d, 0)' = FALSE
        /\ Working(d, 0) = request[d] /\ Working(d, 0)' = "hello" /\ request[d] \in Asking
    BY <1>1, <1>2, <2>1 DEF In, Taken, Talking, Begun, InArgs, Working, LinkInv
  <2>3. cpc[c] = "waiting" /\ toC[c] = <<>>
    BY <1>1, <1>2, <1>4, ReplyIsWanted
  <2>4. Linked(d, 0, c) /\ Current(d, c)
    BY <2>2 DEF LinkInv, Linked
  <2>5. PICK s \in Seq(Parts) : s = toD[c]
    BY <1>t
  <2>6. Asked("hello", s, cpc[c], want[c], toC'[c])
    <3>1. OneAsks(request[d], s, want[c])
      BY <1>4, <2>2, <2>3, <2>4, <2>5 DEF Linked, Asked
    <3>2. NoneAsks("hello", s)
      BY <2>2, <3>1, AskingDone DEF Asking
    <3>3. toC'[c] # <<>>
      BY <1>t, <2>1
    <3>. QED BY <3>2, <3>3 DEF Asked
  <2>7. Current(d, c)'
    <3>1. \A k \in 1 .. Len(toC'[c]) : toC'[c][k] = r
      BY <2>1, <2>3
    <3>. QED BY <1>2, <2>1, <2>4, <3>1 DEF Current
  <2>8. Linked(d, 0, c)'
    <3>1. /\ WellFormed(FALSE, s)
          /\ cpc[c] = "args" <=> Ends(FALSE, s)
      BY <1>4, <2>2, <2>4, <2>5 DEF Linked
    <3>2. /\ toD'[c] = s /\ cpc'[c] = cpc[c] /\ want'[c] = want[c] /\ cpc[c] # "args"
      BY <1>2, <2>3, <2>5
    <3>3. WellFormed(InArgs(d, 0)', toD'[c]) /\ (cpc'[c] = "args" <=> Ends(InArgs(d, 0)', toD'[c]))
      BY <2>2, <3>1, <3>2
    <3>4. Asked(Working(d, 0)', toD'[c], cpc'[c], want'[c], toC'[c])
      BY <2>2, <2>6, <3>2
    <3>. QED BY <2>2, <2>7, <3>2, <3>3, <3>4 DEF Linked
  <2>9. /\ \A e \in Instances \ {d} : dpc'[e] = dpc[e] /\ request'[e] = request[e]
        /\ \A b \in Clients \ {c} : toD'[b] = toD[b] /\ toC'[b] = toC[b]
        /\ UNCHANGED <<conn, queue, gen, cpc, want, cgen>>
    BY <1>2, <2>1
  <2>. QED BY <2>1, <2>2, <2>3, <2>8, <2>9, SessionKeeps
<1>. QED BY <1>3, <1>4

\* Nothing the two ends look at has changed.
LEMMA NothingKeeps ==
  ASSUME LinkInv,
         UNCHANGED <<dpc, conn, queue, request, gen, cpc, want, cgen, toD, toC>>
  PROVE  LinkInv'
<1>1. \A e \in Instances, i \in Nat, b \in Clients : In(e, i, b)' = In(e, i, b)
  BY DEF In
<1>2. \A e \in Instances, i \in Nat : /\ InArgs(e, i)' = InArgs(e, i) /\ Working(e, i)' = Working(e, i)
                                      /\ Begun(e, i)' = Begun(e, i) /\ gen'[e] = gen[e]
  BY DEF InArgs, Working, Begun
<1>3. ASSUME NEW e \in Instances, NEW i \in Nat, NEW b \in Clients, In(e, i, b)'
      PROVE  cpc'[b] # "idle" /\ Linked(e, i, b)'
  <2>1. Linked(e, i, b) /\ cpc[b] # "idle"
    BY <1>1, <1>3 DEF LinkInv
  <2>. QED BY <1>2, <2>1, LinkedKept
<1>4. \A e \in Instances : /\ dpc'[e] = "args" => request'[e] \in WithArgs
                           /\ dpc'[e] = "reply" => request'[e] \in Asking
  BY DEF LinkInv
<1>5. \A b \in Clients : cpc'[b] \in {"idle", "connected"} => Silent(b)'
  BY DEF LinkInv, Silent
<1>6. \A b \in Clients, e, f \in Instances, i, j \in Nat :
         In(e, i, b)' /\ In(f, j, b)' => e = f /\ i = j
  BY <1>1 DEF LinkInv
<1>. QED BY <1>3, <1>4, <1>5, <1>6 DEF LinkInv

\* A signal cuts a call short or only sets a flag.
LEMMA SignalKeeps ==
  ASSUME TypeOK, LinkInv, NEW d \in Instances, ReceiveHUP(d) \/ ReceiveTERM(d)
  PROVE  LinkInv'
<1>t. DOMAIN dpc = Instances /\ DOMAIN conn = Instances
  BY DEF TypeOK, Ranges
<1>1. /\ UNCHANGED <<queue, request, gen, cpc, want, cgen, toD, toC>>
      /\ Interrupt(d)
  BY DEF ReceiveHUP, ReceiveTERM, NetUnchanged, clientVars
<1>2. CASE UNCHANGED <<dpc, conn>>
  BY <1>1, <1>2, NothingKeeps
<1>3. CASE ~UNCHANGED <<dpc, conn>>
  <2>1. /\ \A e \in Instances \ {d} : dpc'[e] = dpc[e] /\ conn'[e] = conn[e]
        /\ \/ dpc'[d] = "gotconn" /\ conn'[d] = Nobody
           \/ dpc'[d] = "endsession"
    BY <1>t, <1>1, <1>3 DEF Interrupt, Goto
  <2>2. /\ queue'[d] = queue[d] \/ queue'[d] = <<>>
        /\ \A e \in Instances \ {d} :
             /\ dpc'[e] = dpc[e] /\ conn'[e] = conn[e] /\ queue'[e] = queue[e]
             /\ request'[e] = request[e] /\ gen'[e] = gen[e]
    BY <1>1, <2>1
  <2>3. UNCHANGED <<cpc, want, cgen, toD, toC>>
    BY <1>1
  <2>4. dpc'[d] \notin Taken \/ (dpc'[d] = "gotconn" /\ conn'[d] = Nobody)
    BY <2>1 DEF Taken, Talking
  <2>. QED BY <2>2, <2>3, <2>4, QuietKeeps
<1>. QED BY <1>2, <1>3

\* A connection joins the queue, its client silent.
LEMMA ConnectKeeps ==
  ASSUME TypeOK, LinkInv, NEW c \in Clients, Connect(c)
  PROVE  LinkInv'
<1>t. /\ queue \in [Instances -> Seq(Clients)] /\ DOMAIN cpc = Clients
  BY DEF TypeOK, Ranges
<1>1. /\ cpc[c] = "idle" /\ \A b \in Clients \ {c} : cpc'[b] = cpc[b]
      /\ cpc'[c] \in {"connected", "local"}
      /\ UNCHANGED <<dpc, conn, request, gen, want, cgen, toD, toC>>
  BY <1>t DEF Connect
<1>2. Silent(c) /\ \A e \in Instances, i \in Nat : ~In(e, i, c)
  BY <1>1 DEF LinkInv
<1>3. CASE queue' = queue
  <2>1. \A e \in Instances, i \in Nat, b \in Clients : In(e, i, b)' => In(e, i, b) /\ b # c
    BY <1>1, <1>2, <1>3 DEF In
  <2>2. ASSUME NEW e \in Instances, NEW i \in Nat, NEW b \in Clients, In(e, i, b)'
        PROVE  cpc'[b] # "idle" /\ Linked(e, i, b)'
    <3>1. Linked(e, i, b) /\ cpc[b] # "idle" /\ b # c
      BY <2>1, <2>2 DEF LinkInv
    <3>2. InArgs(e, i)' = InArgs(e, i) /\ Working(e, i)' = Working(e, i) /\ Begun(e, i)' = Begun(e, i)
      BY <1>1 DEF InArgs, Working, Begun
    <3>. QED BY <1>1, <3>1, <3>2, LinkedKept
  <2>3. \A e \in Instances : /\ dpc'[e] = "args" => request'[e] \in WithArgs
                             /\ dpc'[e] = "reply" => request'[e] \in Asking
    BY <1>1 DEF LinkInv
  <2>4. \A b \in Clients : cpc'[b] \in {"idle", "connected"} => Silent(b)'
    BY <1>1, <1>2 DEF LinkInv, Silent
  <2>5. \A b \in Clients, e, f \in Instances, i, j \in Nat :
           In(e, i, b)' /\ In(f, j, b)' => e = f /\ i = j
    BY <2>1 DEF LinkInv
  <2>. QED BY <2>2, <2>3, <2>4, <2>5 DEF LinkInv
<1>4. CASE queue' # queue
  <2>1. PICK d \in Instances : queue' = [queue EXCEPT ![d] = Append(@, c)]
    BY <1>4 DEF Connect
  <2>2. PICK q \in Seq(Clients) : q = queue[d]
    BY <1>t
  <2>3. /\ Len(q) \in Nat /\ Len(queue'[d]) = Len(q) + 1 /\ queue'[d][Len(q) + 1] = c
        /\ \A k \in 1 .. Len(q) : queue'[d][k] = q[k]
        /\ \A e \in Instances \ {d} : queue'[e] = queue[e]
    <3>1. /\ queue'[d] = Append(q, c)
          /\ \A e \in Instances \ {d} : queue'[e] = queue[e]
      BY <1>t, <2>1, <2>2
    <3>2. /\ Len(q) \in Nat /\ Len(Append(q, c)) = Len(q) + 1 /\ Append(q, c)[Len(q) + 1] = c
          /\ \A k \in 1 .. Len(q) : Append(q, c)[k] = q[k]
      OBVIOUS
    <3>. QED BY <3>1, <3>2
  <2>4. ASSUME NEW e \in Instances, NEW i \in Nat, NEW b \in Clients, In(e, i, b)'
        PROVE  IF b = c THEN e = d /\ i = Len(q) + 1 ELSE In(e, i, b)
    <3>1. In(e, i, b) \/ (e = d /\ i = Len(q) + 1 /\ b = c)
      <4>1. CASE e # d
        BY <1>1, <2>3, <2>4, <4>1 DEF In
      <4>2. CASE e = d
        BY <1>1, <2>2, <2>3, <2>4, <4>2 DEF In
      <4>. QED BY <4>1, <4>2
    <3>. QED BY <1>2, <3>1
  <2>5. ASSUME NEW e \in Instances, NEW i \in Nat, NEW b \in Clients, In(e, i, b)'
        PROVE  cpc'[b] # "idle" /\ Linked(e, i, b)'
    <3>1. CASE b # c
      <4>1. Linked(e, i, b) /\ cpc[b] # "idle"
        BY <2>4, <2>5, <3>1 DEF LinkInv
      <4>2. InArgs(e, i)' = InArgs(e, i) /\ Working(e, i)' = Working(e, i) /\ Begun(e, i)' = Begun(e, i)
        BY <1>1 DEF InArgs, Working, Begun
      <4>. QED BY <1>1, <3>1, <4>1, <4>2, LinkedKept
    <3>2. CASE b = c
      <4>1. i # 0
        BY <2>3, <2>4, <2>5, <3>2
      <4>2. InArgs(e, i)' = FALSE /\ Working(e, i)' = "hello" /\ Begun(e, i)' = FALSE
        BY <4>1 DEF InArgs, Working, Begun
      <4>3. toD'[c] = <<>> /\ toC'[c] = <<>> /\ cgen'[c] = 0
        BY <1>1, <1>2 DEF Silent
      <4>4. WellFormed(FALSE, <<>>) /\ Ends(FALSE, <<>>) = FALSE /\ NoneAsks("hello", <<>>)
        BY DEF WellFormed, Ends, NoneAsks, Message, Asking
      <4>5. cpc'[c] # "args" /\ Asked("hello", <<>>, cpc'[c], want'[c], toC'[c])
        BY <1>1, <4>4 DEF Asked
      <4>6. cpc'[c] # "idle"
        BY <1>1
      <4>7. Linked(e, i, c)'
        BY <4>2, <4>3, <4>4, <4>5 DEF Linked
      <4>. QED BY <3>2, <4>6, <4>7
    <3>. QED BY <3>1, <3>2
  <2>6. \A e \in Instances : /\ dpc'[e] = "args" => request'[e] \in WithArgs
                             /\ dpc'[e] = "reply" => request'[e] \in Asking
    BY <1>1 DEF LinkInv
  <2>7. \A b \in Clients : cpc'[b] \in {"idle", "connected"} => Silent(b)'
    BY <1>1, <1>2 DEF LinkInv, Silent
  <2>8. \A b \in Clients, e, f \in Instances, i, j \in Nat :
           In(e, i, b)' /\ In(f, j, b)' => e = f /\ i = j
    BY <2>4 DEF LinkInv
  <2>. QED BY <2>5, <2>6, <2>7, <2>8 DEF LinkInv
<1>. QED BY <1>3, <1>4

\* A client that gives up, or is killed, leaves the stream as it is.
LEMMA LeaveKeeps ==
  ASSUME LinkInv, NEW c \in Clients, cpc'[c] \in {"gone", "broken"},
         \A b \in Clients \ {c} : cpc'[b] = cpc[b],
         UNCHANGED <<dpc, conn, queue, request, gen, want, cgen, toD, toC>>
  PROVE  LinkInv'
<1>1. \A d \in Instances, i \in Nat : /\ InArgs(d, i)' = InArgs(d, i) /\ Working(d, i)' = Working(d, i)
                                      /\ Begun(d, i)' = Begun(d, i)
  BY DEF InArgs, Working, Begun
<1>2. ASSUME NEW d \in Instances, NEW i \in Nat, In(d, i, c) PROVE Linked(d, i, c)'
  <2>1. Linked(d, i, c)
    BY <1>2 DEF LinkInv
  <2>2. cpc'[c] \notin OpenCPcs
    BY DEF OpenCPcs
  <2>. QED BY <1>1, <2>1, <2>2, LinkedKept
<1>. QED BY <1>2, ClientKeeps

\* A client sends: Sends says what, and what becomes of the client.
LEMMA SendKeeps ==
  ASSUME TypeOK, LinkInv, NEW c \in Clients, NEW m \in Parts,
         m = "args" <=> cpc[c] = "args", cpc[c] \in OpenCPcs,
         toD'[c] = toD[c] \o <<m>>, cpc'[c] \notin {"idle", "connected"},
         cpc'[c] \in OpenCPcs => (cpc'[c] = "args" <=> m \in WithArgs),
         \A s \in Seq(Parts) : \A q :
            /\ Asked(q, s, cpc[c], want[c], toC[c])
            /\ cpc'[c] \in OpenCPcs
            => /\ Asked(q, s \o <<m>>, cpc'[c], want'[c], toC[c])
               /\ cpc'[c] = "args" => NoneEarlier(q, s \o <<m>>),
         \A b \in Clients \ {c} : /\ cpc'[b] = cpc[b] /\ want'[b] = want[b] /\ toD'[b] = toD[b],
         UNCHANGED <<dpc, conn, queue, request, gen, cgen, toC>>
  PROVE  LinkInv'
<1>1. ASSUME NEW d \in Instances, NEW i \in Nat, In(d, i, c) PROVE Linked(d, i, c)'
  <2>0. InArgs(d, i)' = InArgs(d, i) /\ Working(d, i)' = Working(d, i) /\ Begun(d, i)' = Begun(d, i)
        /\ InArgs(d, i) \in BOOLEAN
    BY DEF InArgs, Working, Begun
  <2>. DEFINE first == InArgs(d, i)
              q == Working(d, i)
  <2>1. Linked(d, i, c)
    BY <1>1 DEF LinkInv
  <2>2. PICK s \in Seq(Parts) : s = toD[c]
    BY DEF TypeOK, Ranges
  <2>3. /\ WellFormed(first, s) /\ (cpc[c] = "args" <=> Ends(first, s))
        /\ Asked(q, s, cpc[c], want[c], toC[c])
        /\ IF Begun(d, i) THEN Current(d, c) ELSE cgen[c] = 0 /\ toC[c] = <<>>
    BY <2>1, <2>2 DEF Linked
  <2>. HIDE DEF first, q
  <2>4. WellFormed(first, s \o <<m>>) /\ (Ends(first, s \o <<m>>) <=> m \in WithArgs)
    BY <2>3, <2>0, StreamAppend DEF first
  <2>5. cpc'[c] \in OpenCPcs =>
          /\ cpc'[c] = "args" <=> Ends(first, s \o <<m>>)
          /\ cpc'[c] = "args" => NoneEarlier(q, s \o <<m>>)
          /\ Asked(q, s \o <<m>>, cpc'[c], want'[c], toC[c])
    BY <2>3, <2>4
  <2>6. IF Begun(d, i)' THEN Current(d, c)' ELSE cgen'[c] = 0 /\ toC'[c] = <<>>
    BY <2>0, <2>3 DEF Current
  <2>7. toD'[c] = s \o <<m>> /\ toC'[c] = toC[c] /\ InArgs(d, i)' = first /\ Working(d, i)' = q
    BY <2>0, <2>2 DEF first, q
  <2>. QED BY <2>4, <2>5, <2>6, <2>7 DEF Linked
<1>. QED BY <1>1, ClientKeeps

LEMMA HelloKeeps ==
  ASSUME TypeOK, LinkInv, NEW c \in Clients, Hello(c)
  PROVE  LinkInv'
<1>t. DOMAIN cpc = Clients /\ DOMAIN want = Clients /\ toD \in [Clients -> Seq(Parts)]
  BY DEF TypeOK, Ranges
<1>1. /\ cpc[c] = "connected" /\ \A b \in Clients \ {c} : cpc'[b] = cpc[b]
      /\ UNCHANGED <<dpc, conn, queue, request, gen, cgen, toC>>
  BY <1>t DEF Hello, BrokenPipe
<1>2. CASE BrokenPipe(c)
  <2>1. cpc'[c] = "broken" /\ UNCHANGED <<want, toD>>
    BY <1>2, <1>t DEF BrokenPipe
  <2>. QED BY <1>1, <2>1, LeaveKeeps
<1>3. CASE ~BrokenPipe(c)
  <2>1. /\ cpc'[c] = "waiting" /\ want'[c] = "tree"
        /\ toD' = [toD EXCEPT ![c] = @ \o <<"hello", "requesttweaks">>]
        /\ \A b \in Clients \ {c} : want'[b] = want[b]
    BY <1>3, <1>t DEF Hello, Send
  <2>2. PICK s \in Seq(Parts) : s = toD[c]
    BY <1>t
  <2>. DEFINE t == s \o <<"hello">>
  <2>3. /\ toD'[c] = t \o <<"requesttweaks">> /\ t \in Seq(Parts)
        /\ \A b \in Clients \ {c} : toD'[b] = toD[b]
    <3>1. "hello" \in Parts
      BY PartFacts
    <3>2. t \in Seq(Parts)
      BY <3>1
    <3>3. s \o <<"hello", "requesttweaks">> = t \o <<"requesttweaks">>
      OBVIOUS
    <3>4. toD'[c] = s \o <<"hello", "requesttweaks">>
      BY <1>t, <2>1, <2>2
    <3>5. \A b \in Clients \ {c} : toD'[b] = toD[b]
      BY <1>t, <2>1
    <3>. QED BY <3>2, <3>3, <3>4, <3>5
  <2>. HIDE DEF t
  <2>4. ASSUME NEW d \in Instances, NEW i \in Nat, In(d, i, c) PROVE Linked(d, i, c)'
    <3>0. InArgs(d, i)' = InArgs(d, i) /\ Working(d, i)' = Working(d, i) /\ Begun(d, i)' = Begun(d, i)
          /\ InArgs(d, i) \in BOOLEAN
      BY <1>1 DEF InArgs, Working, Begun
    <3>. DEFINE first == InArgs(d, i)
                q == Working(d, i)
    <3>1. Linked(d, i, c)
      BY <2>4 DEF LinkInv
    <3>2. /\ WellFormed(first, s) /\ ~Ends(first, s) /\ NoneAsks(q, s) /\ toC[c] = <<>>
          /\ IF Begun(d, i) THEN Current(d, c) ELSE cgen[c] = 0
      <4>1. toC[c] = <<>>
        BY <1>1 DEF LinkInv, Silent
      <4>2. cpc[c] \in OpenCPcs
        BY <1>1 DEF OpenCPcs
      <4>3. WellFormed(first, s) /\ ~Ends(first, s) /\ Asked(q, s, cpc[c], want[c], toC[c])
        BY <1>1, <2>2, <3>1, <4>2 DEF Linked
      <4>4. IF Begun(d, i) THEN Current(d, c) ELSE cgen[c] = 0
        BY <3>1 DEF Linked
      <4>. QED BY <1>1, <4>1, <4>3, <4>4 DEF Asked
    <3>. HIDE DEF first, q
    <3>3. "hello" \in Parts /\ "requesttweaks" \in Parts /\ "hello" \notin WithArgs
          /\ "requesttweaks" \notin WithArgs /\ "hello" \notin Asking
      BY PartFacts DEF WithArgs, Asking
    <3>4. WellFormed(first, t) /\ ~Ends(first, t) /\ NoneAsks(q, t)
      BY <3>0, <3>2, <3>3, StreamAppend, AskingAppend DEF t, first
    <3>5. WellFormed(first, toD'[c]) /\ ~Ends(first, toD'[c])
      BY <2>3, <3>0, <3>3, <3>4, StreamAppend DEF first
    <3>6. OneAsks(q, toD'[c], want'[c])
      <4>1. KindOf("requesttweaks") = "tree"
        BY DEF KindOf
      <4>. QED BY <2>1, <2>3, <3>4, <4>1, AskingAppend
    <3>7. Asked(q, toD'[c], cpc'[c], want'[c], toC'[c])
      BY <1>1, <2>1, <3>2, <3>6 DEF Asked
    <3>8. IF Begun(d, i)' THEN Current(d, c)' ELSE cgen'[c] = 0 /\ toC'[c] = <<>>
      BY <1>1, <3>0, <3>2 DEF Current
    <3>9. InArgs(d, i)' = first /\ Working(d, i)' = q /\ cpc'[c] # "args"
      BY <2>1, <3>0 DEF first, q
    <3>. QED BY <3>5, <3>7, <3>8, <3>9 DEF Linked
  <2>5. cpc'[c] \notin {"idle", "connected"}
    BY <2>1
  <2>. QED BY <1>1, <2>1, <2>3, <2>4, <2>5, ClientKeeps
<1>. QED BY <1>2, <1>3

LEMMA RequestKeeps ==
  ASSUME TypeOK, LinkInv, RepliesMatchRequests, NEW c \in Clients, Request(c)
  PROVE  LinkInv'
<1>t. /\ DOMAIN cpc = Clients /\ want \in [Clients -> {"none", "tree", "value"}]
      /\ DOMAIN toD = Clients
  BY DEF TypeOK, Ranges
<1>1. /\ cpc[c] = "ready" /\ \A b \in Clients \ {c} : cpc'[b] = cpc[b]
      /\ UNCHANGED <<dpc, conn, queue, request, gen, cgen, toC>>
  BY <1>t DEF Request, BrokenPipe
<1>2. CASE BrokenPipe(c)
  <2>1. cpc'[c] = "broken" /\ UNCHANGED <<want, toD>>
    BY <1>2, <1>t DEF BrokenPipe
  <2>. QED BY <1>1, <2>1, LeaveKeeps
<1>3. CASE ~BrokenPipe(c)
  <2>1. PICK m \in WithArgs \cup {"saveconfig"} :
          /\ toD'[c] = toD[c] \o <<m>>
          /\ cpc'[c] = (IF m \in WithArgs THEN "args" ELSE "ready")
          /\ want'[c] = (IF m \in {"getvalue", "getvalueraw"} THEN "value" ELSE want[c])
          /\ \A b \in Clients \ {c} : want'[b] = want[b] /\ toD'[b] = toD[b]
    BY <1>1, <1>3, <1>t DEF Request, Send
  <2>2. m \in Parts /\ m # "args" /\ (m \in Asking <=> m \in {"getvalue", "getvalueraw"})
        /\ (m \in Asking => KindOf(m) = "value" /\ m \in WithArgs)
    BY PartFacts DEF WithArgs, Asking, KindOf
  <2>3. ASSUME NEW s \in Seq(Parts), NEW q, Asked(q, s, cpc[c], want[c], toC[c])
        PROVE  /\ Asked(q, s \o <<m>>, cpc'[c], want'[c], toC[c])
               /\ cpc'[c] = "args" => NoneEarlier(q, s \o <<m>>)
    <3>1. NoneAsks(q, s)
      BY <1>1, <2>3 DEF Asked
    <3>2. NoneEarlier(q, s \o <<m>>)
      BY <3>1, AskingAppend
    <3>3. CASE m \in Asking
      <4>1. OneAsks(q, s \o <<m>>, want'[c])
        BY <2>1, <2>2, <3>1, <3>3, AskingAppend
      <4>2. toC[c] = <<>>
        BY <1>1 DEF RepliesMatchRequests, OpenCPcs
      <4>. QED BY <2>1, <2>2, <3>2, <3>3, <4>1, <4>2 DEF Asked
    <3>4. CASE m \notin Asking
      <4>1. NoneAsks(q, s \o <<m>>)
        BY <3>1, <3>4, AskingAppend
      <4>2. OneAsks(q, s \o <<m>>, want'[c])
        BY <4>1 DEF NoneAsks, OneAsks
      <4>. QED BY <3>2, <4>1, <4>2 DEF Asked
    <3>. QED BY <3>3, <3>4
  <2>4. /\ cpc[c] \in OpenCPcs /\ cpc[c] # "args" /\ cpc'[c] \notin {"idle", "connected"}
        /\ cpc'[c] = "args" <=> m \in WithArgs
    BY <1>1, <2>1 DEF OpenCPcs
  <2>. QED BY <1>1, <2>1, <2>2, <2>3, <2>4, SendKeeps
<1>. QED BY <1>2, <1>3

LEMMA SendArgsKeeps ==
  ASSUME TypeOK, LinkInv, NEW c \in Clients, SendArgs(c)
  PROVE  LinkInv'
<1>t. /\ DOMAIN cpc = Clients /\ DOMAIN toD = Clients
  BY DEF TypeOK, Ranges
<1>1. /\ cpc[c] = "args" /\ \A b \in Clients \ {c} : cpc'[b] = cpc[b]
      /\ UNCHANGED <<dpc, conn, queue, request, gen, cgen, toC, want>>
  BY <1>t DEF SendArgs, BrokenPipe
<1>2. CASE BrokenPipe(c)
  <2>1. cpc'[c] = "broken" /\ UNCHANGED toD
    BY <1>2, <1>t DEF BrokenPipe
  <2>. QED BY <1>1, <2>1, LeaveKeeps
<1>3. CASE ~BrokenPipe(c)
  <2>1. /\ toD'[c] = toD[c] \o <<"args">>
        /\ cpc'[c] = (IF want[c] = "none" THEN "ready" ELSE "waiting")
        /\ \A b \in Clients \ {c} : toD'[b] = toD[b]
    BY <1>3, <1>t DEF SendArgs, Send
  <2>2. "args" \in Parts /\ "args" \notin Asking /\ "args" \notin WithArgs
    BY PartFacts DEF WithArgs, Asking
  <2>3. ASSUME NEW s \in Seq(Parts), NEW q, Asked(q, s, cpc[c], want[c], toC[c])
        PROVE  Asked(q, s \o <<"args">>, cpc'[c], want'[c], toC[c])
    <3>1. CASE want[c] = "none"
      <4>1. NoneAsks(q, s)
        BY <2>3, <3>1, WantsNone DEF Asked
      <4>2. NoneAsks(q, s \o <<"args">>)
        BY <2>2, <4>1, AskingAppend
      <4>. QED BY <2>1, <3>1, <4>2 DEF Asked
    <3>2. CASE want[c] # "none"
      <4>1. OneAsks(q, s, want[c]) => OneAsks(q, s \o <<"args">>, want[c])
        BY <2>2, AskingAppend
      <4>2. NoneAsks(q, s) => NoneAsks(q, s \o <<"args">>)
        BY <2>2, AskingAppend
      <4>. QED BY <1>1, <2>1, <2>3, <3>2, <4>1, <4>2 DEF Asked
    <3>. QED BY <3>1, <3>2
  <2>4. /\ cpc[c] \in OpenCPcs /\ cpc'[c] \notin {"idle", "connected"} /\ cpc'[c] # "args"
    BY <1>1, <2>1 DEF OpenCPcs
  <2>. QED BY <1>1, <2>1, <2>2, <2>3, <2>4, SendKeeps
<1>. QED BY <1>2, <1>3

LEMMA QuitKeeps ==
  ASSUME TypeOK, LinkInv, NEW c \in Clients, Quit(c)
  PROVE  LinkInv'
<1>t. /\ DOMAIN cpc = Clients /\ DOMAIN toD = Clients
  BY DEF TypeOK, Ranges
<1>1. /\ cpc[c] = "ready" /\ cpc'[c] = "gone" /\ \A b \in Clients \ {c} : cpc'[b] = cpc[b]
      /\ UNCHANGED <<dpc, conn, queue, request, gen, cgen, toC, want>>
  BY <1>t DEF Quit
<1>2. CASE toD' = toD
  BY <1>1, <1>2, LeaveKeeps
<1>3. CASE toD' # toD
  <2>1. toD'[c] = toD[c] \o <<"bye">> /\ \A b \in Clients \ {c} : toD'[b] = toD[b]
    BY <1>3, <1>t DEF Quit, Send
  <2>2. "bye" \in Parts
    BY PartFacts
  <2>3. cpc[c] \in OpenCPcs /\ cpc[c] # "args" /\ cpc'[c] \notin OpenCPcs
        /\ cpc'[c] \notin {"idle", "connected"}
    BY <1>1 DEF OpenCPcs
  <2>. QED BY <1>1, <2>1, <2>2, <2>3, SendKeeps
<1>. QED BY <1>2, <1>3

LEMMA ReceiveKeeps ==
  ASSUME TypeOK, LinkInv, NEW c \in Clients, Receive(c)
  PROVE  LinkInv'
<1>t. /\ DOMAIN cpc = Clients /\ DOMAIN want = Clients /\ toC \in [Clients -> Seq(Replies)]
      /\ cgen \in [Clients -> Nat]
  BY DEF TypeOK, Ranges
<1>1. /\ cpc[c] = "waiting" /\ cpc'[c] = "ready" /\ toC[c] # <<>> /\ toC'[c] = Tail(toC[c])
      /\ cgen'[c] \in {cgen[c], Head(toC[c]).gen}
      /\ \A b \in Clients \ {c} : /\ cpc'[b] = cpc[b] /\ want'[b] = want[b] /\ cgen'[b] = cgen[b]
                                  /\ toC'[b] = toC[b]
      /\ UNCHANGED <<dpc, conn, queue, request, gen, toD>>
  BY <1>t DEF Receive
<1>2. PICK r \in Seq(Replies) : r = toC[c]
  BY <1>t
<1>3. /\ r # <<>> /\ Len(r) \in Nat \ {0} /\ Head(r) = r[1] /\ Len(Tail(r)) = Len(r) - 1
      /\ \A k \in 1 .. Len(Tail(r)) : Tail(r)[k] = r[k + 1]
  BY <1>1, <1>2
<1>4. ASSUME NEW d \in Instances, NEW i \in Nat, In(d, i, c) PROVE Linked(d, i, c)'
  <2>0. InArgs(d, i)' = InArgs(d, i) /\ Working(d, i)' = Working(d, i) /\ Begun(d, i)' = Begun(d, i)
    BY <1>1 DEF InArgs, Working, Begun
  <2>1. Linked(d, i, c)
    BY <1>4 DEF LinkInv
  <2>2. /\ WellFormed(InArgs(d, i), toD[c]) /\ ~Ends(InArgs(d, i), toD[c])
        /\ NoneAsks(Working(d, i), toD[c])
        /\ Begun(d, i) /\ Current(d, c)
    <3>1. cpc[c] \in OpenCPcs
      BY <1>1 DEF OpenCPcs
    <3>2. /\ WellFormed(InArgs(d, i), toD[c]) /\ ~Ends(InArgs(d, i), toD[c])
          /\ Asked(Working(d, i), toD[c], cpc[c], want[c], toC[c])
          /\ IF Begun(d, i) THEN Current(d, c) ELSE cgen[c] = 0 /\ toC[c] = <<>>
      BY <1>1, <2>1, <3>1 DEF Linked
    <3>. QED BY <1>1, <3>2 DEF Asked
  <2>3. Current(d, c)'
    <3>1. r[1].gen = gen[d] /\ \A k \in 1 .. Len(r) : r[k].gen = gen[d]
      BY <1>2, <1>3, <2>2 DEF Current
    <3>2. cgen'[c] \in {0, gen'[d]}
      BY <1>1, <1>2, <1>3, <2>2, <3>1 DEF Current
    <3>3. \A k \in 1 .. Len(Tail(r)) : Tail(r)[k].gen = gen[d]
      <4>1. \A k \in 1 .. Len(Tail(r)) : k + 1 \in 1 .. Len(r)
        BY <1>3
      <4>. QED BY <1>3, <3>1, <4>1
    <3>. QED BY <1>1, <1>2, <3>2, <3>3 DEF Current
  <2>4. Asked(Working(d, i), toD[c], "ready", want'[c], toC'[c])
    BY <2>2 DEF Asked
  <2>5. /\ cpc'[c] = "ready" /\ toD'[c] = toD[c]
    BY <1>1
  <2>. QED BY <2>0, <2>2, <2>3, <2>4, <2>5 DEF Linked
<1>5. cpc'[c] \notin {"idle", "connected"}
  BY <1>1
<1>. QED BY <1>1, <1>4, <1>5, ClientKeeps

LEMMA LinkStep ==
  ASSUME TypeOK, ConnInv, RepliesMatchRequests, LinkInv, [Next]_vars
  PROVE  LinkInv'
<1>1. ASSUME NEW d \in Instances, Quiet(d) PROVE LinkInv'
  <2>1. dpc'[d] \notin Taken \/ (dpc'[d] = "gotconn" /\ conn'[d] = Nobody)
    BY <1>1 DEF Quiet
  <2>2. /\ queue'[d] = queue[d] \/ queue'[d] = <<>>
        /\ \A e \in Instances \ {d} :
             /\ dpc'[e] = dpc[e] /\ conn'[e] = conn[e] /\ queue'[e] = queue[e]
             /\ request'[e] = request[e] /\ gen'[e] = gen[e]
        /\ UNCHANGED <<cpc, want, cgen, toD, toC>>
    BY <1>1 DEF Quiet
  <2>. QED BY <2>1, <2>2, QuietKeeps
<1>2. ASSUME NEW d \in Instances,
             \/ Start(d) \/ CreateServer(d) \/ WritePid(d) \/ InitTweaks(d)
             \/ CheckTERM(d) \/ Restart(d) \/ EndSession(d) \/ UnlinkPid(d)
             \/ CloseSocket(d) \/ UnlinkSocket(d) \/ Teardown(d) \/ Crash(d)
      PROVE  LinkInv'
  BY <1>1, <1>2, QuietSteps
<1>3. ASSUME NEW d \in Instances, ReceiveHUP(d) \/ ReceiveTERM(d) PROVE LinkInv'
  BY <1>3, SignalKeeps
<1>4. ASSUME NEW c \in Clients, ReceiveEOF(c) \/ Kill(c) PROVE LinkInv'
  <2>1. DOMAIN cpc = Clients
    BY DEF TypeOK, Ranges
  <2>2. /\ cpc'[c] \in {"gone", "broken"} /\ \A b \in Clients \ {c} : cpc'[b] = cpc[b]
        /\ UNCHANGED <<dpc, conn, queue, request, gen, want, cgen, toD, toC>>
    BY <1>4, <2>1 DEF ReceiveEOF, Kill
  <2>. QED BY <2>2, LeaveKeeps
<1>5. CASE CleanRun \/ UNCHANGED vars
  <2>1. UNCHANGED <<dpc, conn, queue, request, gen, cpc, want, cgen, toD, toC>>
    BY <1>5 DEF CleanRun, vars, clientVars
  <2>. QED BY <2>1, NothingKeeps
<1>6. ASSUME NEW d \in Instances, Accept(d) PROVE LinkInv'
  BY <1>6, AcceptKeeps
<1>7. ASSUME NEW d \in Instances, GotConn(d) \/ Authenticate(d) PROVE LinkInv'
  BY <1>7, AdmitKeeps
<1>8. ASSUME NEW d \in Instances, ReadMessage(d) \/ ReadArgs(d) PROVE LinkInv'
  BY <1>8, ReadKeeps
<1>9. ASSUME NEW d \in Instances, ReadAtEOF(d) PROVE LinkInv'
  BY <1>9, ReadAtEOFKeeps
<1>10. ASSUME NEW d \in Instances, Reply(d) PROVE LinkInv'
  BY <1>10, ReplyKeeps
<1>11. ASSUME NEW c \in Clients, Connect(c) PROVE LinkInv'
  BY <1>11, ConnectKeeps
<1>12. ASSUME NEW c \in Clients, Hello(c) PROVE LinkInv'
  BY <1>12, HelloKeeps
<1>13. ASSUME NEW c \in Clients, SendArgs(c) PROVE LinkInv'
  BY <1>13, SendArgsKeeps
<1>14. ASSUME NEW c \in Clients, Receive(c) PROVE LinkInv'
  BY <1>14, ReceiveKeeps
<1>15. ASSUME NEW c \in Clients, Request(c) PROVE LinkInv'
  BY <1>15, RequestKeeps
<1>16. ASSUME NEW c \in Clients, Quit(c) PROVE LinkInv'
  BY <1>16, QuitKeeps
<1>. QED
  BY NextCases, <1>2, <1>3, <1>4, <1>5, <1>6, <1>7, <1>8, <1>9, <1>10, <1>11, <1>12, <1>13, <1>14,
     <1>15, <1>16

\* Replies come from ReplyIsWanted; a client stops waiting with its reply.
LEMMA RepliesStep ==
  ASSUME TypeOK, ConnInv, LinkInv, RepliesMatchRequests, [Next]_vars
  PROVE  RepliesMatchRequests'
<1>t. /\ DOMAIN cpc = Clients /\ DOMAIN want = Clients /\ toC \in [Clients -> Seq(Replies)]
  BY DEF TypeOK, Ranges
<1>. DEFINE Fits(b) ==
       /\ cpc[b] \in OpenCPcs \ {"waiting"} => toC[b] = <<>>
       /\ cpc[b] = "waiting" /\ toC[b] # <<>> => Len(toC[b]) = 1 /\ Head(toC[b]).kind = want[b]
<1>0. \A b \in Clients : Fits(b)
  BY DEF RepliesMatchRequests
<1>k. ASSUME NEW b \in Clients, cpc'[b] = cpc[b], want'[b] = want[b], toC'[b] = toC[b]
      PROVE  Fits(b)'
  BY <1>0, <1>k
<1>e. ASSUME NEW b \in Clients, toC'[b] = <<>>
      PROVE  Fits(b)'
  BY <1>e
<1>n. ASSUME NEW b \in Clients, cpc'[b] \notin OpenCPcs
      PROVE  Fits(b)'
  BY <1>n DEF OpenCPcs
<1>1. ASSUME UNCHANGED <<cpc, want, toC>> PROVE \A b \in Clients : Fits(b)'
  BY <1>1, <1>k
<1>2. ASSUME NEW d \in Instances, Reply(d) PROVE \A b \in Clients : Fits(b)'
  <2>1. PICK c \in Clients : c = conn[d]
    BY <1>2, DaemonAssumption DEF ConnInv, Talking, Reply
  <2>2. /\ dpc[d] = "reply" /\ \A b \in Clients \ {c} : toC'[b] = toC[b]
        /\ UNCHANGED <<cpc, want>>
    BY <1>2, <1>t, <2>1 DEF Reply, clientVars
  <2>3. CASE cpc[c] \notin OpenCPcs
    BY <2>2, <2>3, <1>n, <1>k
  <2>4. CASE cpc[c] \in OpenCPcs
    <3>1. cpc[c] = "waiting" /\ toC[c] = <<>> /\ want[c] = KindOf(request[d])
      BY <2>1, <2>2, <2>4, ReplyIsWanted
    <3>2. toC'[c] = <<[kind |-> KindOf(request[d]), gen |-> gen[d]]>>
      BY <1>2, <1>t, <2>1, <2>4, <3>1 DEF Reply, KindOf
    <3>3. Fits(c)'
      BY <2>2, <3>1, <3>2
    <3>. QED BY <2>2, <3>3, <1>k
  <2>. QED BY <2>3, <2>4
<1>3. ASSUME NEW c \in Clients, Receive(c) PROVE \A b \in Clients : Fits(b)'
  <2>1. /\ cpc[c] = "waiting" /\ toC[c] # <<>> /\ toC'[c] = Tail(toC[c])
        /\ \A b \in Clients \ {c} : cpc'[b] = cpc[b] /\ want'[b] = want[b] /\ toC'[b] = toC[b]
    BY <1>3, <1>t DEF Receive
  <2>2. Len(toC[c]) = 1
    BY <1>0, <2>1
  <2>3. toC'[c] = <<>>
    <3>1. PICK r \in Seq(Replies) : r = toC[c]
      BY <1>t
    <3>2. Tail(r) \in Seq(Replies) /\ Len(Tail(r)) = 0
      BY <2>1, <2>2, <3>1
    <3>3. \A u \in Seq(Replies) : Len(u) = 0 => u = <<>>
      OBVIOUS
    <3>. QED BY <2>1, <3>1, <3>2, <3>3
  <2>. QED BY <2>1, <2>3, <1>e, <1>k
<1>4. ASSUME NEW c \in Clients,
             Connect(c) \/ Hello(c) \/ SendArgs(c) \/ ReceiveEOF(c) \/ Request(c) \/ Quit(c) \/ Kill(c)
      PROVE  \A b \in Clients : Fits(b)'
  <2>1. /\ cpc[c] \in {"idle", "connected", "args", "ready"} \/ cpc'[c] \in {"broken", "gone"}
        /\ \A b \in Clients \ {c} : cpc'[b] = cpc[b] /\ want'[b] = want[b]
        /\ UNCHANGED toC
    BY <1>4, <1>t DEF Connect, Hello, SendArgs, ReceiveEOF, Request, Quit, Kill, BrokenPipe
  <2>2. CASE cpc'[c] \in {"broken", "gone"}
    BY <2>1, <2>2, <1>n, <1>k DEF OpenCPcs
  <2>3. CASE cpc[c] \in {"idle", "connected", "args", "ready"}
    <3>1. toC[c] = <<>>
      BY <2>3, <1>0 DEF LinkInv, Silent, OpenCPcs
    <3>. QED BY <2>1, <3>1, <1>e, <1>k
  <2>. QED BY <2>1, <2>2, <2>3
<1>5. ASSUME NEW d \in Instances,
             \/ Start(d) \/ CreateServer(d) \/ WritePid(d) \/ InitTweaks(d)
             \/ CheckTERM(d) \/ Restart(d) \/ EndSession(d) \/ UnlinkPid(d)
             \/ CloseSocket(d) \/ UnlinkSocket(d) \/ Teardown(d) \/ Crash(d)
      PROVE  UNCHANGED <<cpc, want, toC>>
  <2>1. Quiet(d)
    BY <1>5, QuietSteps
  <2>. QED BY <2>1 DEF Quiet
<1>6. ASSUME NEW d \in Instances,
             \/ ReceiveHUP(d) \/ ReceiveTERM(d) \/ Accept(d) \/ GotConn(d) \/ Authenticate(d)
             \/ ReadMessage(d) \/ ReadArgs(d) \/ ReadAtEOF(d)
      PROVE  UNCHANGED <<cpc, want, toC>>
  BY <1>6 DEF ReceiveHUP, ReceiveTERM, Accept, GotConn, Authenticate, ReadMessage, ReadArgs,
              ReadAtEOF, clientVars
<1>7. ASSUME CleanRun \/ UNCHANGED vars PROVE UNCHANGED <<cpc, want, toC>>
  BY <1>7 DEF CleanRun, vars, clientVars
<1>8. \A b \in Clients : Fits(b)'
  <2>. HIDE DEF Fits
  <2>. QED BY NextCases, <1>1, <1>2, <1>3, <1>4, <1>5, <1>6, <1>7
<1>. QED BY <1>8 DEF RepliesMatchRequests

-----------------------------------------------------------------------------

\* The inductive invariant.  That the two ends stay in step needs more than
\* StreamInStep: what a stream holds beyond its head, in the queue too, and
\* which of the messages in it ask for a reply.
IInv == TypeOK /\ ConnInv /\ FilesInv /\ LinkInv /\ RepliesMatchRequests

THEOREM Invariance == Spec => []IInv
<1>1. Init => IInv
  <2> SUFFICES ASSUME Init PROVE IInv
    OBVIOUS
  <2>1. ConnInv /\ FilesInv
    BY DEF Init, ConnInv, FilesInv, Talking, Serving, Bound
  <2>2. LinkInv
    <3>1. \A d \in Instances, i \in Nat, c \in Clients : ~In(d, i, c)
      <4>1. Len(<<>>) = 0
        OBVIOUS
      <4>2. ASSUME NEW d \in Instances PROVE dpc[d] = "new" /\ queue[d] = <<>>
        BY DEF Init
      <4>. QED BY <4>1, <4>2 DEF In, Taken, Talking
    <3>2. \A c \in Clients : Silent(c)
      BY DEF Init, Silent
    <3>3. \A d \in Instances : dpc[d] # "args" /\ dpc[d] # "reply"
      BY DEF Init
    <3>. QED BY <3>1, <3>2, <3>3 DEF LinkInv
  <2>3. RepliesMatchRequests
    BY DEF Init, RepliesMatchRequests, OpenCPcs
  <2> QED
    BY <2>1, <2>2, <2>3, TypeInit DEF IInv
<1>2. IInv /\ [Next]_vars => IInv'
  BY TypeStep, ConnStep, FilesStep, LinkStep, RepliesStep DEF IInv
<1> QED
  BY <1>1, <1>2, PTL DEF Spec

\* Every variable keeps its type, whatever the processes and signals do.
THEOREM TypeCorrect == Spec => []TypeOK
<1>1. IInv => TypeOK
  BY DEF IInv
<1> QED
  BY Invariance, <1>1, PTL

\* A listening daemon is the one clients find, and it is alone.
THEOREM ListenerOwnsSocketFile == Spec => []SocketFileNamesListener
<1>1. IInv => SocketFileNamesListener
  BY DEF IInv, FilesInv, SocketFileNamesListener
<1> QED
  BY Invariance, <1>1, PTL

\* The pid file names the daemon that serves.
THEOREM ServerOwnsPidFile == Spec => []PidFileNamesServer
<1>1. IInv => PidFileNamesServer
  BY DEF IInv, FilesInv, PidFileNamesServer
<1> QED
  BY Invariance, <1>1, PTL

\* Sessions are with root, over an open descriptor.
THEOREM RootOnly == Spec => []OnlyRootIsServed
<1>1. IInv => OnlyRootIsServed
  BY DEF IInv, ConnInv, OnlyRootIsServed
<1> QED
  BY Invariance, <1>1, PTL

\* Arguments are read where arguments lie and headers where headers lie: the
\* stream of a connection that is talked to starts in step with its instance.
THEOREM StreamAlwaysInStep == Spec => []StreamInStep
<1>1. IInv => StreamInStep
  <2>. SUFFICES ASSUME IInv, NEW d \in Instances, NEW c \in Clients,
                       InSession(d, c), toD[c] # <<>>, dpc[d] # "reply"
                PROVE  dpc[d] = "read" <=> Head(toD[c]) # "args"
    BY DEF StreamInStep
  <2>1. In(d, 0, c) /\ dpc[d] \in {"read", "args"}
    BY DEF InSession, In, Taken, Talking
  <2>2. Linked(d, 0, c)
    BY <2>1 DEF IInv, LinkInv
  <2>3. PICK s \in Seq(Parts) : s = toD[c]
    BY DEF IInv, TypeOK, Ranges
  <2>4. WellFormed(InArgs(d, 0), s) /\ InArgs(d, 0) \in BOOLEAN /\ s # <<>>
    BY <2>2, <2>3 DEF Linked, InArgs
  <2>5. Head(s) = "args" <=> InArgs(d, 0)
    BY <2>4, StreamTail
  <2>. QED BY <2>1, <2>3, <2>5 DEF InArgs
<1> QED
  BY Invariance, <1>1, PTL

\* A reply that arrives is the one reply its client waits for.
THEOREM RepliesAlwaysMatch == Spec => []RepliesMatchRequests
<1>1. IInv => RepliesMatchRequests
  BY DEF IInv
<1> QED
  BY Invariance, <1>1, PTL

\* No session outlives the tree its client was shown.
THEOREM SessionTreeAlwaysCurrent == Spec => []SessionTreeIsCurrent
<1>1. IInv => SessionTreeIsCurrent
  <2>. SUFFICES ASSUME IInv, NEW d \in Instances, NEW c \in Clients, InSession(d, c), cgen[c] # 0
                PROVE  cgen[c] = gen[d]
    BY DEF SessionTreeIsCurrent
  <2>1. In(d, 0, c) /\ Begun(d, 0)
    BY DEF InSession, In, Taken, Begun
  <2>2. Current(d, c)
    BY <2>1 DEF IInv, LinkInv, Linked
  <2>. QED BY <2>2 DEF Current
<1> QED
  BY Invariance, <1>1, PTL

=============================================================================
