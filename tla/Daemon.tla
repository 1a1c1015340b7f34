------------------------------- MODULE Daemon -------------------------------
(***************************************************************************)
(* powertweakd and the processes that talk to it over /var/run/powertweakd *)
(* (src/daemon/daemon.c, server.c, utils.c; src/backends/client;           *)
(* src/libpowertweak/socketlib.c for the framing).                         *)
(*                                                                         *)
(* An instance is one run of powertweakd.  It is single threaded: it       *)
(* serves one connection at a time, and the only asynchrony inside it are  *)
(* the SIGHUP and SIGTERM handlers, which set flags and make a blocked     *)
(* accept() or read() fail with EINTR (sigaction without SA_RESTART).      *)
(* The values of the tweaks are the subject of module TweakSession; here a *)
(* tree is the number of times InitialisePlugins() has built it.           *)
(***************************************************************************)
EXTENDS Naturals, Sequences, FiniteSets

CONSTANTS
  Instances,    \* runs of powertweakd; each one is started at most once
  Clients,      \* runs of gpowertweak, powertweak or lspowertweak
  RootClients,  \* the clients whose uid is 0
  Mortal,       \* the clients and instances that may be killed at any point
  Backlog,      \* connections that may wait to be accepted: listen (sock, 5)
  MaxFds,       \* connection descriptors an instance may hold (RLIMIT_NOFILE)
  Requests,     \* requests a client makes after it has received the tree
  AllowHUP,     \* whether SIGHUP is sent to instances
  AllowTERM,    \* whether SIGTERM is sent to instances
  Nobody        \* no client, no instance

ASSUME DaemonAssumption ==
  /\ RootClients \subseteq Clients
  /\ Mortal \subseteq Clients \cup Instances
  /\ Backlog \in Nat /\ MaxFds \in Nat /\ Requests \in Nat
  /\ AllowHUP \in BOOLEAN /\ AllowTERM \in BOOLEAN
  /\ Nobody \notin Clients /\ Nobody \notin Instances

VARIABLES
  dpc,        \* where each instance is (see Serving, Talking below)
  conn,       \* daemon_loop's conn: a client, or Nobody for 0 and for -1
  request,    \* the message message_loop is working on
  gotHUP, gotTERM,
  hupIgnored, \* HUP_handler has set SIGHUP to SIG_IGN
  cut,        \* history: the clients whose session a SIGHUP has ended
  gen,        \* how many times the instance has built its tweak tree, 0: none
  fds,        \* the connections whose descriptor the instance still holds
  listening,  \* dsocket is open
  queue,      \* the connections accept() has not returned yet
  sockfile,   \* the instance whose socket /var/run/powertweakd names
  pidfile,    \* the instance /var/run/powertweakd.pid names
  cpc,        \* where each client is
  want,       \* the reply a client is blocked in read() for
  budget,     \* requests the client may still make
  cgen,       \* the tree the client shows: the gen it was sent, 0: none
  toD, toC    \* what is in the socket, per client, in each direction

signals    == <<gotHUP, gotTERM, hupIgnored, cut>>
files      == <<sockfile, pidfile>>
clientVars == <<cpc, want, budget, cgen>>
vars == <<dpc, conn, request, signals, gen, fds, listening, queue, files,
          clientVars, toD, toC>>

-----------------------------------------------------------------------------
(* Vocabulary *)

\* Messages that are followed by a ConfigName (and a value, for setvalue).
WithArgs == {"getvalue", "getvalueraw", "setvalue"}
Headers  == {"hello", "bye", "saveconfig", "requesttweaks"} \cup WithArgs
Parts    == Headers \cup {"args"}

Pcs == {"new", "bind", "pid", "init", "check", "accept", "gotconn", "restart",
        "auth", "read", "args", "reply", "endsession", "unlinkpid",
        "closesock", "unlinksock", "teardown", "dead"}

Talking == {"read", "args", "reply"}                 \* inside message_loop
Serving == {"init", "check", "accept", "gotconn", "restart", "auth",
            "endsession"} \cup Talking               \* pid written, not exiting

CPcs == {"idle", "connected", "waiting", "ready", "args", "local", "gone",
         "broken"}
OpenCPcs == {"connected", "waiting", "ready", "args"} \* client holds its end

Replies == [kind : {"tree", "value"}, gen : Nat]

InSession(d, c) == dpc[d] \in Talking /\ conn[d] = c

\* Some instance still holds the other end of c's connection.
ServerHolds(c) == \E d \in Instances :
                     c \in fds[d] \/ \E i \in 1..Len(queue[d]) : queue[d][i] = c

Init ==
  /\ dpc = [d \in Instances |-> "new"]
  /\ conn = [d \in Instances |-> Nobody]
  /\ request = [d \in Instances |-> "hello"]
  /\ gotHUP = [d \in Instances |-> FALSE]
  /\ gotTERM = [d \in Instances |-> FALSE]
  /\ hupIgnored = [d \in Instances |-> FALSE]
  /\ cut = {}
  /\ gen = [d \in Instances |-> 0]
  /\ fds = [d \in Instances |-> {}]
  /\ listening = [d \in Instances |-> FALSE]
  /\ queue = [d \in Instances |-> <<>>]
  /\ sockfile = Nobody
  /\ pidfile = Nobody
  /\ cpc = [c \in Clients |-> "idle"]
  /\ want = [c \in Clients |-> "none"]
  /\ budget = [c \in Clients |-> Requests]
  /\ cgen = [c \in Clients |-> 0]
  /\ toD = [c \in Clients |-> <<>>]
  /\ toC = [c \in Clients |-> <<>>]

Goto(d, pc) == dpc' = [dpc EXCEPT ![d] = pc]

\* The process ends, whatever the reason: the kernel closes its descriptors,
\* the files in /var/run stay as they are.
Exit(d) ==
  /\ Goto(d, "dead")
  /\ fds' = [fds EXCEPT ![d] = {}]
  /\ queue' = [queue EXCEPT ![d] = <<>>]
  /\ listening' = [listening EXCEPT ![d] = FALSE]

NetUnchanged == UNCHANGED <<fds, queue, listening>>

-----------------------------------------------------------------------------
(* Starting: create_daemon, create_server, InitPlugins *)

Start(d) ==
  /\ dpc[d] = "new"
  /\ Goto(d, "bind")
  /\ NetUnchanged
  /\ UNCHANGED <<conn, request, signals, gen, files, clientVars, toD, toC>>

\* Variant: the old socket file is removed before bind, whoever uses it.
BindReusingFile(d) ==
  /\ dpc[d] = "bind"
  /\ Goto(d, "pid")
  /\ sockfile' = d
  /\ listening' = [listening EXCEPT ![d] = TRUE]
  /\ UNCHANGED <<fds, queue, conn, request, signals, gen, pidfile, clientVars,
                 toD, toC>>

\* create_server: bind() fails when the path exists, in use or left behind,
\* and the process then exits without touching the files.
CreateServer(d) ==
  /\ dpc[d] = "bind"
  /\ \/ /\ sockfile = Nobody
        /\ Goto(d, "pid")
        /\ sockfile' = d
        /\ listening' = [listening EXCEPT ![d] = TRUE]
        /\ UNCHANGED <<fds, queue>>
     \/ /\ sockfile # Nobody
        /\ Exit(d)
        /\ UNCHANGED sockfile
  /\ UNCHANGED <<conn, request, signals, gen, pidfile, clientVars, toD, toC>>

WritePid(d) ==
  /\ dpc[d] = "pid"
  /\ Goto(d, "init")
  /\ pidfile' = d
  /\ NetUnchanged
  /\ UNCHANGED <<conn, request, signals, gen, sockfile, clientVars, toD, toC>>

\* main: plugins, sort, configuration, profiles.  Without plugins or without
\* tweaks it returns, and both files stay behind.
InitTweaks(d) ==
  /\ dpc[d] = "init"
  /\ \/ /\ Goto(d, "check")
        /\ gen' = [gen EXCEPT ![d] = 1]
        /\ NetUnchanged
     \/ Exit(d) /\ UNCHANGED gen
  /\ UNCHANGED <<conn, request, signals, files, clientVars, toD, toC>>

-----------------------------------------------------------------------------
(* daemon_loop *)

\* Variant: the socket is given back before the pid file is removed.
ExitStepPidLast == [check |-> "closesock", closesock |-> "unlinksock",
                    unlinksock |-> "unlinkpid", unlinkpid |-> "teardown"]

\* The order in which a terminated daemon_loop gives its resources back.
ExitStep == [check |-> "unlinkpid", unlinkpid |-> "closesock",
             closesock |-> "unlinksock", unlinksock |-> "teardown"]

\* while (gotTERM==0): only here is gotTERM looked at.
CheckTERM(d) ==
  /\ dpc[d] = "check"
  /\ Goto(d, IF gotTERM[d] THEN ExitStep["check"] ELSE "accept")
  /\ conn' = [conn EXCEPT ![d] = Nobody]
  /\ NetUnchanged
  /\ UNCHANGED <<request, signals, gen, files, clientVars, toD, toC>>

\* accept() returns a connection, or -1 at once when no descriptor is left.
Accept(d) ==
  /\ dpc[d] = "accept"
  /\ Goto(d, "gotconn")
  /\ \/ /\ Cardinality(fds[d]) < MaxFds
        /\ queue[d] # <<>>
        /\ conn' = [conn EXCEPT ![d] = Head(queue[d])]
        /\ fds' = [fds EXCEPT ![d] = @ \cup {Head(queue[d])}]
        /\ queue' = [queue EXCEPT ![d] = Tail(@)]
     \/ /\ Cardinality(fds[d]) >= MaxFds
        /\ conn' = [conn EXCEPT ![d] = Nobody]
        /\ UNCHANGED <<fds, queue>>
  /\ UNCHANGED <<request, signals, gen, listening, files, clientVars, toD, toC>>

\* Variant: a pending reload does not wait for, nor close, the connection.
GotConnKeepingClient(d) ==
  /\ dpc[d] = "gotconn"
  /\ Goto(d, IF conn[d] # Nobody THEN "auth" ELSE "restart")
  /\ NetUnchanged
  /\ UNCHANGED <<conn, request, signals, gen, files, clientVars, toD, toC>>

\* Variant: a failed accept() is taken for a connection.
GotConnIgnoringFailure(d) ==
  /\ dpc[d] = "gotconn"
  /\ \/ /\ gotHUP[d]
        /\ Goto(d, "restart")
        /\ fds' = [fds EXCEPT ![d] = @ \ {conn[d]}]
        /\ conn' = [conn EXCEPT ![d] = Nobody]
     \/ /\ ~gotHUP[d]
        /\ Goto(d, "auth")
        /\ UNCHANGED <<conn, fds>>
  /\ UNCHANGED <<request, signals, gen, queue, listening, files, clientVars,
                 toD, toC>>

\* After accept: a reload closes the connection and goes back to accept()
\* through restart(); otherwise -1 goes round the outer loop.
GotConn(d) ==
  /\ dpc[d] = "gotconn"
  /\ \/ /\ gotHUP[d]
        /\ Goto(d, "restart")
        /\ fds' = [fds EXCEPT ![d] = @ \ {conn[d]}]
        /\ conn' = [conn EXCEPT ![d] = Nobody]
     \/ /\ ~gotHUP[d]
        /\ Goto(d, IF conn[d] = Nobody THEN "check" ELSE "auth")
        /\ UNCHANGED <<conn, fds>>
  /\ UNCHANGED <<request, signals, gen, queue, listening, files, clientVars,
                 toD, toC>>

\* restart(): the tree is destroyed and built again, gotHUP is cleared last.
\* With no tweaks left it exits, and both files stay behind; so they do when a
\* PCI plugin crashes it there (module Plugins).
Restart(d) ==
  /\ dpc[d] = "restart"
  /\ \/ /\ Goto(d, "accept")
        /\ gen' = [gen EXCEPT ![d] = @ + 1]
        /\ gotHUP' = [gotHUP EXCEPT ![d] = FALSE]
        /\ NetUnchanged
     \/ Exit(d) /\ UNCHANGED <<gen, gotHUP>>
  /\ UNCHANGED <<conn, request, gotTERM, hupIgnored, cut, files, clientVars, toD,
                 toC>>

\* Variant: the peer's uid is not looked at.
AuthenticateAnyone(d) ==
  /\ dpc[d] = "auth"
  /\ Goto(d, "read")
  /\ NetUnchanged
  /\ UNCHANGED <<conn, request, signals, gen, files, clientVars, toD, toC>>

\* authenticate: SO_PEERCRED cannot fail on a connected local socket, so only
\* the two other results are left; a client that is not root is closed.
Authenticate(d) ==
  /\ dpc[d] = "auth"
  /\ \/ /\ conn[d] \in RootClients
        /\ Goto(d, "read")
        /\ UNCHANGED fds
     \/ /\ conn[d] \notin RootClients
        /\ Goto(d, "endsession")
        /\ fds' = [fds EXCEPT ![d] = @ \ {conn[d]}]
  /\ UNCHANGED <<conn, request, signals, gen, queue, listening, files,
                 clientVars, toD, toC>>

\* Variant: the outer loop is not gone through between two sessions.
EndSessionAccepting(d) ==
  /\ dpc[d] = "endsession"
  /\ Goto(d, "accept")
  /\ conn' = [conn EXCEPT ![d] = Nobody]
  /\ NetUnchanged
  /\ UNCHANGED <<request, signals, gen, files, clientVars, toD, toC>>

\* conn = 0: the descriptor of the session is forgotten, not closed.
EndSession(d) ==
  /\ dpc[d] = "endsession"
  /\ Goto(d, "check")
  /\ conn' = [conn EXCEPT ![d] = Nobody]
  /\ NetUnchanged
  /\ UNCHANGED <<request, signals, gen, files, clientVars, toD, toC>>

-----------------------------------------------------------------------------
(* message_loop and its handlers.  HaveError is set only to end the session  *)
(* without further effect, so it is the move to "endsession".                *)

\* What message_loop does with the header m.
AfterHeader(m) ==
  CASE m = "bye"           -> "endsession"
    [] m = "requesttweaks" -> "reply"
    [] m \in WithArgs      -> "args"
    [] OTHER               -> "read"

ReadMessage(d) ==
  LET c == conn[d] IN
  /\ dpc[d] = "read"
  /\ toD[c] # <<>>
  /\ request' = [request EXCEPT ![d] = Head(toD[c])]
  /\ toD' = [toD EXCEPT ![c] = Tail(@)]
  /\ Goto(d, AfterHeader(Head(toD[c])))
  /\ NetUnchanged
  /\ UNCHANGED <<conn, signals, gen, files, clientVars, toC>>

\* Variant: getvalueraw is taken for a command, which needs no answer.
ReadArgsForgettingReply(d) ==
  LET c == conn[d] IN
  /\ dpc[d] = "args"
  /\ toD[c] # <<>>
  /\ toD' = [toD EXCEPT ![c] = Tail(@)]
  /\ Goto(d, IF request[d] \in {"setvalue", "getvalueraw"} THEN "read" ELSE "reply")
  /\ NetUnchanged
  /\ UNCHANGED <<conn, request, signals, gen, files, clientVars, toC>>

\* Variant: setvalue is acknowledged with the value it leaves.
ReadArgsAcknowledging(d) ==
  LET c == conn[d] IN
  /\ dpc[d] = "args"
  /\ toD[c] # <<>>
  /\ toD' = [toD EXCEPT ![c] = Tail(@)]
  /\ Goto(d, "reply")
  /\ NetUnchanged
  /\ UNCHANGED <<conn, request, signals, gen, files, clientVars, toC>>

\* receive_string, and for setvalue receive_value, receive_int, ChangeValue.  The
\* tweak is found: SessionTreeIsCurrent says that the client sends the names of
\* the daemon's own tree.  (A name that is not there would get no reply to
\* getvalueraw, 0 to getvalue, and end the daemon in setvalue.)
ReadArgs(d) ==
  LET c == conn[d] IN
  /\ dpc[d] = "args"
  /\ toD[c] # <<>>
  /\ toD' = [toD EXCEPT ![c] = Tail(@)]
  /\ Goto(d, IF request[d] = "setvalue" THEN "read" ELSE "reply")
  /\ NetUnchanged
  /\ UNCHANGED <<conn, request, signals, gen, files, clientVars, toC>>

\* The client has closed its end and everything it sent has been read: read()
\* returns 0, which receive_blob does not tell from success, and the size it
\* goes on with is uninitialised.  Either the size check fails and HaveError
\* ends the session, or a stale number is taken for the next message; a handler
\* may return for want of a name, or go on with a stale one and die of it.
ReadAtEOF(d) ==
  LET c == conn[d] IN
  /\ dpc[d] \in {"read", "args"}
  /\ cpc[c] \notin OpenCPcs
  /\ toD[c] = <<>>
  /\ \/ Goto(d, "endsession") /\ NetUnchanged /\ UNCHANGED request
     \/ /\ dpc[d] = "read"
        /\ \E m \in Headers :
              /\ request' = [request EXCEPT ![d] = m]
              /\ Goto(d, AfterHeader(m))
        /\ NetUnchanged
     \/ dpc[d] = "args" /\ Goto(d, "read") /\ NetUnchanged /\ UNCHANGED request
     \/ dpc[d] = "args" /\ Exit(d) /\ UNCHANGED request
  /\ UNCHANGED <<conn, signals, gen, files, clientVars, toD, toC>>

\* SendTweakStructure or send_value.  SIGPIPE is not handled: writing to a
\* client that is gone kills the daemon.
Reply(d) ==
  LET c == conn[d]
      kind == IF request[d] = "requesttweaks" THEN "tree" ELSE "value" IN
  /\ dpc[d] = "reply"
  /\ \/ /\ cpc[c] \in OpenCPcs
        /\ toC' = [toC EXCEPT ![c] = Append(@, [kind |-> kind, gen |-> gen[d]])]
        /\ Goto(d, "read")
        /\ NetUnchanged
     \/ /\ cpc[c] \notin OpenCPcs
        /\ Exit(d)
        /\ UNCHANGED toC
  /\ UNCHANGED <<conn, request, signals, gen, files, clientVars, toD>>

-----------------------------------------------------------------------------
(* Shutting down: the end of daemon_loop and of main *)

UnlinkPid(d) ==
  /\ dpc[d] = "unlinkpid"
  /\ Goto(d, ExitStep["unlinkpid"])
  /\ pidfile' = Nobody
  /\ NetUnchanged
  /\ UNCHANGED <<conn, request, signals, gen, sockfile, clientVars, toD, toC>>

\* close (dsocket): connections still waiting are reset.
CloseSocket(d) ==
  /\ dpc[d] = "closesock"
  /\ Goto(d, ExitStep["closesock"])
  /\ listening' = [listening EXCEPT ![d] = FALSE]
  /\ queue' = [queue EXCEPT ![d] = <<>>]
  /\ UNCHANGED <<fds, conn, request, signals, gen, files, clientVars, toD, toC>>

UnlinkSocket(d) ==
  /\ dpc[d] = "unlinksock"
  /\ Goto(d, ExitStep["unlinksock"])
  /\ sockfile' = Nobody
  /\ NetUnchanged
  /\ UNCHANGED <<conn, request, signals, gen, pidfile, clientVars, toD, toC>>

\* DestroyAllTweaks, ShutdownPlugins, DestroyInitFuncList, return from main.
Teardown(d) ==
  /\ dpc[d] = "teardown"
  /\ Exit(d)
  /\ gen' = [gen EXCEPT ![d] = 0]
  /\ UNCHANGED <<conn, request, signals, files, clientVars, toD, toC>>

-----------------------------------------------------------------------------
(* Signals *)

\* Where the signal finds the instance in a system call that blocks.
Blocked(d) ==
  \/ dpc[d] = "accept" /\ queue[d] = <<>> /\ Cardinality(fds[d]) < MaxFds
  \/ dpc[d] \in {"read", "args"} /\ toD[conn[d]] = <<>> /\ cpc[conn[d]] \in OpenCPcs

\* Variant: the read that was interrupted is given up but the session goes on.
InterruptIgnoringError(d) ==
  \/ UNCHANGED <<dpc, conn>>
  \/ /\ Blocked(d)
     /\ IF dpc[d] = "accept"
        THEN Goto(d, "gotconn") /\ conn' = [conn EXCEPT ![d] = Nobody]
        ELSE Goto(d, "read") /\ UNCHANGED conn

\* A handler ran: the call in progress, if the instance had entered it, fails
\* with EINTR; accept() returns -1, read() sets HaveError.
Interrupt(d) ==
  \/ UNCHANGED <<dpc, conn>>
  \/ /\ Blocked(d)
     /\ IF dpc[d] = "accept"
        THEN Goto(d, "gotconn") /\ conn' = [conn EXCEPT ![d] = Nobody]
        ELSE Goto(d, "endsession") /\ UNCHANGED conn

HandlersSet == Serving \cup {"unlinkpid", "closesock", "unlinksock", "teardown"}

\* Variant: the handler itself reloads.
ReceiveHUPReloading(d) ==
  /\ AllowHUP
  /\ dpc[d] \in HandlersSet
  /\ ~hupIgnored[d]
  /\ gen' = [gen EXCEPT ![d] = @ + 1]
  /\ hupIgnored' = [hupIgnored EXCEPT ![d] = TRUE]
  /\ Interrupt(d)
  /\ NetUnchanged
  /\ UNCHANGED <<request, gotHUP, gotTERM, cut, files, clientVars, toD, toC>>

\* HUP_handler: sets the flag and ignores SIGHUP from then on.
ReceiveHUP(d) ==
  /\ AllowHUP
  /\ dpc[d] \in HandlersSet
  /\ ~hupIgnored[d]
  /\ gotHUP' = [gotHUP EXCEPT ![d] = TRUE]
  /\ hupIgnored' = [hupIgnored EXCEPT ![d] = TRUE]
  /\ Interrupt(d)
  /\ cut' = IF dpc'[d] = "endsession" /\ dpc[d] # "endsession"
            THEN cut \cup {conn[d]} ELSE cut
  /\ NetUnchanged
  /\ UNCHANGED <<request, gotTERM, gen, files, clientVars, toD, toC>>

ReceiveTERM(d) ==
  /\ AllowTERM
  /\ dpc[d] \in HandlersSet
  /\ gotTERM' = [gotTERM EXCEPT ![d] = TRUE]
  /\ Interrupt(d)
  /\ NetUnchanged
  /\ UNCHANGED <<request, gotHUP, hupIgnored, cut, gen, files, clientVars, toD, toC>>

\* SIGKILL, or a signal before its handler is installed.
Crash(d) ==
  /\ d \in Mortal
  /\ dpc[d] \notin {"new", "dead"}
  /\ Exit(d)
  /\ UNCHANGED <<conn, request, signals, gen, files, clientVars, toD, toC>>

-----------------------------------------------------------------------------
(* Clients: InitClientBackend, methods.c, CloseClientBackend *)

Send(c, parts) == toD' = [toD EXCEPT ![c] = @ \o parts]

\* write() to a connection the daemon has closed: SIGPIPE ends the client.
BrokenPipe(c) ==
  /\ ~ServerHolds(c)
  /\ cpc' = [cpc EXCEPT ![c] = "broken"]
  /\ UNCHANGED <<want, budget, cgen, toD>>

\* create_client: connect() waits while the backlog is full, and fails when
\* nobody listens: the client then loads the plugins itself.
Connect(c) ==
  /\ cpc[c] = "idle"
  /\ \/ \E d \in Instances :
          /\ sockfile = d /\ listening[d]
          /\ Len(queue[d]) <= Backlog
          /\ queue' = [queue EXCEPT ![d] = Append(@, c)]
          /\ cpc' = [cpc EXCEPT ![c] = "connected"]
     \/ /\ \A d \in Instances : ~(sockfile = d /\ listening[d])
        /\ cpc' = [cpc EXCEPT ![c] = "local"]
        /\ UNCHANGED queue
  /\ UNCHANGED <<dpc, conn, request, signals, gen, fds, listening, files, want,
                 budget, cgen, toD, toC>>

\* InitClientBackend: hello, then requesttweaks, then magic_tweak_code reads.
Hello(c) ==
  /\ cpc[c] = "connected"
  /\ \/ /\ ServerHolds(c)
        /\ Send(c, <<"hello", "requesttweaks">>)
        /\ cpc' = [cpc EXCEPT ![c] = "waiting"]
        /\ want' = [want EXCEPT ![c] = "tree"]
        /\ UNCHANGED <<budget, cgen>>
     \/ BrokenPipe(c)
  /\ UNCHANGED <<dpc, conn, request, signals, gen, fds, listening, queue, files,
                 toC>>

\* The user asks for something: client_get_value, client_get_value_raw,
\* client_change_value or Save_config sends its header.
Request(c) ==
  /\ cpc[c] = "ready"
  /\ budget[c] > 0
  /\ \/ /\ ServerHolds(c)
        /\ \E m \in WithArgs \cup {"saveconfig"} :
              /\ Send(c, <<m>>)
              /\ cpc' = [cpc EXCEPT ![c] = IF m \in WithArgs THEN "args" ELSE @]
              /\ want' = [want EXCEPT ![c] =
                            IF m \in {"getvalue", "getvalueraw"} THEN "value" ELSE @]
        /\ budget' = [budget EXCEPT ![c] = @ - 1]
        /\ UNCHANGED cgen
     \/ BrokenPipe(c)
  /\ UNCHANGED <<dpc, conn, request, signals, gen, fds, listening, queue, files,
                 toC>>

\* The rest of the request; the two getters then block in receive_value.
SendArgs(c) ==
  /\ cpc[c] = "args"
  /\ \/ /\ ServerHolds(c)
        /\ Send(c, <<"args">>)
        /\ cpc' = [cpc EXCEPT ![c] = IF want[c] = "none" THEN "ready" ELSE "waiting"]
        /\ UNCHANGED <<want, budget, cgen>>
     \/ BrokenPipe(c)
  /\ UNCHANGED <<dpc, conn, request, signals, gen, fds, listening, queue, files,
                 toC>>

Receive(c) ==
  /\ cpc[c] = "waiting"
  /\ toC[c] # <<>>
  /\ toC' = [toC EXCEPT ![c] = Tail(@)]
  /\ cpc' = [cpc EXCEPT ![c] = "ready"]
  /\ want' = [want EXCEPT ![c] = "none"]
  /\ cgen' = [cgen EXCEPT ![c] = IF Head(toC[c]).kind = "tree"
                                 THEN Head(toC[c]).gen ELSE @]
  /\ UNCHANGED <<dpc, conn, request, signals, gen, fds, listening, queue, files,
                 budget, toD>>

\* The daemon has closed its end: the client's reads return 0 from now on.
ReceiveEOF(c) ==
  /\ cpc[c] = "waiting"
  /\ toC[c] = <<>>
  /\ ~ServerHolds(c)
  /\ cpc' = [cpc EXCEPT ![c] = "broken"]
  /\ UNCHANGED <<dpc, conn, request, signals, gen, fds, listening, queue, files,
                 want, budget, cgen, toD, toC>>

\* Send_goodbye, and exit.
Quit(c) ==
  /\ cpc[c] = "ready"
  /\ \/ ServerHolds(c) /\ Send(c, <<"bye">>)
     \/ ~ServerHolds(c) /\ UNCHANGED toD
  /\ cpc' = [cpc EXCEPT ![c] = "gone"]
  /\ UNCHANGED <<dpc, conn, request, signals, gen, fds, listening, queue, files,
                 want, budget, cgen, toC>>

Kill(c) ==
  /\ c \in Mortal
  /\ cpc[c] \in OpenCPcs
  /\ cpc' = [cpc EXCEPT ![c] = "gone"]
  /\ UNCHANGED <<dpc, conn, request, signals, gen, fds, listening, queue, files,
                 want, budget, cgen, toD, toC>>

\* The administrator removes what a dead daemon left in /var/run.
CleanRun ==
  /\ \A d \in Instances : dpc[d] \in {"new", "dead"}
  /\ sockfile # Nobody
  /\ sockfile' = Nobody
  /\ pidfile' = Nobody
  /\ UNCHANGED <<dpc, conn, request, signals, gen, fds, listening, queue,
                 clientVars, toD, toC>>

-----------------------------------------------------------------------------
(* Specification *)

DaemonStep(d) ==
  \/ CreateServer(d) \/ WritePid(d) \/ InitTweaks(d)
  \/ CheckTERM(d) \/ Accept(d) \/ GotConn(d) \/ Restart(d)
  \/ Authenticate(d) \/ EndSession(d)
  \/ ReadMessage(d) \/ ReadArgs(d) \/ ReadAtEOF(d) \/ Reply(d)
  \/ UnlinkPid(d) \/ CloseSocket(d) \/ UnlinkSocket(d) \/ Teardown(d)

\* What a client does without its user.
ClientStep(c) == Hello(c) \/ SendArgs(c) \/ Receive(c) \/ ReceiveEOF(c)

Next ==
  \/ \E d \in Instances :
       Start(d) \/ DaemonStep(d) \/ ReceiveHUP(d) \/ ReceiveTERM(d) \/ Crash(d)
  \/ \E c \in Clients :
       Connect(c) \/ ClientStep(c) \/ Request(c) \/ Quit(c) \/ Kill(c)
  \/ CleanRun

Spec == Init /\ [][Next]_vars

\* The processes run, and a user who is not waiting eventually quits.
FairSpec ==
  /\ Spec
  /\ \A d \in Instances : WF_vars(DaemonStep(d))
  /\ \A c \in Clients : WF_vars(ClientStep(c)) /\ WF_vars(Quit(c))

-----------------------------------------------------------------------------
(* Properties *)

Ranges ==
  /\ dpc \in [Instances -> Pcs]
  /\ conn \in [Instances -> Clients \cup {Nobody}]
  /\ request \in [Instances -> Parts]
  /\ gotHUP \in [Instances -> BOOLEAN]
  /\ gotTERM \in [Instances -> BOOLEAN]
  /\ hupIgnored \in [Instances -> BOOLEAN]
  /\ cut \subseteq Clients
  /\ gen \in [Instances -> Nat]
  /\ fds \in [Instances -> SUBSET Clients]
  /\ listening \in [Instances -> BOOLEAN]
  /\ queue \in [Instances -> Seq(Clients)]
  /\ sockfile \in Instances \cup {Nobody}
  /\ pidfile \in Instances \cup {Nobody}
  /\ cpc \in [Clients -> CPcs]
  /\ want \in [Clients -> {"none", "tree", "value"}]
  /\ budget \in [Clients -> Nat]
  /\ cgen \in [Clients -> Nat]
  /\ toD \in [Clients -> Seq(Parts)]
  /\ toC \in [Clients -> Seq(Replies)]

\* Every variable keeps its type, and the daemon authenticates and talks only
\* when accept() has given it a connection: the assert (conn>0) of daemon_loop
\* never fails, whatever signal or shortage of descriptors ended the accept().
TypeOK ==
  /\ Ranges
  /\ \A d \in Instances : dpc[d] \in {"auth"} \cup Talking => conn[d] # Nobody

\* An open listening socket is the one /var/run/powertweakd names: a second
\* start, a crash or a shutdown in progress never leaves a daemon listening
\* where no client can find it, and at most one daemon listens.
SocketFileNamesListener == \A d \in Instances : listening[d] => sockfile = d

\* From the moment it has written it until it begins to exit, an instance
\* finds its own pid in the pid file, the target of the init scripts'
\* signals: neither a second start nor the exit of its predecessor takes it.
PidFileNamesServer == \A d \in Instances : dpc[d] \in Serving => pidfile = d

\* The two ends agree on what comes next in the byte stream, which has no
\* resynchronisation point: where a header is read no argument lies, and
\* where arguments are read no header, whatever signal or exit has cut a
\* request short before.
StreamInStep ==
  \A d \in Instances : \A c \in Clients :
    InSession(d, c) /\ toD[c] # <<>> =>
      (dpc[d] = "read" <=> Head(toD[c]) # "args") \/ dpc[d] = "reply"

\* A client that waits has at most one reply coming, of the kind it waits
\* for, and one that does not wait has none.
RepliesMatchRequests ==
  \A c \in Clients :
    /\ cpc[c] \in OpenCPcs \ {"waiting"} => toC[c] = <<>>
    /\ cpc[c] = "waiting" /\ toC[c] # <<>> =>
         Len(toC[c]) = 1 /\ Head(toC[c]).kind = want[c]

\* The tree a client shows is the tree the daemon works on as long as their
\* session lasts, so the names it sends exist; a reload waits for the end of
\* the session.
SessionTreeIsCurrent ==
  \A d \in Instances : \A c \in Clients :
    InSession(d, c) /\ cgen[c] # 0 => cgen[c] = gen[d]

\* Only a connection of root is talked to, over a descriptor still open.
OnlyRootIsServed ==
  \A d \in Instances :
    dpc[d] \in Talking => conn[d] \in RootClients /\ conn[d] \in fds[d]

\* c waits to be accepted by an instance that has no descriptor left: every
\* session leaks one (conn = 0 without close), and accept() fails from then on.
ShutOut(c) ==
  \E d \in Instances :
    Cardinality(fds[d]) >= MaxFds /\ \E i \in 1..Len(queue[d]) : queue[d][i] = c

\* A client that waits is answered, or told by the end of the connection, with
\* two exceptions.  A SIGHUP cut its own session short: its connection is then
\* never closed while the daemon lives.  Or it is in the backlog of a daemon
\* whose earlier sessions have used up the descriptors.
EveryWaitEnds ==
  \A c \in Clients :
    cpc[c] = "waiting" ~> cpc[c] # "waiting" \/ c \in cut \/ ShutOut(c)

\* A SIGTERM that arrives in a session ends the daemon after that session.
SessionTERMEndsDaemon ==
  \A d \in Instances :
    gotTERM[d] /\ dpc[d] \in Talking ~> dpc[d] = "dead"

\* A pending reload is done at the latest when the next connection comes.
ReloadAtNextConnection ==
  \A d \in Instances :
    gotHUP[d] /\ queue[d] # <<>> ~> ~gotHUP[d] \/ dpc[d] = "dead"

=============================================================================
