--------------------------- MODULE UdpRadioClient ---------------------------
(***************************************************************************)
(* The UDP transport: UdpRadioClient (src/udp_radio_client.cpp) with the   *)
(* cav::UDPListener it owns (include/v2x_ros_driver/udp_listener.h).       *)
(*                                                                         *)
(* Each connect() that gets past its resolver creates a new io_service;    *)
(* the number of io_services created so far is the current session.  Every *)
(* object built on an io_service (listener, output socket, io thread,      *)
(* posted handler) remembers the session it was built in, 0 standing for   *)
(* "none".  connect() runs on the caller's connect thread, close() and     *)
(* sendV2xMessage() on the executor, and the handlers on the io thread, so *)
(* connCall and closeCall are the program counters of two calls that may   *)
(* be in progress at once.                                                 *)
(*                                                                         *)
(* The module's own specification drives the client by any serial caller:  *)
(* at most one of connect() and close() is in progress.  UdpDriver drives  *)
(* the same actions by the node's code, which does not always do so.       *)
(***************************************************************************)
EXTENDS Naturals, Sequences

CONSTANTS
    Packet,      \* what sendV2xMessage may be given
    Datagram,    \* what may arrive on the listening port
    MaxSession,  \* bound: connect() calls that create an io_service
    MaxPosted,   \* bound: handlers of one kind waiting in the io_service
    MaxInbox     \* bound: datagrams the kernel buffers for the socket

ASSUME BoundsAssumption ==
    /\ MaxSession \in Nat \ {0}
    /\ MaxPosted \in Nat \ {0}
    /\ MaxInbox \in Nat \ {0}

VARIABLES
    running,        \* running_, what connected() returns
    connCall,       \* where connect() is
    closeCall,      \* where close() is
    io,             \* the session of io_
    io_stopped,     \* io_->stop() was called on the current io_service
    io_thread,      \* io_thread_: its session, and whether it is inside run()
    work,           \* the session of work_
    udp_listener,   \* udp_listener_: its session, running_, receive pending
    udp_out_socket, \* the session of udp_out_socket_
    output_strand,  \* send handlers posted to output_strand_
    posted,         \* onReceive handlers the listener posted to io_
    inbox,          \* datagrams buffered by the kernel for the bound socket
    fault           \* undefined behaviour or std::terminate, once it happened

callVars == <<running, connCall, closeCall>>
ioVars == <<io, io_stopped, io_thread, work>>
sockVars == <<udp_listener, udp_out_socket, inbox>>
queueVars == <<output_strand, posted>>
clientVars == <<callVars, ioVars, sockVars, queueVars, fault>>

Session == 0 .. MaxSession

ConnectPc == {"idle", "enter", "resolve", "newio", "listen", "socket",
              "spawn", "run", "ok", "failed", "threw"}
ConnectEnded == {"ok", "failed", "threw"}
ClosePc == {"idle", "enter", "stop", "join", "release", "closed"}

\* "orphan": a listener, output socket or work_ destroyed after the io_service
\* it refers to; "io": an io_service destroyed under the thread that runs it;
\* "thread": a joinable std::thread destroyed, and "thrown": an exception that
\* leaves the io thread's function, both std::terminate; "null": a null
\* udp_out_socket_ or udp_listener_ dereferenced; "freed": the client
\* destroyed while connect() is inside it.
Fault == {"none", "orphan", "io", "thread", "thrown", "null", "freed"}

NoThread   == [sess |-> 0, live |-> FALSE]
BoundListener(s) == [sess |-> s, running |-> FALSE, armed |-> FALSE]
NoListener == BoundListener(0)

Init ==
    /\ running = FALSE
    /\ connCall = "idle"
    /\ closeCall = "idle"
    /\ io = 0
    /\ io_stopped = FALSE
    /\ io_thread = NoThread
    /\ work = 0
    /\ udp_listener = NoListener
    /\ udp_out_socket = 0
    /\ output_strand = <<>>
    /\ posted = <<>>
    /\ inbox = <<>>
    /\ fault = "none"

ConnectMove(from, to) == connCall = from /\ connCall' = to
CloseMove(from, to)   == closeCall = from /\ closeCall' = to

Fail(f) == fault' = f /\ UNCHANGED <<callVars, ioVars, sockVars, queueVars>>

\* The io_service of session s is gone.
Orphan(s) == s \notin {0, io}
Orphaned == Orphan(udp_listener.sess) \/ Orphan(udp_out_socket) \/ Orphan(work)

-----------------------------------------------------------------------------
(* connect(), on the connect thread *)

\* if (running_) return false;
ConnectRefused ==
    /\ running
    /\ ConnectMove("enter", "failed")
    /\ UNCHANGED <<running, closeCall, ioVars, sockVars, queueVars, fault>>

\* Mutant: connect() does not test running_.
ConnectEnterUnchecked ==
    /\ ConnectMove("enter", "resolve")
    /\ UNCHANGED <<running, closeCall, ioVars, sockVars, queueVars, fault>>

ConnectEnter ==
    /\ ~running
    /\ ConnectMove("enter", "resolve")
    /\ UNCHANGED <<running, closeCall, ioVars, sockVars, queueVars, fault>>

\* The address is a literal or a name that resolves, or connect() throws; so
\* it does if there can be no new io_service, and the old one stays.
ConnectResolve ==
    /\ \/ ConnectMove("resolve", "newio")
       \/ ConnectMove("resolve", "threw")
    /\ UNCHANGED <<running, closeCall, ioVars, sockVars, queueVars, fault>>

\* Mutant: the io_service is restarted instead of replaced.
ConnectRestartIo ==
    /\ ~io_thread.live
    /\ ConnectMove("newio", "listen")
    /\ io' = io + 1
    /\ io_stopped' = FALSE
    /\ UNCHANGED <<running, closeCall, io_thread, work, sockVars, queueVars, fault>>

\* io_.reset(new io_service): the old one goes, with the handlers still in it.
\* The strand that is made for the new one may throw.
ConnectNewIo ==
    /\ ~io_thread.live
    /\ ConnectMove("newio", "listen") \/ ConnectMove("newio", "threw")
    /\ io' = io + 1
    /\ io_stopped' = FALSE
    /\ output_strand' = <<>>
    /\ posted' = <<>>
    /\ UNCHANGED <<running, closeCall, io_thread, work, sockVars, fault>>

\* The old listener is destroyed (its socket closed, its datagrams lost),
\* then the new one opens and binds its socket, and onReceive is connected.
\* open() or bind() may be refused: no descriptor, no IPv6, a port that may
\* not be used or that somebody else holds.
ConnectListen ==
    /\ \/ ConnectMove("listen", "failed") /\ udp_listener' = NoListener
       \/ ConnectMove("listen", "socket") /\ udp_listener' = BoundListener(io)
    /\ inbox' = <<>>
    /\ UNCHANGED <<running, closeCall, ioVars, udp_out_socket, queueVars, fault>>

\* Mutant: an output socket that is still there is used again.
ConnectSocketAgain ==
    /\ \/ ConnectMove("socket", "threw") /\ UNCHANGED udp_out_socket
       \/ /\ ConnectMove("socket", "spawn")
          /\ udp_out_socket' = IF udp_out_socket = 0 THEN io ELSE udp_out_socket
    /\ UNCHANGED <<running, closeCall, ioVars, udp_listener, inbox, queueVars, fault>>

\* The output socket's constructor may throw; nothing here catches it.
ConnectSocket ==
    /\ \/ ConnectMove("socket", "threw") /\ UNCHANGED udp_out_socket
       \/ ConnectMove("socket", "spawn") /\ udp_out_socket' = io
    /\ UNCHANGED <<running, closeCall, ioVars, udp_listener, inbox, queueVars, fault>>

\* udp_listener_->start(): running_ is set and, unless that throws, a receive
\* is pending.
Started(armed) == [udp_listener EXCEPT !.running = TRUE, !.armed = armed]

\* work_, udp_listener_->start(), then the thread that runs io_.
ConnectSpawn ==
    /\ io_thread.sess = 0
    /\ ConnectMove("spawn", "run")
    /\ work' = io
    /\ udp_listener' = Started(TRUE)
    /\ io_thread' = [sess |-> io, live |-> TRUE]
    /\ UNCHANGED <<running, closeCall, io, io_stopped, udp_out_socket, inbox, queueVars, fault>>

\* work_ cannot be made, the receive not be started, or the system refuses
\* the thread: connect() throws.  What it has made stays, with running_ clear.
ConnectSpawnFails ==
    /\ ConnectMove("spawn", "threw")
    /\ \/ UNCHANGED <<work, udp_listener>>
       \/ work' = io /\ \E armed \in BOOLEAN : udp_listener' = Started(armed)
    /\ UNCHANGED <<running, closeCall, io, io_stopped, io_thread, udp_out_socket, inbox,
                   queueVars, fault>>

\* running_ = true; onConnect().
ConnectRun ==
    /\ ConnectMove("run", "ok")
    /\ running' = TRUE
    /\ UNCHANGED <<closeCall, ioVars, sockVars, queueVars, fault>>

\* connect() leaves defined behaviour: it replaces io_ under the thread inside
\* it; it replaces a listener, an output socket or a work_ whose io_service is
\* already gone (which may also work, see the actions above); it replaces a
\* std::thread not yet joined.
ConnectFault ==
    \/ connCall = "newio" /\ io_thread.live /\ Fail("io")
    \/ connCall = "listen" /\ Orphan(udp_listener.sess) /\ Fail("orphan")
    \/ connCall = "socket" /\ Orphan(udp_out_socket) /\ Fail("orphan")
    \/ connCall = "spawn" /\ Orphan(work) /\ Fail("orphan")
    \/ connCall = "spawn" /\ io_thread.sess # 0 /\ Fail("thread")

ConnectStep ==
    \/ ConnectRefused \/ ConnectEnter \/ ConnectResolve \/ ConnectNewIo
    \/ ConnectListen \/ ConnectSocket \/ ConnectSpawn \/ ConnectSpawnFails
    \/ ConnectRun \/ ConnectFault

-----------------------------------------------------------------------------
(* close(), on the executor *)

\* if (!running_) return;
CloseNoop ==
    /\ ~running
    /\ CloseMove("enter", "closed")
    /\ UNCHANGED <<running, connCall, ioVars, sockVars, queueVars, fault>>

CloseBegin ==
    /\ running
    /\ running' = FALSE
    /\ CloseMove("enter", "stop")
    /\ UNCHANGED <<connCall, ioVars, sockVars, queueVars, fault>>

\* Mutant: only work_ is dropped; a pending receive keeps run() going.
CloseDropWork ==
    /\ CloseMove("stop", "join")
    /\ work' = 0
    /\ UNCHANGED <<running, connCall, io, io_stopped, io_thread, sockVars, queueVars, fault>>

\* Mutant: the output socket is released before the io thread has ended.
CloseStopRelease ==
    /\ CloseMove("stop", "join")
    /\ io_stopped' = TRUE
    /\ work' = 0
    /\ udp_out_socket' = 0
    /\ UNCHANGED <<running, connCall, io, io_thread, udp_listener, inbox, queueVars, fault>>

\* work_.reset(); io_->stop();
CloseStop ==
    /\ CloseMove("stop", "join")
    /\ work' = 0
    /\ io_stopped' = TRUE
    /\ UNCHANGED <<running, connCall, io, io_thread, sockVars, queueVars, fault>>

\* Mutant: close() does not wait for the io thread.
CloseDetach ==
    /\ CloseMove("join", "release")
    /\ UNCHANGED <<running, connCall, ioVars, sockVars, queueVars, fault>>

\* io_thread_->join();
CloseJoin ==
    /\ io_thread.sess # 0
    /\ ~io_thread.live
    /\ CloseMove("join", "release")
    /\ io_thread' = NoThread
    /\ UNCHANGED <<running, connCall, io, io_stopped, work, sockVars, queueVars, fault>>

\* Mutant: the output socket is left to the next connect().
CloseReleaseKeepSocket ==
    /\ udp_listener.sess # 0
    /\ CloseMove("release", "closed")
    /\ udp_listener' = [udp_listener EXCEPT !.running = FALSE]
    /\ UNCHANGED <<running, connCall, ioVars, udp_out_socket, inbox, queueVars, fault>>

\* udp_listener_->stop(); udp_out_socket_.reset(); onDisconnect().  stop()
\* only clears the listener's flag: its socket stays open and bound.
CloseRelease ==
    /\ udp_listener.sess # 0
    /\ CloseMove("release", "closed")
    /\ udp_listener' = [udp_listener EXCEPT !.running = FALSE]
    /\ udp_out_socket' = 0
    /\ UNCHANGED <<running, connCall, ioVars, inbox, queueVars, fault>>

\* What connect() has replaced meanwhile: a listener that is not there, or a
\* work_ or an output socket whose io_service is gone.
CloseFault ==
    \/ closeCall = "release" /\ udp_listener.sess = 0 /\ Fail("null")
    \/ closeCall = "stop" /\ Orphan(work) /\ Fail("orphan")
    \/ closeCall = "release" /\ Orphan(udp_out_socket) /\ Fail("orphan")

CloseStep ==
    CloseNoop \/ CloseBegin \/ CloseStop \/ CloseJoin \/ CloseRelease \/ CloseFault

\* ~UdpRadioClient: close() has returned, and the members are destroyed, those
\* that refer to io_ before io_.  Another client, just made, takes the place of this
\* one; its sessions are numbered on.
Renew ==
    /\ connCall \in {"idle"} \cup ConnectEnded
    /\ io_thread.sess = 0
    /\ CloseMove("closed", "idle")
    /\ udp_listener' = NoListener /\ udp_out_socket' = 0 /\ work' = 0
    /\ inbox' = <<>> /\ output_strand' = <<>> /\ posted' = <<>>
    /\ UNCHANGED <<running, connCall, io, io_stopped, io_thread, fault>>

\* The client is destroyed while connect() is inside it, with an io thread
\* that a connect() has started behind close(), or with what a failed
\* connect() has left of an io_service that a later one has replaced.
RenewFault ==
    /\ closeCall = "closed"
    /\ \/ connCall \notin {"idle"} \cup ConnectEnded /\ Fail("freed")
       \/ io_thread.sess # 0 /\ Fail("thread")
       \/ Orphaned /\ Fail("orphan")

\* The same at the end of the process: no client follows.
DestroyFault ==
    /\ connCall = "idle" /\ closeCall = "idle"
    /\ ~running
    /\ Orphaned
    /\ Fail("orphan")

-----------------------------------------------------------------------------
(* sendV2xMessage(), on the executor *)

\* Mutant: a message is posted whether or not the client is connected.
PostUnchecked(p) ==
    /\ Len(output_strand) < MaxPosted
    /\ output_strand' = Append(output_strand, [data |-> p, sess |-> io])
    /\ UNCHANGED <<callVars, ioVars, sockVars, posted, fault>>

\* sendV2xMessage returns true: the send is posted to output_strand_.
Post(p) ==
    /\ running
    /\ Len(output_strand) < MaxPosted
    /\ output_strand' = Append(output_strand, [data |-> p, sess |-> io])
    /\ UNCHANGED <<callVars, ioVars, sockVars, posted, fault>>

\* sendV2xMessage returns false: not connected, or post() threw.
PostFails == UNCHANGED clientVars

-----------------------------------------------------------------------------
(* The io thread: io_->run() takes one handler after another. *)

Dispatching == io_thread.live /\ ~io_stopped

\* The head of the strand is handed to the socket.
IoSend ==
    /\ Dispatching
    /\ output_strand # <<>>
    /\ udp_out_socket # 0
    /\ output_strand' = Tail(output_strand)
    /\ UNCHANGED <<callVars, ioVars, sockVars, posted, fault>>

\* send_to() throws: the message is gone and onError() is signalled.
IoSendError == IoSend

\* handle_recv_udp: a datagram is read and the signal posted; the next
\* receive is started if the listener is running.
IoReceive ==
    /\ Dispatching
    /\ udp_listener.armed
    /\ inbox # <<>>
    /\ Len(posted) < MaxPosted
    /\ posted' = Append(posted, [data |-> Head(inbox), sess |-> io])
    /\ inbox' = Tail(inbox)
    /\ udp_listener' = [udp_listener EXCEPT !.armed = udp_listener.running]
    /\ UNCHANGED <<callVars, ioVars, udp_out_socket, output_strand, fault>>

\* handle_recv_udp: the read fails, the listener goes on.
IoReceiveError ==
    /\ Dispatching
    /\ udp_listener.armed
    /\ inbox # <<>>
    /\ inbox' = Tail(inbox)
    /\ udp_listener' = [udp_listener EXCEPT !.armed = udp_listener.running]
    /\ UNCHANGED <<callVars, ioVars, udp_out_socket, queueVars, fault>>

\* handle_recv_udp: the wait itself failed.  The listener's own onError is
\* signalled, which has no slot, and no further receive is started.
IoReceiveFatal ==
    /\ Dispatching
    /\ udp_listener.armed
    /\ udp_listener' = [udp_listener EXCEPT !.armed = FALSE]
    /\ UNCHANGED <<callVars, ioVars, udp_out_socket, inbox, queueVars, fault>>

\* The posted onReceive signal calls process() on the datagram.
IoDeliver ==
    /\ Dispatching
    /\ posted # <<>>
    /\ posted' = Tail(posted)
    /\ UNCHANGED <<callVars, ioVars, sockVars, output_strand, fault>>

\* Mutant: the client is no longer connected once its io thread has failed.
IoRunErrorDisconnects ==
    /\ Dispatching
    /\ io_thread' = [io_thread EXCEPT !.live = FALSE]
    /\ running' = FALSE
    /\ UNCHANGED <<connCall, closeCall, io, io_stopped, work, sockVars, queueVars, fault>>

\* run(err) returns with an error: onError() is signalled, the thread ends.
IoRunError ==
    /\ Dispatching
    /\ io_thread' = [io_thread EXCEPT !.live = FALSE]
    /\ UNCHANGED <<callVars, io, io_stopped, work, sockVars, queueVars, fault>>

\* run() returns because the io_service was stopped.
IoExit ==
    /\ io_thread.live
    /\ io_stopped
    /\ io_thread' = [io_thread EXCEPT !.live = FALSE]
    /\ UNCHANGED <<callVars, io, io_stopped, work, sockVars, queueVars, fault>>

\* socket_.available() throws, or what onReceive calls does: the exception
\* leaves run() and the thread's function.
IoThrows ==
    /\ Dispatching
    /\ udp_listener.armed \/ posted # <<>>
    /\ Fail("thrown")

\* The send handler dereferences an udp_out_socket_ that was reset.
IoFault == Dispatching /\ output_strand # <<>> /\ udp_out_socket = 0 /\ Fail("null")

IoReceiveStep == IoReceive \/ IoReceiveError \/ IoReceiveFatal
IoStep ==
    \/ IoSend \/ IoReceiveStep \/ IoDeliver \/ IoThrows \/ IoRunError \/ IoExit
    \/ IoFault

-----------------------------------------------------------------------------
(* The network and the host *)

\* A datagram reaches the bound socket; one that finds the buffer full, or
\* no socket bound, is lost.
Arrive(d) ==
    /\ udp_listener.sess # 0
    /\ Len(inbox) < MaxInbox
    /\ inbox' = Append(inbox, d)
    /\ UNCHANGED <<callVars, ioVars, udp_listener, udp_out_socket, queueVars, fault>>

HostStep == \E d \in Datagram : Arrive(d)

-----------------------------------------------------------------------------
(* Any serial caller *)

CallConnect ==
    /\ closeCall = "idle"
    /\ io < MaxSession
    /\ ConnectMove("idle", "enter")
    /\ UNCHANGED <<running, closeCall, ioVars, sockVars, queueVars, fault>>

ConnectReturn ==
    /\ connCall \in ConnectEnded
    /\ connCall' = "idle"
    /\ UNCHANGED <<running, closeCall, ioVars, sockVars, queueVars, fault>>

CallClose ==
    /\ connCall = "idle"
    /\ CloseMove("idle", "enter")
    /\ UNCHANGED <<running, connCall, ioVars, sockVars, queueVars, fault>>

CloseReturn ==
    /\ CloseMove("closed", "idle")
    /\ UNCHANGED <<running, connCall, ioVars, sockVars, queueVars, fault>>

\* sendV2xMessage may be called while connect() is in progress, not while
\* close() is: both are the executor's.
CallSend(p) == closeCall = "idle" /\ Post(p)

Caller ==
    \/ CallConnect \/ ConnectReturn \/ CallClose \/ CloseReturn
    \/ Renew \/ RenewFault \/ DestroyFault
    \/ \E p \in Packet : CallSend(p)

Halted == fault # "none" /\ UNCHANGED clientVars

Next ==
    \/ fault = "none" /\ (ConnectStep \/ CloseStep \/ IoStep \/ HostStep \/ Caller)
    \/ Halted

\* Threads are scheduled by the operating system: a call in progress, and a
\* run() that has been told to stop, go on.
Fairness ==
    /\ WF_clientVars(fault = "none" /\ ConnectStep)
    /\ WF_clientVars(fault = "none" /\ CloseStep)
    /\ WF_clientVars(fault = "none" /\ IoExit)

Spec == Init /\ [][Next]_clientVars
FairSpec == Spec /\ Fairness

-----------------------------------------------------------------------------
(* Properties *)

Handler(Data) == [data : Data, sess : 1 .. MaxSession]

\* The types of the members.  In particular no handler is ever posted to an
\* io_service that does not exist (session 0): output_strand_ is null until
\* the first connect().
TypeOK ==
    /\ running \in BOOLEAN
    /\ connCall \in ConnectPc
    /\ closeCall \in ClosePc
    /\ io \in Session
    /\ io_stopped \in BOOLEAN
    /\ io_thread \in [sess : Session, live : BOOLEAN]
    /\ work \in Session
    /\ udp_listener \in [sess : Session, running : BOOLEAN, armed : BOOLEAN]
    /\ udp_out_socket \in Session
    /\ output_strand \in Seq(Handler(Packet))
    /\ posted \in Seq(Handler(Datagram))
    /\ inbox \in Seq(Datagram)
    /\ fault \in Fault

\* connected() promises a usable session, although connect() may have thrown
\* half-way before: while running_ is set, the output socket, the listener and
\* work_ exist, belong to the current io_service and the listener is started.
ConnectedSessionIsWhole ==
    running => /\ io # 0
               /\ work = io
               /\ udp_out_socket = io
               /\ udp_listener.sess = io
               /\ udp_listener.running

\* Whenever a handler may run on the io thread, every object the handlers
\* dereference (io_, udp_out_socket_, udp_listener_) exists and belongs to
\* the io_service that the thread runs: close() and connect() replace
\* them only when no handler can be running.
HandlersSafe ==
    io_thread.live => /\ io_thread.sess = io
                      /\ udp_out_socket = io
                      /\ udp_listener.sess = io

\* A message accepted, or a datagram read, in one session is never sent or
\* delivered in a later one: what is waiting belongs to the current
\* io_service.
NoStaleTraffic ==
    /\ \A i \in 1 .. Len(output_strand) : output_strand[i].sess = io
    /\ \A i \in 1 .. Len(posted) : posted[i].sess = io

\* The io thread exists from connect()'s last step until close() joins it.
Up == running \/ connCall = "run" \/ closeCall \in {"stop", "join"}

\* Which of the client's objects exist at each point of connect() and
\* close(): one discipline that both calls, run on different threads, keep,
\* also when connect() has thrown anywhere and left what it had made.  An
\* output socket that is there without a session was never used: nothing
\* accepted waits for it.  It is inductive, and the other safety properties
\* follow from it.
SessionDiscipline ==
    /\ connCall = "idle" \/ closeCall = "idle"
    /\ running => /\ connCall \in {"idle", "enter", "ok", "failed"}
                  /\ closeCall \in {"idle", "enter"}
    /\ connCall \in {"enter", "resolve", "newio"} => io < MaxSession
    /\ io_thread.sess = IF Up THEN io ELSE 0
    /\ io_thread.live => Up
    /\ Up \/ connCall = "spawn" \/ closeCall = "release" => udp_out_socket = io
    /\ Up \/ connCall \in {"socket", "spawn"} \/ closeCall = "release"
            => io # 0 /\ udp_listener.sess = io
    /\ connCall = "listen" => io # 0
    /\ Up => udp_listener.running
    /\ Up /\ closeCall # "join" => work = io
    /\ connCall \in {"listen", "socket", "spawn", "run"} => output_strand = <<>>
    /\ ~Up /\ closeCall # "release" /\ udp_out_socket # 0 => output_strand = <<>>

\* When close() returns, the client is not connected and no io thread exists
\* that could still call into it.  The output socket is closed, unless
\* connect() threw after it had made one; then nothing was ever accepted for
\* it, and no later close() forgets a message by it.
CloseQuiesces ==
    closeCall = "closed" => /\ ~running
                            /\ io_thread = NoThread
                            /\ udp_out_socket = 0 \/ output_strand = <<>>

\* What undefined behaviour a serial caller can meet: an object destroyed after
\* its io_service, by a connect() that follows an earlier session or a failed
\* connect(), or by the destructor, and never inside close(); and an exception
\* on the io thread.  No null pointer is used, no thread or io_service
\* replaced while it runs, no client destroyed while it is used.
SerialFaults ==
    /\ fault \in {"none", "orphan", "thrown"}
    /\ fault = "orphan" => closeCall \in {"idle", "closed"}

\* Every connect() and every close() returns: in particular close() cannot
\* wait for ever for the io thread, although a receive is always pending.
CallsReturn ==
    /\ connCall = "enter" ~> (connCall \in ConnectEnded \/ fault # "none")
    /\ closeCall = "enter" ~> (closeCall = "closed" \/ fault # "none")

\* The transport as a RadioLink.  A session that connected() no longer shows
\* goes on sending until close() has stopped its io thread and joined it, or
\* a connect() behind its back has replaced the io_service; what is left in
\* output_strand_ then is nobody's, until connect() drops it.
Ending == closeCall \in {"stop", "join"} /\ io_thread.sess = io
phase == IF running THEN "up" ELSE IF Ending THEN "ending" ELSE "down"
pending ==
    IF phase = "down" THEN <<>>
    ELSE [i \in DOMAIN output_strand |-> output_strand[i].data]

Link == INSTANCE RadioLink

\* The UDP transport keeps the promise of RadioLink: nothing is accepted
\* unconnected, sent twice or out of order, or sent by a later session than
\* the one that accepted it.
KeepsRadioLink == Link!Spec

\* base_radio_client.h:66 says of close(): "closes all sockets/clients,
\* stops all threads".  Then no socket is left when it returns.
CloseClosesAllSockets ==
    closeCall = "closed" => udp_out_socket = 0 /\ udp_listener.sess = 0
=============================================================================
