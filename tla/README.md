# A verification project for v2x_ros_driver

TLA+ models of the V2X driver node and its transports, TLC configurations that
check them on small instances, and TLAPS proofs of what matters most for every
instance. Paths are relative to `src/v2x_ros_driver/`.

## 1. The system

The driver is one ROS 2 lifecycle node that hands messages to a V2X radio and
publishes what the radio receives. Its parts:

| part | state it keeps | operations |
|---|---|---|
| **Driver node** (`src/v2x_ros_driver_node.cpp`) | `connecting_`, `connect_thread_`, `radio_client_error_`, `send_msg_queue_`, `config_`, `radio_client_`, `comms_pub_` | configure (more than once), shutdown, destruction, `pre_spin` and the thread it starts, `reconnectSrv`, `getStatusSrv`, `sendMessageSrv`, `onOutboundMessage`, `parameter_update_callback`, slots for the client's signals |
| **UDP transport** (`src/udp_radio_client.cpp`, `include/.../udp_listener.h`) | `running_`, `io_`, `work_`, `io_thread_`, `udp_listener_`, `udp_out_socket_`, `output_strand_` | `connect`, `close`, `sendV2xMessage`, handlers on the io thread |
| **MQTT transport** (`src/mqtt_radio_client.cpp`) | `mosq_`, `connected_`; libmosquitto's client and its loop thread | `connect`, `close`, `sendV2xMessage`, callbacks on mosquitto's loop thread |
| **Frame scanner** (`BaseRadioClient::process`, `src/base_radio_client.cpp`) | none of its own; reads the wave tables | finds the J2735 frame in a datagram |
| **Wave configuration** (both files above, `etc/wave.json`) | the node's `wave_cfg_items_`, appended to by configure; the client's id and PSID tables, loaded by the first inbound message | load, look-ups |
| parameters, `main`, launch files | static | none |
| `scripts/v2x_decoder_forwarder.py`, radio set-up and build scripts | none | copy loop; one-shot shell |

How they interact. All ROS callbacks of the node are in its default callback
group, which is mutually exclusive, so **the executor** is one logical thread
whatever the number of threads that spin it. `pre_spin` starts **the connect
thread**, which runs the client's `connect()` and then clears `connecting_`.
A successful UDP `connect()` starts **the io thread**, which runs `io_`: it
sends what `sendV2xMessage` posted, reads datagrams, and runs the signals
`onMessageReceived` and `onError`, so the node's slots run on that thread. MQTT
has mosquitto's loop thread in its place. The threads share the client's
members, `connecting_` and `radio_client_error_`, with no lock around any of
them.

What is hard here:

* `connect()` (connect thread) and `close()` (executor) replace the same
  objects, and nothing but the node's flags keeps them apart;
* objects refer to one another (a handler to the socket, the listener to the
  io_service), so the order in which they are replaced matters;
* a join inside a callback waits for a thread that waits for a resolver, an io
  service with a receive always pending, or a broker;
* signals arrive from the time the connect thread runs, while configuring is
  still going on, and from a session that is being closed;
* `connect()` may throw or fail half-way; receives may fail for good;
* a second configure replaces the client, whose threads have to be gone before
  its members are, and the end of the process destroys whatever is left;
* the scanner's boundaries: unsigned subtraction, one-byte and two-byte
  lengths, PSIDs that look like message ids.

What correctness means for each part:

* *UDP transport:* `connected()` is true only of a session whose objects all
  exist, wherever an earlier `connect()` gave up; a handler never meets an object
  that is gone; nothing of one session leaks into the next; `close()` leaves no
  thread and always returns.
* *Driver node:* it uses the client serially; the check of `connected()` still
  holds when the message is given to the client; no message stays behind in the
  queue; every callback ends; a reconnect request and a configuration lead to an
  attempt; shutdown leaves no thread, and destruction nothing joinable; a
  remembered error is of the present session.
* *Frame scanner:* it stays inside the datagram and reports the first frame.
* *MQTT transport:* at most one client of libmosquitto lives, the one `mosq_`
  points to; `connected()` is true only of an acknowledged connection;
  a callback finds the client it belongs to; `close()` leaves no loop thread and
  always returns.
* *Both transports, seen by a sender:* messages are accepted only while
  connected, and leave at most once, in order, and in the session that accepted
  them (`RadioLink`).
* *Wave configuration:* the two tables keep in step with the file, a message
  goes to the topic of its PSID, and the type given to a received message leads
  back to its PSID.

`PROJECT.json` lists the hazards, each at its line, with the properties that
would catch it.

## 2. The modules

| module | models |
|---|---|
| `RadioLink` | what either transport promises a sender: the abstract specification |
| `UdpRadioClient` | the UDP transport with its listener, under any serial caller |
| `DriverNode` | the node, over the interface of a radio client |
| `UdpDriver` | the two composed: executor, connect thread, io thread, host |
| `FrameScanner` | `process()` and its checks, with a reference definition of a frame |
| `MqttRadioClient` | the MQTT transport over libmosquitto, under a serial caller that closes first |
| `MqttDriver` | the node and the MQTT transport composed: executor, connect thread, loop threads |
| `MqttTopics` | both copies of the wave configuration, and the topics, types and PSIDs made from them: loop thread and executor |
| `MC...` | the instances for TLC, one for each of the above but `RadioLink` and `DriverNode` |
| `UdpRadioClient_proofs`, `MqttRadioClient_proofs` | the theorems about the two transports |
| `UdpDriverAnytime_proofs`, `UdpDriverTraffic_proofs` | the theorems about the UDP composition, used in any way: the node's promises, and the messages |
| `UdpDriver_proofs`, `MqttDriver_proofs` | the theorems about the two compositions, used patiently |
| `FrameScanner_proofs` | the theorems about the scanner |
| `MqttTopics_proofs` | the theorems about the wave tables |

**RadioLink** has two variables: `phase`, which is "up" while `connected()`
holds and "ending" while a session that is no longer connected still sends, and
`pending`, the messages accepted and not yet handed to the network. A session
opens with nothing pending. `UdpRadioClient` maps `pending` to the messages in
`output_strand_` until the io thread is joined or, when `connect()` overlaps
`close()`, its io_service is replaced (`Ending`); `MqttRadioClient` to what
libmosquitto has queued for `mosq_`; what a closed UDP session leaves in its strand
is nobody's. `KeepsRadioLink` is the abstract specification under that mapping.

**UdpRadioClient.** Each `connect()` that passes its resolver makes a new
io_service; a *session* is the number of io_services made so far. Listener,
socket, `work_`, thread and posted handlers carry the session they were built in, 0
meaning "none", so that an object that outlives its io_service can be seen
(`Orphan`). `connCall` and `closeCall` are the program counters of the two calls, one
action for each stretch of code in which another thread may be observed: for
`connect()` the test of `running_`, the resolver, `io_.reset`, the listener, the
output socket, starting, and `running_ = true`; for `close()` the test and reset
of `running_`, `io_->stop()`, the join, and the release. The
destructor is `close()` followed by `Renew`, after which the variables are those
of the next client; its sessions are numbered on, so that what one client left
behind cannot pass for another's. `RenewFault` is the destruction of a client that is in
use, or has something left of an io_service that is gone, and `DestroyFault` the latter
at the end of the process. The `Io...` actions are the handlers, one per outcome.

`connect()` may give up at any of these points, and what it has made stays, with
`running_` clear:

| where | action | what it leaves |
|---|---|---|
| the resolver, or a new io_service (60-95) | `ConnectResolve` | the last session's objects |
| the strand (96) | `ConnectNewIo` | the new io_service, and the objects of the old one |
| `open()` or `bind()` of the listener, for whatever reason (98-114) | `ConnectListen` | no listener; the old output socket and `work_`, if a failed `connect()` had left them |
| the output socket (122) | `ConnectSocket` | a listener that is bound but not started |
| `work_`, the first receive, or the creation of the io thread (124-131) | `ConnectSpawnFails` | also an output socket, and perhaps `work_` and a started listener |

`close()` finds `running_` clear and leaves all this alone. The next `connect()`, or the
destructor after one, destroys it after its io_service.

Undefined behaviour and `std::terminate` are values of `fault`, after
which nothing more is said (`Halted`):

| `fault` | meaning |
|---|---|
| `"orphan"` | a listener, an output socket or a `work_` is destroyed after the io_service it refers to: by `connect()`, which replaces `io_` first (`ConnectFault`), by the destructor, or by a `close()` that overlaps a `connect()` (`CloseFault`). The build may also get away with it, so the actions that do the same without a fault remain possible |
| `"thrown"` | an exception leaves the function of the io thread (`std::terminate`): `socket_.available()` (`udp_listener.h:45`) is the overload that throws, and nothing catches what `process()` and its slots may throw (`IoThrows`) |
| `"io"` | an io_service is destroyed under the thread that runs it |
| `"thread"` | a joinable `std::thread` is destroyed (`std::terminate`), the client's or the node's |
| `"freed"` | the client is destroyed while `connect()` is inside it |
| `"null"` | a null `udp_out_socket_` or `udp_listener_` is dereferenced |

The host may send datagrams (`Arrive`), and may refuse a name, a descriptor, the port, a
thread, a send or a receive.

**DriverNode.** `pc` says where in which callback the executor is; `ret` where
`pre_spin` returns to. The steps of `handle_on_configure` are kept in their
order because the connect thread already runs: what is connected at each point
is `wired`, and `comms_pub` whether the publisher exists. `radio_client_error`
holds the session that an error came from, which is what the properties need of
it. A packed message is the message and its format: hex in WAVE text, or raw.
`getStatusSrv` changes nothing and has no action; what it reports is the subject
of `ErrorBelongsToSession`. A second configure (`Reconfigure`) runs the
destructor of the old client at `pc = "renew"`, then does what the first did;
what was set on the old client (`wired`) is gone, the publisher stays until it is
replaced. `Exit` is the destruction of the node, which terminates the process
if `connect_thread_` is joinable. The constant `Orderly` restricts the
*environment*: with TRUE `handle_on_shutdown` comes first, as in every run; with FALSE
it need not, since nothing in the repository calls it.

**UdpDriver** conjoins each action of one module with what it does to the
other. `C == INSTANCE UdpRadioClient` gives the client's actions;
`ClientIsUsedSerially == C!Spec` says that the composition implements the
client's own specification, the one the theorems are about. The constant
`Patient` restricts the *environment*: with TRUE the reconnect service and a
second configure are called only when no connect is under way. With FALSE they
are called at any time, except that a connect thread which has started but not yet
called `connect()` is not overtaken by a configure: which client it would find is a race
on `radio_client_`. A configure that changes the transport would leave the composition and is
left out of it; within one transport the `protocol` parameter may change back and forth.

**FrameScanner** takes one step per turn of the loop. A datagram is its
first bytes, a filler and its size. `isValidMsgAssumingBSMPSID` may read past
the end of a short datagram; what it then finds is a free choice (`MayBe`
against `Is`). The constant `SizeT` is 2 to the width of `size_t`, 2^64 in the
code: all that matters is that `size() - 3` wraps to a number larger than any datagram,
and the runs take 2^20. `FrameAt`, `MessageAt` and
`Expected` are the reference: what a frame is according to the format that
`base_radio_client.h:143-146` describes, and which one of the whole datagram is to
be reported. `Misjudged` says where the code's rule for lengths and the format part
ways, and `Clear` which datagrams have nothing that the code judges otherwise.

**MqttRadioClient.** `mosq_` is one pointer, but clients of libmosquitto live
until they are destroyed, so each `mosquitto_new` that succeeds gets the next
number and `mosq` holds one, or 0 for null. `connCall` and `closeCall` are again
the program counters. `dialing` is the client inside `mosquitto_connect`, which has
sent its CONNECT (`ConnectDialed`) before it returns (`ConnectSent`): the loop thread,
already running, may handle the broker's answer in between. `joining` is
the one `mosquitto_loop_stop(false)` waits for: both calls go on with
the client they were given, whatever becomes of `mosq_`. The loop thread's
actions are `HandleConnect` with `SubscribeToTopics` apart, since `connected_` is
set before the subscription, `HandleConnectRefused`, `HandleDisconnect`, and the
library's own `Reconnect`, `Transmit` and `LoopExit`. Of libmosquitto this
assumes only what the code relies on:

* the loop runs one callback at a time, and only for a connection that
  `mosquitto_connect` or a reconnect has begun;
* every connection that ends has its `on_disconnect`;
* a client told to disconnect does so, does not reconnect, and its loop ends;
* what is queued with QoS 0 (the default), or subscribed in a clean session, is
  gone with the connection;
* a null client is an error to `mosquitto_connect`, `mosquitto_disconnect`,
  `mosquitto_loop_stop` and `mosquitto_destroy`, but is dereferenced by the
  functions that set callbacks (`fault = "null"`).

`fault = "freed"` is the destruction of a client that a call, or its own loop,
is still inside.

**MqttDriver** composes it with `DriverNode` in the way of `UdpDriver`.
`M!CallConnect` asks for `mosq = 0`, so `ClientIsUsedSerially == M!Spec` says
more here: the node closes before it connects again. This transport never
signals `onError`, so `radio_client_error` stays clear, and a connection that the
broker drops is left to the library's reconnection.

**MqttTopics** has the file twice, as the code does. `wave_cfg_items` is the
node's copy, to which every configure appends; `Receive` and `PackedPsid` are the
two look-ups in it, by id and by name. The client's tables are sequences that
only grow; `loader` is the entry the loop thread is at, and `Reconfigure` starts
a new client with empty tables. `configured` is how far `handle_on_configure` is,
since a message may arrive at any point of it. `sendV2xMessage` reads them in one step, so a vector that
moves during the look-up is not considered, but a table half-loaded is. `NamesAgree` says
that the entries of one name agree on the PSID; `MCMqttTopics` assumes it of
`etc/wave.json`, and TLC evaluates it. PSIDs,
ids and topics are numbers. The keys of the overrides and the PSIDs in the file
are four hexadecimal digits, so comparing numbers is comparing texts, except
for an id taken as a PSID: `RawTopic` reads its decimal digits as hexadecimal,
and finds them among the keys only when there are four. `kEttifosPsidOverrides`
is any of the maps that the written list, with its repeated key, may become.
`MCMqttTopics` has that list and the entries of `etc/wave.json` as they are.

Abstractions common to all modules. `connecting_`, `running_`,
`radio_client_error_`, `mosq_` and `wave_file_path` are read and written by several
threads without synchronisation, which C++ calls a data race; the models take
each access to be one atomic step, so no torn value is considered. The logging,
the texts of services and the JSON parsing are left out; a file that cannot be
opened, parsed or validated is one outcome, no entries.

## 3. The runs

| run | question | bounds |
|---|---|---|
| `udp_client` | is the transport sound under any serial caller? | 3 sessions, 2 packets, 1 datagram, 2 handlers of each kind, 2 datagrams in the socket |
| `udp_driver` | does the node use the transport as it must, and do its own promises hold, when reconnect and configure wait for the connect under way? | 3 sessions, 1 message, 1 datagram, queues of 1 |
| `udp_driver_impatient` | what still holds when they do not wait? | as above, with 2 messages waiting |
| `frame_scanner` | does the scan stay inside the datagram and report the right frame? | 14 payload lengths, below |
| `mqtt_client` | is the MQTT transport sound under a serial caller that closes first, whatever the broker does? | 3 clients of libmosquitto, 2 packets, 2 waiting messages |
| `mqtt_driver` | does the node use it so, when reconnect and configure wait for the connect under way? | 3 clients, 1 message, 1 waiting |
| `mqtt_driver_impatient` | what still holds when they do not wait? | as above |
| `mqtt_topics` | do the tables stay in step, and does a loaded entry give the right topic, and a received message the right type? | the 14 entries of `etc/wave.json`, 9 ids, 2 configures |
| `udp_overlap`, `frame_boundary`, `mqtt_forgotten`, `mqtt_topics_early` | one disagreement each between the code and what it says of itself (section 5) | 2 or 3 sessions; as `frame_scanner`; as `mqtt_topics` |

*What they show.* `udp_client`: the objects of a session exist wherever
`SessionDiscipline` asks for them, also after a `connect()` that gave up at any point of the
table in section 2; handlers find their
objects; nothing stale is sent or delivered; `close()` returns with no thread left, and
with no output socket but one that a failed `connect()` had made and no message waits for;
the only undefined behaviour is an object destroyed after its io_service,
never inside `close()`, and an exception on the io thread (`SerialFaults`);
both calls return; the whole is a `RadioLink`. `udp_driver`: in the patient environment the
node is a serial caller, so all of that holds in the driver; the queue is empty
between callbacks; a remembered error is never one of an earlier session,
although another thread writes it; no inbound message meets a missing publisher,
or `wave_cfg_items_` while a second configure appends to it; every reconnect request
leads to an attempt, and every configuration
to a `connect()` of the client it made, also when the attempt before it threw. *Patient*
means that neither `udp_driver` nor `mqtt_driver` has a reconnect request or a second
configure while a connect attempt is under way. So `ClientIsUsedSerially`,
`ErrorBelongsToSession`, `ReconnectAttempts`, `ConfigureConnects`, and `ShutdownQuiesces` in
`mqtt_driver`, say nothing of such an overlap: what it breaks is in section 5
(`udp_overlap`, `mqtt_forgotten`, `MCUdpDriverStranded`, `MCMqttDriverFreed`), and what
survives it in the two impatient runs.
`udp_driver_impatient` has every behaviour of `udp_driver` and more: the test of
`connected()` is still good when the message is sent, because only the executor
itself clears `running_`; the order join-then-spawn keeps two connect threads
apart; a callback ends unless the process has met undefined behaviour, which
`udp_overlap` shows how to reach; shutdown leaves nothing running and no joinable
thread for the destructor; and up to such undefined behaviour the driver is a `RadioLink`.
`mqtt_client`: neither a refused acknowledgement nor one that comes late, or before
`mosquitto_connect` has returned, nor a connection
lost and regained, nor a `connect()` in which `mosquitto_new`, `mosquitto_loop_start` or
`mosquitto_connect` fails, leaves a client behind or `connected_` set after `close()`; `close()` returns from every
state of the connection; and the whole is a `RadioLink`, whose sessions are the
broker's acknowledged connections. `mqtt_driver`: the patient node is that serial caller,
so all of it holds in the driver. `mqtt_driver_impatient`: callbacks still end,
with the same proviso; but a shutdown
may leave a loop thread behind (`mqtt_forgotten`). `mqtt_topics`: the tables are
loaded once, however often loading fails or is asked for, and messages are right
from the moment their own entry is there; a second configure, which doubles the
node's list, changes no type and no PSID. `frame_scanner`: every datagram of the set, with or without header,
cut short, extended, or with a frame nested in its payload.

*Why these bounds are enough.* Three sessions are a session, its reconnect and
one more, so that something left over by the first can reach the one after the
next. `udp_client` has two handlers of a kind, so one can be done while another
waits; the driver runs need only one message. `udp_driver_impatient` lets two sends wait,
which the packing distinguishes: with one, a `connect()` that empties the strand
under a `close()` that is still waiting would look like a message being sent. A reconnect is refused when no session is left (`io + Unborn <
MaxSession` counts the one that a connect under way has yet to make), so the
bound never stops a connect half-way. For MQTT, three clients are one that is forgotten, its successor and a further
one. The ids of `mqtt_topics` have one of each kind: with and without an
override, with a PSID of their own and a shared one (18 and 19; 240; 245), absent
from the file with one digit (9) and with the four digits of a key (8010). The
payload lengths lie on both sides of each boundary: 124 is the last below, 128 the first above the lengths
that are misjudged (section 5), 255/256 change the high byte of the length, 16370 is
close to the format's limit, and 16379 is the longest whose frame is not given
up; a size past 16383 is in the set too. Payloads of 1, 2 and 8 bytes end before
`isValidMsgAssumingBSMPSID` stops reading, and have ids for which that does not
matter. Two configures are enough for the node's list to hold every entry twice.

*Deadlock* is checked in every run but the scanner's: `process()` ends. A driver
that is down, or has met undefined behaviour, stutters.

*Fairness.* The operating system schedules threads: weak fairness for the steps
of `connect()`, of `close()`, for the return of a `run()` that was stopped, for
the end of the connect thread, and for a callback in progress. The resolver is
thus assumed to answer, in one way or another. Nothing is assumed of requests,
signals, datagrams, failures, or of a message being sent before the
session is closed. With MQTT, `mosquitto_connect` answers in one way or another,
and a loop that was told to disconnect does what it needs to end (`Ending`);
the broker owes nothing, neither an acknowledgement nor a message.

## 4. What is proved

`UdpRadioClient_proofs` proves, for every set of packets and datagrams and all
positive bounds (`BoundsAssumption`), that every behaviour of
`UdpRadioClient!Spec` satisfies

* `Discipline`: `IInv`, the inductive invariant;
* `TypeCorrect`, `ConnectedIsWhole`, `HandlersAreSafe`, `TrafficIsFresh`,
  `CloseLeavesNothing`, `FaultsOfASerialCaller` (`SerialFaults`): the invariants of
  `udp_client`;
* `Disciplined`: `SessionDiscipline`, the part of `IInv` that says which objects
  exist when;
* `ImplementsRadioLink`: the abstract specification, under the mapping of
  section 2.

*The argument.* No property above is inductive alone. `HandlersSafe`, say, does
not survive `CloseRelease` unless the thread is known to be gone by then, which
in turn needs that it was joined, and that `connect()` did not start another
meanwhile. `SessionDiscipline` says what exists at every point of
both calls: `Up` marks the interval from the spawn in `connect()` to the join
in `close()`; the thread is of the current session exactly then; output socket and
listener are of the current session a step longer at each end, `work_` until
`close()` has reset it; and the two calls are never both in progress. Outside that interval it
does not say that nothing exists, since a `connect()` that threw leaves what it had made.
It says that nothing was accepted meanwhile: the strand is empty from the
replacement of `io_` until `running_` is set, and whenever an output socket is there
without a session. `IInv` adds
the types, the sessions of the handlers, and that no fault but those of `SerialFaults`
occurs. One lemma per group of actions (`ConnectKeeps`, `CloseKeeps`, `IoKeeps`,
`OutsideKeeps`) shows that `IInv` is kept; the invariants follow from it and
temporal logic. `udp_client` checks every conjunct of `IInv` as well.

`MqttRadioClient_proofs` proves of `MqttRadioClient!Spec`, for every set of
packets and all positive bounds,

* `Discipline`: `IInv`, the inductive invariant;
* `TypeCorrect`, `Disciplined`, `ConnectedMeansUp`, `CallbacksAreOwn`,
  `CloseLeavesNothing`, `TrafficIsCurrent`, `NothingFreedInUse`: the invariants
  of `mqtt_client`, and `ConnectedIsCurrent`, which follows from `ClientDiscipline`;
* `ImplementsRadioLink`, again.

*The argument.* The crux is that an acknowledgement may be handled between
`CloseBegin`, which clears `connected_`, and `CloseJoin`. `ClientDiscipline`
therefore ties `connected` to `link[mosq] = "up"`, that to a loop thread that
runs, and `closeCall = "destroy"` to there being none: a loop that has ended had
its `HandleDisconnect`. With it go the facts that the only client that exists is
`mosq`, so that no callback can be another's, and that the broker knows nothing
of a client not yet made. `DestroyKeeps` serves the three places where a client
is destroyed; then there is one lemma for each group of actions.

*The refinement.* A step of a client maps to at most one step of `RadioLink`. For
UDP `IInv` says that a session begins with an empty strand. `LinkStep` takes each action in
turn: only `Post`, the two outcomes of a send, `ConnectRun`, `CloseBegin` and `CloseJoin`
move the link, the last of them dropping what was not sent. For MQTT `IInv` is
enough, as an acknowledgement finds `outgoing` empty; `LoopLink` treats the
callbacks, where a late one may open a session and the disconnect that follows
ends it.

`UdpDriverAnytime_proofs` proves of `UdpDriver!Spec`, for every set of messages and
datagrams, all positive bounds (`BoundsAssumption`), and **any** environment, in which the
reconnect service and a second configure may come while a `connect()` is under way,

* `Anytime`: `AInv`, the inductive invariant;
* `NodeTypes`, `QueueIsDrained`, `StillConnected`, `PublisherIsThere`, `OneConnect`;
* `ShutdownLeavesNothing`, whose only hypothesis is `Orderly`: `handle_on_shutdown` comes
  before the destruction.

*The argument.* Without patience `connect()` and `close()` overlap, and a session may lose
its socket or its listener to the other call (`udp_overlap`), so nothing can be said of
the objects of a session. What remains is in two parts. The node's own order of
statements: the connect thread is joined before the next one starts, whatever
`connecting_` says, so `connCall` is "idle" whenever no thread runs; only the
executor clears `running_`, and not between its test and the send; the publisher is there
before the slot. And `ThreadInv`, how the two calls block each other: an io thread is
joined by the `close()` that found `running_` set, `connect()` cannot start one before
that, and while `connect()` is past its test `running_` is clear. So an io thread that
has not been joined always has a `running_`, a `connect()` about to set it, or a
`close()` about to join it, and at the end of the shutdown, which waited for the
connect thread first, there is none of the three. An overlap may still end
in undefined behaviour *before* the shutdown; `AInv` excludes it only once the
shutdown has ended.

`UdpDriverTraffic_proofs` proves, in the same environment and with no hypothesis on
`Patient` or `Orderly`,

* `Traffic`: `TInv`, which is `AInv` and `TrafficInv`;
* `ClientTypes`: `UdpRadioClient!TypeOK`, so no handler is posted to an io_service that does
  not exist;
* `TrafficIsFresh` (`UdpRadioClient!NoStaleTraffic`) and `ImplementsRadioLink` (`KeepsRadioLink`): the
  driver is a `RadioLink` to whoever sends.

*The argument.* `connect()` empties both queues where it replaces `io_`, and from there
until it sets `running_` nothing is accepted (`FreshStrand`), because
`ThreadInv` keeps `running_` clear all that time, whoever is in `close()`. `ThreadIsCurrent` is
what the overlap adds: `io_` may be replaced while `close()` still waits for a thread that
has left `run()`, but never under one that is inside it without undefined behaviour, where
the model ends. So a session that `close()` is ending is over at its join or at that
replacement, whichever comes first (`LinkOver`), and its messages are dropped and not
handed to the next. These theorems say nothing of what follows undefined behaviour, nor that
a send finds its socket: `udp_overlap` shows that it may not.

`UdpDriver_proofs` adds, in a patient environment (`Patient` is a hypothesis of each
theorem, and `Orderly` of the last two),

* `Discipline`: `DInv`, which is `AInv` and what patience adds to it;
* `ErrorIsCurrent`: `ErrorBelongsToSession`;
* `ImplementsSerialCaller`: `ClientIsUsedSerially`, so that every theorem about
  `UdpRadioClient` holds in the driver;
* one of these spelt out: `ConnectedIsWhole` (`ConnectedSessionIsWhole`, which
  `udp_overlap` shows to be lost without patience).

*The argument.* From the request to the start of the
connect thread (`Starting`) the previous thread has ended; `close()` is in progress
only at the four places that call it; so the two calls never meet. The io thread
exists only between the two, hence every error that it stores is of the
present session, and none can come between `CloseJoin` and the next `connect()`: that
is why `ErrorBelongsToSession` survives `pre_spin` clearing the error.
`CallbackIsSerial`, `SendIsSerial` and `RequestIsSerial` take each step
of the node to a step of the client's caller; `RenewIsClean` shows that the
destructor finds nobody inside the client, and at worst what a failed `connect()` has left.

`MqttDriver_proofs` proves of `MqttDriver!Spec`, in a patient, orderly environment,
`Discipline`, `ImplementsSerialCaller`, `ImplementsRadioLink`,
`ShutdownLeavesNothing`, and `ReconnectingIsSafe`, the last two of which `mqtt_forgotten`
and `MCMqttDriverFreed` show to be lost without patience; and `PublisherIsThere` in any
environment. Here the guard to establish is that `mosq_` is
null when `connect()` is called, which depends on what `close()` does, so `DInv`
joins what holds of the node (`NodeInv`) to the client's own `IInv`. Each step is first
shown to be a serial step of the client; `ClientKeeps` then has `IInv` from
the lemmas of `MqttRadioClient_proofs`, taken over by `INSTANCE`
(`SameSteps` and `SameClient` say that the two instances are one).

`MqttTopics_proofs` proves of `MqttTopics!Spec`, for every wave file and every table
of overrides (`TablesAssumption`: ids and PSIDs fit two bytes), `InStepWithFile`
(`TablesFollowFile`), `LoadedIsRight` (`LoadedTopicIsRight`) and, for every file whose names
agree on their PSIDs (`NamesAgree`), `TypeLeadsBack` (`InboundTypeIsRight`). `LoaderInv` ties the
lengths of the two tables to the place of the loader; `FirstPlace` says what a look-up finds,
and rests on the least-number principle from `WellFoundedInduction`;
`PlaceInFile`, that a look-up in a table that is still loading agrees with the file;
`TopicOfDetermined`, that the topic does not depend on which of
two equal keys the map kept, when the PSID has one override.

`TypeLeadsBack` needs of the list only that it begins with the file, which every
further configure keeps (`ListKept`): a look-up by id and then one by name both end within
the first copy (`FirstInList`, `PackedByName`), so doubling the list changes nothing.

`FrameScanner_proofs` proves, for every set of datagrams, ids and PSIDs
(`DatagramsAssumption`: bytes are octets and sizes fit `SizeT`),

* `SizeRule`: `isValidMsgSize()` agrees with the format on a frame that is looked at
  exactly when `Misjudged` does not hold, so the three cases of `Misjudged` are all the
  cases there are (section 5);
* `Discipline`: `IInv`, the inductive invariant;
* `StaysInside`: `TypeOK`;
* `ClearIsReported`: of a datagram that is `Clear` the first message is reported, and
  nothing if there is none.

*The argument.* `LoopBound` shows that after the test of `size() < 3` the unsigned
subtraction is the ordinary one. `IInv` is the invariant of a search: no message begins before
`i`. Each way of going on passes something that is not a message
(`ContinueKeeps`): an unknown id by definition, a wrong size by `SizeRule`, a PSID because
`LookAheadInside` leaves `isValidMsgAssumingBSMPSID` no choice. `ReportsTheFrame` does
not hold of every datagram, as `frame_boundary` shows, hence `Clear`. It asks of each
position where a frame may begin, with no message before it, that it is not misjudged,
hides no message if it is given up for its size, and is long enough for
`isValidMsgAssumingBSMPSID` if its id may be a PSID. `MCFrameScannerClear` checks that the
datagrams of `frame_scanner` are all of this kind, headers, nested frames and short
payloads included.

*Only model-checked:* liveness (`CallsReturn`, `CallbacksReturn`,
`ReconnectAttempts`, `ConfigureConnects`), as TLAPS has no support for `ENABLED`. Every
invariant and action property of a passing run is a theorem; `ReportsTheFrame` for clear
datagrams, `ErrorBelongsToSession` and the properties named `ClientIsUsedSerially` for a patient
node, as their runs check them.

## 5. Where the code and its own words disagree

Each has a run that must end in a counterexample:

| run | the code | what is said |
|---|---|---|
| `udp_overlap` | a reconnect during `connect()` lets `close()` reset the socket that `connect()` has just made; `connect()` then sets `running_`, and `connected()` is true of a session with no socket | `connected()` "Returns connected state" (`base_radio_client.h:71`); "Allow pre_spin to reconnect" (`v2x_ros_driver_node.cpp:355`) |
| `mqtt_forgotten` | the same request leads to a second `connect()` that overwrites `mosq_` (`mqtt_radio_client.cpp:84`); the loop thread of the forgotten client outlives the shutdown | "closes all sockets/clients, stops all threads" (`base_radio_client.h:66`) |
| `mqtt_topics_early` | before the first inbound message the tables are empty, and a message is published on a topic made of its id | "used to look up the correct PSID and build the MQTT topic" (`mqtt_radio_client.h:80-81`) |
| `frame_boundary` | the two-byte length is expected when the *frame* exceeds 127 bytes, so payloads of 125 to 127 bytes are refused; by `SizeRule` the only others judged otherwise are lengths that no encoder writes, two bytes for a short payload or two without the top bit | overheads for payloads above 127 and below 128 bytes (`base_radio_client.h:143-146`) |

Further disagreements, each with a configuration that exhibits it the same way:

| configuration: property | the code | what is said |
|---|---|---|
| `MCUdpRadioClientSockets`: `CloseClosesAllSockets` | `close()` leaves the listening socket open and bound: `UDPListener::stop()` only clears a flag (`udp_listener.h:126`) | "closes all sockets/clients, stops all threads" (`base_radio_client.h:66`) |
| `MCUdpDriverFormat`: `FormatMatchesTransport` | the `protocol` parameter changes how messages are packed but not the client that sends them (if, as the code assumes, the registered parameter callback is called) | "packs WAVE format for UDP, sends raw for MQTT" (`v2x_ros_driver_node.h:156`) |
| `MCUdpDriverDeaf`: `ReceiveFailureSignalled` | a failed wait ends reception for good; the listener's own `onError` has no slot | "Signaled when client experiences a fatal error" (`base_radio_client.h:90`) |
| `MCUdpDriverError`: `ErrorIsDealtWith` | `pre_spin`, which recovers from an error, is called by configure and the reconnect service only: without an operator the driver stays in error | "Called by the base DriverApplication class prior to Spin" (`v2x_ros_driver_node.h:138`) |
| `MCUdpDriverExit`: `ShutdownQuiesces` | a node destroyed without `handle_on_shutdown` destroys a joinable `connect_thread_`, and the process is terminated | "closes all sockets/clients, stops all threads" (`base_radio_client.h:66`) |
| `MCUdpDriverStranded`: `ConfigureConnects` | a second configure may find `connecting_` still set by the thread that connected the old client; `pre_spin` then starts nothing, and the new client is never connected | "Creates and configures the appropriate radio client" (`v2x_ros_driver_node.h:197`) |
| `MCFrameScannerLongest`: `ReportsTheFrame` | 16383 is compared with the size of the frame, so payloads of 16380 to 16383 bytes, which the length field can express, are given up | overhead of a frame with a two-byte length (`base_radio_client.h:143-144`) |
| `MCMqttDriverFreed`: `ReconnectIsSafe` | a reconnect during `connect()` lets `close()` destroy the client that `mosquitto_connect` is working on | "Allow pre_spin to reconnect" (`v2x_ros_driver_node.cpp:355`) |
| `MCMqttTopicsAmbiguous`: `MapAndSpatTopics` | `"0082"` is in the map twice, and MAP and SPAT share that PSID in the file: both get the topic that survives | `//MAP` of 2113687, `//SPAT` of 130 (`mqtt_radio_client.cpp:283-284`) |
| `MCMqttTopicsBeyond`: `LookupStaysInTable` | a look-up between the two pushes of an entry reads past the end of `wave_cfg_psids_` | "PSID hex string, or empty string if not found" (`base_radio_client.h:125`) |

## 6. What is not modelled

* Inbound content on MQTT: `handleMessage` gives the payload to `process()`,
  which `FrameScanner` models; `MqttDriver` says only whether a message may come.
* `lib_ref_count_`: the node makes a new client before it destroys the old one,
  so the count never returns to 0 between two, and nothing depends on it; queues
  kept over a reconnection (QoS above 0).
* The vectors of the wave tables being reallocated during a look-up.
* A configure that changes the transport: it joins the end of one composition to
  the start of the other, and shares nothing between them but the node.
* A configure that finds a connect thread which has not called `connect()` yet:
  the thread then uses whichever `radio_client_` it reads, and which objects that
  touches is undefined.
* Memory that cannot be allocated, but for the points of the table in section 2, and the
  connect thread itself that cannot be created (`v2x_ros_driver_node.cpp:395`): the exception
  leaves the callback, and `connecting_` stays set.
* Parameter values, launch files: static. `main` is `Exit`.
* The forwarder script (a stateless copy loop) and the shell scripts.
* Values in outbound text (priority, channel), and messages shorter than the two
  bytes of their id: noted as a hazard.

## 7. The plan

1. Done: `UdpRadioClient`, `MqttRadioClient` and their proofs, `DriverNode`,
   `UdpDriver`, `MqttDriver`, `FrameScanner`, `MqttTopics`.
2. Done: `RadioLink`, and both refinements, checked and proved.
3. Done: reconfiguration and destruction in the compositions.
4. Done: theorems about both compositions and the wave tables.
5. Done: the scanner's theorems, the types of received messages, and the node's own
   promises and its traffic without patience.
6. Left, model: joining `MqttTopics` with `MqttDriver`, so that the moment of the
   first inbound message follows from the connection; a composition whose
   transport changes.
