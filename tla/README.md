# Verification of modbusgw

TLA+ modules for the Modbus gateway in `src/modbusgw`, the TLC configurations that check them on
small instances, and theorems about them whose proofs TLAPS checks.

- [The system](#the-system): components, state, interactions, hard behaviours
- [The modules](#the-modules): what models what, and how it corresponds to the code
- [The runs](#the-runs): what TLC checks, bounds, fairness, findings
- [The proofs](#the-proofs): what holds for every value of the constants
- [Not modelled](#not-modelled) and [the plan](#the-plan)

Paths such as `core/bus.py` are relative to `src/modbusgw`.

## The system

The gateway is one asyncio process. Frontends accept Modbus requests and publish them on a bounded
bus topic; one dispatcher task routes each request to a backend and waits for its answer; one response
router task takes the answers from a second topic back to the frontend that asked. Code between two
awaits that really suspend is atomic, and every await that may suspend is a place where all other tasks
run: that is the grain of the actions in all modules.

```
 peers --> frontend handlers --(topic 'requests')--> Dispatcher --> backend.submit() --> device
              |    ^  _pending                            |
              |    '-- handle_response <-- ResponseRouter <--(topic 'responses')
              '---- one task per connection              one task each
```

| Component | State | Operations | Hard part | What makes it correct |
|---|---|---|---|---|
| Routing rules, `core/router.py` | the list of rules, fixed while the gateway runs | `add_rule`, `resolve` | wildcards, absent fields, the range comparison that raises on some requests | the plan of the first rule that matches |
| Bus, `core/bus.py` | one bounded `asyncio.Queue` per topic | `publish`, `next_message` | back-pressure: `put()` suspends, and others pass it | nothing is lost; who waits gets through |
| Dispatcher, `core/dispatcher.py` | its task; the request in its hands | `_run`: take, resolve, submit, publish | errors at each step; one request at a time | every request taken leads to one response |
| Response router, `core/responder.py` | its task | `_run`: take, `handle_response` | it awaits `drain()` of whichever client it writes to | no client can hold up another |
| TCP and Unix frontends, `frontends/tcp_modbus.py`, `unix_modbus_tcp.py` | `_pending` (`client_id:tid` -> request), client tasks, `_current_clients` | `_handle_client`, `handle_response`, `start`, `stop` | connections that end with requests anywhere on their way; reused transaction ids; peers that do not read | a reply goes to the connection and the tid that asked, in order, at most once, never after the clean-up |
| Virtual serial port, `frontends/serial_rtu.py` | `_buffer`, the silence timer, publishing tasks | `_read_loop`, `_trigger_flush`, `_finalize_frame`, `handle_response` | framing by silence: a timer against reads; replies without ids | no byte is left unwatched; no request is decoded twice; a patient master gets its own replies |
| TCP backend, `backends/tcp.py` | `_available`, `_connections`, `_total_connections`, `_tx_counter`, a lock | `submit`, `_acquire`, `_release`, `_retire`, `close` | check and count around an await; failures between acquiring and releasing; late and doubled answers | the pool is bounded and counted right; a connection has one user; a call returns its own answer and ends |
| Serial backend, `backends/serial.py` | `_session`, the stream's reader | `submit`, `_attempt`, `exchange`, `_reset_session` | frames carry no id: late answers, retries | a call returns its own answer and ends |
| Application, `app.py` | the runtime, the stop and reload events | `run`, `_start_runtime`, `_stop_runtime`, `_reload`, signal handlers | signals between any two steps; starts that fail half-way | runtimes never overlap; no signal is lost |
| Command line, `cli.py`, `rc.d/modbusgw` | the pid file | `start`, `stop`, `restart`, `reload`, `status` | several processes that check and act at different times; gateways that hang or crash | one gateway per pid file, which names it; a stop ends it |
| Messages, `core/messages.py` (`modbusgw_client/pdu.py` is a copy), `utils/crc.py` | none | `from_adu`, `with_unit`, `to_adu` of each PDU class | lengths, counts, bit order, frames that lie about them | well-formed frames pass unchanged; nothing malformed gets out |
| Client library, `modbusgw_client` | one connection | `execute`, `read_*`, `write_*` | a connection that times out or closes at any point; serial replies without ids | the device does what was meant; a call returns its own answer or raises |
| Configuration, `config/` | none | `load_config` | | only valid configurations reach the router |

Interactions: frontends and dispatcher share the `requests` topic, dispatcher and response router the
`responses` topic; the response router calls `handle_response` of a frontend (a callback that awaits the
peer); the dispatcher awaits `submit()` of a backend, one call at a time; the application starts and stops
all of them; signals only set events of the application. `PROJECT.json` lists the hazards of this code
one by one, each at its line, with the properties that are about it, or the reason why there is none.

## The modules

| Module | Models | Used by |
|---|---|---|
| `Router.tla` | `core/router.py` as operators | `Gateway` |
| `Gateway.tla` | TCP and Unix frontends, bus, dispatcher, response router; the backend is abstract | `MCGateway`, proofs |
| `GatewayService.tla` | what a client connection is promised (abstract) | refined by `Gateway` |
| `BackendContract.tla` | what the dispatcher relies on in `submit()` (abstract) | refined by `TcpBackend`, `SerialBackend` |
| `TcpBackend.tla` | `backends/tcp.py` and the device behind it | `MCTcpBackend`, proofs |
| `SerialBackend.tla` | `backends/serial.py` and the device on the line | `MCSerialBackend`, proofs |
| `PtyFrontend.tla` | `frontends/serial_rtu.py` and the master that uses the port, which may be `modbusgw_client/serial_client.py` | `MCPtyFrontend`, proofs |
| `Application.tla` | `app.py`, and `start`, `stop` of the TCP and Unix frontends with their connections | `MCApplication`, proofs |
| `Service.tla` | `ServiceController` of `cli.py`, the pid file of `app.py`, the processes they manage | `MCService`, proofs |
| `Messages.tla` | `core/messages.py`, and the frames that pass through it | `ClientApi`, proofs |
| `ClientApi.tla` | `modbusgw_client/api.py`, `pdu.py` and `tcp_client.py`, through the gateway to a device and back | `MCMessages`, proofs |
| `GatewayProofs` | theorems about `Router` and `Gateway`, with the refinement of `GatewayService` | |
| `TcpBackendProofs`, `SerialBackendProofs` | theorems about the backends, with the refinements of `BackendContract` | |
| `PtyFrontendProofs`, `ApplicationProofs`, `ServiceProofs`, `MessagesProofs`, `ClientApiProofs` | theorems about these modules; the last one builds on `MessagesProofs` | |

The two abstract specifications meet at the dispatcher: `Gateway` assumes of `submit()` what
`BackendContract` says (`BackendReturns`, `BackendRaises`: a call ends once, with the answer to its own
request or an exception), and the two backends are shown to keep it.

### Gateway

A connection stands for a `client_id`. Requests are numbered in the order the frontends register them;
`reqs` is a log of them (history, not code), and a number stands for a request wherever the code
hands its `RoutedRequest` on.

| Variable | Code |
|---|---|
| `client`, `got` | the peer's end: not connected, up, half closed, gone; replies it has read |
| `handler`, `held` | where `_handle_client` of the connection is; the request it waits to `put()` |
| `seats` | `_current_clients` of a Unix frontend |
| `pending` | `_pending`, 0 for no entry |
| `requests`, `responses` | the topics of `GatewayBus` |
| `dispatcher`, `task` | where `Dispatcher._run` is, and the request or response in its hands |
| `responder` | the client whose `drain()` `ResponseRouter._run` awaits |
| `sent` | the reply frames written to each connection |

| Action | Code |
|---|---|
| `ClientEof`, `ClientGone`, `ClientRead` | the peer, on its own |
| `Connect`, `Refuse` | `_handle_client` up to its first read: CIDR, DN, and `max_clients` of the Unix frontend |
| `ReadAndPublish`, `ReadAndWait`, `Put` | a frame is read and registered; `publish()` finds room, or waits and later finds it |
| `Cleanup`, `Closed` | the `finally` block up to and after `wait_closed()` |
| `Submit`, `Unroutable`, `Crash` | the head of the topic is taken and resolved: a backend, no backend, an exception |
| `BackendReturns`, `BackendRaises`, `Respond` | `submit()` ends; the response is published |
| `Discard`, `Swallow`, `Write`, `Drained` | `handle_response`: no entry, an error, a frame; the end of `drain()` |
| `Finished` | a stuttering step at the end of a bounded run, so that TLC's deadlock check means something |

Properties: every reply answers a request of its connection under its tid (`ReplyToOwnRequest`), in order
and at most once even when tids are reused (`RepliesInOrder`); no entry of `_pending` outlives its request
or its connection (`PendingIsInFlight`, `ClosedHasNoPending`); a reply pops the very entry it answers, for
a client that does not reuse unanswered tids (`ReplyPopsItsRequest`); nothing is written after the clean-up
(`SilentAfterCleanup`); the seats are counted right (`SeatsAreTaken`). `ServiceIsProvided` says all of it
at once in terms of a far simpler machine: `Gateway` implements `GatewayService`, in which the
requests of a connection are settled oldest first, each by at most one reply. Liveness: pending requests are
settled (`SettledUnlessStalled`) and waiting handlers get to publish (`PutSucceeds`), unless a client that never reads
again holds up the response router for good (`Stalled`, finding 1); and the handler of a peer that leaves or shuts its
sending side ends (`HandlersEnd`). That has two exceptions, which are the code's own: a peer that has shut its side and
does not read holds its own handler at `wait_closed()` (`HeldByItsPeer`), and a client that does not read holds every
handler that waits in `put()`, of departed peers too (`HeldByAnother`), each for as long as it goes on.
`PendingIsSettled`, what `README.md:5` makes one expect, is without exceptions and fails.

`Keeps` is what asyncio waits for: `drain()` until the unsent bytes are down to the low-water mark, once they have passed
the high-water one, and `wait_closed()` until there are none; a peer that is gone keeps nobody.

### TcpBackend

Calls and sockets are numbered; a frame is a call number and a transaction id. `task` says where each
caller is in `submit()`; `available`, `connections`, `total` and `counter` are the fields of the class; `sock`
has, per connection, the requests the device has not answered (`inbox`) and the answers not read
(`wire`). `ExchangeFails` stands for every way an exchange can fail (timeout, loss of the connection, also
while it lay in the pool, a mismatch, a malformed frame) and is possible at any time. `Cancel` and `Close`
are the shutdown: a cancelled call neither releases nor retires its connection, and `close()` must find it.
The requests outstanding on one connection never exceed one frame, so `drain()` never waits there.

Two things only the model's `Tasks` with more than one member show. First, a waiter is woken by
releases only, never by a retirement, so it may wait for good when all connections fail, and no property says that it
gets one (`CallsGetThrough` ends with the wait); with one caller, the gateway's dispatcher, nobody ever waits. Second, if the
transaction ids come around while one exchange is still open, a doubled answer left on a connection can match a
later request; TLC shows it for small `TxMod`. In the code that takes 65535 other exchanges during one slow one,
so `TxMod` is larger than the number of ids the run uses. With one caller it cannot happen, however many calls
there are: that is the theorem `OneCallerContract`. For any number of callers, and fewer calls than ids, it is
`ManyCallersContract`.

### SerialBackend

One caller, the dispatcher, so the backend's and the session's locks are never found taken and are left out.
`session` is the number of the open session, `line` the requests sent to the device with the session
they were sent on, `buffer` the answers in the reader. `AnswersLate` chooses the line: FALSE, an answer
that is not read before its session is reset never arrives (pyserial discards it on opening the
device); TRUE, it arrives in the reader of whichever session is open. With FALSE the backend implements
`BackendContract`; with TRUE it does not, see the findings.

### PtyFrontend

The master writes its numbered requests whole or in halves, and a frame is what lies in the buffer when
the line has been silent. The CRC is modelled by what it decides: the two halves of one request, in order and
alone, make a frame, and nothing else does. `patient` and `flushes` are chosen in the initial state: whether the
master waits as long as an answer may come, and whether it discards unread input before it writes, as
`SerialClient.execute` does (`reset_input_buffer`). `clean` is history: when it asked, the gateway had nothing of
it in hand and nothing lay unread. `RepliesAreOwn` says that a patient master gets its own replies, and an impatient
one does for each clean request, so that `SerialClient` is never shifted for good by a reply it gave up. From the bus on the gateway is abstract: it settles
requests in order, by a reply or by dropping an error.

### Application

A runtime is known by the version of the file it was started from and is a set of parts that are up: the core
tasks and the frontends. A file works, does not load, or fails the start at one of the places where
`_start_runtime` can raise. `serial` records the serial sessions that are open: `SerialBackend` has no `close()`,
so sessions of old runtimes stay there (a hazard without a property, the repository promises nothing
of it). A start that fails half-way leaves what it has started up and forgets it: `RuntimeIsWhole` says that while the
application waits its runtime is up as a whole, or, after such a start, exactly the core tasks and the frontends before the
one that failed are.

Of a connection `conn` keeps where its handler is: accepted and not begun, served (its task is in `_tasks`), or
cancelled and closing its writer. `stop` says how far `stop()` of a frontend has got: the server is closed
(`CloseServer`), `wait_closed()` has returned and the tasks in the set are cancelled (`ServerClosed`), and they have
ended (`StopPart`). `waits` is chosen in the initial state: whether `Server.wait_closed()` waits for all
connections, as it does from Python 3.12.1 on; `pyproject.toml` admits both. Two things follow, and the
properties name both. If it waits, a client that stays connected holds up `stop()`, since the tasks are
cancelled only afterwards, and the reload or shutdown with it; so does, with any version, a client that does not
read what its cancelled handler has to write (`HeldUp`, the one exception of the liveness properties). If it
does not wait, a connection accepted but not begun when the server closes is in no task set; its handler
outlives the frontend (`late`, the one exception of `HandlersEndWithTheirFrontend`).

### Service

Administrators (`cmd`) and gateways (`gateway`) are processes; each system call of a command is a step. `Read` is
`_read_pid_file`; `StartChecks`, `StopChecks`, `ReloadChecks`, `StatusChecks` are `_pid_is_running` and what follows;
`StartUnlinks` and `Spawn` are the rest of `start()`; `Term`, `Waited`, `TimedOut`, `Kill`, `Remove` that of `stop()`;
`Hup` that of `reload()`. A gateway opens and truncates the pid file when its runtime is up, writes it in a second
step (`OpenFile`, `WriteFile`), again after each reload, and removes it on its way out (`Leave`). `writers` keeps
who has the present file open, since what is written to an unlinked file is lost. `End` is the end of a process, at
any time; `Interrupt` a signal from elsewhere.

`patient`, chosen in the initial state, is how the commands are used: one at a time, each when the one before it has
worked. `README.md:71` has the pid file "prevent multiple running instances". For patient use it does, whatever
crashes or hangs (`SingleInstance`, `PidFileIsTrue`, `StopLeavesNothing`). Without patience two gateways can run:
`start` returns when the daemon is forked, long before the pid file is written, so a second `start`
finds nobody, removes the file and forks another (`cli.py:191`). The lock of `Daemonize` does not prevent it, because
its file is unlinked first (`cli.py:136`). With frontends on TCP ports the later gateway then fails at `bind`; frontends
on Unix sockets and ptys replace the other gateway's, and both stay up. `StopIsHonoured` and the first half of
`StopLeavesNothing` hold without patience, too.

### Messages

No frame is passed on as it was read: a frontend decodes the request, the backend encodes it again, and
the answer goes the same way back. `Receive`, `Route`, `Forward` are the way of a request (`from_adu`,
`with_unit`, `to_adu`), `Answer` and `Reply` that of an answer; a frame that does not decode is dropped by
the frontend or fails the call of the backend. `came` and `went` are the ADUs on the two sides, `msg` the
message between them. The PDU classes differ in few things only, so each is one case of `Readable` (does
`_from_payload` raise?), `Header`, `Values` (what it keeps) and `Encode`. `RequestFits` and `AnswerFits`
are the reference: they say what a PDU looks like by its lengths, counts and padding, and share nothing with
the decoders.

Frames that lie about their lengths are inputs like any other. What the code makes of them is not always a
refusal: registers that are too few for their quantity raise, but coils that are too few are sent on as a
shorter write, trailing bytes are cut off, and the answer to a read is cut to what is there. `NothingMalformedGetsOut`
says that count, quantity and data agree again whichever way it went, `Transparent` that honest frames are
not touched, and `MeaningIsKept` that the far side reads exactly what the router decided on.

### ClientApi

`modbusgw_client/pdu.py` has the text of `core/messages.py`, so the library's ends use the operators of `Messages`, and
the gateway between them its actions `Route`, `Forward`, `Reply`. `Call`, `Execute`, `Return` are `api.py` and
`TcpClient.execute`: a call is built, sent on the open socket, and its result decoded. The device (`CarryOut`) reads
and answers frames by operators of its own; what it is asked for it gives if a byte can count it. A call whose address,
quantity or byte count does not fit its field raises before it is sent (`Sendable`). `Meant` says what it should have understood.
A coil may be given as a bool or as an integer, which the library does not convert: it is sent as the word it is, masked
to 16 bits (`CoilWord`). A device carries out the two words the protocol knows and refuses the others, so
`write_coil(a, 1)` ends in an exception of the device, and 65536 clears the coil.
`socket` is `none`, `open`, or `dead`, closed by the peer and not yet by the client; `owed` counts the answers to calls
that timed out and are still to come on it. `EndToEnd` says that coils, registers, formats and exceptions arrive as
they were given, the last byte of coils being filled or not, and that no call meets the answer to an earlier one.
The last depends on one line: a timeout closes the socket (`tcp_client.py:77`), while a mismatched transaction id does
not, and would be followed by another at each call.

`modbusgw_client/README.md:60` has all errors derive from `ModbusClientError`, with `ProtocolError` for payloads and
formats that do not fit (line 64). The code does not: such a format raises a bare `ValueError` (`api.py:207`, `api.py:215`)
and a field out of its range `struct.error` (`tcp_client.py:69`). `ErrorsAreClientErrors` names these cases, all of them
of the arguments or of the number of registers in an answer, and shows that there are no others: whatever the
connection, the gateway and the device do ends in a `ModbusClientError`. `from_adu` is called outside the `try` block
(`tcp_client.py:81`), but the gateway lets no answer through that it would refuse; without the gateway it could raise.

Two things the model shows that no property forbids. A socket that the gateway has closed stays in `_socket` if
`recv()` gives nothing: `connect()` then does nothing, and the client must call `close()` first. And a reply carries the unit id that the backend's device
answered with, which differs from the caller's under a `unit_override`; `PendingRequest.unit_id` is stored and not used,
and the client library does not look at it.

## The runs

| Run | Question | Result |
|---|---|---|
| `gateway_safety` | three connections on a TCP and a Unix frontend with one seat, topics of two, reused tids, departures at every point, error responses, a request that ends the dispatcher: are the safety properties and the refinement of `GatewayService` kept? | yes |
| `gateway_live` | one client reads, the other need not and can fill the bus behind itself, topics of one, both leave or half-close at any point: is there a deadlock, is everybody served, do handlers end? | no deadlock; all served and ended but for the cases named above |
| `gateway_stalled` | a client that does not read: is another client always served? | **no**, finding 1 |
| `gateway_raw` | does the dispatcher outlive every request? | **no**, finding 2 |
| `tcp_pool` | three callers on a pool of two, failures anywhere, doubled answers, shutdown: is the pool right? | yes |
| `serial_timely` | retries, answers in time or never: does each call end with its own answer? | yes |
| `serial_late` | answers that come after their timeout | **no**, finding 3 |
| `app_lifecycle` | signals and edits between any two steps, a client at every stage of its connection, waiting and not waiting `wait_closed()`: do runtimes overlap, what does a failed start leave, do handlers outlive frontends, are signals lost? | no, but for the cases named above |
| `app_reload` | is a SIGHUP always followed by a load? | **no**, finding 4 |
| `messages` | each short frame of each PDU class, honest or not, and each call of the client library, with timeouts and closed connections: does it come out as it should? | yes |
| `service` | two administrators and two gateways, each system call a step, with crashes, hangs and signals: is there one gateway, does its pid file name it, does a stop end it? | yes, for patient use |
| `pty` | reads, silences and a full bus in any order, masters that wait or not, flush or not: are bytes watched, replies single and own? | yes |

### Findings

1. `frontends/tcp_modbus.py:99`. `handle_response` awaits `drain()` inside the one response router
   task: a client that stops reading holds up the replies of all others for as long as it stays connected.
2. `core/dispatcher.py:48`. `resolve()` is outside the `try` block. A function code without a class of its own
   gives a `RawModbusRequest` whose `register` is the bound classmethod of `core/messages.py:70`; compared with the
   bounds of a rule's `register_range` it raises `TypeError`, which ends the dispatcher for good.
3. `backends/serial.py:66`. The input is not discarded before a request, and the answer is compared with the
   request in nothing: an answer that comes after its timeout answers the retry, or the next request.
4. `app.py:66`. After a reload whose start failed there is no runtime, and without one `run()` does not
   await the reload event: a corrected file is never loaded.

Two more disagreements with the documentation are not runs of their own: errors of the client library that are no
`ModbusClientError`, see [ClientApi](#clientapi), and two gateways after two hasty starts, see [Service](#service).

### Bounds

- `MaxRequests`, `MaxSubmits`, `MaxEdits`, `MaxHups`, `MaxPids` end the runs; they are in guards of actions of the
  environment, never of the code.
- Gateway: three requests fill topics of one or two and leave a handler waiting in `put()`; one tid is
  enough for reuse; three connections are enough for two that compete for the one seat while the third shares
  the bus. `SockBuf = 0` and `HighWater = 0` make `drain()` wait for every unread reply, the worst case; in
  `gateway_safety` the marks are one and zero, so that it waits for a second one, and `wait_closed()` for the first. In
  `gateway_live` five requests are the least that leave a handler waiting for good: one in `drain()`, one in each topic,
  one with the dispatcher, and the one in `put()`.
- TcpBackend: three callers on two connections is the least with a waiter while the pool is in use; the
  fourth call reuses a connection. `Copies = 2` is the least with a stale answer.
- SerialBackend: three attempts, four calls: a call can fail at all attempts and be followed by others that do not.
- PtyFrontend: four requests in halves let frames be cut, joined and answered late.
- Messages: one function code of each PDU class; every payload of up to five bytes, and for the two classes with
  a header, a count and data, every payload of up to four and those of up to eight behind one address. Bytes have three
  bits, and these payloads take those with none, one or all of them set: seven coils then
  fill three bytes, the last of them in part or whole, and every count can be right, too small and too large.
- ClientApi: bytes of three bits make words of six and a byte count that overflows at four registers. Calls read up to
  five coils or three registers, one more than the last full byte; all registers are taken from four values. Integers
  for a coil are 0, 1, the word that sets it (56), one masked to 0 (64) and one masked to the word that sets it (120).
- Service: two gateways are the least that can be one too many, and two administrators the least that can interfere.
- Application: two edits give three configurations, each of any kind; three SIGHUPs give one during a reload. One client
  with one connection at a time is enough: the handlers of two do not interact.

### Fairness

Weak fairness of each task's steps, and only of the code's: the loop runs every task that can run, and
each wait for a device ends (every one of them has a timeout: `request_timeout_ms`, the connect
timeouts, `wait_for`). Peers need not connect, ask or leave; clients in `Prompt`, and the master of
the pty, read their replies. In `Application` no client has to leave or to read. In `Service` commands go
on, and a killed process ends; a gateway need neither heed SIGTERM nor get through with its exit. Weak fairness of `Put` is a little more than asyncio gives: a `put()` that
waits can be passed by later ones, but only as often as there are requests, which the runs bound. No
strong fairness is assumed anywhere.

`CHECK_DEADLOCK FALSE` stands where a bounded run simply comes to its end (backends, application, pty) or the
system really stops (`gateway_safety`: a request that ended the dispatcher leaves the topic
full). `gateway_live` checks for deadlock.

## The proofs

TLAPS proves these for every value of the constants that satisfies the named assumptions of the modules:

- `GatewayAssumption`: each connection is to a configured frontend, a Unix frontend has a number of seats, and buffer and
  water marks are numbers;
  `RulesAssumption`: rules are numbered and unit ids are integers, as pydantic validates;
- `TcpBackendAssumption`, `SerialBackendAssumption`: there is room for a connection and at least one attempt, and
  transaction ids differ from one call to the next;
- `ApplicationAssumption`, `ServiceAssumption`, `PtyFrontendAssumption`: the bounds are numbers, and there is a frontend;
- `MessagesAssumption`: what is read are sequences of numbers, bytes from the payload on. That `2 ^ 0` is one, and each
  power up to `2 ^ BitsPerByte` a number that is twice the one before, is stated there because the provers know nothing
  of powers; TLC evaluates it;
- `ApiAssumption`: the arguments of calls have the types that the library takes (a single coil is a bool or any
  integer, several are converted to bits, registers are integers of any size, formatted values are bytes), devices hold words, an answer that fits no request is still an
  ADU of bytes, unit ids are numbers, and a byte can hold an exception code.

Bounds such as `MaxRequests` and `MaxSubmits` are constants like any other: the theorems hold for all of them, so
for runs of any length.

| Theorem | Says | Argument |
|---|---|---|
| `FirstMatchRoutes`, `NoRouteMeansNoMatch`, `AddRuleKeepsRoutes` (`GatewayProofs`) | a route is the plan of the first rule that matches; there is none exactly if none matches or raises; adding a rule changes no route there is | the set of rules the loop stops at has a least index, by the well-ordering of `Nat` (`SmallestNat`) |
| `TypeCorrect` (`GatewayProofs`) | `[]TypeOK` | `TypeOK` is not inductive: that what the dispatcher publishes, and what a waiting handler puts, is a request needs `HasTask` and `HasHeld` |
| `RepliesGoHome` (`GatewayProofs`) | `[]ReplyToOwnRequest` | `KeyMatch`: an entry of `_pending` is stored under the client and tid of its request. A response finds its entry by its own request's key, so the entry it pops has the same client and tid although it may be a later request's |
| `CleanupIsFinal`, `ClosedIsSilent` (`GatewayProofs`) | `[]ClosedHasNoPending`, `SilentAfterCleanup` | `OnlyServedPend`: only a connection whose handler reads or waits in `put()` has entries. Registering is the one step that adds an entry (`RegisterOrShrink`), clean-up the one that leaves these states (`OnlyCleanupStops`), and it removes them all |
| `PendingLives`, `RepliesKeepOrder`, `ReplyIsToItsEntry` (`GatewayProofs`) | `[]PendingIsInFlight`, `[]RepliesInOrder`, `ReplyPopsItsRequest` | `FlowInv`, below |
| `GatewayImplementsService` (`GatewayProofs`) | `ServiceIsProvided`: `Gateway` implements `GatewayService` | each step of `Gateway` is one of the service or a stutter: registering a request is `Ask`, clean-up and refusal `Close`, a response without entry or with an error `Drop`, a frame written `Reply`. That it is the oldest unsettled request of the connection is `FlowInv` |
| `SeatsAreCounted` (`GatewayProofs`) | `[]SeatsAreTaken` | by itself inductive once the set of seated connections is known to be finite: each step adds one to the set and the count, takes one from both, or leaves both |
| `PoolBounded`, `ClosedStays`, `WaitsForUsers` (`TcpBackendProofs`) | `[]PoolIsBounded`, `[]ClosedForGood`, `WaitsOnlyForUsers`, for any number of callers | `Calls`: an unfinished call is that of one task. `Accounted`: a connection is in use by one call or once in the pool, and only a cancelled call leaves one that is neither. `OneConnects`: the lock admits one task to connecting |
| `Exclusive`, `OneCallerContract` (`TcpBackendProofs`) | if one task calls `submit()`, `[]ConnectionsAreExclusive`, and `TcpBackend` implements `BackendContract` | `OneCall`: all that is left on a connection in the pool has the last id given out, so it does not match the next request; and while a call is under way, an older answer is either gone or the first to be read, which ends the connection |
| `ExclusiveForAll`, `ManyCallersContract` (`TcpBackendProofs`) | the same for any number of callers, whose calls wait for the lock and for each other, if there are fewer calls than transaction ids | `Counted`: ids given out and calls that have sent nothing are together at most the calls made, so the next id is new. `Owing`: what is left on a connection in the pool carries ids that were given out and none to come; and on one in use the frames with the id of its call are answers to that call, and are there only when its request is no longer in the inbox |
| `SerialTypeCorrect` (`SerialBackendProofs`) | `[]TypeOK`, whenever answers come | with `CallInv`: the call in progress is the last one, the only one pending, and has an attempt left while it backs off |
| `TimelyQuiet`, `TimelyContract` (`SerialBackendProofs`) | if answers are never late, exchanges begin with a quiet line and `SerialBackend` implements `BackendContract` | `LineInv`: at most one answer is still to come on the open session, in the reader or on the line, and it belongs to the call in progress. The refinement maps the start of `submit()` to `Submit`, its end to `Return` or `Raise`, and all else to stuttering |
| `BufferWatched`, `RepliesOnce`, `RepliesOwn` (`PtyFrontendProofs`) | `[]BufferIsWatched`, `[]RepliesComeOnce`, `[]RepliesAreOwn` | `Order`: halves lie in the buffer and the input in the order they were written. `Apart`: a request is in one place, among these bytes or past `_finalize_frame`, and there once. `Due`: while a master waits that is patient, or has asked in peace, nothing of any other request is under way |
| `OneRuntime`, `WholeRuntime`, `HandlersEnd` (`ApplicationProofs`) | `[]OneRuntimeAtATime`, `[]RuntimeIsWhole`, `[]HandlersEndWithTheirFrontend` | `Upkeep`: at each place of `run()`, what is up are the first parts of the runtime being started, the rest of the one being stopped, or all of one; and while it waits without a runtime, the first parts of the one whose start failed. `Handlers`: the frontend of a handler is up, unless the handler is `late`, and once the frontend has cancelled its tasks it has none that is neither cancelled nor late |
| `OneInstance`, `FileIsTrue`, `StopMeansStopped` (`ServiceProofs`) | `[]SingleInstance`, `[]PidFileIsTrue`, `[]StopLeavesNothing` | `Known`, whoever does what: a pid that was read is that of a process that exists or has existed. `Orderly`, for patient use: at each place of a command, which gateway there can be besides the one whose pid it has read; and the file a gateway has open is the one that will be read |
| `EncodeThenDecode`, `DecodeThenEncode` (`MessagesProofs`) | `_from_payload()` reads what `encode()` has written, and `encode()` writes a well-formed payload as it was, in every PDU class | words are their two bytes (`UnpackPack`, `PackUnpack`), a byte is the one that has its bits (`BitsExist`, `BitsDetermine`), so coils are their bytes (`CoilsReturn`, `BytesReturn`), and a slice behind a header of known length is what was put there (`SliceOfRest`); then one case per class |
| `MeaningKept`, `NothingMalformed`, `GatewayIsTransparent` (`MessagesProofs`) | `MeaningIsKept`, `NothingMalformedGetsOut`, `Transparent`, for frames of any length and bytes of any number of bits | `MsgInv`, of which `Carried` is the part about a frame inside: at each place the message is what was decoded from `came`, with a unit of the plan's, and `went` is its encoding. `FitsIsShape`: the reference and the decoders agree which class a function code has |
| `CallsComeThrough` (`ClientApiProofs`) | `[]EndToEnd`: a device does what the caller meant, the caller gets what the device gave, its exception, or an error of whichever class, and never the answer to another call; for every call, integers for a coil included, every device, unit plan and width of a byte | three codecs in a row: `RequestOfCall`, what `SentAdu` writes is decoded as what was `Built` and written again so that `DeviceReads` it as `Meant`; `CarriedOut`, the answer to it has the right layout and is decoded as what the device held (`BitsReturned`, `WordsReturned`); `ResultIsRight`, what the library makes of it. `ApiInv` says whose request and whose answer is under way at each place, and that `owed` is 0 |
| `OthersAreTheCallers` (`ClientApiProofs`) | `[]ErrorsAreClientErrors` | what a call reads is `Decodable`, since the gateway has written it, so `AnswersRaise` has the errors it can end in; a format that misfits an answer of the device misfits the call |
| `CallsAreCarried` (`ClientApiProofs`) | the three properties of `Messages` hold for the frames of calls, too | `ApiInv` contains `Carried` |

`Inductive`, `SafeInvariant`, `FlowInvariant`, `PoolInvariant`, `OneCallInvariant`, `ManyInvariant`, `PortInvariant`, `ApplicationInvariant`,
`ServiceInvariant`, `MsgInvariant`, `ApiInvariant` and the lemmas named after steps state the inductive invariants themselves.

`FlowInv` is the one a reader should know. `Pipeline` is the requests on their way through the gateway as one
sequence, oldest first: the topic `responses`, the dispatcher's hands, the topic `requests`.
Each connection's part of it is in ascending order (`Sorted`), a request that a handler still holds is younger than all
of it (`HeldLast`), and whatever has been answered on the connection is older than all that is still on its way
(`SentBefore`). None of the properties is inductive without it: that a reply is not out of order is a fact about where
all the others are. `OnePerTid` adds for careful clients that two requests on their way have two tids.

The hypotheses are those the program meets. `OneCaller` (one task calls `submit()`, and there are more than two
transaction ids): the dispatcher is the only caller, and ids have 16 bits. `FewCalls` (`MaxSubmits` below `TxMod`) is
what the run `tcp_pool` has, too; why many callers need it is said above. That answers are not late is what
`serial_late` shows to be needed.

Facts about the bits of a byte need an induction over their number, and the library's induction theorems take an
operator as a parameter, which the installed provers cannot instantiate. `SmallestNat` takes their place: the set of
counterexamples, if it is not empty, has a least element, and the step is proved for that one. For this `PackCoils`
says which byte it makes by the bits it has, and not by a sum over them.

Only model-checked: liveness, since fairness and `ENABLED` are beyond the prover. Every invariant and action property
that a passing run checks is proved, and so is every refinement. `TypeOK` of `TcpBackend`, `PtyFrontend`, `Application`
and `Service` are conjuncts of the proved invariants and not among the properties of a run.

## Not modelled

- The command line's parsing of arguments, its log file and umask, the `rc.d` script; process ids that the system uses
  again, and pid files whose setting changes between two commands.
- In the client library, calls with bytes or sequences instead of values, unit ids that are no bytes, and more of a
  format than its size; serial ports that fail to open or write.
- The arithmetic of the CRC: it is modelled by what it decides.
- `start` and `stop` of the virtual serial port: what a thread blocked in `os.read()` does when the descriptor under it
  is closed, and when a process with such a thread can exit, is up to the operating system and `ThreadPoolExecutor`.
  For the same reason `os.write()` to a port nobody reads is left out (finding 1 again, in a thread).
- TLS set-up and the parsing of distinguished names: library work, behind `Allowed`. Modes of socket files.
- Delays, logging, the tracer and topics that nothing uses, and the placeholders (`brokers`,
  `security/filters.py`, `core/lifecycle.py`).
- `bus.response_timeout_ms` (`README.md:90`) is read by no code, so there is no timeout to model.

## The plan

What is left, in this order:

1. For many callers of `TcpBackend`, the weaker hypothesis that fewer ids are given out during one exchange than there
   are, in place of `FewCalls`.
2. A composition of `Gateway` with `BackendContract` in place of its abstract backend, and the serial framing, where
   the first prefix with a valid CRC ends a read.

Runs are kept few, one per question; a composition takes the place of a run of one of its parts.
