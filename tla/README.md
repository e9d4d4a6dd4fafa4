# A verification of meteo-station

`meteo-station` is a home weather station. A device reads a particulate-matter
sensor (PMS5003) every five minutes and posts each measurement over HTTP; a
server stores the measurements in Postgres and serves them; an app shows them.
The repository holds two generations of device and server. This directory holds
TLA+ models of its programs, the configurations with which TLC checks them on
small instances, and proofs, checked by TLAPS, that the most important
properties hold for all instances.

Run everything from this directory:

    tlc -workers 2 -config GoServer_safety.cfg MCGoServer.tla    # one run
    tlapm GoServerProofs.tla                                     # one proof module

## The system

| component | state | operations | talks to | hard behaviour |
|---|---|---|---|---|
| **go-server** (`go-server/main.go`) | none of its own but open database connections | POST/GET `/pms5003`, GET/PUT `/technical/location`, GET `/devices` | clients (HTTP), Postgres | a goroutine per request; a connection pool per request, not always closed; a database that fails before, in and after a statement; restarts |
| **database** (`db/`) | tables `pms5003_measurements`, `location`; connection slots | insert, select | the servers | no keys or constraints: the order of rows is the heap's |
| **esp-device** main and Wi-Fi (`main.c`, `network.c`, `time.c`) | retry counter, event group, sockets, program counter of `app_main` and of the measuring task | start-up, measuring loop, event handler | Wi-Fi driver, SNTP, go-server | an event handler in another task; flags that are never cleared; errors that reboot |
| **esp-device** UART (`pms5003.c`) | the driver's ring buffer | length query, read, flush, validate | sensor (9600 baud, unasked) | an interrupt handler fills the buffer while the task reads and flushes it |
| **esp-device** HTTP client (`http_client.c`) | client handles never cleaned up | `post_data` | go-server | any status is a success |
| **frontend** (`frontend/`) | devices and their measurements, the window of time | loading the devices, polling, map | go-server | overlapping polls, a window that stands still, a loader that one failure ends |
| **server** in C (`server/`), predecessor of go-server | threads, descriptors, connections | POST/GET `/measurements/PMS5003` | clients, Postgres | a thread per client, one `recv` into an uninitialised buffer, leaks |
| **common** (`common/`) | - | base64, JSON arrays | server, device | pure algorithms |
| **device** (`device/`), Raspberry Pi | - | as esp-device | server | does not compile at this commit |
| **legacy/server**, **circuits** | - | - | - | dead code by the repository's own README; board files |

What makes each correct: a server stores what it acknowledges, tells the truth
about the rows it was sent, answers reads with what was stored, ends every request, and gives back what it takes from the database. The device's
event handler gives up neither too early nor never, the device recovers from
whatever can fail, and what it posts is a frame the sensor sent. The station as a
whole records what was measured, in order. A viewer shows what was stored. The
parsers and conversions between them change no value.

The hazards in the code, each at its line and with the properties aimed at it,
are listed in `PROJECT.json`.

## The modules

| module | what it is |
|---|---|
| `GoServer` | go-server with the database it talks to |
| `MeasurementStore` | the abstract store that both servers implement |
| `MCGoServer` | instances of `GoServer` for TLC |
| `GoServerProofs` | theorems about `GoServer`, the refinement among them |
| `CServer` | the C server: its accept loop, its threads, the database they talk to |
| `MCCServer` | instances of `CServer` for TLC |
| `CServerProofs` | theorems about `CServer`, its refinement among them |
| `EspDevice` | start-up, measuring task, Wi-Fi events of esp-device |
| `EspDeviceProofs` | theorems about `EspDevice` |
| `Pms5003Uart` | how esp-device takes frames off the serial line |
| `Pms5003UartProofs` | theorems about `Pms5003Uart` |
| `Station` | the devices' measuring tasks, the network and `GoServer`, composed |
| `MCStation` | an instance of `Station` for TLC |
| `StationProofs` | theorems about `Station`, on top of those about `GoServer` |
| `Viewer` | the app: the component `Measurements` and the map's markers |
| `ViewerProofs` | theorems about `Viewer` |
| `Codecs` | pure algorithms: form and query parsers, base64, from frame to row |
| `MCCodecs` | bounded inputs for `Codecs`, and its properties |
| `CodecsProofs` | theorems about base64, the checksum and the path from frame to row, and what they rest on: loops, positions in a text, bits |
| `FormProofs` | theorems about the form and query parsers, and the properties of `MCCodecs` for any bounds |

Each module's mutated definitions (`Mut...`) are variants with a plausible bug;
for every property `PROJECT.json` names one that breaks it.

### GoServer

A request is a process. `pc` says where its handler is (`auth`, `decode`,
`connect`, `query`, `respond`, `done`), and an action is what the handler does up
to the next point at which the database or another goroutine can be observed.
The five handlers are one program with differences, which the actions keep:
`postMeasurements` decodes before it connects, the others after
(`Authenticate`, `Decode`, `Connect`); it has no deferred `db.Close()`
(`DropIdle`, `Respond`); a `nil` pool is answered by it and makes the others
panic (`ConnectFails`); only `getMeasurements` looks at `rows.Err()`
(`StreamBreaks`). A body that breaks off under `DumpRequest` has been answered
500 before anything else is looked at (`Answer`).

`conn[r]` is the connection of the pool that request `r` opened: `idle`, `busy`
(lent to open rows), `orphan` (busy when its pool was closed). The database has
`MaxConn` slots. Rows are named by the request that wrote them, and `stamp` is
their place in the heap, which orders the scan of `getLocation`. `seen` and
`accepted` are history variables.

What is wrong with a request is data: `flaws` is the set of ways in which its
handler will refuse it. Values are abstract: a timestamp, a window, a device.

Assumed of what is not in the repository: Postgres is durable, does not end idle
connections and does not restart; a sequential scan of a table that is only
appended to returns rows in the order of insertion; the session's time zone is UTC, so that
`timestamp.Unix()` gives back what was stored; lib/pq's own retries store
nothing twice; net/http recovers the panic of a handler and drops the
connection; a pool that is not closed stays reachable from its
`connectionOpener` goroutine; the Go runtime collects garbage at least every two
minutes. A result may break off between two rows if the constant `StreamFaults`
is `TRUE`.

`MeasurementStore` states what a client can rely on: a request opens, may store
its row or look at the rows, and closes as acknowledged (the row is stored, or
the read saw every wanted row acknowledged before it opened), refused (nothing
is stored) or in doubt. The refinement maps the statuses 200, 400/401 and
everything else to these outcomes.

### CServer

`main` accepts and starts a detached thread for each connection; `handle_client`
is the thread. `pc[c]` says where client `c` is: `backlog` (connected, not
accepted), `recv`, `route` (bytes are there), `connect`, `query`, `send`, `done`.
An action is what the thread does up to its next system or database call.
`heard[c]` is what the parsing functions make of the bytes, named after the
early return it leads to in `_handle_get_request` and `_handle_post_request`.
The buffer of `recv` is neither cleared nor terminated, so that even a request
that comes whole is read on into what an earlier one left there, up to the next
NUL: `Sent` is the set of verdicts this leaves open. The request line ends in
itself and decides everything about a GET; a POST may gain credentials or a blank
line that it lacks, and its body (`Body`) may come out as it was sent (`right`),
with other values (`wrong`), without a `device_name` (`unset`) or as one that does
not parse. Where requests come in pieces (`"cut" \in Faults`) the verdict is any
(`Garbled`). `Crash` is `strlen` of a body that is not there, or a `memcpy` of -1
bytes for a query parameter without its `=` (`Codecs` has the algorithm);
`CrashUnset` is a `device_name` that was never set, printed into the INSERT or
freed after it. Both end the process under all its threads (`End`), as SIGINT
does (`Interrupt`).

`fd` and `conn` are what costs: a client's descriptor is closed after an answer
and not when `recv` returned nothing; a `PGconn` is finished only if it could not
be established, and takes a descriptor and one of `MaxConn` slots until libpq
closes a broken one or the process ends. `"read" \in Faults` lets a SELECT fail.

Refinement: a client that was heard right (`Meant`) is acknowledged by 200. 400,
403, 404 and the message of an unsupported protocol refuse, whatever was heard; 500,
no answer, and a 200 to a client that was not heard right are in doubt. In plain
words: the 200 of this server may stand for a row with other values than the
client's, and nobody can tell; the refinement promises nothing about such a row,
but it does no harm to the clients that were heard right.

Assumed: Postgres as above; the environment variables of the connection are set
(`_createConnInfoFromEnvs` calls `exit` on the first request to the database
otherwise); `PQconnectdb` and `PQexec` return in the end; threads
can be created; a client reads its answer (a `send` to a client that has gone
would end the process by SIGPIPE), and the first letters of a request, the name
of its method, are not cut. Requests that hold a `%` or a quote are left out (the
first is taken for a format by `snprintf`), and so are the memory that is leaked,
the length of the listen queue, and the way of a row's timestamp back into a number
(`tm_hour += 1` and time zones in `_database.c`): a read is the set of its rows.

### EspDevice

`phase` is the next call of `app_main` and then of `vTaskPms5003`; `link` is the
Wi-Fi driver's state; `events` is the queue of the event loop, whose task runs
`event_handler` (`OnStart`, `OnDisconnected`, `OnGotIp`) on `retry`
(`s_retry_num`) and `bits` (the event group). `error_check` calls `exit(1)`,
which on ESP-IDF aborts and reboots: `Reboot`. `env` is what works in the world
(access point, server and time, hardware) and changes at any time. `drops`
counts disconnections for the properties.

Assumed: the driver accepts `esp_wifi_connect` in a started station and ends
each attempt with an event; faults of a fixed configuration (an ssid that is too
long) are left out; a post succeeds whenever the network works and a socket is
free, whatever the status, as in `post_data`.

### Pms5003Uart

The bytes of the sensor's stream are numbered and stand for their values, so
frame `k` is `FrameSize` numbers. `Receive` is the interrupt handler, which can
run between any two steps of the task: `GetLength`, `ReadBytes`, `Flush`,
`Validate`, `Wake`. `buffer` holds the bytes that were received and not yet taken;
a full one drops what arrives. A byte may be altered on the line. `Verdict` is
what the header's two bytes and a sum of 16 bits can tell, and no more: a frame
as it was sent is valid, a frame with one byte altered is not, and of everything
else (several altered bytes, parts of two frames) either answer is possible, so
that such bytes may be posted. That a frame with one byte altered is refused is
proved of the checksum itself (`ValidateData` in `Codecs`, `AlteredByteIsFound`).

### Station

`Station` EXTENDS `GoServer`: a request is a measurement `<<device, number>>`, the
number being also its timestamp, and the server's actions are used as they are.
`task` is what each device's measuring task does: `Measure` reads a frame, stamps
it and puts the post on the network (`net`); `Hear` takes any answer with a status
and goes back to sleep, as `post_data` does; `GiveUp` is a timeout, a refused or a
dropped connection, after which the chip reboots (`Boot`) and has forgotten the
measurement. `Deliver` and `Lose` are the network; a post that was given up may
arrive all the same, before or after the reboot. `heard` is what the device has
learned, `calm` is history: nothing has gone wrong but for a full database.

Assumed: the network delivers a request at most once (TCP), the HTTP client gives
up after its default of five seconds, and does not repeat a post by itself (a 401
of go-server carries no challenge). Start-up, Wi-Fi and the leaked sockets are
`EspDevice`'s; here a device that boots comes up. While the server is down a post
is one that is lost.

### Viewer

JavaScript runs one continuation at a time, so an action is what runs between two
`await`s. The loader (`load`, `names`, `todo`) fetches the list of devices, then the
location of each, and sets the devices when it has all (`SetDevices`); any answer
that is not JSON ends it (`LoadFails`). `poll[s]` is a poll under way, one of
`Slots`; `TakeIn` is what follows its `await`s: it reads `devicesRef` as it is by then
and replaces the measurements of every device. The window is that of the mount
(`since`): `timestampFrom` and `timestampTo` are state that nothing sets. `Marker` is
the row that the map writes at a device, `measurements[0]`. The server is what
`MeasurementStore` promises: rows are not lost, and an answer holds the rows of its
window at one point between request and answer. `overtaken` and `blocked` are
history.

Assumed: a name that a URL does not carry as it is (`Awkward`) is not, cut off or
misread, the name of another device with a location; device names in the list are
distinct; polls under way are at most `Slots`; a component that was unmounted has no
effect on its successor (its state is its own).

### Codecs

Operators without state. `ParseBody` is `parseInsertPMS5003Body` token by token,
with what it does with names that are prefixes, with `=` inside a value, with 16
bits, with bodies longer than its buffer. A number is read as `strtol` reads it:
blanks, a sign, digits, as far as they go (`Taken`, `Number`). `errorBuffer` then
points behind what was taken, into the buffer that the next values are written to:
`error` is that cell, and what stands in it when the body ends decides the status
(before any number it is not initialised: both statuses are possible). `ExtractParam` is
`extract_query_param`, index by index. `Encode` and `Decode` are `base64_encode` and
`base64_decode`, bit by bit. The decoder ends at the first character that is not
of the alphabet (`Stops`), and refuses unless that is the pad. Each loop is an
operator that makes one pass (`ReadToken`, `LookAt`, `EncodeBit`, `DecodeBit`) and a function that gives the state
after each (`Reading`, `Search`, `Encoding`, `Decoding`). Each algorithm has a
definition without loops next to it (`RefParseBody`, `RefExtractParam`,
`RefEncode`), for which a text is cut up at its separators all at once (`Split`).
`ValidateData` is `pms5003_validate_data` with its sum of 16 bits, over the 32 bytes
of a frame. `Measurement` and `Accepted` follow the measurements of the frame
through `transform_bytes`, `measurement_to_json`, Go's decoder and the table. Texts
are sequences of tokens, digits among them one by one; a word that nothing in a run
takes apart is one token.

## The runs

| run | instance | shows |
|---|---|---|
| `go_safety` | 3 requests of 17 shapes, 2 slots, 1 restart, results break off; symmetric requests | `TypeOK`, `StatusTellsTruth`, `MeasurementsExact`, `PinnedForever`, `FullPoolMute` |
| `go_store` | 3 requests of 5 shapes, results do not break off, no symmetry | `LocationIsLatest`, `ImplementsStore`, `EveryRequestEnds`, `OnlyPostsLeak` |
| `go_nildb` | 2 requests, 1 slot | `NilDbAnswered` is violated |
| `go_location` | 3 clean requests, results break off | `LocationIsLatest` is violated |
| `esp` | the real constants: 10 retries, 10 sockets | `TypeOK`, `GiveUpJustified`, `NeverStranded`, `GiveUpIsFinal`, `GiveUpReboots`, `KeepsPosting` |
| `uart_safety` | frames of 3 bytes, a buffer of 7, 15 bytes, 2 of them altered | `TypeOK`, `NoByteTwice`, `ReportIsOldest`, `SkipsOnlyBroken` |
| `c_safety` | 3 clients of 5 shapes, requests cut or prolonged, 2 descriptors, 1 slot, 1 restart; symmetric clients | `TypeOK`, `StatusTellsTruth`, `ServiceBound`, `FullDatabaseMute`, `ImplementsStore` |
| `c_progress` | 3 clients of 5 shapes, requests prolonged, reads that fail, 2 descriptors, 1 slot, no symmetry | `AcceptedEnds`, `OnlySilentStay` |
| `c_reads` | the same shapes, 4 descriptors, 2 slots, reads that fail | `ReadsExact` is violated |
| `station` | 2 devices, one of two measurements and one of one, well-formed or not, 1 slot, 1 restart | `StationTypeOK`, `LateRowsAreOrphans`, `RecordingBound`, `RecordsUntilFull` |
| `viewer` | 2 devices, one with an awkward name, 2 polls, times 0 to 2 | `TypeOK`, `ShownIsOfWindow`, `OneNameBlanksAll`, `LostOnlyToOverlap`, `MarkerNeverAdvances`, `ShowsAll` |
| `codecs` | bodies of up to 5 of 11 pieces, endpoints of up to 6 of 6 tokens, up to 5 of 4 bytes, frames with up to 3 measurements over 6 byte values, with one of them every byte altered | `BodyAsItsParams`, `ParamAsInQuery`, `Base64RoundTrip`, `StoredAsMeasured` |

Why these bounds are enough. *Go server*: three requests are a writer that is
acknowledged, one in flight and a reader, or two writers that fill both slots
and a third request that meets a full pool; the shapes hold every kind of
request clean and with each flaw that its handler tells apart, a row inside the
window and one on its edge, two devices. One restart separates the connections
before from those after. *Device*: nothing is scaled down but the queue of
events, which the driver itself keeps short. *UART*: five frames let the buffer
overflow, a frame be cut by the flush and by the end of the buffer, and three
periods pass; 7 is no multiple of 3 as 2048 is one of 32, and so covers more
cut frames than the real sizes. *C server*: with two descriptors one client and its
connection use them up, or two silent clients do; the one slot is spent by the first
that is answered; a writer is acknowledged, another is taken at other values,
crashes the process or loses its connection, and a restart later a reader looks.
Where requests come in pieces only the flaws that a cut cannot cause are told
apart: the verdict is any of them. *Station*: two measurements
of one device let the first arrive after a reboot and be stored after the second;
the other device competes for the only slot. *Viewer*: two polls overlap in either
order; three instants are one before, one in and one after the end of the window
of a mount. *Codecs*: the pieces are the five parameters (a negative and a wide number
among them) and each way in which a parameter can be odd (trailing characters, a
prefix, no name, no value, an unknown name, a longer value with a second `=`), so
that a text after the last number may cover its end, stop before it or go beyond;
a buffer of 40 tokens is too small for the longest bodies; six tokens hold a name that comes
first or second in its query, alone, prolonged, or before the query; five bytes
are a whole group of base64 and each length of the last one. The proofs remove
these bounds.

Deadlock is switched off in the runs of the two servers and of the station (once
all requests are done nothing is left to happen) and in `codecs`, whose inputs end
at their bound.

### What the violated properties say

* `NilDbAnswered` (`go_nildb`). The handlers check their pool for `nil` and answer
  500, but they have deferred `db.Close()` on it before: the nil pointer is
  dereferenced when they return, and the answer never leaves the buffer. In the
  run's trace a POST is acknowledged and keeps the only slot; the GET that comes
  after it finds no database and is aborted.
* `LocationIsLatest` with `StreamFaults` (`go_location`). `getLocation` takes the
  last row it could read for the last row there is. Without broken results the
  property holds and is proved.
* `ReadsExact` (`c_reads`). `get_PMS5003_measurements` does not look at what
  `_extract_tuples` returns: a SELECT that fails is answered 200 with `[]`, though
  `_handle_get_request` has a 500 for it. Without failing reads `ImplementsStore`
  holds and is proved, which contains `ReadsExact` for readers that were heard right.

### Properties that hold and are not good news

`RecordingBound`, `PinnedForever` and `FullPoolMute` describe the consequence
of the discarded `sql.Rows` in `postMeasurements`: a process of the server
acknowledges at most as many POSTs as the database has connections, so that the
devices, to whom any status is as good, go on measuring for nobody; none of them
comes back before the process ends, and then the server is up and serves nobody.
The unit file has `RestartSec=` and no `Restart=`, so nothing ends the process
either. `ReportIsOldest` says that the device posts, with the present time, the
oldest bytes since the flush before the last, and `SkipsOnlyBroken` what that
costs: a flush that cuts a frame spoils the next measurement. `ServiceBound` and
`FullDatabaseMute` are the C server's counterpart of the former: each answer from
the database costs a slot and a descriptor for good, each client that sends nothing
a descriptor, and once the slots are spent the process goes on accepting clients
and has a 200 for none of them.

`LateRowsAreOrphans` allows what it names: a measurement whose post timed out may be
stored after later ones of its device, and no device ever hears whether.
`ShownIsOfWindow`: the end of the window is five seconds after the mount, so that an
app that stays open shows nothing newer, however often it polls.
`MarkerNeverAdvances`: the map shows the oldest measurement of the window as the
device's. `LostOnlyToOverlap` is as much as can be said of overlapping polls: an older
answer that comes later takes newer measurements off the screen, until the next
poll (`ShowsAll`). `OneNameBlanksAll`: one device name with a `&` or `#` keeps all
devices off the screen. `BodyAsItsParams` says which bodies the C server accepts: an
empty name is `device_timestamp`, five times the same parameter pass (the other
values are then whatever the variables held), and `65543` is stored as 7. Of
characters after a number nobody takes notice unless it is the last one, and then
of what a later text has left of them: `7x` followed by `device_name=x` is accepted
(the terminator of the text falls on the `x`), `7` followed by a longer name is refused.
`ParamAsInQuery`: a parameter that is its bare name ends the process. `StoredAsMeasured`
holds because the server refuses what its 16 bits do not hold; a device name of 20
characters makes it refuse most measurements, too. `Base64RoundTrip`: decoding a
single byte writes past what is allocated (nothing calls the decoder).

### Fairness

* `GoServer!Fairness`: weak fairness of each handler (`Serve(r)`: goroutines are
  scheduled, and a call to the database returns in some way) and of `Reclaim(r)`
  (forced garbage collection). Nothing is assumed about which outcome a call has,
  about arrivals or about restarts.
* `CServer!Fairness`: weak fairness of each thread (`Serve(c)`: POSIX threads are
  scheduled, and a call to the database returns in some way). Accepting is not
  fair (without a descriptor it never succeeds), nor is the end of a silent
  client's connection, an interrupt or a restart.
* `Station!StationFairness`: weak fairness of each device's task (it sleeps, reads
  and times out), of the network for each request (delivered or lost, which is left
  open) and of each handler. A restart of the server is not fair.
* `Viewer!Fairness`: weak fairness of the loader (with either outcome), of sending a
  poll (`setInterval`), of ending it (an answer or a failure) and of taking its answer
  in; strong fairness of the server's answer: not every poll fails for ever. The
  user's mounting and unmounting and the station are not fair; `ShowsAll` takes as
  its premise a component that stays mounted with its devices loaded.
* `EspDevice!Fairness`: weak fairness of the main tasks, the event loop and the
  driver (FreeRTOS runs the tasks that are ready, and each blocks), and strong
  fairness of reading a valid frame: the sensor goes on sending. `KeepsPosting`
  takes that the world works from some time on as its premise.

## The proofs

All theorems are for arbitrary values of the constants, from the named
assumptions in the modules (sizes are natural numbers, shapes are requests).

**GoServerProofs.** The properties are not inductive; the invariant is
`IInv == TypeOK /\ HandlerInv /\ SlotInv /\ FetchInv /\ HeapInv`:
`HandlerInv` ties `conn`, `reply` and `stamp` of each request to its `pc` (a
connection is idle in `query` and busy in `respond`; before `respond` nothing is
stored); `SlotInv` says that every request in `accepted` holds a busy connection
and that no more than `MaxConn` are held, which gives `AcceptanceBound`;
`FetchInv` says that what an unbroken read has fetched lies between what was
acknowledged when it arrived and what is stored; `HeapInv` says that any set of
stored rows has a newest one, which `LastRow` chooses. Each conjunct has a lemma
for its preservation (`HandlerStep`, `SlotStep`, `FetchStep`, `HeapStep`), which
rest on `Stability`: a stored row stays stored and an acknowledged write stays
acknowledged. `FullPoolMute` follows because a pinned connection is held, so
that with `MaxConn` of them pinned the one that answers, being busy, is one of
them. `Refinement` maps each step by the action it is: `FailingStep` covers every
way to end in doubt, the restart among them. `LocationsAreLatest` and `Refinement`
assume `~StreamFaults`.

**CServerProofs.** `IInv == TypeOK /\ ThreadInv /\ HoldInv /\ BoundInv`: `ThreadInv`
ties what a thread has heard, stored and answered to its `pc`, and gives
`StatusTellsTruth`; `HoldInv` says which descriptors and connections it holds
there, and that who was served still holds a connection; `BoundInv` says that the
sets are finite and within the limits, since `Accept` and `Connect`, which alone
take descriptors, look first. `ServiceBound` follows because the served clients'
connections and the silent clients' descriptors are disjoint parts of what is
held. `FullDatabaseMute` follows because a 200 comes from the database, and so from
a thread in `query`, which holds a connection by `HoldInv`; if the slots are spent
there is none. `Refinement` assumes `"read" \notin Faults` alone, so that it covers
leftovers and cuts. It adds `HeardInv`: a row of a client's own values belongs to a
client that was heard right, and an answered read of its own window has fetched the
rows of such clients that had been acknowledged. `DoubtStep` covers every way to
end in doubt, of one client or of all at once, a 200 for other values included.

**EspDeviceProofs.** `IInv` adds to the properties `QueueInv` (what the queue of events
can hold in each state of the link: at most an address and the loss of it) and `BootInv` (what
is still untouched before the driver starts).

**Pms5003UartProofs.** `IInv` adds `BufferInv` (the buffer is `Gapless`, the bytes
since the flush with none missing for as long as it has room, and what was read are
the first bytes of its period) and `ReportInv` (the last posted bytes end before them).
`SkipsOnlyBroken` then is `Verdict` at such bytes: a whole and unaltered frame is valid.

**StationProofs.** `ServesAsSpecified` shows `StationSpec => Spec` (each step of the
station is a step of `GoServer` or leaves its variables alone), so that the server's
`IInv` holds in the station without being proved again. `StationInv` adds `PostInv`
(a measurement after the last one taken is nowhere, one before it has been heard
of or given up, and the last is awaited exactly while the task is posting) and
`AckInv` (the acknowledged posts are at most `MaxConn` for each earlier start of the
server and those that the present one has accepted). `LateRowsAreOrphans` is then
inductive: a row that is stored while a later one is there belongs to a post that
was given up. `RecordingBound` counts the accepted
of one start by `SlotInv` of the server.

**ViewerProofs.** `ViewInv` says that a poll which no other has overtaken holds, once
answered, all that is shown (it was sent after the answer on display was taken in,
and the window's rows only grow), and that nothing is listed before the loader is done.
`LostOnlyToOverlap` follows, and `MarkerNeverAdvances` from it with `OldestInv` (any
rows have an oldest, since rows come one at a time: the prover has no induction
over sets). `OneNameBlanks` has an invariant of its own: the awkward name stays in
`todo`.

**CodecsProofs.** A loop is a function on `0..n` defined from its own earlier values.
That there is one, and that an invariant of its passes holds at the end, would be
the library's induction theorems, whose operator parameter no backend can
instantiate; `LoopRuns` and `Induction` prove both from `LeastNumber` (the pass that
would be the first to fail), for a set or a function in place of the operator.
On them rest two results. `Base64IsRFC4648`: `EncodeInv` says that what the encoder
has written and begun are the bits it has read (`Stream`), six to a character;
RFC 4648's digits of three bytes are the same bits (`DigitsOfWord`), and the padding
is what is left (`DigitsOf`). `DecodeInv` says the same of eight bits to a byte, so
that decoding gives back the bytes, and drops the incomplete one that padding
leaves; `Padding` says that only pads stop it. `RowsAreMeasured` is arithmetic. `AlteredByteIsFound`: 16 bits hold the sum
of the 30 bytes that are summed (`SumsAreExact`), so an altered byte among them
changes the sum by as much as it was altered (`SumsDiffer`), and an altered check
byte changes what the sum is compared with; the other side of the comparison stays.

**FormProofs.** `ParamIsInQuery`: by `SearchInv`, before the first hit no parameter
began with the name, and after it the value is what was read since;
`CutsAreOrdered` and `QueryParams` turn "a parameter begins at i" into "the k-th part
of the query is". `BodyIsItsParams`: by `ReadInv` the fields and the count are those of
the parameters that have ended (`ReadsParams`), and the name and the value those
of the part of the present one that was read (`ReadsPart`). A token lengthens the
part (`PartsGrow`), a separator makes it a parameter (`OneMoreRead`), and a parameter
of no field ends both sides (`ReadOn`). `ErrorIs` says that `errorBuffer` points
behind what was taken of the last number, and `PointsBehind` that the cell there
is the terminator unless the last value that reached so far goes on beyond it: a
shorter value does not get there, and any other overwrites it (`OneMoreReaching`).
The tokens may be any set without `Nul`, which ends a string, and the size of the
buffer any. `RoundTrip`, `ParamsAsInQuery`,
`BodiesAsTheirParams` and `FramesAsMeasured` are the four properties of `MCCodecs`,
which follow since its inputs are texts over its tokens however long they grow
(`InputsAreOfTheirKind`). For the last one `FramedIsValid` adds up the bytes of a
frame that the sensor sends: the header and the measurements, then zeros.

**Only model-checked**: the liveness properties (`EveryRequestEnds`,
`OnlyPostsLeak`, `AcceptedEnds`, `OnlySilentStay`, `GiveUpReboots`,
`KeepsPosting`, `RecordsUntilFull`, `ShowsAll`), since fairness and `ENABLED` are
beyond the prover. Every other property of the passing runs is a theorem.

## What is not modelled, and the plan

* `device/` does not compile at this commit (`device/pms5003.h:82` names a member that
  is not there), `legacy/server` does not work by the repository's own account, and
  `circuits/` has no behaviour: they stay out.
* Of the frontend, `Charts` draws random numbers and the address entered in `Settings`
  is used by nobody; selection is commented out.
* Of the C server, the regular expressions that cut headers and body out of a
  request: `CServer` takes their result as a verdict, where a request is
  whole as any that leftovers can bring about, where it is cut as any at all.
* The JSON array builders of `common` concatenate; the migration script runs once, by
  hand. Formatting, logging, credentials and views are abstracted away.
* The result of `esp_wifi_connect` (`network.c:29`) is taken to be success.

What could follow: `extract_header` on requests whose body holds the name of a
header; the `Viewer` on top of `GoServer` itself rather than on what
`MeasurementStore` promises.
