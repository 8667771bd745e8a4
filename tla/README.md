# unwitting.life: TLA+ specifications

This directory holds a formal model of the concurrent core of the repository,
the TLC runs that check it and the TLAPS proofs about it. Paths below are
relative to the repository; `…/` stands for `src/java/src/life/unwitting/`.

## 1. Inventory of the system

The repository is a personal library in two halves, Java (`…/`) and C++/Qt
(`src/cpp-Qt/lib/`), with vendored libraries beside them (SNMP4J, zlib, quazip,
nlohmann json, cpp-httplib, Qt-AES, base64). The parts with state of their own:

| component | state | operations | hard parts |
|---|---|---|---|
| **NakovHttpForwardServer** (`…/NakovHttpForwardServer/`): TCP reverse proxy with load balancing and fail-over | table of servers (`isAlive`, `clientsConnectedCount`); per client the two sockets, `bothConnectionsAreAlive`, `canBrokeClientConnection` | accept (plain, SSL), choose a server, connect, mark dead, forward in two directions, end a connection, revive dead servers | one thread per client, two more per connection, one checker; no lock but the one of `connectionBroken`; either thread may end a connection; stale marks; retries |
| **SimpleEncryptedForward** | static `HashMap` socket → last activity | accept, relay (two threads), sweep of idle connections | unsynchronized map written by all threads; an exception ends the sweep's timer |
| **http4j** (`HttpServer`, `HttpRequest`, `HttpProxy`, `httplib`, `HttpRoute`, `HttpsServer`) | routes, per request its socket and buffered lines | serve, route, proxy (two relays that close each other) | request split over several reads; two closers of one socket |
| **SNMP** (`…/SNMP/snmp4j.java`) | one datagram socket and one result object per request | send, receive in a second thread, join with a time-out, walk | replies late, lost or of an earlier request |
| **log4j** | log files, a lock | log with rotation, read back, clear | file limit, equal time stamps, lock not released on an exception |
| **SNMP4J 1.x** (`src/java/src/org/snmp4j/`, vendored) | pending requests and their timers | send, cancel, retry, report | time-out against answer, lock order |
| **QLogger**, **QNetworkAddress**, **SimpleCrypt** (C++) | times and indentation per thread; the fields of an address; keys and modes | log; enumerate a subnet; encrypt/decrypt | file limit; the end of a loop over octets; modes changed between calls, damaged texts |
| helpers (`lib`, `string4j`, `file4j`, …, `QUtility`, `QZip`, …) | none | wrappers of the JDK, of Qt and of the vendored libraries | none |

What makes each correct:

* *Forward server.* A client gets the least loaded alive server; it is refused
  only when no server is alive; the counter of a server is its number of
  connections; a connection ends once, on both sides, and gives its counter back
  once; nothing sent is lost by ending it early; dead servers return.
* *SimpleEncryptedForward.* An idle connection is closed, an active one is not; no
  entry outlives its socket for good.
* *http4j.* Each request is dispatched to one handler; a relay's end closes both sockets.
* *SNMP.* An answer that came in time is not missed; each request ends.
* *log4j.* At most `maxLogFiles` files, which a message enters only while there is room; the newest lines survive a
  rotation; a call returns.
* *C++ classes.* Decryption undoes encryption and never returns another text; the
  enumerated addresses are those of the subnet.

`PROJECT.json` lists every component, and under `hazards` the places where
these can go wrong.

## 2. How the project is organised

    ServerPool ──┐                              ForwardService (abstract)
                 ├── ForwardServer                    ▲ implements
    ForwardSession ─┴───────────────────── ForwardSessionService

    EncryptedForward    SnmpRequest    LogRotation    HttpConnection
    SimpleCrypt + QNetworkAddress = QtLibrary    (both on Octets)

Each box is a module; `MC…` modules give it small instances for TLC, `…_proofs` modules
hold its theorems. The order in which they were written is that of their weight in the
repository: the forward server first, its parts, then their composition and the service
they add up to; then the other components with threads or state of their own; last the
two C++ classes that compute. The components other than those of the forward server do
not call each other, so nothing further is composed (`QtLibrary` only puts the two classes side
by side).

Modules that are proved about use functions and sets instead of RECURSIVE operators, one
action per statement that touches shared state, and named assumptions. Parameters of the
code keep their names. What could still be added is listed in section 6.

## 3. The model of the forward server

### 3.1 `ServerPool`: choosing and counting servers

One `pc[c]` per client connection:

    new ── Accept ──────────────► scan ◄──────────────┐
    new ── AcceptTls ► handshake ─►│                   │ MarkDead
                                   ├─ Refuse ► refused │
                                   └─ Connect ───────► markDead      (server down)
                                          └──────────► connected     (server up)
    connected ─ ReadForIncrement ► increment ─ WriteIncrement ► streams
    streams ─ OpenStreams ► forwarding | leaked
    forwarding ─ ReadForDecrement ► decrement ─ WriteDecrement ► released

| definition | code |
|---|---|
| `isAlive`, `clientsConnectedCount` | the fields of `ServerDescription`, `NakovHttpForwardServer.java:97-107` |
| `Accept`; `AcceptTls`, `Handshake` | the accept loops, lines 184-188; 209-214 (which shakes hands before it accepts again, and drops the result) |
| `ScanServer`, `pos`, `server` | one iteration of `getServerWithMinimalLoad`, `ForwardServerClientThread.java:140-153`; `server` plays `minLoadServer` and then the field |
| `Refuse`, `Connect`, `MarkDead` | the three outcomes of a pass of `createServerSocket`, lines 120-133, and of `run`, 49-58 |
| `ReadFor…`, `Write…`, `tmp` | `clientsConnectedCount++` (127) and `--` (104): a read, then a write |
| `OpenStreams` | lines 61-74; a socket closed by a failed handshake makes `getInputStream` throw |
| `Wake`, `TestServer`, `Probe`, `Revive` | `CheckAliveThread.java:30-71` |
| `ServerToggles` | environment: a server starts or stops to accept |

An iteration of the scan is one step although it reads up to three fields; the
reads are of two records, and it is the interleaving *between* iterations, over a
table that changes, that the properties are about. `lost`, `steady` and
`disturbed` are history variables and influence nothing.

Reads of the non-volatile fields return the latest write: the model has the
interleavings, not the further weakening by which the Java memory model lets a
thread see an old value for longer.

### 3.2 `ForwardSession`: one forwarded connection

`main[c]` is the control state of `ForwardServerClientThread.run`, `fwd[<<c, e>>]`
that of the `ForwardThread` which reads from end `e`. Each access to the flag, to
`bothConnectionsAreAlive` and to a socket is a step; `monitor[c]` is the owner
of the lock of `connectionBroken`.

| definition | code |
|---|---|
| `Refuse`, `Connect`, `OpenStreams`, `StartClientForward`, `StartServerForward` | `ForwardServerClientThread.java:43-79` |
| `ReadData`, `ReadEnd`, `ReadFails`; `Write`, `WriteFails` | `ForwardThread.java:52,57,60`; `54` |
| `SetFlag`, `ClearFlag` | lines 56, 58. `ClearFlag` also covers the first read (52), which no flag surrounds: the flag is down then, so it changes nothing |
| `TestFlag`, `Finish` | lines 67-73 |
| `Enter`, `CloseServerSocket`, `CloseClientSocket`, `ClearBoth`, `Account` | `connectionBroken`, lines 87-108, statement by statement |
| `Send`, `EndMoves` | environment: a remote end sends, shuts its output, closes, or resets |

Data is a count of chunks; the properties ask whether a chunk was forwarded, not
what is in it. A write to an end that has closed its socket goes out and comes
back as a reset, as TCP does it. Peers read what they are sent: a write that can
neither complete nor fail (a full window of a peer that never reads) is outside
the model. A closed local socket makes the next read or write fail.

### 3.3 `ForwardServer`: the composition

`Pool == INSTANCE ServerPool` and `Sess == INSTANCE ForwardSession` over one state.
They meet in the four steps that touch both: the handshake, the connection
attempt, the opening of the streams, and the counter's `--` within the monitor.
Every other step is a step of one component. The remote ends move from the moment
forwarding starts; what they do earlier is seen by nobody before then.

### 3.4 `ForwardService` and `ForwardSessionService`: what a connection promises

`ForwardService` is the abstract specification: a client waits, is refused, dropped or
served; chunks are delivered; the service begins to end only when an end of the
connection has moved (`MayEnd`), then ends on both sides; a chunk is lost only to an end that
was reset or once the service is ending. It has no threads, flag or monitor.
`ForwardSessionService` maps the detailed state to it: the stage is read off the two sockets
(`StageOf`), a chunk is pending until the thread that holds it has written it.

The server's half-close is part of this promise: when the thread from the server finds the end
of its stream and the flag is up, both sockets are closed, so what the client was still
sending is lost. So is the answer when a client shuts its output. The abstract
specification says so (`MayEnd`, `Lose`), since the code does it.

### 3.5 `EncryptedForward` (`…/SimpleEncryptedForward/SimpleEncryptedForward.java`)

| definition | code |
|---|---|
| `Accept`, `PutAccepted`, `Connect…`, `StartSwitch` | the accept loop: one thread, which connects to the remote host itself |
| `ReadData`, `ReadEnds`, `SwitchStep` | a `Switch`: read, put the time, write; at the end close both sockets |
| `StartSweep`, `Examine`, `Scanned`, `Remove`, `CloseSwept`, `Swept`, `SweepThrows` | `AutoDestroy.run` over `clientList` |
| `Tick` | time |

The map is a plain `HashMap` without a lock. Its undefined outcomes are choices: an insertion that
overlaps another structural change may be lost (`lost`), an iterator that meets a structural change
may or may not throw, and if it does the `Timer` is dead for good. Only overlapping *insertions* are
lost in the model; a table that loses entries put long before, or an endless loop in a corrupted
bucket, is outside it. Each Switch refreshes the entry of the socket it reads, so a connection
busy in one direction only is closed as idle: the properties speak of a socket's own activity, as
the code does.

### 3.6 `SnmpRequest` (`…/SNMP/snmp4j.java`, `invokeRaw`)

The caller (`Open` … `Close`), its receiving thread (`PutReady`, `Receive`, `Examine`, `ReceiveThrows`), the
agent and a network that loses, repeats, delays and reorders. A port is handed out again when its socket
is closed, so an answer may reach another request. SNMP4J itself is external: its encoder and `Snmp.send` as
`invokeRaw` uses them.

`invokeRaw` does not decode the packet it receives: it searches it for `02 04` and the four random bytes of its
id, and for the bytes of the name it asked for. A packet of the model is what such a search finds in it
(`ids`, `name`), and the agent writes its answer afresh. An id with nine equal leading bits (`Short`) may come back
in fewer bytes and is then not found; a name with a sub-identifier that does not fit the two bytes the program
writes comes back in other bytes (`Within`, `Respelled`). Either way the request's own answer ends the thread at
line 226. `MisledOnly` lists every reason for that, `NullExplained` every reason for a null.

`join` may return at any moment, before, while or after the thread puts the value; after a time-out nothing
orders the caller's reading of it (`ReadValue`).

### 3.7 `LogRotation` (`…/log4j.java`)

Callers share a `ReentrantLock`; the path is chosen among files named by the second, whose
modification times have that resolution too (`Extremes` takes any oldest and any latest file that
tie). A file has a `length`, to which a message adds any of `Sizes`, whatever room there was: the limit is
looked at before (264). The result of `delete()` is ignored (267), so `Write` goes on to the file whether it is gone
or not. A message of line feeds alone writes no line, but opens the file (`AppendNothing`). `ToStringThrows` is the
exception before the `try`: the lock stays held, by a caller who may enter it again. `tied` and `undeleted` are
history variables.

### 3.8 `HttpConnection` (`…/http4j/`)

One accepted connection: `HttpServer`'s thread, a request answered by its routes or by a page, or an
`HttpProxy` with a thread of its own and the two `receive` loops that close each other through
`close()`, which has no lock. A request is parsed already: it is how much body it announces (which
may be negative), how many routes match, and whether it is a proxied request or a tunnel. Matching,
contents and the two pages are left out. A route may throw (`RouteThrows`): it is called outside the `try`, so
after a body the loop ends and closes the socket, and without one the thread ends and nobody does. A socket left
behind open, by that, when the server cannot be named or reached, or when the length is negative, is recorded
in `left`.

### 3.9 `SimpleCrypt` and `QNetworkAddress` (`src/cpp-Qt/lib/impl/`)

`SimpleCrypt` is the object over time: keys and modes are set between calls, a cyphertext is kept
and may be damaged once; the flags byte is not damaged, since it decides which check applies.
`Chain` is the loop of `encryptToByteArray`: each byte is combined with a byte of the key and with the
byte before it, as encrypted. What Qt provides (`qCompress`, `qUncompress`, `qChecksum`, the hash) are
constants of which only this is assumed (`QtAssumption`): decompression inverts compression, and checks are
bytes of a fixed number. That a hash does not collide is not assumed. `PlainOrNothing` says instead what a
wrong text takes: that the content the damage left and the one that was encrypted, which is another one and
no shorter, have the same hash but for its last byte (`Collides`). The last byte is left out because an altered last
byte of the hash alters the first byte of the content as well. The toy hash of `MCQtLibrary` has no such pair, so the
run shows that a damage is always found.

`QNetworkAddress` is `calculate()`: masks, and its loop from the network number to the broadcast
address, octet by octet with the carries, against the definition of a subnet.

`Octets` has `&`, `|` and `^` of C++ as operations on the sets of bits that are set, without recursion,
so that the modules using them can be proved about. `QtLibrary` is a program that uses an object of one of
the two classes; `MCQtLibrary` gives it small bytes, octets and a toy `qCompress`, checksum and hash, for
which TLC evaluates the assumptions.

## 4. Runs

| run | instance | checks | result |
|---|---|---|---|
| `pool` | 2 clients (one SSL), 2 servers, balancing | `TypeOK` `CountExact` `LeastLoaded` `FailOver` `Recovery` `Decided` | hold |
| `pool_lost_update` | 2 clients, 2 servers | `LoadIsAliveConnections` | **violated** |
| `session` | 1 connection, 3 chunks each way | `TypeOK` `ReleasedOnce` `NoTeardownBeforeRequest` `ServerDataForwarded` `ClientDataForwarded` `ThreadsStop` `ImplementsService` `ServiceProgress` | hold |
| `session_half_open` | 1 connection, 1 chunk each way | `ServerGoneClosesBoth` | **violated** |
| `server_counter` | 2 clients, 1 server, 1 chunk from the client | `CountIsOpenSockets` | hold |
| `server` | 1 SSL client, 2 servers, no balancing, 1 chunk from the client | `ClientGoneReleases` | hold |
| `server_handshake_leak` | 1 SSL client, 1 server | `OpenedConnectionsClose` | **violated** |
| `encrypted` | 1 connection, time-out of 1 tick | `TypeOK` `TimeoutCovers` `SweepSpares` `PairEnds` `StaleEntryGone` `IdleCloses` | hold |
| `snmp` | a Get and a GetNext, 1 port, 2 ids (1 short), 2 names (1 respelled), 1 answer at a time | `TypeOK` `MisledOnly` `NullExplained` `RequestEnds` `ReceiverEnds` | hold |
| `log` | 2 callers, 2 files of length 2, 4 messages of 1 or 3, 3 seconds | `TypeOK` `FilesBounded` `LogsInOrder` `OldLinesGo` `CallsReturn` | hold |
| `http` | 2 pieces from each end, up to 2 routes | `TypeOK` `EstablishedFirst` `AnsweredOnce` `ConnectionEnds` | hold |
| `qt_library` | 2 keys, 4 plaintexts, all modes; 5 texts, 17 netmasks | `PlainOrNothing` `AddressesRight` | hold |

The three violated runs check sentences of the component's documentation and
comments; the findings in `PROJECT.json` quote them. In short:

* updates of the counter are lost (no lock), and the drift stays for ever;
* a server that hangs up while `canBrokeClientConnection` is down leaves the client
  with an open connection that leads nowhere;
* after a failed SSL handshake a server is connected and counted, and that
  connection is never closed. The run needs one client: no race is involved.

**Bounds.** Connections, requests and callers are never reused, so a finite set of them is a bound
on how many overlap.

* *Pool and server.* Two clients suffice for a lost update and for one that hits the other's scan.
  Two servers give a choice and a list whose second entry is reached only past the first. Counters are bounded by the number of
  clients. `server_counter` has one server, because what it asks is asked of each server apart; its
  theorem holds for any number. `Departures` restricts how remote ends leave where the composition
  would be too large (`server_counter` has only closes).
* *Session.* `MaxChunks` bounds the chunks an end sends: the flag goes up and down once per chunk, so two
  give a connection that ends before, within and after a cycle, and three repeat it.
* *Encrypted.* One connection has two sockets, two Switches, the accept loop and the sweep: the threads that meet in
  the map. With one tick before the time-out an entry is fresh or timed out, which is all the sweep tells apart;
  the theorems hold for any number of connections and any time-out.
* *SNMP.* Requests on different ports share nothing, so one port, handed out again, has every way in which two of
  them meet; three in a row add no new kind of foreign packet. With one answer on its way at a time, each order in which
  answers can arrive still occurs, and a later one may be the same again. The theorems have no bound.
* *Log.* A message of 1 leaves room, two fill the file, and one of 3 is longer than a file may be. Four messages of 3
  fill both files and rotate twice; three seconds allow names used again, ties, and files apart.
* *HTTP.* A body of two pieces arrives in one read or two; two routes answer twice on one socket, and either may throw.
* *C++.* Bytes have 4 values. A key of two parts is longer and shorter than plaintexts of 0 to 3 bytes; one
  compresses. One-bit octets carry at every addition, through one, two or three places; all netmasks of four
  of them are tried, with holes as well, and one that cannot be read. The theorems hold for 8 bits and any lengths.

**Symmetry** is used in `server_counter` only, among clients that arrive on the same port.

**Deadlock** is checked for the pool and the whole server, whose checker never
stops, and for the C++ classes, which can always be called. It is off in the other runs: when a
connection, a request, or the lines to log are over nothing is left to happen.

**Fairness.** Weak fairness of each started thread: the JVM schedules runnable
threads, `Thread.sleep` and a timed `join` return, a blocked read returns when data, an end or
a close arrives or its time-out passes, and time passes. Nothing is assumed about clients arriving,
handshakes ending, remote ends moving, hosts that are connected to, the network, or servers
recovering. `Recovery` and `Decided` state what they need
of the servers themselves (`<>[]up[s]`). `IdleCloses` and `StaleEntryGone` hold as long as the timer lives. A
`ReentrantLock` is not fair, so `CallsReturn` excludes another caller who takes it for ever.
`ServiceProgress` shows that the fairness of the threads implements the one of the abstract service.

**Mutants.** Each property of a passing run has an operator in the module it belongs to
(named and commented "Mutant") which changes one definition the way a slip in the code would;
with it the property fails.

## 5. Theorems

Checked by TLAPS for every value of the constants, from the named assumptions of each module alone
(finite sets of clients, at least one server, limits that are positive; bounds are arbitrary
numbers; of Qt, see 3.9). 29 theorems in 8 modules; every safety property of the passing runs, and every
action property that states safety, is among them.

| theorem | states | argument |
|---|---|---|
| `ServerPool_proofs!TypeCorrect` | `Spec => []TypeOK` | inductive as it stands, with the conjunct that a client past its scan has a server |
| `CountsAreExact` | `[]CountExact` | a write adds or removes its own client from `Counted`; it is exact unless the value read has changed since, which is when `lost` grows. Cardinality of a set with one element more or less |
| `FailOverHolds` | `[]FailOver` | while a client scans, every server it has passed without taking it is outside `steady` (strengthened invariant over `pos`) |
| `LeastLoadedChosen` | `[]LeastLoaded` | loop invariant of the scan: `server` is the choice among the servers before `pos`, as long as no write disturbed it |
| `ForwardSession_proofs!TypeCorrect` | `[]TypeOK` | inductive |
| `RequestFirst` | `[]NoTeardownBeforeRequest` | `FlagInv`: the flag is raised, and a teardown begun by the thread from the server, only after client data went out |
| `ReleasedExactlyOnce` | `[]ReleasedOnce` | `ConnInv`: a thread is inside `connectionBroken` exactly if it owns the monitor; each stage fixes which sockets are closed and that nothing was released; with the monitor free the connection is whole or down |
| `NothingCutOff`, `NothingOfClientCutOff` | `[]ServerDataForwarded`, `[]ClientDataForwarded` | `DataInv`, for either end: while the other end keeps its side open and goes on reading, the thread that reads from this one is the first to leave its loop, and leaves it with nothing left to forward. `ConnInv` supplies that the server's socket is closed first |
| `ForwardSession_proofs!ServiceImplemented` | `Spec => ImplementsService` | every step maps to a step of the service or a stutter. Needs `ConnInv` and `FlagInv`, and `LeaveInv`: a thread has left its loop only for a reason the service accepts as `MayEnd` |
| `ForwardServer_proofs!CountsOpenSockets` | `[]CountIsOpenSockets` | the components' theorems, instantiated: `CountExact` and `ReleasedOnce` hold of the composition, each step of which is one of the component or leaves its variables alone (`PoolImplemented`, `SessionImplemented`). `Link` joins them: how far a client is in the pool says how far its connection is. With no thread in between, the connections counted are those whose socket is open |
| `ServerKeepsService`, `ServerKeepsConnections`, `ServerKeepsChoice` | `Spec => SessP!ImplementsService`; `[]` of the request first and the last data of either end; `[]` of fail-over and the least load | end to end: the components' theorems, carried to the whole server by the same two lemmas. To each client the server with its table, counters and checker is the abstract service |
| `EncryptedForward_proofs!TypeCorrect`, `TimeoutReaches`, `ActiveSpared` | `[]TypeOK`, `[]TimeoutCovers`, `SweepSpares` | `Sock`: which sockets exist in each state of the accept loop and the Switches; `Conn`: a running Switch puts its entry back; `Covered`: what the sweep holds is timed out, closed, or missed a read |
| `SnmpRequest_proofs!TypeCorrect`, `MisledByCauses`, `NullIsExplained` | `[]TypeOK`, `[]MisledOnly`, `[]NullExplained` | `Taken`: a thread takes one packet and puts what it reads in it; `Waited`: a caller whose time was not up has waited for that; `Made`: an answer on its way names the object of its request, and carries its id unless that is short, which no later `Open` changes |
| `LogRotation_proofs!TypeCorrect`, `SizeBounded`, `InOrder`, `OldestGoes` | `[]TypeOK`, `[]FilesBounded`, `[]LogsInOrder`, `OldLinesGo` | `Content`: lines rise within a file, were added to a full one only as said, and its name and modification time are not in the future; `Order` between files. `NoTieUnrivalled`: without a tie the oldest file is the only oldest one, and the latest the only latest one unless its name is the current second. `Filed`: what a `Write` does, a line or none, the file gone or not |
| `HttpConnection_proofs!TypeCorrect`, `OneAnswer`, `TunnelAnnounced` | `[]TypeOK`, `[]AnsweredOnce`, `[]EstablishedFirst` | `Data`: pieces sent and read; `Request`: after an answer the socket is closed, so that a later one writes nothing; `Tunnel`: nothing is relayed to the server before `launch()` has written |
| `QtLibrary_proofs!AddressesAreRight` | `[]AddressesRight` | `Calculated`: the k-th address listed has the number of the network plus k - 1, and the next one does not pass the broadcast address. `Counts`: `Successor` adds one to the number below it, since not all octets are full there. `Between`, `NothingElse`: an octet is what a mask keeps and what it cuts off, and without a hole the numbers from the first to the last differ in what is cut off only |
| `PlainIsReturnedOrNothing` | `[]PlainOrNothing` | `Kept`: the cyphertext is one that was made, or that one altered in one byte or cut. `ChainedBytes`, `Decoded`: the loop of the decryption undoes the loop of the encryption at each position whose two bytes are unchanged and at no other where one of them is. `Detected`: wherever the damage is, the content is another one while all but the last byte of the hash is as it was, which is a collision, or the content is the same and the hash is not. For bytes of up to eight bits and any hash |

The two loops of `SimpleCrypt` are recursive functions, and what they compute at every position is proved by
induction. The library's induction theorems take an operator as a parameter, which the provers cannot
instantiate; `QtLibrary_proofs` therefore states induction about sets (`Least`, `Induction`,
`Recursion`), derived from the well-foundedness of the finite subsets of `Nat`, and each proof gives the set.
Facts about the octets' bits are proved by cases on the eight widths an octet may have.

The inductive invariants used (`ConnInv`, `FlagInv`, `DataInv`, `LeaveInv`, `Link`, `Calculated`, `Kept`, …) are
defined beside the proofs that need them.

Model-checked only: liveness (`Recovery`, `Decided`, `ThreadsStop`, `ServiceProgress`,
`ClientGoneReleases`, `PairEnds`, `StaleEntryGone`, `IdleCloses`, `RequestEnds`, `ReceiverEnds`,
`CallsReturn`, `ConnectionEnds`), which is out of the prover's reach under fairness. The refinements that are
proved are of safety specifications.

## 6. Not modelled

* *Vendored libraries*: zlib, quazip, nlohmann json, cpp-httplib, rapidxml and rapidjson, Qt-AES, SNMP4J.
  They make up nearly all lines of the tree and are not this project's code; what the components use of
  them is in the models as external definitions. The specifications therefore cover a small share of the
  tree and most of the code with behaviour of its own.
* *Java helpers, `network4j`, `port4j`, `pluginEntry`, `httpd4j`, the C++ wrappers*: one call of the
  JDK, of Qt or of a vendored library each; no state that outlives the call.
* *QLogger*: a thread reads and writes only its own entry of the map, under one mutex, so threads do not interact;
  what is left is formatting and Qt's file I/O.
* *Left out of modelled components*: reading the settings file beyond what it guarantees (a
  non-empty list), logging; SNMP's `walk` and `invoke`, which only call SNMP4J; parsing and routing
  in http4j and the `HttpUrl` client; `allInterfaces` of `QNetworkAddress`; base64 around `SimpleCrypt`.
* *Effects left out*: in SNMP, an agent given by its name, whose packets the code takes for another's and reads past,
  such packets themselves, and bytes of an id or a name that occur elsewhere in a packet by accident; an exception that
  ends an accept loop; a write that blocks for ever; weak memory
  beyond interleaving; exceptions other than those named; a `HashMap` corrupted beyond lost insertions.
* *What could be added*: a second connection in `encrypted` (its theorems already hold for any number); the
  composition of `HttpConnection` with the accept loop that starts it; damage to the flags byte of a
  cyphertext.

## 7. Running

    tlc -workers 2 -config pool.cfg MCServerPool
    tlapm ServerPool_proofs.tla          (and the other *_proofs modules)

| runs | module |
|---|---|
| `pool*` | `MCServerPool` |
| `session*` | `MCForwardSessionService` |
| `server*` | `MCForwardServer` |
| `encrypted`, `snmp`, `log`, `http`, `qt_library` | `MCEncryptedForward`, `MCSnmpRequest`, `MCLogRotation`, `MCHttpConnection`, `MCQtLibrary` |
