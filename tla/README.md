# Specifications of the Network_Programming servers

The repository holds eight assignments (HW1 to HW8) of a socket-programming
course, each with the author's program (`2020115885/`) and the class samples
(`실습코드/`). They are small C programs; what makes them worth specifying is
what they do *at once*: threads sharing a table under a mutex, a parent and
children sharing pipes, one `select()` loop serving many clients, signals that
interrupt all of it, byte streams and datagrams that the network cuts, loses
and doubles, and clients that vanish at any moment.

This directory models the three large servers, the four echo servers and the
smaller programs in which any of that happens, checks them with TLC on small
instances, and proves their safety properties, and that two of the servers
implement an abstract one, for every size with TLAPS.

## 1. Inventory

| Component | State it keeps | Operations | Interacts through |
|---|---|---|---|
| HW8 `test_serv.c`, `hw8_server.c` (made from `chat_serv.c`) | `clnt_socks`, `clnt_cnt`, `mutx`; a descriptor, request and loop index per thread | accept, append, create thread; read a request, broadcast its result, unregister, close | shared table and mutex between main and handlers; TCP to the clients; `SIGPIPE` |
| HW8 `hw8_client.c` | one socket, two threads | connect, send requests, print what arrives, exit | TCP |
| HW6 `hw6_server.c` | parent: `reads`, global buffers `mode`, `id`, `result`, `dataArray`; child: its own `dataArray` | select round, accept, readv, `mode_check` (save, load, quit); child `store_loop` | pipes `fdsA` (parent to child) and `fdsB` (back); `SIGCHLD`; TCP |
| HW6 `hw6_client.c` | one socket | connect, one request, wait | TCP |
| HW5 `hw5_server.c` | parent: `cfd`, pending `SIGCHLD`; one child per client; a logger | accept, fork, close, `read_childproc`; child: read, answer, write a line, return; logger: copy pipe to `log.txt` | `fork()` inheritance, pipe, `SIGCHLD`/`waitpid`; TCP |
| HW5 `hw5_client.c` | one socket | connect, one request, wait | TCP |
| HW2 `server.c`; HW5 `echo_mpserv.c`, `echo_storeserv.c`; HW6 `echo_selectserv.c` | one client at a time; a child per client; the same with a pipe to a logger that reads ten times; one `select()` loop with a logger | accept, read, echo, write to the pipe | TCP, pipe, `SIGPIPE` |
| HW5 `echo_client.c`, `echo_mpclient.c`; HW2 `client.c` | one socket; a writing and a reading process in `echo_mpclient.c` | write, read, quit, half-close | TCP |
| HW2 `hw2_server.c`, `opserver.c` and their clients | the position in a byte stream | read count, operands, operators; answer | TCP as a byte stream, one client at a time |
| HW3 server and client | one datagram buffer, reused | recvfrom, calculate, sendto | UDP: loss, duplication, reordering |
| HW4 file server and client | a file position on each side | send file, half-close, read a message back | TCP half-close |
| HW7 senders and receivers | a file position | send lines to a group; print them | UDP multicast and broadcast, one way |
| HW8 samples `thread3.c`, `mutex.c`, `semaphore.c` | one shared number; a mutex; two semaphores | add, count up and down; produce and consume | shared memory |
| HW8 samples `sep_serv.c`, `sep_serv2.c`, `sep_clnt.c` | one socket as two streams | send lines, close one direction, read a line back | TCP half-close |
| HW8 samples `dup.c`, `fd_test.c`, `syscpy.c`; HW5 samples for pipes, signals, wait; HW1; HW4 lookups | none that outlives a call | | |

What makes each correct, and what is hard about it:

* **Broadcast servers (HW8).** A handler must serve the connection it was
  created for; the table must list exactly the connected clients, by
  descriptors that are open; results must reach all of them, in one order for
  everybody; a client that leaves must be collected and hurt nobody. Hard:
  main and the handlers interleave between any two steps; descriptors are
  reused by the next `accept()`; a client that does not read blocks a handler
  that holds the mutex; a client that has exited provokes `SIGPIPE`.
* **Store server (HW6).** The two copies of the records must agree; the pipe
  must stay framed; a load must return every earlier save of its id and go to
  the client that asked; parent and child must not wait for each other. Hard:
  the global buffers survive from one request to the next, `readv()` may fail
  or return part of a request, a quit ends the child while other requests of
  the same `select()` round are still to be served.
* **Fork server (HW5).** Each answer must give one whole line in the log; a
  client must not depend on what other clients do; nobody may keep a client's
  connection open; dead children must be collected. Hard: concurrent writes to
  one pipe, cut anywhere by the logger's reads; signals that do not queue;
  `fork()` that fails; children that die.
* **Echo servers (HW2, HW5, HW6).** What was logged must be what was echoed;
  each client must get its own echoes, and all of them, whatever the other
  clients do. Hard: TCP cuts messages; a client that has left makes the second
  write to it a `SIGPIPE`, in `echo_selectserv.c` for everybody; the logger of
  `echo_storeserv.c` stops, and the pipe fills; the two processes of
  `echo_mpclient.c` end at different times.
* **Calculators over TCP (HW2).** A result must be computed from what its own
  client sent. Hard: fields are read one by one from a stream that may be cut
  anywhere, into buffers that still hold the previous client's request; client
  and server disagree on the length of a request with one operand.
* **Calculator over UDP (HW3).** An answer must be printed for the message it
  answers. Hard: loss, duplication and reordering, without timeout or retry.
* **Half-closed transfers (HW4, HW8 sep).** The copy must be the file, and both
  sides must come to their end. Hard: the end of the file is the end of one
  direction of the connection, blocks are cut by both `read()` and TCP, and a
  server that dies looks like the end of a file.
* **News (HW7).** The datagrams must be the pieces of the file. Hard: `feof()`.
* **Threads (HW8 samples) and `calculate()`.** Nothing may be lost of what two
  threads add, or parse with one static pointer, except where no lock is held.

`PROJECT.json` lists the hazards line by line, with the properties that cover
each, or why none does.

## 2. Modules

```
ThreadServ  <-- TestServ  <-- MCTestServ               (HW8 test_serv)
    ^              ^ \---- INSTANCE BroadcastGroup      (abstract)
    |              '---- TestServProofs
    '------ Hw8Server <-- MCHw8Server                  (hw8_server, chat_serv)
                   ^---- Hw8ServerProofs

StoreServer --- INSTANCE RecordStore (abstract)        (HW6)
    ^---- MCStoreServer, StoreServerProofs

ForkServer <-- MCForkServer, ForkServerProofs          (HW5)

EchoServer <-- EchoServerProofs                        (HW2, HW5, HW6)

MCPrograms --- INSTANCE CalcStream, Calculate          (HW2, HW8)
    ^      --- INSTANCE HalfClose  <-- HalfCloseProofs (HW4, HW8)
    |      --- INSTANCE UdpCalc    <-- UdpCalcProofs   (HW3)
    |      --- INSTANCE SharedNum, News                (HW8, HW7)
ProgramsProofs --- INSTANCE the two modules of proofs
```

`A <-- B` says that B extends A. An `MC` module only adds the sets that the
`.cfg` files give to the constants, except `MCPrograms`, which also puts the
smaller programs side by side.

### ThreadServ, TestServ, Hw8Server

`ThreadServ` has what the two broadcast servers share, and their clients. A
thread is named after the connection it was created for; a request is the pair
`<<c, k>>`, the k-th of connection `c`. The text and the arithmetic are left
out: the properties are about who gets which message, in which order.

| In the model | In the code |
|---|---|
| `clnt_socks`, `clnt_cnt`, `mutx` | the globals (`clnt_count` in test_serv.c) |
| `mpc`, `clnt_sock`, `cur` | where main is; its local; the connection it has just accepted |
| `pc`, `sock`, `req`, `idx` | each handler's position, descriptor, request; the index of the one broadcast that can be under way |
| `files` | the process's descriptor table; `accept()` takes the lowest free one |
| `peer`, `queued`, `sent`, `taken`, `stream` | the connections seen from outside: alive, not reading, FIN, RST; requests sent and read; what was delivered |
| `fate` | "sigpipe" after a write to a reset connection, "overrun" after an append to a full table |

Each lock-protected section that has no blocking call inside is one step
(append, remove). The broadcast is one step per `write()`, because a write may
block, fill the peer's buffer, provoke an RST or kill the process; the mutex is
held across these steps. `pthread_create()` and the new thread's copy of its
argument are two steps: that gap is where the two servers differ.

`TestServ` copies the descriptor when the thread is created (heap cell),
`Hw8Server` when the thread first runs (address of main's variable). `TestServ`
removes entry `i` by moving `i+1 ..` down; `Hw8Server` has the loop
`while (i++ < clnt_cnt-1)`, which leaves entry `i` and loses `i+1`, and
decrements the count whether or not the entry was found. `chat_serv.c`, from
which `hw8_server.c` was made, has the same argument and the same removal, and
`prog` says which of the two a behaviour is about: a handler of `chat_serv.c`
takes only a 0 for the end of its client, and broadcasts -1 bytes on an error,
which no client gets anything of (`Spin`). The error of a reset comes once, and
then 0; a descriptor that another handler has closed gives an error for ever,
until `accept()` uses it again.

No client of the repository writes the text format that `calculate()` of
test_serv.c reads; the clients of `TestServ` are any that connect, send
requests, read and exit, as hw8_client.c does.

`BroadcastGroup` is what a client may rely on: connections join, cast and
leave; the result of a cast reaches all members that have not hung up in one
indivisible step. `TestServ!ImplementsGroup` maps a broadcast's effect to the
step that releases the mutex, and hides until then the copies already written.

### StoreServer

One module for parent, child and clients. `ppc` walks through `mode_check()`
write by write, since the child runs between any two of them and a write to a
full pipe blocks; `cpc` says what the child reads next. A pipe is a sequence of
the writes in it: each is shorter than `PIPE_BUF`, so atomic, and the child
reads the same sizes. `ready` is what is left of `cpy_reads`: a round is served
in ascending order of descriptors, with what was true at `select()`. The
buffers `mode`, `id` and `result` keep their contents between requests, as in
the code. Two constants say what the network may do to which connections.
`Resets` may break: `readv()` returns -1 once, `mode_check()` runs on the old
buffers (`ReadError`), and if they hold a save or a load its `write()` to the
client (:153, :174) raises `SIGPIPE`, which is never ignored and ends the parent
(`Sigpipe`). The requests of `Splits` may come in two pieces: `readv()` returns
after the mode or after the identifier (`ReadPart`) or within the mode
(`ReadTorn`), and in that case the rest is read as a request of its own
(`ReadRest`).

`RecordStore` is the abstract log: a save appends and is answered with its own
result, a load is answered with all earlier records of its id, in order. In
`ImplementsLog` a save takes effect when its record is in the parent's
`dataArray`.

### ForkServer

One action per system call of the parent and of a child that others can see.
`holders` says which processes have the server's end of a connection open
(`fork()` adds one, `close()` and the end of a process remove one). `pending`
is one bit: signals do not queue. `opCount` is what main's uninitialised
variable happens to hold; a child whose client hung up uses it, because
`read()` returned 0. A log line is two units, so that a torn or mixed line can
be told; the logger's read takes any non-empty prefix of the pipe. A request
kind "long" is one whose text does not fit in `buf[MAX]`: its child may die of
that before the answer (`sprintf()` at :130) or between the answer and the line
(:135). What main's `opCount` holds can be any kind.

### EchoServer

`prog` is the server: "five" (HW2 `server.c`), "mp", "store" or "select"; every
client runs `echo_client.c` or `echo_mpclient.c`. A message is one unit or two,
TCP delivers any beginning of what is there, and a server's `read()` takes at
most `BUF_SIZE` units. `pc[c]` is what is being done for client `c`, by its
child or, in "five" and "select", by the one process (then at most one client
is in a step). A write to a client that has left resets the connection (`rst`);
the next one raises `SIGPIPE`. What a client has printed is kept as one stream
`got`, with the number of units that each of its reads returned in `lens`. The
log is told by counting: unit `j` of pipe and file, if it is client `c`'s, is
the `CountOf(s, c, j)`-th of what was echoed to `c` (`Holds`). `before` is how many clients `server.c` has
served already: it ends after five. Collecting the dead children of
`echo_mpserv.c` is done by the handler of `hw5_server.c`, and left to
`ForkServer`.

### The smaller programs: MCPrograms

Each module has its own state and `Start`, and a variable `prog` for the
programs it covers. `MCPrograms` instantiates all six; a behaviour is one
program, and the state of the others stands still. It declares the constants
with different names where two modules use one name for different things.

| Module | Programs | What is kept of them |
|---|---|---|
| `CalcStream` | HW2 `hw2_server.c` with `hw2_client.c` ("hw2"), `opserver.c` with `opclient.c` ("op") | Bytes have no value, but an origin: `<<c, n>>` is what client `c` wrote from its byte `n` on. `read()` returns any non-empty beginning of what was asked and is there, and 0 from a client that has closed; `operand` and `operator` keep their contents from one client to the next. |
| `HalfClose` | HW4 `hw4_server.c`/`hw4_client.c` ("hw4"), `file_server.c`/`file_client.c` ("file"), HW8 `sep_serv.c` ("sep") and `sep_serv2.c` ("sep2") with `sep_clnt.c` | The units of the file are numbered. `buf` is the server's one buffer, in which the message back is read, or not; `wire` the connection, whose half-close is `shut`. |
| `News` | HW7 `hw7_sender.c` ("group"), `hw7_sender_brd.c` ("broadcast"), and the receivers | A piece is what one `fgets()` reads; `atEnd` says that the last one runs into the end of the file, so that `feof()` is already true after it. |
| `UdpCalc` | HW3 `hw3_server.c`/`hw3_client.c` ("hw3"), `udp_server.c`/`udp_client.c` ("udp") | The network is a bag of datagrams; any may be lost, and `DupMax` doubled. Delivery is in any order. |
| `SharedNum` | HW8 `thread3.c`, `mutex.c`, `semaphore.c` | An addition is a load and a store. |
| `Calculate` | `calculate()` of `test_serv.c` | A `strtok()` is a load of its static pointer and the rest of the call; tokens are `<<h, n>>`, the n-th of the string of handler `h`. A negative count passes line 142 and asks for nothing further. The operands may come to -99999. |

### Variants

Some modules define, just before an operator, a second form of it with a
typical mistake (`RemoveWrong`, `NoLock`, `WriteLineInParts`, ...). The
specification does not use them. They are there to show that each property can
fail: putting the variant in the operator's place must make TLC find the
property violated. `PROJECT.json`, "mutants", pairs them.

## 3. Runs

Every run finishes within five minutes with two workers.

| Run | Question | Expected |
|---|---|---|
| `TestServ` | Two clients, two requests each: ownership of descriptors, the table, the inductive invariant `FullInv`, refinement of `BroadcastGroup`, requests answered, leavers collected | holds |
| `Hw8_serial` | Three clients, a table of two, either server: what `hw8_server.c` and `chat_serv.c` keep in spite of their defects | holds |
| `Hw8_owner` | Does each handler serve the client it was created for? | violated: second `accept()` before the first copy (hw8_server.c:58, :72) |
| `Hw8_lost` | Is every connected client in the table? | violated: the faulty shift drops the leaver's neighbour (:136) |
| `Hw8_sigpipe` | Does the server survive a client's exit? | violated: write to a reset connection (:153) |
| `Store` | With resets, split requests and a pipe of two writes: framing, agreement of the two copies, no stray answer, every request answered | holds |
| `Store_log` | With save, load and quit: one log | holds |
| `Store_quit` | Does the parent's read of `fdsB` return? | violated: load after quit in one round (hw6_server.c:172) |
| `Fork` | Whole lines, one per answer, no descriptor kept; answered, logged, nobody left waiting | holds |
| `Fork_zombie` | Is every dead child collected? | violated: two ends, one signal (hw5_server.c:155) |
| `Echo` | Two clients of any kind at any of the four echo servers: the log, who gets which echo, who can kill what, everything echoed | holds |
| `Programs` | The smaller programs, one per behaviour | holds |

The violated properties are what comments of the code say; each finding in
`PROJECT.json` quotes the line.

What the properties say, beyond their names:

* `SameOrder` (`Hw8_serial`): any two clients that both got two results got
  them in the same order, although one connection may have two handlers and
  the table may list a client twice. `CountsHandlers`: `clnt_cnt`, decremented
  whether or not the removal found anything, is still the number of handlers
  that have not unregistered.
* `PipeIsFramed`, `CopiesAgree`, `AnswerIsAwaited` (`Store`): the child never
  takes a record for a mode or the reverse; its records, with those in the
  pipe, are the parent's; nobody reads another load's answer.
* `RequestsAnswered` (`Store`): every request is answered or its connection
  closed, except when the client's own connection breaks, its mode is torn in
  two, or another client's reset has met the mode of a save or a load in the
  buffer and so killed the parent.
* `OneLinePerAnswer` (`Fork`): no client has more than one line in the log, and
  none before its answer; a child that has answered and comes to its return has
  written its line, and only one whose text overran `buf` can die between the
  two. `AnsweredIsLogged`: the line gets to the file, with that exception. `HoldersWillClose`: whoever has a connection open
  is going to close it, so that no client waits for an end that never comes.
* `LogIsEchoed` (`Echo`): pipe and file together have of each client what was
  echoed to it, whole and in order. `InStep`: `echo_client.c` prints the k-th
  echo after the k-th message as long as its messages come in one piece.
  `KilledByTwoPieces`: only a client of whose data two pieces were read after
  it had left can kill a process, never one that waits for its echoes.
  `ReaderGetsAll`: the reading half of `echo_mpclient.c` gets every echo though
  the writing half has quit. `EchoComes`: everything sent is echoed, unless
  the logger of `echo_storeserv.c` has stopped and its pipe is full, or a
  silent client holds `server.c`.
* `AnswerIsOwn` (`Programs`, HW2): unless a `read()` came back short, the
  result is that of the client's own operands and operators.
  `OnlySilentHoldUp`: everybody who has sent a request is answered, or the
  server waits for ever for a client that has sent nothing, or has sent one
  operand (4 bytes, of which the server expects 5).
* `CopyIsFile`, `BothEnd` (HW4, HW8): a client that takes its copy for complete
  has the file, unless the server was killed; both sides end.
  `PrintedAsReceived`: what each server shows as its client's message. For
  `hw4_server.c` there is no message: its client means to send the copy back,
  reads on from the end of it, gets nothing and closes; the server prints what
  its buffer still holds of the file.
  `sep_serv.c` never gets the message, since it has closed both directions.
* `SentIsFile` (HW7): the pieces in order, the last one twice if the file ends
  in a newline or a full buffer; garbage once if the file is empty.
* `InStep` (HW3): an answer belongs to the message before it as long as no
  datagram is doubled; afterwards `udp_client.c` may print an old one, never
  one to a message not yet sent. `hw3_client.c` is immune. `AnsweredOrLost`:
  a client waits for ever only if it has lost a datagram, or another client
  has ended the server.
* `LockedIsExact`, `ThreadsEnd`, `LostUpdatesBounded` (HW8): `mutex.c` and
  `semaphore.c` lose nothing (the sum is that of `num` after each `scanf()`,
  successful or not) and end; `thread3.c`, without a lock, loses any
  addition but the last of one thread and the first of the other.
* `OwnTokens` (`calculate()`): a calculation with which no other overlaps gets
  its own tokens, and returns 0 for want of one only if its client sent too few.
  One that overlaps has its own count, and is given as many tokens as that asks
  for or returns 0; but the tokens may be anybody's, and what they come to may
  be -99999, for which line 98 then disconnects the wrong client.

### Bounds

* `Conns`: connections, each used once. Two are enough for every pairwise race
  (shared argument, removal against broadcast, two requests in two orders);
  three are used where a third party matters: the entry *behind* the leaver's,
  a fork that fails while two children live, a load after two saves.
  `Hw8_serial` uses symmetry of the connections (it has no liveness property).
* `Fds`: as many descriptors as connections, so `accept()` never fails, and a
  closed descriptor is reused at once. Real descriptors are never exhausted in
  the model.
* `MaxReq`: requests per client; two show the order within one client.
* `MAX_CLNT`, `DATA_MAX`, `ResultMax`: the array sizes, small enough that the
  runs `Hw8_serial` and `Store` go past them. The model stops there, since what
  the program does then is undefined.
* `PipeMax`: writes (HW6) or units (HW5, echo servers) that fit in a pipe, small
  enough to fill; it stands for 64 KiB. After a quit the child is assumed to
  make room for a blocked write before it ends.
* `ProcMax`: children the parent may have, zombies included.
* `Modes`, `Kinds`, `Resets`, `Splits`: which requests and faults a run
  enumerates. In `Fork` one client may send a long request and the two others
  fitting ones, and each may hang up instead. In `Store` one connection may
  break, another may have its request split, the third has neither; there is
  one identifier. `Store_log` has two, and no faults, `Store_quit` none either.
* `Echo`: two clients, two messages of one or two units between them, a buffer
  and a pipe of one unit. `LogReads` is 1 for the ten reads of the logger and
  `ServedMax` 2 for the five clients of `server.c`: a log that ends before the
  clients do, and a server that ends before everybody is served, both happen.
* `Programs`: two clients or handlers; `Counts` 0 to 3 (refused, the request
  whose length is wrong, and two that are right); files of up to five units
  with buffers of two and a connection of three, so blocks, reads and the end
  of the file fall anywhere; two pieces of news; two messages, one doubled; two
  calculations per handler with a count of -1, 0 or 2, and up to one token more
  than it asks for. `Rounds` is 5, that of
  `thread3.c` and `semaphore.c`; for the 50000 of `mutex.c` the proof holds.
  `LostUpdatesBounded` is about the five rounds of the code: with a single
  round an addition can overwrite all there is.
* In `ThreadServ` one `readv()` returns one request. The backlog of `listen()`
  is not bounded.

`Store_log` and `Store_quit` switch deadlock checking off: these systems come
to rest when all clients have been served, and after a quit and a blocked load
the store server really is stuck. `Store` checks the same specification for
deadlock, with the states of rest named in `Finished`.

### Fairness

* `TestServ`: weak fairness of main, of every handler, and of `Drain`. The
  first two are the thread scheduler's. Weak fairness of the handler is enough
  for the mutex since the runs are finite in requests and nobody can take it
  for ever. `Drain` is an assumption about the *clients*: one that is alive
  goes on reading, as the receiving thread of hw8_client.c does. It is needed:
  a client that stops reading stops the whole server, because a handler holds
  the mutex across its blocked `write()`.
* `StoreServer`, `ForkServer`: weak fairness of each process, and of signal
  delivery. Nothing is assumed of the clients: one that connects and says
  nothing delays nobody.
* `EchoServer`: the server's processes, the logger, and the reading of a client
  that is there (each blocks in `read()` or waits in its own process for it).
  Nobody is made to say anything or to leave.
* `CalcStream`: the server. `HalfClose`: server and client. `UdpCalc`: the
  server and each client's wait for an answer; the network is not obliged to
  deliver, since an answer that stays away is what `AnsweredOrLost` is about.
  `SharedNum`: each thread.

## 4. What is proved

Everything below holds for all values of the constants that satisfy the named
assumptions of the modules (sizes are numbers and not zero, descriptors are
positive, `None` is none of the values it stands beside; of the counts an
operand count of HW2 can be, one is the largest, since it is a byte). None of
them bounds the number of clients, requests, rounds, records or pieces. Three
theorems assume more, and say so: `Hw8ServerProofs` that the connections are
finitely many, `LostCorrect` that there are at least four rounds, and
`LogImplemented` that `readv()` neither fails nor returns part of a request.

| Module | Theorems about the runs' properties |
|---|---|
| `TestServProofs` | `TypeCorrect`, `TableCorrect` (`TableIsTheConnected`), `OwnershipCorrect` (`HandlerOwnsItsConnection`), `FullInvariance` (`FullInv`), `GroupImplemented` (`ImplementsGroup`), and `BroadcastSeesOneTable`: no step changes the table while the mutex is held |
| `Hw8ServerProofs` | `CountCorrect` (`CountsHandlers`), `OrderCorrect` (`SameOrder`), for finite `Conns` |
| `StoreServerProofs` | `TypeCorrect`, `FramingCorrect` (`PipeIsFramed`), `AnswersCorrect` (`AnswerIsAwaited`), `CopiesCorrect` (`CopiesAgree`), with resets and split requests; `LogImplemented` (`ImplementsLog`), without |
| `ForkServerProofs` | `TypeCorrect`, `HoldersCorrect` (`HoldersWillClose`), `LinesCorrect` (`LinesWhole`), `OneLineCorrect` (`OneLinePerAnswer`) |
| `EchoServerProofs` | `TypeCorrect`, `LogCorrect` (`LogIsEchoed`), `InStepCorrect` (`InStep`), `KilledCorrect` (`KilledByTwoPieces`), `ReaderCorrect` (`ReaderGetsAll`) |
| `ProgramsProofs` | `TypeCorrect`, `AnswerCorrect` (`AnswerIsOwn`, HW2), `OwnCorrect` (`OwnTokens`), `LostCorrect` (`LostUpdatesBounded`), `PrintedCorrect` (`PrintedAsReceived`), `CopyCorrect` (`CopyIsFile`), `InStepCorrect` (`InStep` of HW3), `LockedCorrect` (`LockedIsExact`), `SentCorrect` (`SentIsFile`) |

**test_serv.c.** "The table lists exactly the connected clients, each once, by
an open descriptor" is not inductive. That a removal takes out the right entry
needs that the handler's descriptor is its own connection's
(`HandlerOwnsItsConnection`); that an append adds a new one needs that main's
`clnt_sock` refers to the connection just accepted, that this connection is in
no other descriptor, and that it has no thread yet
(`DescriptorsAccountedFor`); that `accept()` does not hand out a descriptor
that is still listed needs that a handler closes only after its removal, which
is the order of lines 115 to 128. `MutexHolderSends` ties the mutex to the one
handler that is sending, and `RequestInHand` the request being sent to what its
own client asked. `IInv` is the conjunction.

That test_serv.c implements `BroadcastGroup` needs one thing more, about the
broadcast in progress (`InTransit`): the streams that end with the request
being broadcast are exactly those of the clients the loop has passed, those
that hung up excepted, and every other stream ends with a result of an earlier
broadcast. `FullInv` is `IInv` with it. Each write of the loop is then a
stutter of the group, since the copy it delivers is held back; the step that
releases the mutex is the group's cast, since the loop has passed the whole
table, and the table is the connected clients; every other step leaves a
broadcast alone (`Quiet`) and is a join, a leave, a hang-up or a stutter.

**hw8_server.c and chat_serv.c.** `IInv` is `Types`, `Fresh` (a connection has
no handler before main has created it), `Listed` (the faulty shift leaves no
entry empty) and `CountsHandlers`. For the order, `Ordered` adds that what a
handler is about to broadcast is in no stream yet, and that what is being
broadcast is followed by nothing else wherever it has arrived (`Latest`); the
mutex makes the second inductive, and nothing about the table is needed.

**hw6_server.c.** The agreement of the two copies rests on the framing: what
the child will be reading when the pipe is empty is what the parent writes next
(`Framed`: `Phase = Expected`), as long as the parent lives; if it is killed
between two writes the pipe just ends there. `Loading` says that an id in the pipe is the
last write there and that the parent waits; `Serving` what the sockets of a
`select()` round still refer to, and that a mode in the buffer came with an
identifier, which is what makes a repeated request after a failed `readv()`
harmless for the framing.

For `ImplementsLog`, `LogInv` relates the parent's globals to the client being
served: `mode`, `id` and `result` are what that client sent, which is true only
while no `readv()` fails or is short (`Resets = Splits = {}`, as in the run
`Store_log`);
an id in the pipe is the parent's, so the records the child sends back are
those the parent has under that id (`Asking`); and a child has been told to
end only by a parent that has stopped listening (`Quitting`).

**hw5_server.c.** `Parenting` (the connection between `accept()` and `close()`)
makes `HoldersWillClose` inductive; `Written`, about the file followed by the
logger's piece and the pipe, makes `LinesWhole` and `OneLinePerAnswer` so,
wherever the logger's reads end: moving a piece from one to the other does not
change the whole. `Written` says that a child has at most one line, if it may
have got to one (`MayLog`), and certainly one if it is past writing it and its
text fits (`Logged`). `Answering` orders the line behind the answer.

**The echo servers.** `LogIsEchoed` is inductive once it is said of the unit
in hand too: between the echo and the write to the pipe, what was echoed to a
client is one piece ahead of the log (`LoggedOf`). The other properties rest on
`ClientInv`. A client of `echo_client.c` with short messages has at most one
unit on its way, and no reset comes before it (`OneAtATime`), so its server is
never killed and each of its reads returns the next message. What was echoed to
a client that is there is what it has read and what is on its way to it; the
end comes only behind that (`Returned`). Counting units of one client among
those of others replaces the recursion a filter would be (`CountGrows`,
`CountOwn`, `CountOthers`).

**The smaller programs.** `HalfCloseProofs`: the copy and the wire are the
beginning of the file up to the server's position (`Streamed`), which at the
shutdown is its end (`Position`). While it sends, its one buffer holds the last
pieces it has read, a shorter piece overlaying the one before (`Printing`);
hence what `hw4_server.c` prints of a message that never came. `UdpCalcProofs`: at most one datagram of a
message is in flight but for the doubled ones (`Bounded`), and none of one that
has been answered while none was doubled (`Answered`).

`ProgramsProofs` has the invariants of the others, and puts all together: its
lemmas show that a step of an instance is a step of the instance of the module
of proofs, and that a program that is not the one at hand stands still.

* HW2: what the server has read of a request is the beginning of what this
  client has written (`Parsed`), and the operator at hand is the one for the
  next turn (`Applied`), in a request that was not torn and whose length both
  sides agree on. What the buffers hold of earlier clients is behind that.
* `calculate()`: of two calculations that overlap both are marked, so one that
  is not marked has the static pointer of `strtok()` for itself: it is the
  place behind the tokens it was given (`InOrder`). One that goes on lacks a
  token, and one that returns a result has all it asks for (`Counted`), mixed up
  or not. The first token is the
  caller's own in any case, because that call does not load the pointer.
* `mutex.c`: the number is what both threads have done of their rounds
  (`CountedUnderMutex`). `semaphore.c`: one token goes to and fro between the
  semaphores (`OneToken`).
* `thread3.c`: a thread overwrites the other's additions, never its own. So the
  number is at least all of thread 1's additions, or has one of thread 2's
  larger numbers in it, and so has what thread 1 has loaded and not yet stored
  (`Bounded`). At the end that is more than twice the rounds, or the sum of
  thread 1's numbers, which is more than that from four rounds on: with three
  rounds 6 is possible, and the bound says 7. The code has five.
* HW7: `Reading` relates what was sent to the position in the file.

Only model-checked, not proved: all liveness (`RequestsAnswered`,
`GoneAreCollected`, `AnsweredIsLogged`, `ClientReturns`, `EchoComes`,
`OnlySilentHoldUp`, `BothEnd`, `AnsweredOrLost`, `ThreadsEnd`), since fairness and `ENABLED` are out of the prover's reach. The runs that expect
a violation have nothing to prove.

## 5. Not modelled, and why

* Arithmetic, text formats and terminal output, except where a variable's stale
  contents or a message's identity matter. So of `test_serv.c` is left out what
  `calculate()` computes and what the text of a result is, and of its
  `formatted_expr`, left uninitialised when a token is missing or the count is
  negative, what the broadcast line then reads.
* In the broadcast servers and `ForkServer` one read returns one request;
  requests that TCP splits or joins are the subject of `StoreServer`,
  `CalcStream` and `EchoServer`.
* HW6: that closing a connection with bytes unread resets it, so that the client
  may lose its answer; identifiers without their NUL byte after a torn request,
  and what is overrun with them; that the rest of a torn request is again split.
* What happens after memory is overrun (`AppendBeyond`, `SaveRecord`,
  `StoreLoad`): undefined. Calculations in HW6 are taken to be shorter than
  `REQ_SIZE`.
* Setup failures (`socket`, `bind`, `listen`), and `pthread_create` failing.
* HW2: that the answer is lost when the server closes with bytes of the request
  unread, and the connection is reset. What a client of the echo servers writes
  to a server that has already closed or ended. That `accept()` gets an
  uninitialised address length (`server.c:46`), and may refuse it, which ends the
  server.
* `thread1.c` and `thread2.c` start one thread each and share nothing;
  `thread4.c` includes `windows.h`. `dup.c`, `fd_test.c`, `syscpy.c`, `readv.c`,
  `writev.c`, HW5's pipe, signal and wait samples, HW4's lookups and
  `sock_type.c` call one system call after the other, without anybody else
  taking part. HW1 is one write and one read in each direction.
* HW7's `news_*.c` are `hw7_*.c` but for comments.

## 6. What is left

1. `SameOrder` of `test_serv.c` follows from `ImplementsGroup` and is not
   stated by itself; nor are the lemmas of the abstract specifications alone
   (that in `BroadcastGroup` any two members see the same order).
2. Larger instances of `Echo` (two clients with two long messages each).
