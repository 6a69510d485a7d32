# itrace arm software: TLA+ models and proofs

The repository holds the programs that run on the ARM side of an acquisition
board: a server that streams the DMA device's data to one client (port 9200), a
server that carries command and status frames between one client and the board
(port 9100), and small libraries. This directory holds the models of them, the
TLC configurations that check the models, and the TLAPS proofs.

## The system

| part | state | operations | how it interacts |
|---|---|---|---|
| acquisition data path (`acq_data_trans/server.c`: `read_dma_thread`, `send_acq_data_thread`) | two DMA buffers with a length each, two pipes of buffer indices | take an index, fill, hand over; take, send, give back | two threads share the buffers without a lock; the index is the token |
| acquisition server (`create_acq_data_trans_server`, `clear_thread`, `main.c`) | `child_pid`, `has_clear_thread`, `system_status`, `g_sem`, descriptors, per process | accept, end the previous child, fork; SIGINT handler; clear_thread closes and exits | `fork()`, `kill()`, `wait()`, a semaphore between handler and clear_thread |
| command and status server (`cmd_status_trans`) | the same, and the hardware's control register | the same; the child's clear_thread resets the hardware, the parent's ends a child | the same |
| command channel (`read_net_cmd_thread`, `send_status_data_thread`) | a frame cache, the shared `socket_fd` | read a frame and write it to the device; read status and send it | two threads share the parameters |
| `general/general.c` | none | `readn`, `writen`, `is_process_alive` | called by all of the above |
| `private_libary/linux_socket` | connections, the process's descriptors | `create_srv_netsock`, `close_fd`, `read_data`, `write_data`; a demonstration with a server and a client thread | the servers use the first two |
| `private_libary/linux_serial_port` | a port's `termios` | setters, `set_serial_port_attr` | used by neither server |
| `private_libary/linux_thread` | a variable two threads write | `create_detached_pthread`, a demonstration | the servers start their threads with it |
| `private_libary/cstring_extern_lib` | none | trim, split, convert | used by neither server |
| test programs (`test.c`) | a count of errors | read the device, `check_data_inc` | what `main()` of both servers runs in this commit |
| time and log libraries | none | formatting, macros | - |

In this commit `main()` of both servers starts a test thread and pauses for ever;
the code that starts the server follows it and is not reached. The models take
the server as that code starts it.

### What is hard in it

* Two threads share buffers, lengths and descriptors with no lock; only the
  order in which an index travels through two pipes keeps them apart.
* `clear_thread` closes descriptors that other threads are blocked on.
* A signal handler sets a flag, posts a semaphore and re-installs itself in three
  steps, on the main thread, which may be inside `accept()`, `wait()` or `fork()`.
  Built with `-std=c99`, `signal()` is System V's: one-shot, and it interrupts
  calls. The desktop project of the command server builds with BSD's.
* The parent ends one child and forks the next while the old one may still be
  opening the device, may have failed to, or may be exiting; its own
  `clear_thread` runs beside it.
* `fork()` copies whatever state the parent has at that moment.
* `close_fd()` does not close: children keep the listening socket.
* `read()` and `write()` move what they like; four loops make whole transfers of
  them, and differ in what they retry and what they return.
* The demonstration server outlives its clients: each may send its header in
  pieces, stop inside it, leave or be reset, while others wait in the backlog.
* A serial port keeps its options from call to call and from program to program.

`PROJECT.json` lists each of these hazards at its line, with the properties that
cover it, or the reason why none does.

## The modules

    AcqStream            what one client of the acquisition server is promised
      ^ implements
    AcqPipeline          one child: two threads, two buffers, two pipes, clear_thread
      ^ EXTENDS
    AcqPipelineProofs    theorems       MCAcqPipeline   TLC instance

    ForkingServer        what both servers share: processes, signals, accept/kill/fork
      ^ EXTENDS
    AcqServer  CmdServer what differs   MCAcqServer, MCCmdServer   TLC instances

      ^ EXTENDS
    ForkingServerProofs  lemmas on the shared steps
      ^ EXTENDS
    AcqServerProofs  CmdServerProofs    theorems of the two servers

    CmdChannel           one command child: frames one way, status the other (its
                         status implements AcqStream too)   MCCmdChannel   TLC instance
      ^ EXTENDS
    CmdChannelProofs     theorems

    NetServer BlockingIO SerialPort CString ThreadDemo DataCheck
                         the libraries, the I/O helpers and the test programs
      ^ EXTENDS
    MCLibraries          TLC instance: each of them by itself
    LibraryProofs        theorems of BlockingIO, SerialPort, DataCheck, CString
    NetServerProofs      theorems of NetServer

    LeastNumber          the least number of a set, and induction: used by both

### AcqPipeline

One action per step a thread takes that another can see. `ReaderLoop` ...
`ReaderPut` are the statements of `read_dma_thread`; `SenderLoop` ...
`SenderGive` those of `send_acq_data_thread`, with one `SenderWrite` for every
`write()` that `writen` makes; `HandlerStop` and `HandlerPost` are the two halves
of `sig_handler`; `ClearWait`, `ClearCheck`, `ClearClose` are `clear_thread`,
which closes one descriptor a step in the order `ProcSource.fd` lists them.

| code | model |
|---|---|
| `dma_index_pipe`, `socket_index_pipe` | `dma_index`, `socket_index`: sequences of indices |
| `DmaBuffer.length`, `.data` | `length`, and `first`: the number of the device unit at `data[0]` |
| the bytes of the stream | units numbered from 1 in the order the device gave them; `sock` is what was written |
| a read of a buffer the device is filling | the unit 0, which is not one of the device's |
| descriptors closed so far | `nclosed`, an index into `FdOrder` |

A pipe holds at most `NumBufs` one-byte indices (see `IndexCorrect`), so writing
to one never blocks. A `read()` blocked on a descriptor that is then closed
goes on, as on Linux; a call made afterwards fails. A `read()` of the device
returns 0 to `MaxLen` units, or fails; a `write()` to the client takes any
positive part of what is left.

### ForkingServer, AcqServer, CmdServer

The process table `proc` maps a pid to a record: where its main thread is, its
local variables, its clear_thread, its copy of `system_status` and `g_sem`, the
state of its handler, and which of the listening socket and the device it has
open. `fork()` copies the record. Exit closes the descriptors, leaves a zombie if
the parent lives and hands the children to init. `Bind`, `Accept`, `Kill`, `Wait`,
`Poll`, `Fork` are the statements of `create_*_server`; the `...Fails` actions are
its error paths, switched on by the constant `Faults`; `BindFails` is a `bind()` or
`listen()` that fails. An `accept()` that is blocked when `clear_thread` closes the listening
socket goes on, as on Linux: the kernel's socket lives, and listens, until the call
takes a client or is interrupted (`Closed`, `HoldsAfter`); one called afterwards fails. `Boot`, `Connect` and
`Operator` are the world: somebody starts the server when none runs, clients
connect, SIGINT goes to the server alone or to its process group.

`AcqServer` and `CmdServer` add the child's set-up and the rest of `clear_thread`.
They differ where the code does: after a failed set-up the acquisition child
exits and the command child pauses with the device open; the command parent's
`clear_thread` is given a child's pid and kills it, the acquisition parent's
jumps over that code; only the command child resets the hardware.

### CmdChannel

`CmdLoop` ... `CmdWriteFails` are the statements of `read_net_cmd_thread`, `StatusLoop`
... `StatusWriteFails` those of `send_status_data_thread`. A byte of the command stream
is a pair of its frame's number and its place in the frame, byte 0 being the
length byte; `inq` is what has arrived, `cmd_cache` what the reader holds, `dev` what
the device was given. `CmdCall` is the moment `readn` is called, when `socket_fd` is
read; a `readn` that is already blocked keeps the descriptor it was given. The
client sends byte by byte and may leave after any. Status is units, as above.

### NetServer

`create_netsock_server` on one thread and `open_clt` on another, in one process, as
the demonstration program starts them. `SrvSocket` ... `SrvDrop`, `SrvShutdown` are the
statements of the server's loop with one `SrvRead` for every `read()` of `read_data`;
`CltSocket` ... `CltClose` those of the client with one `CltWrite` for every `write()`
of `write_data`. `AfterHead` is the test of `read_head_frame`'s result. `Other` is
other programs that use the port: they connect, send any part of a header, leave.

| code | model |
|---|---|
| a descriptor | a number of the table `fds`; the lowest free one is given out (`NewFd`) |
| a connection | a record of `conns`: both ends, what a write meets (`link`), units in flight |
| the bytes of a stream | counted only: no header is ever looked into |
| `left_len`, `max_read_count` | `left_len`, `empty` |
| a write to a closed connection | the first resets it, the next fails (`CltWriteFails`) or kills the program (`CltKilled`) |

### BlockingIO, SerialPort, CString, ThreadDemo, DataCheck

`BlockingIO` is one call of `readn`, `writen`, `read_data` or `write_data` over a file
that transfers any part, is interrupted, fails or returns 0; `moved` is what the file
has really transferred, `nleft` what the loop believes is missing.

`SerialPort` has the library's functions under their own names, as operators on a
`termios`: its speed, size, and the flags the setters touch. `SetPort` is
`set_serial_port_attr` with everything it calls, `SetOne` a single setter whose result
the caller applies. An `int` that becomes a `char` on its way loses its upper bits
(`AsChar`). Two history variables: `asked` is what the calls asked for by what the header
says of a description, applied to the `int` the caller gave and to the rate itself;
`misread` names the fields whose last description was one only once it was cut.

`CString` writes the walks of `cstring_trim` and `c_splite` as recursive functions over
positions. `memory` is the array `c_splite` is given, `MaxElem` rows (`max_element_num`) of
`MaxTok` characters (32 in the code), and the memory behind it, in rows too:
`Cleared` clears the array's rows, `Filled` writes a token to each row without a look
at their number, and `ReadString` is what the caller's `printf("%s")` then finds at a row.
`ThreadDemo` is the two threads of `linux_thread/main.c` and its `main()`;
`DataCheck` is `check_data_inc` as a fold over what a `read()` returned, and the loop
around it.

These modules have nothing in common, so `MCLibraries` takes them together: its
variable `part` says which one runs, and the variables of the others do not change.

## What TLC checks

| run | instance | result |
|---|---|---|
| `acq_pipeline` | 2 buffers, transfers of up to 2 units, 5 units, a SIGINT again before the first is taken | passes |
| `acq_server` | 3 clients, 1 SIGINT, all faults, System V `signal()` | passes |
| `cmd_server` | 3 clients, 1 SIGINT, all faults, BSD `signal()` | passes |
| `cmd_channel` | 2 frames of length 0 or 2, 2 status units in reads of up to 2, 1 SIGINT | passes |
| `libraries` | see below | passes |
| `acq_restart` | 2 starts, 3 clients | `DeviceExclusive` violated |
| `acq_early` | 2 clients | `SigintExitsServer` violated |
| `acq_stranded` | 2 clients, `open()` of the device may fail | `ChildClosed` violated |
| `cmd_lone` | 2 clients | `ParentSigintExits` violated |
| `cmd_oneshot` | 2 clients, System V `signal()` | `ResetOwned` violated |
| `cmd_reset` | 1 frame | `ResetFrameTaken` violated |
| `serial` | the serial library's part of `libraries` | `FrameAsAsked` violated |

**acq_pipeline.** Buffers are never shared (`BufferExclusive`), the two threads never
wait for each other (`NoStall`), the client receives the device's data in order
(`InOrder`), what is in flight fits the buffers (`Backlog`), the process exits after
SIGINT (`StopExits`), and the device comes to rest once the sending thread is gone
(`LostClientStopsReading`). `StreamSpec` says that all of it implements `AcqStream`
with its fairness: what the device gave is delivered unless the stream is cut.
Bounds: two units a transfer are enough for a `write()` to be partial, five units
for both buffers to be full and one to be reused, and the code has two buffers.

**acq_server, cmd_server.** One process at a time has the device (`DeviceExclusive`),
a client that comes while another is served is served (`ReconnectServed`), what
the acquisition parent signals is a child it has not reaped (`KillsOwnChild`; of the
command parent, `KillsUnreaped`, see below), a
SIGINT ends a process (`SigintExits`, `ChildSigintExits`), and nobody ends between
the two writes of the control register (`ResetOwned`). Three clients make the
parent end one child that was forked before its clear_thread existed and one
that was forked after. The command server passes under BSD's `signal()` only, as the
build in `build-cmd_status_trans-Desktop_*` has it (it sets no `-std`): with System V's,
which the repository's other Makefiles choose by `-std=c99`, a second SIGINT ends the child, `ResetOwned` is false
(`cmd_oneshot`), and `ReconnectServed` and `ChildSigintExits` are not checked. What is proved of
`DeviceExclusive` holds for either.

**cmd_channel.** The device receives the client's non-empty frames byte for byte in order
(`FramesInOrder`), no part of a frame the client did not finish (`OnlyWholeFrames`), and
every finished one unless the process is stopped, a device write fails or the
status thread lost the connection first (`FramesDelivered`). Status reaches the client
as an `AcqStream` that is cut when a write fails (`StatusStream`), and is read from the
device whether or not there is a client (`StatusDrained`). Two frames, each empty or of
two bytes, give every order of an empty and a full one and every way to split one.

**libraries.** The socket server has one connection open at most, the one `conn_fd`
names (`ConnsReleased`); it gives a connection up only after a whole header or when the
client has gone (`NoEarlyDrop`); a client in the backlog is accepted (`BacklogServed`)
unless the one before it says nothing and stays for ever; the client's thread ends
(`ClientEnds`). Headers of two units, so that one can come in halves; two messages, so
that the client writes to a connection the server has closed; one other program,
before or behind the client in the backlog; two tries and one empty read, so that a
retry succeeds and a limit is met; three descriptors (the listening socket, the client's,
the connection), so that a number is used again. `NetTypeOK` holds the retry counters
to their limits.

The four I/O loops tell in what they return whether all bytes were moved (`ResultExact`)
and return (`IoEnds`), for up to 4 bytes and 2 zeros in a row. `check_data_inc` counts
every break inside a read, once, and nothing else (`ErrCountExact`): bytes below 4, reads
of up to 3, until 4 errors. The thread demonstration ends (`DemoEnds`), with each
number of threads that could be created. `cstring_trim` returns what is between the
blanks at both ends (`TrimExact`): all strings of up to 5 of a letter, its upper case, a
blank and a line's end. `c_splite` puts every token into the row of its number and no
other cell changes (`SplitExact`): an array of two rows of two characters, full of NULs or of
anything else, so that a token can be longer than a row, exactly fill it, or come
third. `SplitExact` says where the characters go, behind the array too, and which rows
are read back as their tokens: those that are shorter than a row.

The frame on a serial line follows the calls (`FrameFollows`): every order of setters,
descriptions the library knows and does not know, from a port some program left in
any of 16 states. It departs from what was asked in two ways and no other: 3500000
gives 2500000, and a number of data or stop bits that is a known one once cut to a
`char` (264 is 8, 258 is 2) is taken for it. That it should depart in neither is
`FrameAsAsked`, which `serial` shows false.

**The violations.** (1) Between clear_thread's `close()` and its `exit()` the main
thread may fork a child that holds neither the listening socket nor, soon, a
parent; a server started then serves its first client beside it. (2) Before the
first client nothing waits on `g_sem`, so SIGINT does not end the server. (3) A
child that could not open the device pauses without a clear_thread; when the next
client comes the parent waits for it for ever. (4) The command parent's
clear_thread signals the first child it ever had and waits for the present one.
(5) The command reader's test for the reset frame compares no bytes; the frame is written
to the device and resets nothing. (6) With System V's `signal()` a second SIGINT kills
the command child while it holds the hardware in reset. (7) The rate 3500000 sets
2500000 (and 264 data bits, which are an error by the header, set 8).

**Faults that passing runs contain.** The models follow the code in these too, and no
property forbids them. The socket server compares the result of reading a header, 1 or
-1, with the header's size: a header that is whole is dropped like half of one, and
`protocol()` is never called (`AfterHead`). `c_splite` clears as many rows as it is told there
are and writes as many as there are tokens, over the memory behind the array
(`Filled`); a token of a row's length fills its row without a terminator, and
whoever prints it reads on into the next row (`ReadString`). The command parent's
clear_thread reaps any child: main() may have accepted the next client and be about
to signal that very child, whose pid may then be another process's. `KillsUnreaped`
allows that case alone.

The runs end in states where nothing more happens - the process has exited, or the
server waits for a client that does not come - so deadlock is not checked; that
the threads do not block each other is `NoStall` and the liveness properties.

### Fairness

Every thread is scheduled: weak fairness of each thread's steps, and of the
handler once its signal is pending. `read()` of the device returns (the driver
answers 0 when it has nothing; the code sleeps and asks again), and a client that
keeps its connection open keeps reading; a client that does neither is not
something `AcqStream` promises anything about. Nothing is assumed of clients that
come or go, of the operator, or of failures.

In `NetServer` both threads are scheduled, in `ThreadDemo` all three; in `BlockingIO` a
call that is interrupted is not interrupted for ever, which `readn` and `writen` rely on
(they retry without a limit). Nothing is assumed of other programs on the port: that is
why `BacklogServed` has its exception.

## What is proved

`AcqPipelineProofs` proves, for every number of buffers, capacity and amount of
data allowed by `PipelineAssumption`:

* `TypeCorrect`, `IndexCorrect`, `BuffersExclusive`, `NeverStalls`: the two threads never
  hold the same buffer, and one of them can always go on;
* `IInvCorrect`, `DeliveredInOrder`: the client receives the device's units in order;
* `BacklogBounded`: what was read and is not yet on the socket fits the buffers;
* `ImplementsStream`: every step is a step of `AcqStream` or a stutter.

The argument. `BufferExclusive` is not inductive: nothing in it says that the index
about to be taken from a pipe is not in the other thread's hands. `IndexUnique`
says that an index is in one place only - a pipe, once, or a thread's hands -
and `IndexConserved` that none is lost while both threads run; together they are
inductive (`IndexInv`), and `NoStall` follows because an index that nobody holds is
in a pipe. `InOrder` in turn needs `ChainInv`: what the sender still has to write
starts where the socket ends, each buffer in the socket pipe starts where the one
before it ends, and the reader's buffer follows the last of them. With
`IndexInv`, filling a buffer disturbs none of the others. `ImplementsStream` uses
`IInv` for the two steps that write to the socket.

`Backlog` needs `BacklogInv`, a closed form for every position of a pipe, so that no
sum over the pipe is taken. While both threads run, the indices in the pipes and the
hands are at most `NumBufs`, and from each buffer of the socket pipe on there is at
most a bufferful for every buffer ahead; a step shifts the positions by one. A sender
that leaves drops the index it holds. From then on no socket byte is written, so what
was read is at most a bufferful for every index that is not free, and the reader
spends a free one for each buffer it fills.

`CmdChannelProofs` proves, for any frames of any length, any division into reads and
writes, and whatever fails:

* `TypeCorrect`, `FramesCorrect`, `WholeFramesCorrect`: the device receives the client's
  non-empty frames byte for byte and in order, and no part of an unfinished one;
* `ImplementsStream`: the status bytes implement the safety part of `AcqStream`.

The argument. What the reader has before it - the byte it read last and those that
have arrived - is one unbroken part of the client's stream up to its end (`Unbroken`,
again in closed form: the byte `m` places on is the `m`-th later one of its frame, as
long as the frame has so many). The cache is the beginning of one frame, from its
length byte on (`CacheInv`). The device has the non-empty frames up to `Upto`, whole,
and of the next what is written (`DeviceInv`). The two directions meet in no step but
in `socket_fd`, so the status has an invariant of its own (`StatusInv`): what was read
and not yet sent is what the status thread holds.

`NetServerProofs` proves, for any number of messages, tries, descriptors and other
programs, `NetTypeCorrect`, `ConnsReleasedCorrect` and `NoEarlyDropCorrect`. The argument
is the descriptor table's (`TableInv`): it holds at most one number of each kind, the
listening socket, the client's socket and the connection being read, each in the
variable of the thread that uses it. So the connection that is open is the one `conn_fd`
names, `SrvShutdown` of a number given out again releases nothing of the server's, and
one number at least is free whenever one is asked for. `CountInv` says that what is left
to read and the tries have not met their limits while the loops go on, which is more
than the types say.

`AcqServerProofs` and `CmdServerProofs` prove, for any number of clients, signals and
processes and whatever calls fail:

* `TypeCorrect` and `DeviceHasOneUser` of both servers: two children never have the
  device open at once;
* `SignalsOwnChild`: what the acquisition parent signals is a child of its own that is
  still to be reaped;
* `ResetAlwaysOwned`: the hardware is in reset only while a live process is about to
  release it.

They assume `MaxBoots <= 1`, one start of the server: with two, `acq_restart` shows that
`DeviceExclusive` is false. `ResetAlwaysOwned` also assumes BSD's `signal()` (`OneShot =
FALSE`): with System V's, `cmd_oneshot` shows it false.

The argument. `DeviceExclusive` says nothing of a child that has yet to open the device,
so it is strengthened to `OneKid`: one child at most has not been reaped, a live parent
knows its pid, and when the parent is about to fork there is none. Signalling and
waiting keep it because the poll loop ends only when the pid is gone; forking keeps
it because the new child's pid is what the parent remembers. `Roles` says who may be
where (only a child opens the device, only a parent forks), `OneParent` that there is one
parent. `ForkingServerProofs` has one lemma for each of the steps both servers share, so
that each server adds only its own. The acquisition parent's `OwnInv` says that between
the fork and the wait a `child_pid` that is a pid is a child's: a failed fork leaves -1,
which the code tests. `ResetOwned` follows because the state `"resetting"` is left only by
the second write, and neither a fork, nor an exit, nor a start touches a process
that is in it.

`LibraryProofs` proves, for any number of bytes, `ResultTold` (what the I/O loops return
tells whether all bytes were moved; its invariant is `nleft = n - moved`) and, for any
descriptions whatever, `FrameAlwaysFollows`: the frame is what was asked but for the two
departures `FrameFollows` states. Frame and history are compared field by field (`Follows`);
one lemma per setter says that it does to its field what is asked, or marks the field
misread, and leaves the others alone.

It also proves `ErrorsCounted`, for reads of any length: `CheckFold` says that the loop of
`check_data_inc` returns the number of the positions whose byte does not follow the byte
before it, by induction over the set of positions gone through, and `ErrCountExact` is
then an invariant of the loop around it. The library's induction theorems are stated of
an operator, which the provers here cannot instantiate; `LeastNumber` states induction of
a set of numbers (`SetInduction`), from the library's theorem that `<` on the natural
numbers is well founded, and that is enough for a fold.

And, for strings of any length, `TrimIsExact` and `SplitIsExact`. A recursive function is
known to the provers only once a function with its equation exists (`WalkUp`,
`WalkDown`, `ChainExists`); what it returns then follows at the position furthest along at
which it would be wrong. The walks stop at the first position their test fails at
(`BlanksSkipped`, `TokenSkipped`, `EndSkipped`), which is all `TrimExact` says. For `SplitExact`,
`FirstToken` and `RowNumbers` say that the tokens from a position on are the first one and
those behind it, numbered one further, and `TokensTaken` that `c_splite`'s loop goes
through them; `RowRead` that a token shorter than its row in the array is read back as
it is, because the NUL behind it is the first.

Every invariant the passing runs check but `KillsUnreaped`, and every action property, is
stated by a theorem. Only model-checked is what a fair scheduler makes happen, which is out of the prover's reach:
`StopExits`, `LostClientStopsReading` and `StreamSpec`'s fairness part; `ReconnectServed`,
`SigintExits`, `ChildSigintExits`; `FramesDelivered`, `StatusDrained` and `StatusStream`'s
fairness part; `BacklogServed`, `ClientEnds`, `IoEnds`, `DemoEnds`.

## What is not modelled

`readn()` and `writen()` on a one-byte index are one step (their retry on EINTR
changes nothing there). `mmap`, `ioctl` and memory are left out but for their
failure (`SetupFails`). Descriptors other than the listening socket and the device
are not counted in the servers. The handler runs on the main thread, where Linux
delivers a process's signal first. `CmdChannel` has one SIGINT and no one-shot handler.
The SPM branch of `create_cmd_status_trans_server` writes one frame and exits.
A SIGINT before `sem_init()` has run is not modelled: `Boot` is one step.
An empty read makes `acq_data_trans/test.c:74` take a byte from in front of its buffer:
`DataCheck` takes any byte. In `cmd_status_trans/test.c:74` the test of `open()`'s result is
inside the assignment, so that program goes on with descriptor 0 for the device;
`DataCheck` starts with the device open.

Of the libraries: what follows a whole header in `create_netsock_server` (the entity, its
`realloc()`, `protocol()`) cannot be reached; `print_as_hex`, the log macros and the time
library only format; `set_over_time_and_char_recved` makes two assignments nothing reads,
`set_raw_input_mode` and `set_local_recv` are empty; the serial demonstration's loops and
`cmd_status_trans_rw_loop_test` pass on what they read; `thread_is_running` has no caller.
That the socket server, after closing a connection, shuts down the same number, which
may be the client's socket by then, is modelled (`SrvShutdown`, `CltKilled`), but no
property forbids it: it does happen.

## Plan

1. (done) `AcqStream`, `AcqPipeline`, its proofs; `ForkingServer`, `AcqServer`, `CmdServer`.
2. (done) `CmdChannel`.
3. (done) `BlockingIO`, `NetServer`, and the pure algorithms `DataCheck`, `SerialPort`,
   `CString`; `ThreadDemo`; their instance `MCLibraries`.
4. (done) Proofs about the two servers, `BlockingIO` and `SerialPort`.
5. (done) Proofs about `CmdChannel` and `NetServer`; `Backlog`; `ErrCountExact`;
   `TrimExact` and `SplitExact`.
6. (done) `c_splite`'s array as memory, with what is written behind it and read beyond a
   row; the serial port's history without the library's own conversions; an `accept()`
   that outlives its socket; `KillsUnreaped`.
7. The safety half of the liveness properties: the invariants a wait depends on (that a
   served client's child has a pid its parent knows, that a posted semaphore is not lost),
   stated as properties of their own where a run does not check them yet; a proof of
   `KillsUnreaped`, along that of `SignalsOwnChild`.
