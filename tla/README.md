# bsl40g: specifications, model checking and proofs

bsl40g drives an FPGA network tester with up to four 10G ports or one 40G port.
A Linux kernel module owns the cards; a user library (`libbsl`) maps their
registers and programs streams, statistics and captures; a daemon serves the
library's functions to clients over TCP; a Python extension and command line
tools call the same library from processes of their own.

This directory holds TLA+ modules translated from that code, TLC runs over small
instances of them, and TLAPS proofs of the properties that hold for every size.

## Inventory

| Part | Where | State | Operations | What is hard about it | What makes it correct |
|---|---|---|---|---|---|
| DMA buffer pool | `module/bsl_ctl.c` | list `cma_allocations`, a mark `inuse` per entry, `lock_cma` | ioctls PHY_MEM_ALLOC and PHY_MEM_FREE, read and write of the device node | the mark is tested and set after the unlock; entries vanish and their addresses come back; fewer entries than planned | what makes a loan unsafe is known and nothing else does; a refusal is true; what is lent stays marked |
| Capture path | `api/bsl_api.c`, `api/bsl_device.c` | a thread, descriptor, mapping and buffer per capture; registers CCFR and CnAR | start, stop, the polling thread, saving the file | API thread, capture thread, FPGA and other processes share registers without a lock; failures between steps; crashes | the file is what was captured; engines write only into buffers of captures; stop stops |
| MDIO access | `module/bsl_phy.c` | registers MCMR, MRWR, MRDR, `lock_hwaccess`, the PHYs' address latches | read, write | two requests per access with the lock dropped in between; time-outs that leave a request pending | a read returns its register; no other register is written; the lock is returned |
| Message server | `api/bsl_msgif.c`, `api/bsl_socket.c`, `app/bsl_main.c` | one thread, its sockets | listen, accept, read, dispatch, reply, start over | clients vanish, descriptors leak, SIGPIPE, a failing accept | replies pair with requests; it serves the next client; it survives |
| Message handlers | `api/bsl_msg_handle.c` | none between messages | twelve handlers: convert, call the API per record, reply | several API calls per message, any of which fails | there is a result for each record, and it tells what became of it |
| Stream registers | `api/bsl_device.c`, `api/bsl_api.c`, `api/bsl_msg_handle.c` | staging registers, PGCR, PACR, SECR, the FPGA's table | message 110: stream detail, enable stream | registers keep old values; a command is carried out late or never; 40G streams are programmed port by port; two calls, one reply | what was acknowledged is in the table; only what the FPGA has taken over is started |
| Port registers | `api/bsl_device.c`, `api/bsl_api.c` | PMSR, PECR, WMCR, CNTR, NMSR, MASR, IPSR, SRCR and the counters | port mode, activity, latency checks, traffic commands, network mode, reset and reading of statistics | read-modify-write by several processes; counters that move while they are read, added and reset | settings change as if at one moment; a reset clears and ends; what is reported was counted |
| Header and field arithmetic | `api/bsl_device.c`, `api/bsl_util.c`, `api/bsl_api.c` | none | a stream divided among the ports of a 40G link; last address, port and id; header from layers and the distances told to the FPGA; checksums; bcap to pcap | wrap-around, widths, 40G special cases; places computed twice by different functions | the ports together send what one would; the FPGA finds the fields where they are |
| Driver life cycle | `module/bsl_main.c`, `module/bsl_pci.c`, `module/bsl_ctl.c` | device table, locks, char device | init, probe, remove, cleanup | the device node is live before the buffers are there; error paths | nothing is used before it is set up or after it is freed |
| Net device, interrupts, Python extension, tools | `module/bsl_netdev.c`, `api/py`, `app` | little | conversions and calls | none of their own | one more caller of the API |

How they interact: the daemon's thread reads a message, calls a handler, which
calls the API, which opens the device node, maps the registers and for a capture
issues ioctls and starts a thread. That thread, the FPGA's engine of the port,
the daemon's next request and any other process then run concurrently, with the
pool's mark and the mapped registers between them.

## Modules

| Module | Models | Depends on |
|---|---|---|
| `BslLease` | abstract: buffers lent to holders, one each, given back singly or together | |
| `BslCma`, `MCCma` | the pool in the driver | |
| `BslCapture` | captures, end to end | instance of `BslCma` (Pool), implements `BslLease` |
| `BslMdio` | MDIO accesses | |
| `BslDriver`, `MCDriver` | loading and unloading of the driver around those accesses | extends `BslMdio` |
| `BslHandlers` | what the handlers call and what their replies say | |
| `BslMsgIf`, `MCMsgIf` | the message server and its clients | extends `BslHandlers` |
| `BslStream`, `MCStream` | message 110: programming and enabling a stream | |
| `BslPortSpec` | abstract: the settings of the ports, changed one call at a time | |
| `BslPort`, `MCPort` | control registers and the reset of the counters, access by access | implements `BslPortSpec` |
| `BslStats` | reading and adding of the counters | |
| `BslHeader` | headers and distances | |
| `BslSplit` | a stream as it is copied, changed and programmed for the ports | extends `BslHeader` |
| `MCForty` | the two things done on all ports of a 40G link | extends `BslSplit` and `BslStats` |
| `BslCmaProofs`, `BslCaptureProofs`, `BslDriverProofs`, `BslMsgIfProofs`, `BslStreamProofs`, `BslPortProofs`, `BslStatsProofs`, `BslSplitProofs` | theorems | `TLAPS` and the component |

A name ending in `_Something` after an action's name (`Scan_NoBreak`,
`Reply_Twice`) is that action with a plausible mistake in it. No specification uses
it; `PROJECT.json` lists which property notices it when it takes the place of the
action.

### BslCma: the pool

`list` is `cma_allocations`. An entry is named by the bus address of its buffer, and 0 is
no entry, as in the code; sizes are left out because the scan does not look at them.
`cma_test_read` removes and frees the first entry, in use or not. `cma_test_write` puts an
entry at the end for *any* buffer that is not on the list: `dma_alloc_coherent` may return the
address of a buffer that was freed while a process still uses it. The mark of the new entry is
what `kmalloc` left there, and the entry itself may be the freed one that a call still points to.

A critical section of `lock_cma` is one step. What `bsl_dma_buffer_alloc` does after its unlock is two
more: the test (`ReportFull`, `CheckFree`) and the assignment (`MarkInuse`). A call whose entry was
freed has `alloc = 0`: the test may read either value, and the address it hands out is any. An empty
list makes the test a null dereference, recorded as `oops`. `FreeAll` is `bsl_clearDmaBuffer` of a
process that starts, whoever holds buffers then.

The pool does not keep loans apart by itself, so the properties say exactly what it does. `held`
is what each process owes; `disturbed` marks a call that, between its scan and its assignment, met
another call at its entry or had the entry freed; `spoilt` is the set of buffers on loan that
something else may have touched: granted by such a call, cleared by a process that started, or removed from the
list. All three are history. `LoansExclusive` says that two processes share a buffer only if it
is spoilt, `LoansMarked` that any other loan is on the list and marked, `RefusalHonest` that a refusal of an
undisturbed call is true.

### BslCapture: from the API call to the file

`api` is the program counter of each process's API thread, `session` the captures
in progress (structures, thread, descriptor, mapping), `local` the variables of
`bsl_process_dma`. Every register access is a step of its own. The thread's
sequence is the code's: open the file, clear CCFR, load the address register,
read it back, set CCFR; poll the address and CCFR; read the address again, clear
CCFR, write the file, free the buffer. Buffers are disjoint ranges of addresses.
The engine of a port (external) stores a word at its address register and
advances it while CCFR is on, and stops at the end of the buffer. `stored` is a
history variable: words stored in a buffer since its address was loaded.

`Faults` says what may go wrong. `close_fd` after a failing mapping or thread, and an output file that
cannot be opened, leave the session `leaked`: its buffer stays marked and its descriptor open. A `write` that
falls short, or fails, is logged and the thread goes on (`WriteFile`): the file has the
beginning of the capture, or nothing. The register may be read back as 0 after it was loaded, as
a comment says (`ReadBack`): the sizes computed from it are wrong.

`Crash` ends a process anywhere; its descriptors and mappings go, the marks in
the driver and CCFR stay. `Restart` clears the marks, or does not: `main` calls `bsl_clearDmaBuffer`
for the one card of its command line and ignores the result. `skipped` (history) is what was marked
when a process started without clearing.

Assumptions, each a constant, and set to FALSE where a run does not need it:

- `SleepCovers`: the `sleep(1)` after `pthread_create` outlasts the thread's few
  register writes. A stop handled earlier would be undone by the thread.
- `ClientWaits`: with two buffers, a client starts a port only when its last
  capture is over. Nothing in the code prevents the opposite, which reloads the
  address of an engine that is running; with one buffer the pool prevents it.
- `UintRange > BufSize` in `capture`: `writesize` is an `unsigned int`, and a 40G
  buffer has 4 GB, so a completely full one gives a file of size 0. The run is
  about the other cards and about 40G captures stopped before the buffer is full.

The engine properties are claimed without crashes only: a process that dies in a
capture leaves its engine on, and after a restart the buffer can be lent while the
engine is still writing.

### BslMdio

An access is two requests, each put in MCMR, started in MRWR and done when the
flag clears; the lock is held for each and dropped in between. A time-out gives
the lock back and leaves the request pending; the FPGA (external) may carry it out
at any later time, also after the next caller has replaced MCMR but not yet
started its own request, which is why the latch of a device may be set before its
request is started. The data of a write is abstracted to the fact that a register was
written. `AsksAssumption` says what the library does: two processes that use the
same device of the same PHY ask for the same register (everything the library
reads is the link status). Without it the dropped lock would let one process's
address replace another's. The final step of a write, which only unlocks, and
that of a read, which reads MRDR, are the same action `Fetch`. A time-out
returns 0xFFFF, which a caller cannot tell from a value; in the model the call ends
without reaching `fetch`.

### BslDriver

`at` is the next step of `bsl_init` or `bsl_cleanup`; `devp` says what the pointer
`bsl_devp` is worth, `kept` what the kernel holds for the module, `files` who has the
node open. Processes make the accesses of `BslMdio`, but only through an open node and
only while `bsl_devp` and the mapping of the card are there: otherwise the ioctl is
`IoctlOops`, whose process dies with the lock it has just taken. The kernel (external)
gives opens from `cdev_add` on, refuses to unload a module that is open, and keeps a
module whose init returned 1, as `bsl_init` does on failure. `Reboot` follows an oops.

What the translation shows of the code: a positive result keeps the module; after a failed
`kmalloc` the clean-up dereferences NULL; the error path frees `bsl_devp` and leaves the
PCI driver and the device number registered, so that the next load fails too; a probe
that fails goes unnoticed and VERR is read through NULL with `lock_hwaccess` taken;
`bsl_cleanup` goes on using `bsl_devp` after `kfree`; and the node exists before the
cards are read and before there are buffers: CMD_PHY_MEM_ALLOC meets a NULL `alloc`
(`AllocNoBuffer`) then, and later if `bsl_alloc_cma` got none. `OopsOnlyKnown` says that these are
all: no MDIO access meets a driver that is not ready or is going away.

### BslHandlers and BslMsgIf

The server thread goes through socket, bind, listen, accept, read, handle, reply
and sleep. `fds` counts descriptors: the listening socket and every client's, none
of which is closed. `port` is `orphan` when a listening socket was left open by a
failing accept: bind fails from then on, and clients that connect wait in its queue
for nobody. A client's connection delivers its messages whole and in order; the
client may end in the middle of a body, and the server handles that message
with what it has. The end of a client is a close or an abort. A reply to one that has
closed is written and answered with a reset, and the next reply ends the process by SIGPIPE, which no code handles.
A write to one that has aborted returns -1 (`ReplyFails`); the code compares it with an unsigned
`sentlen`, so that it counts as neither finished nor wrong, and the loop writes again: the same reply ends the
process. `OnlyResetKills` says that nothing else does, except a stream that its handler does not
survive (`Kills`: a step of 0, or an IGMP layer). `Drop` stands for a failed check and for a handler that fails.

A message has a sequence of records (`asks`); `RunHandler` chooses what the library
returns for each, and `BslHandlers` says which of these calls the handler makes and what
its reply says. `Told` is the table of results that mean success, which depend on what
was asked. `ResultsTell` compares the two. The handlers that do not keep to it
are excluded by number in the property: 101 sends no reply when one card cannot be asked;
103 reports a record that failed as zeros and a success; 109 never sets its result and
counts more records than it sends; 112 executes its first command only. Of 106 the
result 4 (all enabled) is also `ResultOutOfRange`, and a mixed request is answered 0.
Handler 111 has one variable for the value, that of the first record or of the last read (`Held`), which
it writes for every record and tells as a success; `did` says whose data a call used, and the property
excepts the writes after the first record. Message 100 would
write through a null pointer; the bound of `Accepts` keeps it from being called.

### BslStream

`call` is the request the daemon works on: handler, API call and device call are
one program counter, since one thread makes them. The staging registers of a port
are groups, written in the code's order (`Order`); each group holds the *content*
(the stream) whose values were written to it last, and a content uses the groups
`Parts` says. `Zero` clears the registers that the code clears before it looks at the
frame size specification, `Put` writes one group or leaves it as it is, `Commit`
writes PACR, whose bit 0 asks the FPGA to take the port's registers over.
`Serve` (external) does so at any time while the bit is set: with what the
registers hold then, so that a command the daemon has given up may be carried out
with a mixture of two streams, which the table records as `Torn`. A torn stream that was
enabled before goes on running torn; the reply has said that the request failed.
`PollAgain` and `PollEnds` count the polls as the loop does: the bit may be seen clear
with the limit at 0. SECR is kept word by word.

`told` and `running` are history variables: what the replies let clients conclude
about the table and about the enable bits. A request makes what was known of
its stream void; success restores it. After a crash clients look at the enable bits.

One process programs streams. Two that program the same port at once mix their
registers; nothing in the library prevents it, and nothing in the repository
promises it. Reading, changing and writing SECR are one step for this reason.
A device that cannot be opened makes either call fail; the failure of a mapping is not
modelled (`dommap` compares the wrong pointer and does not notice it).

### BslPort and BslPortSpec

A register is named by its address as `OFFSET_REGISTER_PORT` computes it, so that an
offset that is wrong reaches another port's register in the model as in the card; its
value is a set of bits. Every read and every write of a register is a step, and any
number of processes call. `Look`, `PulseOn`, `PulseOff` and `Check` are the loop that resets
the counters: one pulse when some port is started, otherwise up to `Limit` more while a counter is
not 0. FSCR (`sent`) stands for the counters that the loop reads. The FPGA (external)
sends frames of a started port and clears counters, while the reset is on, when it
likes. `Crash` ends a process in the middle of a call.

`BslPortSpec` is what a client may think: each call takes effect on its port at one moment.
The mapping `Settings` reads the settings out of the registers; while a network
identity is being written to its three registers the setting is that of the call. It
implements the specification when each register is written by one process: nothing in the library
orders the read-modify-write of PMSR, and two processes that set latency and mode of the
same port lose one of the two.

A run cannot show what the register map leaves out: WMCR is a register of the card, to
which the code adds the port's offset, so that for port *p* it changes bit 2 of DI4OR of port *p*-1.

### BslStats

One caller reads the counters of one port, or of the four of a 40G link, one by one while
frames arrive and another process resets them. RFCR stands for the twenty-odd counters that
are read and added alike. The average is computed from the total and the count of
packets, read in this order, so that it is at most a latency that some port has measured when the call ends,
unless the counters are reset during the call (`AverageWithinMeasured`). It may exceed the maximum
that is *reported*: that register was read before the total, and a slower frame may come in
between. For a 40G link total and count are read again for all ports. In the code, as in the model, the fraction of the average
is always 0, because the quotient is an integer before it is converted, and maxima and minima
of the ports of a 40G link are added.

### BslHeader and BslSplit

`BslHeader` translates `bsl_makeHeader` and its functions into operators on a header:
its length, the offsets of its layers, and the set of fields in it with their places. What
is written over is no longer there. `Distances` and `Marks` are what
`bsl_device_setStreamDetail` computes again from the records, in other functions, to tell the FPGA where
the fields are and which to fill in; `PseudoAt` and `Summed` where the checksum of layer 4 reads.

`BslSplit` is the pipeline around it: copies for ports 1 to 3, the change of each copy
(`Makeup`), its header, and the registers (`Program`). Port *i* sends frames *i*, *i*+4, and so on. The
arithmetic is translated as it is (`End`, `LastIp4`, `LastIp6`, `Turn`, `ModeLeft`), and
compared with a reference: `Value(t, n)` is the value of a field in frame *n*. Widths are
constants: `Width` of addresses (for IPv6 of the half that changes), `IntBits` of the integers that hold
steps, repeat counts and their products, `StepBits` of a step's register. Steps times four, repeat counts less a
port's number and the product that `get_lastip6` shifts wrap at `IntBits`, as in the code, and
the step is divided by four after it has wrapped.

Two conditions stand for 40G, and nothing ties them: `forty`, that the stream asks to be divided
(`stream->enable`, bsl_api.c:484), and `link40G`, that the card's version register says so
(bsl_device.c:1261), which decides between the last values of a divided stream and of a whole one. All four combinations are checked.

The properties of headers are for records that agree with themselves (`Consistent`): a VLAN tag behind an
ether type, options as long as the header's length says, IPv6 next headers of one length. The
code checks none of this.

Where the code departs from the reference the property says so: IPv4 has no step; network mode
without a mask changes the host part, and too late; a step times four is cut to 16 bits in its register and wraps at 32 before;
a whole stream on a 40G card has the last value of a quarter of its step, and a divided one on another card
that of four times the step for the whole count; an address space of fewer
than four values. `get_lastip6` shifts by as many bits as there are, or more, for /0 and /64, and in the
network part for /1 to /32 and /65 to /96; C does not define that, the model takes the shift modulo the width
as x86 does, and `ShiftsDefined` excepts these masks from the properties, which do not hold for them. The last
value of an IPv6 address in a continuous mode is what happens to be on the stack (`NoLast`). Requests that end the daemon lead to `dead`: an
IGMP layer (`makeChksumL4` uses a checksum record that is not there) and IPv6 over IPv4
without layer 4 (`get_ip4_pdr`). Not looked at, or excluded by a property's condition: IPv4 in
IPv6, whose offset is never set; the place of an IPv6 next header, which is moved by the
length of the following record, and `get_ip6hlen`, which reads past the last; TCP options,
which the checksum leaves out; a type-less Ethernet header with a VLAN tag; records longer
than 128 bytes, whose copies overrun each other; headers longer than 200 bytes; random and custom
frame sizes, of which 32 bytes instead of 32 integers are copied; a step of 0, by which the code divides.

## Runs

| Run | Instance | Result |
|---|---|---|
| `cma` | three callers at once, 0, 1 or 2 buffers at load, device node in use, addresses reused; callers interchangeable (symmetry); 551,096 states | passes |
| `cma_race` | two callers, two buffers | `FullMeansFull` fails: finding |
| `capture` | one process, ports 0 and 1, two slots, 1 or 2 buffers of 2 words, failing mappings, short writes, wrong read-backs, fairness; 209,504 states | passes |
| `capture_crash` | the same with 1 word, failing mappings, threads, files and clearing, crashes, no assumption on clients or timing; 2,080,135 states | passes |
| `capture_4port` | four ports, one buffer | `EngineConfined` fails: finding |
| `driver` | two processes, two PHYs, reads and a write of three registers, one card or none, load and unload with failures, requests for buffers, fairness; 292,236 states | passes |
| `msgif` | two clients that close or abort, 19 different messages of one or two records, up to 2 per connection, failing calls, a fatal stream, 3 descriptors, fairness; 534,379 states | passes |
| `msgif_110` | one client, message 110 | `NoReplyTo110` fails: finding |
| `stream` | two ports, two streams in words of one, two contents, limit 2, six requests, crashes, fairness | passes |
| `stream_limit` | the same without fairness | `NotClearedIsTrue` fails: finding |
| `port` | two processes, two ports, every operation, limit 1, crashes in a reset, fairness; 116,480 states | passes |
| `forty` | every kind, mode and part of a field of six bits with integers of four, divided or not, on a 40G card or not, growing sizes, every combination of layers; statistics of a 40G link of two ports; 2,256,475 states | passes |

What the passing runs show:

- `cma`: `LoansExclusive`, `LoansMarked` and `RefusalHonest` with three processes that are all
  inside the driver, while entries are removed in use and added again under an address still held. Three
  processes and two buffers let a third process scan between the unlock and the mark of a second one
  that holds nothing yet, while the first holds the other buffer.
- `capture`: `FileHoldsCapture` (if the register was read back right, size written = words stored by the
  engine since the address was loaded, and the file is that or, after a short write, its beginning),
  `EngineConfined`, `StopEndsCapture`, `StartReturns`. Two
  words per buffer are the least that tell a partial capture from a full one; two
  slots let one capture end while another runs, and leaks take both.
- `capture_crash`: `ImplementsLease` (no buffer belongs to two captures) and
  `MarksAccounted` (a restart that clears recovers the marks of a crash; what one that does not
  clear leaves behind is all that is lost).
- `driver`: `ReadsItsRegister`, `WritesOnlyAsked`, `OopsOnlyKnown`, `CallReturns`.
  One process reads the link status of both PHYs, the other the link status of one
  and two registers of a device of its own, one of them by a write: requests for the
  same, for different devices and for different PHYs interleave, with the module loaded and
  unloaded around them.
- `msgif`: `RepliesPair`, `ResultsTell`, `OnlyResetKills`, `ListensAgain`. Ids 100, 107
  and 110 are on both sides of each check; the second client sends every kind the server
  handles, of one or two records with their results, a stream that kills among them;
  three descriptors are used up by two clients.
- `stream`: `StreamAsReplied`, `RunsAsReplied`, `OnlyProgrammedRun`,
  `RequestReturns`. Stream 0 (which clears all enable bits) and another, one content
  with headers and one with a payload pattern, a 40G request on both ports, one out
  of range and one that is refused: a late command meets every later request, and a
  port is left with another stream's registers in every combination. Limit 2 has a
  poll that goes on, one that is the last and a loop that gives up.
- `port`: `ImplementsSettings`, `ResetClears`, `NoStrayReset`, `CommandReturns`. The daemon
  writes PMSR of port 1 and the tool its CNTR, while it configures port 0, and both reset
  the counters: two pulses overlap, a death leaves the reset on, traffic starts in a reset.
- `forty`: `StartsInTurn`, `StepsInTurn`, `EndsTogether` and `SizesCovered` (the four ports
  together send what one would), `HeaderWhole` and `DistancesPoint` (no hole in a header, and the FPGA finds
  the fields in it), `FramesBracketed` and `AverageWithinMeasured` (statistics). The run ends when a stream is
  programmed, hence no deadlock check.

Bounds: `MaxEntries` (buffers there is memory for), `Slots` (captures at once),
`BufSize`, `UintRange`, `MaxSent` (messages per connection), `FdLimit`, `Limit` (polls of a
command, tries of a reset), `MaxCount` and `MaxFrames` (counters), `MaxResets`, `Width`, `IntBits` and
`StepBits`. The first
two do not cut behaviours the buffers allow in the capture runs: with at most two
buffers at most two captures hold one, and leaks fill the slots like the descriptors
they stand for. A third client or a third message adds no case to the
server, which forgets everything between messages but its descriptor count. Limit 1
of a reset has a try that goes on and one that is the last; a counter of 1 tells cleared
from not cleared. Six bits of a field and four of an integer let a field wrap with and
without a step that divides its range, a step times four wrap in an integer, and a mask end in every bit
above and below an integer's width; repeat counts take every value an integer has.

Fairness: `capture` assumes weak fairness of each process's API thread and of each
capture thread (they are scheduled), and none of requests, traffic or crashes.
`driver` assumes strong fairness of each caller's ioctl, since two callers contend for a
spinlock that is granted in turn; the FPGA owes nothing, and the time-out of the
code is what makes an access return. `msgif` assumes weak fairness of the server
thread, and nothing of the clients. `stream` assumes weak fairness of the daemon
and nothing of the FPGA or the clients: the limit on the polling makes a request return.
`port` assumes weak fairness of each process in a call; the FPGA need not clear
anything, and the limit ends a reset.

### Findings

- `cma_race`: the test after the unlock (bsl_ctl.c:352) reports "all in use in CMA
  area" with a free buffer on the list. The same window can lend a buffer twice.
- `capture_4port`: bsl_device.c:3023 knows two address registers; the header's
  `CXAR` (bsl_register.h:436) knows four.
- `msgif_110`: the comment of bsl_msgif.c:208 says that 110 gets no response; the id
  it compares has lost its offset.
- `stream_limit`: a command cleared by the last permitted poll is reported as not
  cleared (bsl_device.c:2186), its stream stays disabled and the mapping is not undone.

The other departures of the code from what one would expect, which no line of the
repository promises otherwise, are named with the modules above.

## Proofs

`BslCmaProofs` proves, for any number of processes in the driver at once, any number of buffers and any
use of the device node:

- `TypeCorrect`: `Spec => []TypeOK`.
- `LoansAreExclusive`, `RefusalIsHonest`, `LoansStayMarked`: `[]LoansExclusive`, `[]RefusalHonest`, `[]LoansMarked`.

They are not inductive: a call that is about to mark an entry must not be about to grant what is
already lent. `IInv` adds `GrantIsFresh` (an undisturbed call that has found its entry free is about to mark one
that is still free) and `MeetingDisturbs` (two calls at one entry are both disturbed, so
that the first to mark spoils the loan of the other). Without the exception for disturbed
calls `FullMeansFull` is false: run `cma_race`.

`BslCaptureProofs` proves, for any ports, slots, buffers, failures and crashes:

- `CaptureTypeCorrect`: `Spec => []TypeOK`, for any number of processes.
- `CaptureImplementsLease`: under `OneCaller`, `Spec => ImplementsLease`. Every step of the capture
  path is a step of `BslCma` or leaves the pool alone (`StepIsPoolStep`), so `BslCmaProofs` is
  instantiated and its `IInv` used here. `OwnInv` ties the two levels: a process inside the allocation
  ioctl is at the matching place of a start request (`StartOwnsSlot`), and a thread that still has its buffer to
  free belongs to a process that holds it (`Occupied`). With one process that captures nothing disturbs a loan (`Calm`).
  `HoldInv` adds that the buffers of live sessions are held (`SessionsHold`) and that no two sessions
  share one (`BuffersApart`). A grant is then of a buffer that is in no session (`GrantIsFresh`), which
  is `BslLease`'s guard.

It also proves, for any slots, buffers, buffer sizes and failing calls:

- `CrashedMarksRecovered`: `Spec => []MarksAccounted`, for any number of processes, with crashes and restarts that clear or do not.
- `EnginesStayConfined`: under `Careful`, `Spec => []EngineConfined`.
- `FilesHoldCaptures`: under `Careful` and `BufSize < UintRange`, `Spec => []FileHoldsCapture`.

`ListStays` says that the list keeps its entries, so a restart that clears finds every mark a crash left.
`Careful` is the conditions under which captures do not meddle with each other: one process that does
not die and starts a port again only when its last capture is over, on ports whose address
register `bsl_process_dma` knows (0 and 1). Run `capture` is an instance; `capture_4port`
refutes `EngineConfined` without the last condition. `SleepCovers` is not among
them: a stop that overtakes the start is harmless to both properties.
`EngineInv` adds to the lease of the buffers that an engine that is on has a capture that polls it
(`EngineHasCapture`), that one capture at a time uses a port (`OnePerPort`), and `Sound` for each capture:
its address is in its buffer, as far as words were stored since it was loaded (`CountHolds`,
`Untouched`), and when the thread leaves its loop the engine is off or the buffer
is full (`SeenBehind`, `Ended`), so that the size it reads is final if the address
was read back right (`KnowsBase`), and the file no longer than that (`SizeHolds`, `FileHolds`). `AddressTells`
is the arithmetic of addresses: one in a buffer, its end included, tells the buffer; `LiveApart`
says that captures with a buffer differ in port and buffer, so that a step of one
leaves the others sound.

`BslStreamProofs` proves, for any number of ports and streams, any size of the words
of SECR, any contents, requests and limit, with late commands and crashes:

- `StreamTypeCorrect`: `Spec => []TypeOK`.
- `AcknowledgedStreamStays`: `Spec => []StreamAsReplied`.
- `EnabledAsReplied`: `Spec => []RunsAsReplied`.
- `StartsWhatIsProgrammed`: `Spec => OnlyProgrammedRun`.

One inductive invariant, `Inv`, carries all of them. `LateIsUnknown` is the argument
for late commands: PGCR names only streams of the request in progress or of one that
failed, so whatever the FPGA takes over late hits a stream of which nobody was
told anything. `StageIsCall` follows the registers through `Put` (`Staged`) until
PACR is written and the table holds the stream; `PortsDone` does the same for the ports of
a 40G link that are finished; `PortIsMeant` says which port is next. `BitsAreExpected`
gives the enable bits between `Enable` and the reply; `WordBit` and `EnableBits` show that
a word and a bit of SECR are one stream. `Inv` was checked by TLC on the instance of
run `stream` before it was proved.

`BslDriverProofs` proves, for any callers, PHYs and registers, with the module loaded and
unloaded and its initialisation failing anywhere:

- `DriverTypeCorrect`: `DriverSpec => []DriverTypeOK`.
- `ReadsReturnTheirRegister`: `DriverSpec => []ReadsItsRegister`.
- `OnlyAskedIsWritten`: `DriverSpec => []WritesOnlyAsked`.
- `OopsIsKnown`: `DriverSpec => OopsOnlyKnown`.

The invariant has two halves. `Life`: the locks are made anew only while nobody is in an
access, and a process that has the node open meets a driver that is ready. `AccessInv`: in a request
MCMR belongs to the holder of the lock (`OwnRequest`); between the two requests of
an access MCMR may hold an address, but only the caller's own or one of another caller's
(`NoStaleAddress`), for which `AsksAssumption` gives the same register; so the latch stays
as it was set (`LatchIsOwn`), and MRDR is of the register asked for (`ReadIsOwn`). `PendingWrite` covers the writes
that were given up and are carried out late.

`BslPortProofs` proves, for any number of processes and ports, any limit and any calls:

- `PortTypeCorrect`: `Spec => []TypeOK`.
- `ResetEnds`: `Spec => []NoStrayReset`.
- `ZerosAreTrue`: `Spec => ResetClears`, with `ReadsHold`: the counters read as 0 so far are 0 while nothing is sent.
- `PortImplementsSettings`: under `OneWriter`, `Spec => ImplementsSettings`.

`OneWriter` says that no two processes read-modify-write PMSR of one port or give one port an
identity, and that none dies in giving one. Run `port` is an instance that satisfies it. The proof maps
every step to one of `BslPortSpec` or a stutter; it needs `ChecksAreFresh` (what
`setLatency` has read of PMSR is still there) and `NamedSoFar` (what of an identity is
written already). `AddressesApart` shows that the registers of different ports never have one address.

`BslMsgIfProofs` proves, for any clients, messages with any number of records, and any number of descriptors:

- `MsgIfTypeCorrect`: `Spec => []TypeOK`.
- `RepliesAreToRequests`: `Spec => []RepliesPair`.
- `RepliesTellResults`: `Spec => []ResultsTell`.
- `OnlyBrokenPipesKill`: `Spec => OnlyResetKills`.

`InboxIsRest` says that what is unread is the rest of what was sent, and `InHand` that the message in
hand is the one before it. `PairedSoFar` is `RepliesPair` with a bound: the replies are to
messages before the one in hand. A reply then extends the pairing by the message in hand, and
reading the next message moves the bound. `AnswerOfHandler` carries the results from the handler
to the write; `HandlerTells` is the comparison of the two for every id, and of the data a call used (`did`).

`BslStatsProofs` proves, for any number of ports, frames, resets and latencies, on a 40G link or not:

- `StatsTypeCorrect`: `StatsSpec => []StatsTypeOK`.
- `FramesAreBracketed`: `StatsSpec => []FramesBracketed`.
- `AverageIsWithinMeasured`: `StatsSpec => []AverageWithinMeasured`.

`FramesInv` says what the sum read so far may be while frames go on arriving: at most what the
ports that were read count now, and with what the others count now at least what all
counted when the call began. `LatencyInv` carries the argument of the order of the reads: the total latency of a port is
at most its maximum times its packets, and neither falls; so a total that was read stays below the maximum times
the packets read after it, and so does the sum of them for some port's maximum. Sums over the ports are
recursive functions; that they exist and grow with each term is proved by induction over
sets of naturals (`Induction`, from the well-foundedness of `<`). With `PlaceInv` (where
a call is) these were checked by TLC on the instance of run `forty` before they were proved.

`BslSplitProofs` proves, for every width of fields, integers and steps, and any set of requests, on a 40G card or another one:

- `SplitInvariant`: `Spec => []SplitInv`.
- `PortsStartInTurn`, `PortsStepInTurn`, `PortsEndTogether`: `[]StartsInTurn`, `[]StepsInTurn`, `[]EndsTogether`,
  with the exceptions those properties name (undefined shifts, steps that wrap, fewer than four values).
- `AllSizesAreCovered`: `Spec => []SizesCovered`.
- `HeadersAreWhole`, `DistancesLeadToFields`: `[]HeaderWhole`, `[]DistancesPoint`.

`SplitInv` says what each port has at each place of the loops: `RequestOK`, `ControlOK`,
`CopiesOK` (the records are those asked for until `Makeup` has passed the port, and changed after it),
`HeadersOK` and `RegistersOK`. It leaves to prove that the results of the operators are
the reference's, which is arithmetic: powers of two and their divisors, remainders, and after how many steps a
field has its first value again. `LowestBit` of a step is its largest divisor that is
a power of two, which makes `Distinct` the period of the field; `LastNetIs` shows that the product of 32 bits, shifted and cut,
moves the network part as the full arithmetic would as long as the shift is defined; the values of port *i* are then every
fourth of the whole, and the last ones meet because the counts of `End` do. The headers are proved layer by
layer: `Covers` says that the fields fill the bytes before the end, each protocol keeps
it, and `HeaderIs` gives length and offsets in terms of the layers, from which the distances follow.
`AliveInv` excludes the IGMP layer, which ends the daemon before anything is programmed. Distances
are never cut to their registers' width because a header has at most `HeaderRoom` bytes. Both
invariants were checked by TLC on the instance of run `forty` first.

Assumptions of the theorems are the constants' (`LoadedAssumption`,
`DebugAssumption`, `CaptureAssumption`, `PoolAssumption`, `StreamAssumption`,
`AsksAssumption`, `PortAssumption`, `MsgIfAssumption`, `StatsAssumption`, `SplitAssumption`), evaluated by TLC in every run, and
`OneCaller` (in `BslCaptureProofs` only), `OneWriter` and `Careful` where stated.

Model-checked only: the liveness properties, because fairness and `ENABLED` are out of the provers'
reach (`StopEndsCapture`, `StartReturns`, `CallReturns`, `ListensAgain`, `RequestReturns`,
`CommandReturns`). Every other property
of the passing runs is stated by a theorem.

## Not modelled

- File names and `bsl_toPcap`; captures of two processes that start in the same
  second use one file name.
- The sums of the checksums, the contents of header fields, random, custom and shrinking frame
  sizes, user-defined fields; the values in the records of replies other than results.
- Time-dependent behaviour of the FPGA beyond "stores a word", "serves a request", "sends a frame" and "clears a counter".
- Unbinding a card from the driver by hand while its node is open, and mappings of the
  registers that outlive the driver.
- The tables of `bsl_phy_init`, which are straight-line MDIO accesses.
- The net device, interrupts (not compiled in), the Python extension and tools as
  programs; their calls are those of one more process. They convert arguments and
  keep nothing, so that a model of them would have no state.
- User-space MDIO through the mapping, and register ioctls one by one, which take
  no part in the driver's locking of an access.
- The descriptor that `bsl_setCaptureStartStop` leaves open when it stops a capture, beyond
  the leaks of `BslCapture`.

## Plan

1. Pool, capture path and their refinement (done: `BslLease`, `BslCma`, `BslCapture`, proofs).
2. MDIO access and the driver's life around it (done: `BslMdio`, `BslDriver`, proofs).
3. Message server and handlers (done: `BslMsgIf`, `BslHandlers`, proofs).
4. Message 110 (done: `BslStream`, proofs).
5. Control registers and counters (done: `BslPort`, `BslPortSpec`, proofs; `BslStats`, proofs).
6. Headers and fields (done: `BslHeader`, `BslSplit`, proofs).
7. The engines and the files of captures (done: in `BslCapture`, proofs in `BslCaptureProofs`).
8. Left: checksums and the pcap conversion over small widths; the server's death over `BslCapture`.
