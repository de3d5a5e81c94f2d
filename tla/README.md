# Verification of the Meu1oARM web server

TLA+ models of the firmware under `src/`: a web server on an MK64F board that
drives relays, serves pages with live values, and logs its requests to an SD
card. The modules are checked with TLC on small instances; the theorems in the
`*Proofs` modules are proved with TLAPS for every value of the constants.
`PROJECT.json` maps each definition to the source lines it stands for, and
lists runs, mutants, findings, hazards and theorems.

## 1. The program

One core, no operating system (`USE_RTOS` is 0), three kinds of context:

- the **main loop** of `httpd_server_init` (`src/Sources/httpd.c`): lwIP
  timeouts, then the three log flags;
- the **Ethernet interrupt** (priority 0). `ENET_RECEIVE_ALL_INTERRUPT` is 1, so
  the whole of lwIP's input side and every callback of httpd run in it;
- the **other interrupts**: SDHC (0), PIT0..2 (0), PIT3 (5), the card-detect pin
  (PORTE, 9), ADC (9, 10).

`SYS_LIGHTWEIGHT_PROT` is 0: nothing protects lwIP's pools, heap and lists
between the interrupt and the main loop. The pools are small (10 TCP pcbs, 10
pool pbufs, 10 timeouts, 12 segments, 12 KB of heap). lwIP's assertions are on
and end in `sys_assert`, which disables interrupts and loops.

### Inventory

| component | state | operations | interacts with | hard part | what makes it correct |
|---|---|---|---|---|---|
| card event log (`httpd.c`, `Events.c`, `sdcard.c`) | `cartaoCGI`, `cartaoSSI`, `cartaoRELAY`, `cardInserted`, the file | `processaCGI`, the three tests of the loop, `append`, `PORTE_IRQHandler` | CGI handlers (flags), FatFs (calls) | flag raised between test, clear and append; the card moves meanwhile | no request forgotten, no line without a request, flags served |
| HTTP connections (`httpd.c`, `tcp.c`, `tcp_in.c`) | `http_state`, pcb, pbufs of a request | accept, recv, sent, poll, err, close; `tcp_input`, `tcp_slowtmr` | lwIP (callbacks), pages | three callbacks per segment, close inside a callback, no memory for a FIN, pool and pcb exhaustion | state owned by exactly one pcb, given back, page complete before FIN |
| SSI and URI parsing (`httpd.c`) | tag state, buffer pointers | `http_send_data_ssi`, `http_parse_request`, `extract_uri_parameters` | HTTP connections | a tag over a buffer end, partial `tcp_write` | what is sent is the page with each insert behind its tag |
| CGI and SSI handlers, relays (`httpd.c`, `Events.c`) | `date`, outputs, one-shot timers | `processaCGI`, `atualizadorSSI`, `PIT1/2_IRQHandler` | card log, RTC | `date` shared by interrupt and loop | a date is never half of two |
| SDHC requests (`fsl_sdhc_driver.c`) | request, `currentReq`, semaphore, IRQSTAT | `IssueRequestBlocking`, `DoIrq`, `CmdIrq`, `DataIrq` | controller (interrupt), OSA semaphore | errors, flags raised while others are handled, late interrupts | completed once, success honest, returns |
| SD card protocol (`fsl_sdhc_card.c`) | card descriptor | init, read, write, erase | SDHC requests | stop and status commands after an error | a block reported written was accepted |
| FatFs (`ff.c`, `diskio.c`, `fsl_sd_disk.c`) | one shared sector window, FAT, directory | mount, open, lseek, write, close | SD card | power loss or failure between sectors, two cache windows, a full volume | the log is never shortened; success means written; the volume stays whole |
| lwIP timeouts and clock (`lwip_timers.c`, `sys_arch.c`) | list of differences, `tcpip_tcp_timer_active`, `time_now` | `sys_timeout`, `sys_check_timeouts`, `tcp_timer_needed`, PIT3 | TCP, ARP, reassembly (calls) | wrap of the clock, list changed by the interrupt, pool | deadlines kept, no periodic timer lost |
| Ethernet driver and glue (`fsl_enet_driver.c`, `ethernetif.c`) | RX/TX descriptor rings | `low_level_input/output`, ISR | MAC, lwIP | both contexts send; a full ring looks like an empty one; damaged frames | each ring is a queue; the receiver is restarted; a full ring drains |
| lwIP pools, heap, pbufs | free lists, reference counts | malloc, free, ref | everything in lwIP | unprotected against the interrupt | no element given twice |
| TCP data path (`tcp_in.c`, `tcp_out.c`) | unsent, unacked, windows | write, output, receive, retransmit | HTTP connections | loss, duplicates, reordering, a closed window | a stream of bytes, all of it in the end |
| ARP table (`etharp.c`) | entries, the index used last | `etharp_output`, `etharp_arp_input`, `etharp_tmr` | timers, Ethernet glue, both contexts | a full table, stale addresses, a packet waiting on an entry | one entry per address; packets leave for the address announced last; none waits for ever |
| IP, ICMP, UDP | reassembly lists | input, output | timers | | |
| bare-metal OSA, interrupt manager | mutex, event, semaphore, mask count | lock, wait, post, enter/exit critical | drivers | test and set not atomic | one owner; the mask is balanced |
| PHY, pages, HALs, generated code | registers, constants | start-up | | none | |

Compiled but unused, or compiled out: the sequential API of lwIP (`NO_SYS` is 1),
PPP, SNMP, IPv6, POST and keep-alive of httpd. The DHCP client is compiled and never
started, but its two timers run.

## 2. Modules

| module | models | composed with |
|---|---|---|
| `CardLog` | flags, loop, append, card-detect interrupt, slot | `LogProofs` |
| `HttpConn` | pcbs with their `http_state`, all callbacks of httpd, segments, polls, drops | `HttpConnProofs` |
| `SsiSend` | `http_send` with the search for tags, over any number of calls | `SsiSendProofs`, `MCSsiSend` |
| `SdRequest` | one blocking SDHC request against interrupt, controller and card | `SdRequestProofs` |
| `TimerList` | abstract specification: pending timeouts with their own distances | instantiated by `LwipTimers` |
| `FrameFifo` | abstract specification: a queue of frames | instantiated twice by `EnetRing` |
| `EnetRing` | both descriptor rings, MAC, interrupts, both senders | refines `FrameFifo`; `EnetRingProofs` |
| `FatLog` | `append` through FatFs, one access to the card after another | `LogProofs` |
| `ByteStream` | abstract specification: a stream of bytes and its end | instantiated by `TcpStream` |
| `TcpStream` | the sending side of one TCP connection, network and peer | refines `ByteStream`; `TcpStreamProofs` |
| `Etharp` | the ARP table, its ageing, output from both contexts, ARP packets | `EtharpProofs` |
| `LwipTimers` | the list of differences, `sys_check_timeouts`, the TCP timer, the clock | refines `TimerList`; `LwipTimersProofs` |

All but one take their constants directly from the `.cfg`; `MCSsiSend` defines
the pages `SsiSend` is checked on. The modules meet at seven seams, where one
takes the other's result as a choice of the environment:
`HttpConn.HttpSend` counts what `SsiSend` shows to be sent in order (there `left = 0`
closes the connection as well);
`CardLog.Hang` (a request of the card driver never returns) is the violation that
`sd_timeout` exhibits; `HttpConn.TimersRun` (somebody calls `tcp_slowtmr`) is what
`timers_clock` denies for the handlers as they are linked; `LwipTimers.Connect`
and `Disconnect` stand for what `HttpConn` does with the pcb lists;
`HttpConn` counts acknowledged segments, and `TcpStream` shows how they come to be
acknowledged; a line written in `CardLog` is one `AppendLine` of `FatLog`;
`Etharp.Tick` is what the `"arp"` handler of `LwipTimers` does, so that its fairness is `NoneStarves`.

### CardLog

Three contexts. A CGI handler runs to its end inside the Ethernet interrupt: one
action (`ProcessaCGI`). The card-detect handler takes one action per sample of
the pin, because its debounce loop can be preempted. The main loop takes one per
test, assignment and file operation, and moves only when the card-detect handler
is not running (`Runs`). `AppendOpen`..`AppendClose` follow `append`: a file
operation may fail, succeed, or never return (`Hang`). `accepted` and `uncovered`
are history variables. A line is abstracted to a count.

`cartaoSSI` is tested by the loop and raised by nobody: `atualizadorSSI` returns
from all its branches before the line that would.

### HttpConn

`conn[c]` is one pcb slot: the pcb's fields and those of the `http_state` it
passes to the callbacks. A handler of the code is an operator from the record
before it to the record after it, with the choices of the environment as
arguments: the receive window at the moment of the call (`win`), how much
`tcp_write` takes (`w`), whether there is memory for a FIN (`mem`), what
`http_parse_request` answers (`parsed`). `TcpEvents` applies sent, recv and closed
in the order of `tcp_input`, so that a close in the first is seen by the others.
Data is counted in segments of one MSS, and acknowledgements in whole segments;
a retransmitted or reordered segment that `tcp_receive` discards changes none of
these fields and is a stutter. `TIME_WAIT` and `SYN_RCVD` slots can be recycled by
`tcp_alloc` (`Syn`).

### SsiSend

One `http_send` after another for one page. `hs` and `ssi` are the two structures,
`call` is where a call is, with its local `len` and `err`; every turn of the parsing
loop is an action, named after the case it takes (`Parse` for the four states that
look at a character, `TagFound`, `SendBefore`, `SendInsert`, `InsertSent`). Pointers
into the page are offsets. What `tcp_write` takes is any of the sizes `http_write`
tries (`Outcomes`): the whole, a half of it, and so on, or nothing. `sent` is a
history variable: all that `tcp_write` took. The peer's acknowledgement and the
poll are one action (`Called`). The configuration is that of the build: tags are
sent with the page (`LWIP_HTTPD_SSI_INCLUDE_TAG`), files are constant data, inserts
have one part.

A page is a text together with what the peer is to read (`expected`), which is the page
read in one go: `Reading` takes the tag checker over it turn by turn with no send buffer
in the way, and puts each insert behind its tag (`ExpectedAssumption`). So the properties
say that cutting the page into calls and writes changes nothing. That the
checker finds the tags that are there is checked by TLC: `MCSsiSend` builds text and
`expected` from pieces, knows where the tags are without searching for them, and the
assumption makes TLC compare the two. White space is one character, written `"sp"`.

### SdRequest

The main loop has five places in `SDHC_DRV_IssueRequestBlocking`; the handler
reads IRQSTAT, serves the command and the data part, copies PIO blocks one by
one, and at its end clears what it read at its beginning. The main loop moves
only when no flag is pending (`Quiet`). The controller and the card are external:
what they may do wrong is the constant `Faults`. Waits on the inhibit bits and on
DAT0 are guards of `Send` and `Submit`.

`OSA_SemaWait` of this build has no clock (`FSL_OSA_BM_TIMER_NONE`): with a timeout
it behaves as with none, and the loop around it repeats on `kStatus_OSA_Idle`
(`Poll`).

### LwipTimers and TimerList

One action per access of `sys_check_timeouts` to what it shares with the input
side: the head of the list read (`Expire`), unlinked (`Unlink`), the pcb lists
looked at (`TcpTimer`), the flag cleared (`Disable`), the place found (`Find`) and
the entry linked (`Insert`). With `ReceiveInterrupt` a connection may be
registered between any two of them; without it only between two calls. Time is a
number modulo `TimeMod`. `TimerList` says what the list promises: each timeout
keeps its own distance to the last expiry, equals are first come first served.
The refinement maps an entry to the sum of the differences up to it. The two DHCP
timers run although no client is started (`LWIP_DHCP` is 1 and nothing calls
`dhcp_start`): their handlers find no interface to act on and start themselves
again.

### EnetRing and FrameFifo

A step is one access of a context to what it shares with the MAC or with the other
context: the context record `enet_bd_context_t` (`ctx`), a descriptor, `RDAR` and
`TDAR`. Receive: `RxTest` (the flags), `RxRead` (a descriptor, the pointer and
`isRxBdFull`), then lwIP (`irq.pc = "input"`, in which it may send), then `InputReturns`,
which gives the descriptor back. Transmit: `Output` takes the buffer, `Copy` fills it,
`TestFull`..`Activate` are `ENET_DRV_SendData`, which reads the context anew. `TxClean` is
one turn of the clean-up in the transmit interrupt. A frame takes one descriptor
(the buffers hold the greatest frame), and is a model value.

The refinement reads the queue off the ring: received frames are those from `rxCur`
to the MAC's pointer, frames to be sent those from the MAC's pointer to `txCur`, or to
the descriptor behind it while `SendData` has made one ready and not yet moved the
pointer. Whether equal pointers mean all or nothing is told by the descriptor and
`isRxBdFull`, as in the driver.

`Preempted` says whether the interrupts may come while the main loop sends. In
the build they may, and no mutex is taken; the module then loses frames and
overwrites others. The run, and the theorems about the transmit ring, take `Preempted = FALSE`.

### Etharp

`table[i]` is an `arp_table` entry, a packet is its destination. `FindEntry` is the choice of
`etharp_find_entry` (`Match`, then in the order of `Recycled`) and `Claimed` the entry it leaves;
`MainOutput` is `etharp_output` of the main loop up to the choice of an entry, `MainSend` and `MainQueue`
its rest; `InputOutput` is the same from a callback, in one step, and `ArpInput` is
`etharp_arp_input` with `etharp_update_arp_entry`; `Tick` is `etharp_tmr`. `heard` and `asked` are history
variables: what each host announced, and how often it was asked for again. `Preempted`
says whether the input side may come between the choice of an entry and its use. In
the build it may; the run and three of the theorems take `FALSE`. With `TRUE` a packet may be left on an
entry that was resolved or recycled meanwhile, and one may leave for another host's address.

### FatLog

`append` as a sequence of accesses to the card (`io`), with the code between two of
them as one step: `AppendLine` (mount), `Entry` (`f_open`), `Seek`..`SoughtNext` (`f_lseek`),
`WriteLoop`..`Copy` (`f_write`), `Close`..`WriteInfo` (`f_close` with `f_sync` and `sync_fs`), and
`Stretch`..`Link` for `create_chain`, `create_chain_for_clusts` and `put_fat`, which differ in
the flag `many`. `fs` is the FATFS object with its two cache windows: `tag` (which sector),
`dirty`, `win` (the current one), `last` (the one read last). `MoveIo` and `Sync` say which
accesses a move of the window asks for; each may fail (`AccessFails`), after having
reached the card or not, and the power may go between any two (`Crash`).

The volume has one directory sector, one sector per cluster, two FATs and an FSInfo
sector; a sector is `Width` numbers, whatever is in it. A line is shorter than a sector, so
that `f_write` asks for at most one cluster. A sector is written whole or not at all.
`EndOfChain` and `DiskError` are two numbers beyond every cluster, as in the code. The
specification is `FatSpec`, with `FatInit` and `FatNext`, so that `LogProofs` can extend this
module and `CardLog`.

### TcpStream and ByteStream

One established connection as the server sees it. `pcb` holds the two queues and the
windows. `Process_Input` is `tcp_input` from its `tcp_process` on: `AckPart` (`tcp_receive`), `FinPart`,
`Process` (the states), the callbacks (`Calls`: any `tcp_write`, with or without `tcp_close`), and
`tcp_output`. `Retransmit`, `Probe` and `Drop` are `tcp_slowtmr`. Data is counted in units, two to
a segment, and a FIN is the last unit of its segment, as `TCP_TCPLEN` has it. The congestion
window is any value from one MSS up, and any duplicate acknowledgement may be the third.

The network keeps what was sent until it is received, in any order; `MaxFaults`
bounds the losses, the duplicates, and the timers that expire while something is
still on its way. The peer acknowledges every segment, opens its window and never takes
it back, and closes its own side when it likes.

## 3. Runs

| run | instance | shows |
|---|---|---|
| `card_log` | 3 edges of the pin, 2 requests per flag | `RequestCovered`, `NoPhantomLine`, `RequestServed` |
| `http_conn` | 2 pcbs, pages of 3 MSS, send buffer 2, request queue 2, 3 retries, 3 pbufs | `StateOwned`, `PageBeforeFin`, `PbufsFreed`, `StateReturned`, `CloseCompleted` |
| `ssi_send` | 4 pages of 16 to 29 characters, 2 registered tags, names up to 2, send buffer 16, `2 * mss` 9 | `SentIsPrefix`, `ClosedWhenSent`, `NoStall`, `CallReturns` |
| `sd_request` | 3 blocks, every fault but error bits in the response to a data command | `RequestPresent`, `SuccessMeansMoved`, `OtherRequestsReturn` |
| `timers` | five timers of periods 1 to 5, in the order of those of the build, clock modulo 8, loop at most 3 late, 6 timeouts, polled input, running clock | `PeriodicKept`, `TcpTimerAlive`, `PoolSuffices`, `ImplementsTimerList`, `NoneStarves` |
| `enet_ring` | 3 receive and 2 transmit descriptors, a good and a damaged frame, 2 frames sent by either context | `SpoiltOnlyWhenFull`, `LeftOnlyByDamage`, `ReceiverRestarted`, `ReceivesInOrder`, `SendsInOrder`, `FullRingDrains` |
| `fat_log` | sectors of 3, clusters 2 to 7 of which one belongs to another file, logs of 0, 2, 3 and 9 units, 3 lines of 1 or 2, write errors and power loss | `LogKept`, `AppendEffect`, `VolumeWhole`, `CacheCoherent`, `AppendEnds` |
| `tcp_stream` | 3 units written, MSS 2, send buffer 3, peer's buffer 2, 2 retransmissions, 1 fault | `QueuesCover`, `WindowKept`, `DoneMeansRead`, `ImplementsByteStream`, `Progress` |
| `arp_table` | 2 entries, 3 hosts of which one is the gateway, a destination outside, 2 Ethernet addresses, ages up to 2, asked again from 1, pending up to 2 | `TableSound`, `AddressFresh`, `NoFlood`, `QueueDrains` |
| `sd_timeout` | command faults only | `RequestReturns` is violated |
| `timers_clock` | the PIT3 handler of `Events.c` | `TimeoutsExpire` is violated |
| `fat_read` | a log of 9, one line, failing reads | `LogKept` is violated |

### Bounds, and why they are enough

- `MaxEdges` 3: a card can be in, out and in again during one append and one
  debounce, from either initial level. `MaxRequests` 2: one request served while
  the next of the same flag arrives; the theorems drop both bounds.
- Two pcbs: all interaction between connections is the pbuf pool and `tcp_alloc`
  choosing a victim, and both need two. A page of 3 MSS over a send buffer of 2
  needs a second `http_sent`; a queue of 2 needs two incomplete segments; 3
  retries count up, reach the limit and are reset; 3 pbufs are exhausted by one
  connection and by two together. `StateOwned` and `TypeOK` are proved for any.
- Pages: a tag in the middle, two in a row of which the first has an empty
  insert, an unknown one, a comment, a name too long, an empty name, a broken
  end. A send buffer of 16 is longer than one tag with what is before it, so that
  a tag and its insert fit into one call, and shorter than a page, so that they
  need not; 9 is less than the buffer, so that `2 * mss` cuts too. Names of 2
  and of 3 characters meet the limit of 2 and cross it.
- 3 blocks: a first, a middle and a last one; `sd_request` runs any number of
  requests one after another, so an interrupt that comes late meets the next.
- Periods 1 to 5 have a timeout before, between and behind the others, and
  equal ones; modulo 8 the clock wraps within every few expiries, and a lag of 3
  makes several timeouts expire in one call. 6 timeouts are what the four periodic
  handlers and two TCP chains need (the build has 10): that they suffice is `PoolSuffices`.
- Two entries and three hosts: the table overflows, and every kind of entry is
  recycled. Ages 0 and 1 are a fresh entry and one that is asked for again when it is used, and that
  expires at the next tick (in the build an entry may be asked for again in several periods
  before it expires); the theorems drop all of these bounds.
- 3 receive descriptors tell the next one from the last, 2 transmit descriptors are
  full after two frames, and every pointer wraps; the two senders differ in
  context, and two frames suffice to see an order. The theorems drop all of these.
- FAT and data: 6 clusters over three FAT sectors, so that a chain and the search
  for a free cluster cross from one FAT sector to another, the window of the FAT
  and that of the text compete, and a log of 9 is at a cluster boundary with the
  next free cluster in another FAT sector; a log of 0 is created, one of 2 does not
  fill its sector, one of 3 does. The third append finds the volume full, or begins
  after two that failed.
- 3 units and a FIN over MSS 2 are two or three segments, the last of them grown by
  a later `tcp_write` or by the FIN; a peer's buffer of 2 closes the window after one
  segment. One fault is one loss, one duplicate or one early timeout, and together
  with reordering it reaches fast retransmission, a retransmission
  acknowledged while it is queued, and a lost window update. 2 retransmissions
  reach the limit. Sequence numbers do not wrap: their comparison is circular in
  the code, and a window is far shorter than half the circle. Until the peer closes the
  theorems drop all of these bounds.

The passing run of the timers is not the build as it is linked. With the input
in the interrupt the list itself has unprotected windows, and with
the PIT3 handler of `Events.c` time stands still (`timers_clock`). `timers` is the
algorithm under the two assumptions it was written for: the input side runs
between two calls, and `sys_now` counts. In the same way `http_conn` has
`TimersRun`: its two liveness properties say what `http_poll` achieves when it is
called. Its safety properties do not depend on it, since a run in which nobody
calls `tcp_slowtmr` is among those checked.

### Fairness

- `CardLog`: weak fairness of the card-detect handler and of the main loop, which
  run whenever no higher level does; none of requests and cards.
  `RequestServed` excepts the loop that hangs in the card driver.
- `HttpConn`: weak fairness of `Poll`, per pcb: `tcp_slowtmr` walks the active
  list every 500 ms and polls each pcb with an expired interval. None of segments:
  the peer may fall silent.
- `SsiSend`: weak fairness of a call that has begun (`Running`): the callback runs
  to its end in the interrupt. None of acknowledgements and polls.
- `SdRequest`: weak fairness of the loop, the handler, and the controller: a
  command is answered or times out in the controller, and an active transfer
  goes on or ends in an error. None of `Submit`.
- `LwipTimers`: weak fairness of the loop and of PIT3; none of connections.
- `EnetRing`: weak fairness of both interrupts and their handlers, of a call that has
  begun, and of the MAC's transmission. Frames need not arrive nor be sent.
  `FullRingDrains` moreover assumes that the receive handler returns now and then:
  it loops as long as frames keep arriving, and the clean-up has the same priority.
- `Etharp`: weak fairness of a call that has begun, and strong fairness of `Tick`, which is
  enabled whenever the main loop is not in a call: it calls `etharp_tmr` again and again
  (`NoneStarves`, under the assumptions of `timers`). None of packets: no host need answer.
- `FatLog`: weak fairness of an append that has begun (`Running`): nothing in it waits.
- `TcpStream`: what is on its way leaves it (either nothing is on the way again and again, or
  a segment arrives or is lost again and again, which is cheaper for TLC than weak fairness of the two
  receivers and says the same of finitely many segments); weak fairness of the peer's reading, and strong
  fairness of the TCP timer (`Slowtmr`), with `TimerDue`, which is when one of its steps can be taken,
  written out. It is strong since the timer's steps are enabled
  only while nothing is on the way: a segment takes less than a retransmission timeout,
  and one that takes longer is an early timeout, of which there are `MaxFaults`. No
  fairness of the application: it may write nothing more. `Progress` excepts the connection
  that was dropped or reset, and the window that opened by less than the waiting
  segment (`SmallWindow`): `tcp_output` does not split segments, and the persist timer runs only
  for a window of zero.

## 4. Proofs

| theorem | module | states |
|---|---|---|
| `TypeCorrect`, `RequestsAreCovered`, `NoLineWithoutRequest` | `LogProofs` | `TypeOK`, `RequestCovered`, `NoPhantomLine` |
| `LogInvariant` | `LogProofs` | the invariant of the log file when `"read" \notin Faults` |
| `NothingIsLost`, `SuccessIsTrue`, `VolumeStaysWhole`, `WindowsAgree` | `LogProofs` | `LogKept`, `AppendEffect`, `VolumeWhole`, `CacheCoherent` when `"read" \notin Faults` |
| `ConnectionsTyped`, `StatesOwned` | `HttpConnProofs` | `TypeOK`, `StateOwned` |
| `PagesBeforeFins`, `PbufsAreFreed` | `HttpConnProofs` | `PageBeforeFin`, `PbufsFreed` |
| `PointersStayInside`, `NobodyWaitsInVain` | `SsiSendProofs` | `TypeOK`, `NoStall` |
| `PlainPagesWhole`, `PagesArriveInOrder`, `ClosedBehindTheEnd` | `SsiSendProofs` | pages without a tag state; `SentIsPrefix` and `ClosedWhenSent` for all pages |
| `RequestTyped`, `InterruptsFindTheirRequest`, `SuccessIsHonest` | `SdRequestProofs` | `TypeOK`, `RequestPresent`, `SuccessMeansMoved` |
| `RingsTyped`, `FramesLeftByDamage`, `ReceiverIsRestarted` | `EnetRingProofs` | `TypeOK`, `LeftOnlyByDamage`, `ReceiverRestarted` |
| `TableTyped`, `TableIsSound`, `AddressesAreFresh`, `NothingIsFlooded` | `EtharpProofs` | `TypeOK`; `TableSound`, `AddressFresh`, `NoFlood` when `~Preempted` |
| `TimersTyped`, `PeriodicTimersKept`, `PoolIsLargeEnough` | `LwipTimersProofs` | `TypeOK`, `PeriodicKept`, `PoolSuffices`, in both builds |
| `ConnectionsAreTimed`, `ListOfDistances` | `LwipTimersProofs` | `TcpTimerAlive` and `ImplementsTimerList` when `~ReceiveInterrupt` |
| `QueuesCoverUntilClosed`, `WindowIsKept` | `TcpStreamProofs` | `QueuesCover` until the peer closes; `WindowKept` |
| `InvariantUntilClosed`, `StreamUntilClosed`, `OpenImplements` | `TcpStreamProofs` | the invariant; every step until the peer has closed is one of `ByteStream`; `ImplementsByteStream` for a peer that does not close |
| `DoneIsRead`, `SecondImplements` | `TcpStreamProofs` | `DoneMeansRead` and `ImplementsByteStream` when the peer closes behind the server (`ClosesSecond`) |
| `ReceiveRingIsFifo`, `TransmitRingIsFifo`, `OnlyFullRingsSpoil` | `EnetRingProofs` | `ReceivesInOrder`; `SendsInOrder` and `SpoiltOnlyWhenFull` when `~Preempted` |

The type invariants of `CardLog`, `HttpConn`, `SsiSend`, `SdRequest`, `EnetRing` and `Etharp` are
proved and therefore not run; that of `LwipTimers` is proved and the first conjunct of `PoolSuffices`,
and those of `FatLog` and `TcpStream` are the first conjuncts of `VolumeWhole` and `QueuesCover`.

- **CardLog.** `RequestCovered` is inductive together with the type invariant.
  `NoPhantomLine` is not: it says nothing of the moment between the test of a flag
  and its clearing, at which the flag must still be up for the line about to be
  written to be paid for. The strengthening adds exactly that.
- **FatLog.** None of the four properties is inductive: they say what the card holds, and the next
  access puts on it what a window holds. The invariant `Inv` says that there are clusters `p` of the log
  with which four things hold. `Whole`: the card has `p` as a chain that meets no other file, its
  entry names no more than `p` holds, and in `p` is the text to be kept. `Cache`: a window may be
  saved at any moment, also the wrong one and also alone, since a window of the FAT differs from the card only by
  a mark of a free cluster or by the link of the last cluster to a free one, one of the directory
  only by an entry that is right as well, and one of the data only behind the text. `Pending`: the accesses to
  come save windows, and the last may load one that is clean by then. `Place`: at each step of
  `append`, what the code has established there, for instance that the cluster `create_chain`
  returned is linked on the card or in the window (`NextIs`).
  A power loss after any access, or a write that fails before or after the card took it, is then covered by
  one lemma (`GoodWritten`): a write leaves the volume whole, with `p` or with `p` longer by the cluster
  whose link it saved. The other lemmas go from positions (`PosParts`, `PosOrder`) over the cache
  (`SyncPending`, `MoveStep`) and single edits (`EntryEdited`, `DataEdited`, `Marked`, `Linked`) to one
  lemma for each step. The text is read along `Chain`, a function of the number of its steps;
  that it exists and returns `p` (`ChainSteps`, `ChainIs`) is an induction made by the least number without the property.
  The theorems hold for every width of a sector, number of clusters and of FAT sectors, set of other files, and
  log, with and without FSInfo. They assume `"read" \notin Faults`: with failing reads
  `LogKept` is false, as the run `fat_read` shows. What `VolumeAssumption` asks of the volume: the
  FAT has an entry for every cluster, the two special values are none, and the log there is at
  the beginning fits in front of the first other file.
- **HttpConn.** `Owned` is not inductive: that a closed page has nothing left, that
  a pcb without httpd's callbacks is closed for reading, and that one not yet
  accepted is blank are what the next callback relies on. `ConnIInv` adds them
  (`Sound`), and as every action changes one slot, the proof is about one record:
  each handler takes a sound record to a sound record (`HttpSendGood`,
  `HttpRecvGood`, `CloseConnGood`, ...), and `TcpEvents` composes them.
  The two action properties follow the same way: of each handler it is
  shown what a state that outlives it keeps (`Keeps`) and what is queued when it
  leaves a pcb in `FIN_WAIT_1` (`Whole`); a handler behind the peer's FIN cannot reach that state.
- **SsiSend.** `TypeOK` bounds every pointer and index; it needs `Balanced`: `left` and
  `parse_left` are the lengths behind `file` and `parsed`, and a tag that is being sent
  ends no later than `parsed`. With it every length handed to `tcp_write` is within
  what is left of the page (`RoomBound`, `UpBound`), and a turn of the tag checker keeps
  it in bounds (`StepType`). For a page without a tag state the sequence sent is the
  part of the page between the place it was begun at and `file` (`PlainSent`), from
  which both properties follow. With tags, a reader that takes the page in one go stands beside
  the checker (`SentAt`): after some number of turns it is where the checker is, or will be when the insert at
  hand is sent, and what it has read is the skipped header, all that was sent, what is parsed and
  not sent, and the rest of the insert. A write moves the border between the second and
  the third (`WriteKeeps`), `Parse` and `TagFound` are a turn of the reader, and `SendInsert`
  moves the border into the insert. Before that it is shown that the recursive `Reading` exists
  (`ReadingIs`), that its turns suffice for the page (`ReadingTyped`: every turn but the one that ends a
  lead-in takes a character) and that what it has read only grows (`ReadingGrows`).
  `NoStall` needs `StallInv`: as long as nothing is sent and memory has not run out, something is left of the
  page, a length greater than zero is offered, and no step leaves the loop without a write.
  The assumptions name the characters, positive sizes, and of a page that its header is shorter than
  its text and holds no tag, and that no tag ends with it: the last is the case
  section 5 speaks of, without which `SentIsPrefix` would hold and `ClosedWhenSent` not.
- **SdRequest.** `RequestIInv` says where a waiting request is: commanded,
  transferring, ended with a flag not served, posted, or stuck. It needs the
  relation between flags raised and flags the handler has read (`Unserved`), since
  the handler clears its copy at its end. Assumption of all three theorems:
  `"dataStatus" \notin Faults`; without it they are false, as section
  5 says. TLC evaluates the assumptions on the constants in every run.
- **EnetRing.** `LeftOnlyByDamage` needs to know what the handler is about to see:
  that no event is pending and the ring holds a frame only in places from which the
  handler still looks (`LeftInv`). The receive ring implements the queue
  because the descriptors that hold frames are exactly those from `rxDirty` to the MAC's
  pointer (`RxInv`); the transmit ring because those from the MAC's pointer to `txCur` are
  ready, the ones between `txDirty` and the MAC's pointer are done, and `isTxBdFull` is what
  tells a full ring from an empty one, but for the steps of `ENET_DRV_SendData` between the
  pointer and the flag (`TxInv`). The step lemmas say of each action which of `Put`,
  `Take` and stutter it is, with positions counted round the ring by `Plus` and `Distance`.
  `ReceiveRingIsFifo` needs no assumption on preemption. `SpoiltOnlyWhenFull` adds to `TxInv`
  that a frame copied and not yet made ready is in the buffer at `txCur` (`SpoilInv`), which
  is free unless the ring is full.
- **Etharp.** `AddressFresh` and `NoFlood` are not inductive. `TableInv` adds that an entry in use
  has an owner (`Named`), that a resolved entry holds what its host announced last and is as old
  as that announcement (`Fresh`), that the entry a call of the main loop has chosen is still
  what the call took it for (`CallInv`), and that an entry about to be asked for again was not
  asked for since the last tick (`Calm`). The lemmas about `Match`, `Found`
  and `FindEntry` carry the proof: what they return is one index, and recycling leaves no other entry
  of the address. `TableTyped` needs no assumption on preemption. The constants are assumed to
  be positive and in the order of the build (`AgeAssumption`).
- **LwipTimers.** `PoolInv` counts: the list and what a handler holds are four timeouts and the chains
  of the TCP timer, two of these at most while `tcpip_tcp_timer_active` is set and one while
  it is not. `PeriodicKept` and `PoolSuffices` follow, and hold whichever build is taken, because
  the only handler the interrupt starts is the one of TCP; in the build with the interrupt the head the main loop has read may by
  then be the second entry, which is the one `PoolInv` says so of. `PolledInv` adds, for the build that
  polls, that the flag is up while a connection is registered, and that the place and the rest
  `sys_timeout` found still hold when it links. The refinement rests on lemmas about the
  sums: `Due` of the tail is less by the first difference (`DueTail`), and a new entry at
  `Place` leaves the sums of all others as they were (`DueLinked`), which is what the subtraction
  from the next entry is for; `Place` is the first entry due later (`PlaceIsFirst`). These are
  inductions along the list, made by the least element of a set of positions (`LeastNat`,
  `Upward`). All but `TimersTyped` assume `PoolSize >= 6`, one more than boot takes (`lwipopts.h:110` has 10);
  with five, the first connection runs into the assertion of `sys_timeout`.
- **TcpStream.** `QueuesCover` says that the queues hold everything, and is far from inductive.
  `Kept` says how: `unacked` and `unsent`, one behind the other, are one `Line` of segments without
  gaps that begins no later than `lastack` and ends where the stream ends; everything in `unacked` was sent,
  ends no later than `snd_nxt`, and fits into the window. The last is what makes retransmission
  work: the segment that `tcp_rexmit` puts back before the unsent ones is the first that the
  next `tcp_output` sends, since it still fits, and the line is whole again. So the window must
  never be taken back: `Newer` says of any two acknowledgements on their way, and of
  the pcb, that the one that acknowledges more ends its window no earlier, and `Offer` that all are about
  what the peer has read. For the stream, `Carries` and `PeerHas` say that
  what is on its way, and what has arrived, is what was written, and `Reaches` that no unit is beyond
  `snd_nxt` but the one of a window probe, without which an acknowledgement of the probe could
  pass `snd_nxt` with something on its way. The lemmas go from lines (`LineRises`, `LineJoin`,
  `LineCut`) over what each function does to a pcb (`OutputKeeps`, `WriteKeeps`, `FinKeeps`,
  `AckPartKeeps`, `RexmitKeeps`, `ProcessedKeeps`) to one lemma for each action.
  `IInv` ends when the peer closes. From then on acknowledgements of two sequence
  numbers are on their way, and the window can be taken back (section 5): the queues need no longer be one
  line. `StreamUntilClosed` is therefore about every step up to the one by which the peer closes.
  What goes on depends on who closes first. `ClosesSecond` says that when the peer has
  closed, the server can write no more (`tcp_close` was called, or the pcb is gone), as when `httpd` closes
  behind a page and the browser answers. Nothing is then appended to a segment out of its place, and a weaker invariant is
  enough. `AfterInv` says that the segments on the queues, in whatever order, are still the ones that
  `tcp_write` and `tcp_close` made (`Packed`), that every unit the peer has not read is in one of them (`Holds`), and that
  no acknowledgement on its way is of more than the peer has read. Each function of the board leaves
  the queues all segments but those that end before what is acknowledged (`Leaves`, proved for each of
  them: `OutputHolds`, `RexmitHolds`, `AckPartHolds`, `RequeueHolds`), so empty queues mean that everything was read
  (`DoneWasRead`). `LiveShut` takes the invariant of before over into this one at the step of
  `PeerCloses`. From it follow `DoneIsRead` and `SecondImplements`, of which `OpenImplements`, for a peer that
  never closes, is a special case. None of them bounds the data, the buffers, the retransmissions or the faults, and the
  only assumption on the constants is that sizes are positive.

Only model-checked: every liveness property (`RequestServed`, `StateReturned`,
`CloseCompleted`, `CallReturns`, `OtherRequestsReturn`, `NoneStarves`, `FullRingDrains`,
`AppendEnds`, `QueueDrains`, `Progress`), since fairness and ENABLED are beyond the prover; `FatLog`
with failing reads, under which `LogKept` is false; and of `TcpStream` what happens when the peer closes while the server
still writes, where `DoneMeansRead` and `ImplementsByteStream` hold for the one fault of the run and not for two (section 5).

## 5. Where the code and what is said of it differ

The violation runs are the ones listed under `findings`:

- `sd_timeout`: a data request whose command fails blocks the main loop for ever;
- `timers_clock`: nobody advances the clock of lwIP;
- `fat_read`: a read that fails while `f_lseek` follows the FAT is taken for the end of
  the chain, and the next append cuts the log off there.

What the models follow and no run states:

- after the first change of the card `cardInserted` is the reverse of the slot
  (`Events.c:290` against `httpd.c:2565-2571`);
- pbufs that arrive while a page is sent, or are chained to a request that is
  given up, are never freed, and there are ten (`PbufsFreed` says that there is no third way);
- `tcp_input` looks at a pcb that a close in its callback has freed, in `CLOSE_WAIT`
  (`tcp_in.c:374`, `tcp.c:162`);
- an error bit in the response to a data command completes the request before
  its data, whose last interrupt then completes the next one (`SuccessMeansMoved`
  fails with `"dataStatus"` among the faults);
- a connection registered between the last look at the pcb lists and the clearing
  of the flag (`lwip_timers.c:91`) is not timed (`TcpTimerAlive` fails with `ReceiveInterrupt`);
- `low_level_output` overwrites the oldest frame of a full ring before it is told
  that the ring is full (`SpoiltOnlyWhenFull` says that nothing else is spoilt), and with
  `Preempted` both senders may use one descriptor (`SendsInOrder` fails);
- the ARP table is used by both contexts unprotected, although `etharp.c:1269-1271` says
  of `ethernet_input` that with it "the ARP cache is protected from concurrent access" (`TableSound` and
  `AddressFresh` fail with `Preempted`);
- the peer's FIN ends a closed connection whose last data still waits for
  the window (`over = "cut"` in `TcpStream`), since its acknowledgement is compared with `snd_nxt`,
  which counts only what was sent (`tcp_in.c:742`), although `tcp.c:260` says that "unsent data
  is sent from tcp timer functions, also";
- when the peer has closed, a segment of its that is one sequence number older but newer by
  its acknowledgement (its FIN, sent again) can be followed by an older one of the next number, whose window
  `tcp_receive` then takes (`snd_wl1 < seqno`), although it ends earlier. A segment that `tcp_rexmit` takes back then
  no longer fits, stays on the unsent queue, and when it is the last of it `tcp_write`
  (`tcp_out.c:426-432`) or `tcp_send_fin` (`tcp_out.c:129-135`) appends to it what follows the segments still
  unacknowledged: the peer reads a stream with units missing. With `MaxFaults = 2` (4 units, send buffer 2, MSS 2) TLC finds
  `ImplementsByteStream` violated so, and `DoneMeansRead` by a FIN that lands in the middle: the connection ends as if
  all was read. One fault is not enough, which `tcp_stream` shows, nor are any when the peer closes second (`SecondImplements`). (In the model any
  duplicate acknowledgement may be the third; the code needs all three.)
- without a readable FSInfo `last_clust` is 0, `create_chain_for_clusts` asks `get_fat` for
  cluster 1, and the log can never grow past the chain it has;
- a power loss can leave the log's chain pointing to a cluster still marked free, and
  later appends then end in `FR_INT_ERR` (`VolumeWhole` and `LogKept` hold all the same);
- a connection in `FIN_WAIT_2` or `LAST_ACK` is dropped after 20 s or two MSL, whatever
  the peer still waits for.

Seen on reading, and kept out of the runs: the gateway that `httpd_server_init` sets lies outside
the subnet of the board (`httpd.c:2541-2544`), which `etharp_output` does not mind; a close in the sent callback of a
segment that carries the peer's FIN finds the window short of that FIN and sends
a RST (`HttpConn` follows it, `win = "short"`); a page that ends in a tag loses the
insert, since the parsing loop ends with `parse_left` and `http_send` closes with
`left`, and a `<` right before a lead-in hides the tag: the constant pages of
`fsdata.c` do neither, and nor do the pages of `MCSsiSend`; a PIO block that becomes ready
between the end of the copying loop and the clearing of the flags is forgotten
(`RequestReturns` fails for it too, without any fault); a failed automatic CMD12
sets no error in the request, because only `CMD_ERR` leads to
`SDHC_DRV_SetRequestError`; the data interrupt after an early completion fails the
assertion on `req` when no other request was started (`RequestPresent` under
`"dataStatus"`); `sys_timeout` counts from the last expiry and not from now, so
the TCP timer of a new connection is early; `sys_timeouts_init` starts a TCP timer
that `tcpip_tcp_timer_active` does not know of, so a second chain may run beside it
(it ends with the last connection, and `PoolSuffices` shows there is no third); the
zero-window probe sends a unit without moving `snd_nxt`; a fast retransmission counts
`nrtx` and may step over `TCP_MAXRTX`, which is compared with equality.

## 6. Not modelled, and why

- The value of a time stamp, the parameters of URIs and CGI requests, and the relays:
  data the properties above do not tell apart.
- TCP: options, the size of the congestion window, what the peer sends but
  acknowledgements and its FIN (the rest is in `HttpConn`), memory that runs out inside
  `tcp_write` and `tcp_output`, and an Ethernet interrupt in the middle of `tcp_slowtmr`,
  which the build allows.
- FatFs: a read that fails after it has filled its buffer, sectors that are
  written in part, subdirectories and long names, calls that this program does not make.
- Ethernet: start-up and the frames before `netif_add` (`ethernetif.c:607` then has no netif),
  multicast groups, IEEE 1588.
- ARP: destinations that are broadcasts or multicasts, which touch no entry, and an interrupt inside
  the loops over the table.
- The free lists of lwIP's pools, card identification and the card's own
  state: planned (section 7).
- Start-up of clocks, pins and the PHY, and the HALs: straight-line code over registers.
- `sys_untimeout`, `sys_restart_timeouts`, `SDCARD_DRV_EraseBlocks`, SDMA, the polled SDHC
  build, mutexes, events and message queues of the OS abstraction, IP reassembly of
  forwarded datagrams, the sequential API, PPP, SNMP, IPv6: called by nothing, used by no two
  contexts, or compiled out. Most of `src/` is of this kind, or device headers.

## 7. Plan

1. `CardLog`, `HttpConn`, `SdRequest`, `LwipTimers`, `SsiSend`, `EnetRing`, `FatLog`, `TcpStream`,
   `Etharp`: done.
2. Proofs: `LwipTimers` with its refinement, `TcpStream` with its refinement unless the peer closes first,
   `SsiSend` with its tags, `FatLog` without read errors: done.
3. `LwipPools`: memp, heap and pbuf reference counts with the interrupt.
4. The card protocol between `SdRequest` and `FatLog`: identification, stop and status
   commands after an error.
5. Proofs still worth making: `TcpStream` when the peer closes first, for one
   fault; and which properties of `FatLog` are left when reads fail.
