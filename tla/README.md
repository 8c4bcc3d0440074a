# A TLA+ model of ethoslip

This directory holds TLA+ specifications of ethoslip, a bridge that carries
Ethernet frames over a serial line between a Wi-Fi module and a computer, the
TLC configurations that check them, and TLAPS proofs about them.
`PROJECT.json` lists the components, the runs, the source lines behind every
definition, the hazards and the findings.

    tlc -workers 2 -config SlipLink.cfg MCSlipLink      # model-check
    tlapm LinkProofs.tla                                # check proofs

## 1. The system

Three programs. Paths are relative to the repository.

| program | code | threads |
|---|---|---|
| firmware of the Wi-Fi module (Realtek Ameba, FreeRTOS, preemptive) | `src/`, `inc/` | SLIP task (priority `configMAX_PRIORITIES-3`), the SDK's WLAN receive thread, `net_task` and `tun_task` (priority 1), UART receive interrupt |
| `ethoslip_tun`: serial line to a TAP interface | `tools/ethoslip_tun/` | main thread, SLIP thread, signal handler |
| `ethoslip_lwip`: serial line to an lwIP stack in user space | `tools/ethoslip_lwip/` | main thread, SLIP thread |

    ethoslip_lwip / ethoslip_tun                          firmware
    ----------------------------                          --------
    main: read tap / lwIP output
      checksum, send_packet, gs_tx_buff, write() ==> line ==> irq: charQueue
                                                        SLIP task: recv_packet
                                                        checksum
                                                        WLAN API? answer: low_level_output
    SLIP thread: read(), recv_packet  <== line <== send_packet  (SLIP task, answer)
      checksum, tap / queue to main             <== send_packet  (from_ap_input)

### Inventory

| component | state | operations | what makes it correct |
|---|---|---|---|
| SLIP codec (`slip.c`, three identical copies) | bytes stored, escape pending | `send_packet`, `recv_packet` | what arrives undamaged is delivered unchanged; damage stays local |
| serial port, firmware (`src/uart2.c`) | `charQueue` (2000) | `send_char`, `recv_char`, `uart2_irq_handler` | overflow costs frames, not synchronisation |
| serial port, hosts (`uart2.c`, `serial.c`) | `gs_tx_buff`, `gs_rx_buff` (4000), VMIN 100 | `send_char`, `send_char_do`, `recv_char` | same; errors of `read()` and `write()` are contained |
| SLIP task and frames from the access point (`slip2ip_task.c`) | `slip_used`, two buffers, pbufs | `slip2ip_task_proc`, `from_ap_input` | frames of the two writers are not mixed; no pbuf is lost |
| WLAN API of the firmware (`src/wlan_api.c`) | `gs_ssid`, `gs_passwd`, `gs_security_type` | `wlan_api_pack_proc` | the credentials sent last are the ones used, as a whole |
| start-up and reconnection (`src/main.c`) | | `network_connected_proc` | reconnects with the present credentials |
| UDP tunnel of the firmware (`src/tun.c`) | `udp_sock`, `key`, counters | `tun_input`, `udp_input_cb` | no use before set-up; both ends agree on the key stream |
| queue (`queue.c`) | ring of `int` | `queue_try_put`, `queue_try_get`, ... | a bounded FIFO of pointers |
| receive path of ethoslip_lwip (`ethoslip_main.c`) | queue, its mutex, lwIP's pbuf pool | `slip_out_task_proc`, main loop | each pbuf has one owner; frames whole and in order |
| bring-up (`user_main.c`, host `wlan_api.c`) | `wifi_status`, `gs_wlan_api_status`, timer 1 | `user_loop`, callbacks, `wlan_api_rx_proc` | ends with the address; the device gets the credentials; never starts over |
| soft timers (`soft_timer.c`) | ten timers | create, delete, `soft_timer_proc` | never early, never missed, one-shot timers fire once |
| `ethoslip_tun` (`main.c`, `uart2.c`) | `slip_out_task_run_flag`, `tun_fd`, the read buffer | two loops, `signal_proc`, `recv_char` | packets once and in order; stops when told to |
| checksum (three identical copies) | | calculate, check | accepts what it made, notices one changed byte |
| network interface of ethoslip_lwip (`ethoslipif.c`) | one buffer | `ethoslipif_low_level_output` | a chain of pbufs leaves as the frame it holds |
| lwIP: timeouts (`timeouts.c`) | ordered list of times that wrap | `sys_timeout`, `sys_check_timeouts`, the cyclic timers | none early, none lost, none starved |
| lwIP: DHCP client (`dhcp.c`) | `struct dhcp`, the address of the interface | start, two timers, replies, ARP conflicts | gets an address, gives it up when its lease ends |

The components interact through the serial line (frames), through shared
memory (`charQueue`, `slip_used`, the queue and the pbuf pool), and through
callbacks (`from_ap_input` from the WLAN driver, `get_hwaddr_callback` and the
timer callbacks from the main loop).

What is hard in this code: two preemptive writers of one UART; two threads in
one lwIP pool; a lossy line without retransmission, on which a request and
answer protocol with a retry timer is built; buffers that overflow silently;
pointers kept in ints; global credentials that two tasks use; clocks that wrap;
a shutdown driven by signals that may be handled on either thread; the lease
timers of DHCP, which outlive the exchange that set them. `PROJECT.json` lists
each of these as a hazard at its line, with the properties that address it.

## 2. The modules

| module | models | extends / instantiates |
|---|---|---|
| `BoundedFifo` | abstract: a FIFO of pointers with a capacity | |
| `SqQueue` | `queue.c` | instantiates `BoundedFifo` |
| `Slip` | the codec of `slip.c`, as operators | |
| `SlipLink` | host to firmware, character by character | extends `Slip` |
| `DeviceTx` | the two writers of the firmware's UART | |
| `HostRx` | the two threads of `ethoslip_lwip` and the pbuf pool | |
| `WlanApi` | bring-up: host, line, firmware | |
| `WifiConfig` | the credentials of the firmware, the two tasks that use them | |
| `TunBridge` | `ethoslip_tun`: two threads, signals, `recv_char` | |
| `SoftTimer` | `soft_timer.c` | |
| `SysTimeouts` | `timeouts.c` of lwIP, as main's loop runs it | |
| `Checksum` | the checksum's arithmetic, as operators | |
| `Codec` | one frame from pbuf chain to UDP tunnel | extends `Checksum` |
| `Dhcp` | `dhcp.c` of lwIP, as `ethoslip_lwip` uses it | |
| `LinkProofs` | theorems about the serial line | extends `SlipLink`, `DeviceTx`, `Codec` |
| `HostProofs` | theorems about the queue and the bring-up | extends `SqQueue`, `WlanApi` |
| `HostRxProofs`, `WifiConfigProofs`, `TunBridgeProofs`, `SoftTimerProofs`, `SysTimeoutsProofs`, `DhcpProofs` | theorems | each extends its module |
| `MC*` | instances for TLC | extend the module |

An operator whose name ends in `Mutant`, in front of the definition it varies,
is a plausible bug: with it in place of the definition the named property is
violated (see `mutants` in `PROJECT.json`). It is not part of any
specification. Two components whose theorems share a proof module have names of
their own for what every module defines: `QueueSpec`, `QueueTypeOK` and so on in
`SqQueue`, `TxSpec`, `TxTypeOK` and so on in `DeviceTx`, `CodecSpec`,
`CodecTypeOK` and so on in `Codec`.

**SqQueue.** `base`, `front`, `rear` are the fields of the C struct; `ret` is
what the last call returned. `ToInt` and `ToPtr` are the casts, with the
widths `INT_SPAN` and `PTR_SPAN`. The refinement mapping is `Contents`, the
slots from `front` to `rear`. The calls are atomic: the program makes them
under a mutex.

**Slip, SlipLink.** `Frame(p)` is what `send_packet` sends, defined by place and
not by a loop, so that it can be reasoned about: `Place(p, i)` is where the
characters of byte i begin, `ByteAt(p, n)` the byte that place n belongs to.
`FrameIsLoop` in `MCSlipLink` compares it with the loop of the code on all
packets of up to four bytes over the bytes the loop tells apart.
`Received(r, x, len)` is one character of `recv_packet`, whose local variables are `r.buf` and
`r.esc`. In `SlipLink` a frame passes `gs_tx_buff` (a character that does not
fit is dropped), `write()` (whose failure is ignored), the line (which loses
and adds characters) and `charQueue` (a character that finds it full is
dropped). Each character carries the number of its packet and its place in
the frame; the code never looks at them, the properties do. `hurt`, `noisy`
and `cut` are history variables of the same purpose. The firmware's own
greeting text in `uart2_init` is noise in this sense.

**DeviceTx.** One action for each stretch of `slip2ip_task_proc` and
`from_ap_input` between two places where the other thread can interfere.
`Runs` is the FreeRTOS scheduler: a thread runs when no ready thread has a
higher priority. The priority of the WLAN receive thread belongs to the SDK
and is the constant `RxPrio`.

**HostRx.** `tab`, `next` are the free list of `memp.c`, with the link of the
free list and the link of a pbuf chain in the same word as in the code.
`memp_malloc` and `memp_free` are two steps each: reading and writing the head
of the list. `Chain(b)` is what can be reached from b: the least set of pbufs
closed under the links. `SYS_LIGHTWEIGHT_PROT` turns lwIP's critical sections on;
`lwipopts.h` has it 0. `raced` is a history variable: one thread has entered a
function of the pool while the other was inside one, which a critical section
prevents.
`KeepFrame` and `DropKept` stand for an IP stack that holds on to a frame (for
reassembly, or in a socket) and frees it later.

**WlanApi.** One turn of main's loop is `queue` (one frame), `timers`, `user`;
a frame that `wlan_api_rx_proc` takes starts the next turn at once, as the
`continue` does. `timer` is the `on` field of soft timer 1; its expiry may be
found at any time. `SerialRead` is `read()` with VMIN, counted in frames: an
answer is about 20 bytes, VMIN is 100. Frames vanish as a whole in this
module, for any of the reasons `SlipLink` models. What the credentials are
compared with and how they are copied is the subject of `WifiConfig`.

**WifiConfig.** The three global variables, with one action for each copy that
`wlan_api_pack_proc` makes and one for each variable that `wlan_connect_wifi`
reads. That function, and the driver behind it, belong to the SDK: the model
lets it read the variables one by one, wait, join, or refuse while another task
is joining. `held` is the mutex of the debug output, the one place where the
SLIP task can lose the processor to `net_task` in the middle of a replacement.
`Same` is the `memcmp` of `wlan_api.c:39`: the request starts with
the present name and password. `stale` and `skipped` mark the two windows in
which the code does not do what was asked.

**TunBridge.** Places in `main`, in `slip_out_task_proc` and, for each thread,
in `signal_proc`, which may interrupt either thread between any two steps.
`recv_char` is taken in units of whole packets; every result of `read()` is
there: some packets, 0, -1. After a -1 the pointer runs to the end of its type,
over other memory (`RecvFaults`, and packets that are not there).

**SoftTimer.** `soft_timer_proc` visits one timer per step; a callback is a step
of its own that creates or deletes any timer. `clock` wraps from `Half - 1` to
`-Half`, and the comparison is the unsigned one of 64 bits. `elapsed` and
`wrapped` are what the code cannot know. `WlanApi` uses timer 1 as this module
specifies it.

**SysTimeouts.** The list `next_timeout` with absolute times modulo `Mod`, and
with each the true time left, which the code does not have. `sys_timeouts_init`
is one `sys_timeout` per step. Time passes between all steps, in the handlers
too, up to `MaxLag` behind. `sys_now(t)` is the conversion of `sys_arch.c`: the
u32_t of `clock()` in milliseconds. With a `clock_t` of 64 bits it counts on to
`Mod` and wraps there (`ClockMax` out of reach). With one of 32 bits, as in the
ELF files of the repository, `clock()` overflows at `ClockMax` and `sys_now` jumps
to the u32_t of `-ClockMax`; `overflowed` is a history variable that marks it.
(In that build the reading 0 also lasts two milliseconds, as the division
truncates towards zero; this is left out.) That the pool has an element for every timer of the
stack is how `lwipopts.h` and `opt.h` size it, and an assumption here.

**Checksum, Codec.** A frame leaves a chain of pbufs (`pbuf_copy_partial`), gets
its checksum, is damaged or not, checked, and combined with the key of the UDP
tunnel as `slip2ip_task_proc` of the other build does. The frame may be cut into
pbufs anywhere, empty ones included. Bytes in front of it that no step touches
are known by their sum only (`front`), so that short frames can have the sums of
long ones. `SumsFrom` is the loop of `if_api_calculate_checksum`, a recursive
function over the places of the frame. `ByteXor` is written out bit by bit, because
the exclusive or of the module Bitwise is a RECURSIVE operator, which the prover
cannot deal with; `MCCodec` has TLC compare the two on all pairs of bytes
(`XorIsExclusiveOr`). `KeySize` is the `BUF_SIZE` of the key.

**Dhcp.** `dhcp` is `struct dhcp`; the functions of `dhcp.c` on it are operators
of the same names, and a handler is one step, as everything runs in main's
loop. A message either finds its pbuf or not (`ok`). `request_timeout` is kept
as on or off: how long it lasts is left open, except that a DISCOVER or REQUEST
from its attempt `SlowTries` on waits longer than an answer is under way, as the
doubling of its time-out ensures. The half second of CHECKING and the ten of
BACKING_OFF are constant, so that they may end with answers still under way.
Messages are a set: they may be lost, repeated and overtaken. The parsing of
options is abstracted to the record of the three lease times, each of which may
be absent.

## 3. The runs

| run | states | shows |
|---|---|---|
| `queue_ring` | 7,013 | `SqQueue` implements `BoundedFifo` where pointers are as wide as ints |
| `link` | 674,693 | damage costs a frame and at most the next (`ResyncWithinOneFrame`); other packets arrive whole (`EventuallyDelivered`), on a clean line in order (`CleanLineInOrder`) |
| `device_tx` | 8,765 | frames are contiguous when the receive thread has the higher priority; no pbuf is lost |
| `host_rx` | 27,957 | without critical sections, as configured, until both threads are in the pool at once: one owner for each pbuf, frames whole and in order, every queued frame is handled |
| `host_rx_unprotected` | violation | and at that moment the free list breaks |
| `bring_up` | 73,174 | never goes back; waits with a retry; gets the address in spite of losses and VMIN |
| `wifi_config` | 76,620 | no attempt mixes two requests; the last request wins; a lost connection is made again |
| `tun_bridge` | 441,938 | packets once and in order; at most one is written after the stop; the stop finds a thread to join; the local of main outlives its use; a signal ends the program |
| `sys_timeouts` | 247,420 | `clock_t` of 32 bits: each timer once; until `clock()` overflows none early and in order; `sys_check_timeouts` returns and all are served, except as said below |
| `soft_timer` | 155,520 | on exactly while wanted, never late, never early, called in the end |
| `codec` | 1,453,476 | intact frames pass, one changed byte does not; the two ways to apply the key agree |
| `dhcp` | 162,946 | the client never waits in vain, gives an address up within half a tick of its lease's end, tries to renew it, gets one in the end |

`TypeOK` of each module says what its variables may hold. It is proved where a
proof needs it, for every value of the constants (`SqQueue`, `SlipLink`,
`DeviceTx`, `HostRx`, `WifiConfig`, `SoftTimer`, `SysTimeouts`, `Dhcp`, and
`Codec` as part of its invariant); the runs
check it where it bounds a buffer (`SlipLink`, `WifiConfig`). In the other
modules it documents the variables, and can be added to the configuration as an
invariant.

One run is a finding, `host_rx_unprotected`: lwIP's `opt.h` says that
`SYS_LIGHTWEIGHT_PROT` is required when lwIP is used from more than one context,
and `lwipopts.h` turns it off.

**What the properties except, and what happens there.** Several properties hold
with an exception that the code forces. Each exception is a behaviour of the
code that the model has:

* `FifoSpec` needs pointers that fit an `int`. In a 64-bit build with the heap
  above 2 GB, `queue_try_get` returns a pointer that nobody put (`queue.c:90`).
* `ResyncWithinOneFrame`: noise that ends in ESC swallows the END that is to
  flush it (`slip.c:21`), and costs the frame that follows.
* `FramesContiguous` needs a WLAN receive thread of higher priority than the
  SLIP task. Otherwise an answer is sent in the middle of a frame
  (`slip2ip_task.c:142`).
* `WaitsWithRetry`, `GetsHwaddr`: one failed `malloc` ends the retries
  (`user_main.c:126`).
* `PbufsUntilRace`, `FramesUntilRace` and `QueuedIsHandled` speak of the time
  before the race at `memp.c:268`.
* `NeverEarly` and `Sorted` of `SysTimeouts` speak of the time before `clock()`
  overflows. After it a new timeout goes in front of those that were set before,
  and if it overflows in a handler, what the handler schedules is called at once,
  because `sys_check_timeouts` compares with the time it read before. As long as
  the handlers schedule themselves again, it then does not come back (`Jumped` in
  `CheckEnds`).
* `AllServed` of `SysTimeouts`: with a `clock_t` of 32 bits, `sys_now` runs through
  -2147483 to 2147483 as a u32_t, 71 minutes of processor time, and shows none of
  the times in between (`sys_arch.c:5`). A timeout that is set shortly before the
  overflow, for one of those times, is never due again (`Stranded`), so that the
  ARP or the DHCP timer may have stopped for good. One that was already due at
  the overflow waits for a turn of the clock and is served then.
* `WithinLease`: the lease is counted in coarse ticks of a minute and rounded to
  the nearest number of them, at least one. An address can stay for 30 s longer
  than its lease, or, with a lease of less than half a minute, until the next
  tick.
* `NeverTorn`, `EndsOnRequested`: credentials replaced while `net_task` uses the
  old ones may be mixed in its attempt, and the device may end up on the older
  network. A request that only continues the present name or password is taken
  for the same (`wlan_api.c:39`).
* `InOrderOnce`: after a failed `read()` old packets are delivered again
  (`uart2.c:57`).
* `JoinsRealThread`: a signal between `run_flag = 1` and `pthread_create` joins
  a thread that does not exist (`main.c:148`).
* `StopsOrStuckInRecv`: the program does not end while the SLIP thread waits in
  `read()` (`main.c:158`).
* `NeverEarly` of `SoftTimer`: when `clock()` wraps, every timer that is on
  expires at once (`soft_timer.c:55`).
* `ChangeCaught`: a byte of the frame that changed by 128 passes, and so do two
  bytes exchanged.
* `RenewsBeforeGivingUp`: for a lease of 91 days or more, T1 and the lease are
  cut to the same 16 bits and the address is given up without an attempt to
  renew it (`dhcp.c:1057`).
* `GetsAddress`, `SuppliedHasAddress`: after a NAK the timers of the old lease go
  on. If T1 or T2 ends while the client is in REQUESTING, it goes to RENEWING or
  REBINDING without an address, `dhcp_supplied_address` says yes, and with a
  lease without end nothing wakes the client again.

Nothing acknowledges or repeats the CONNECT frame, and `user_main.c:172` does not
look at the result of sending it. When it is lost, `user_loop` reports "wifi
connected" and goes on to DHCP while the device stays with its default network
(`Lose` in `WlanApi`). The code promises nothing for that case, so no
property speaks of it.

Three more observations about `dhcp.c`, visible in the model and not stated as
properties: a renewal that makes the lease unlimited leaves the clock of the
old lease running, so the address is released at the old end; `offered_t0_lease
* 7` wraps for leases of 19.5 years or more, which puts T2 before T1; renewals
keep the xid, so a late ACK counts as the answer to a newer request.

**Bounds.** `SqQueue`: four slots and three pointers, one of them negative as an
int, so that the ring turns, fills and empties at every slot; the number of
calls is not bounded. `SlipLink`: three packets (one with each byte that needs
stuffing, one too long for `gs_tx_buff`), two losses or noise characters,
buffers of two to five characters: a damaged frame, the frame it may drag
along, and one that must be whole again. `MaxLine` paces the host as a full
output buffer does. `DeviceTx`: three packets from each side and frames of
three characters: a first, a middle and a last one. `HostRx`: four pbufs,
chains of one or two, a queue of two: the pool runs dry in the middle of a
chain, frames wait behind each other, and the queue runs full. (With
`SYS_LIGHTWEIGHT_PROT = 1` the same configuration passes with `PbufsConserved` and
`FramesIntactInOrder`.) `WlanApi`: VMIN of two frames, so that a single
answer is never read; two losses, one failed allocation; retries are not bounded,
only what is on the line at once (`MaxInFlight`, with room for a request kept
free of data frames) and in the queue (`MaxQueued`).

`WifiConfig`: six requests (another network, an open one, another
password, a name that continues the present one, one too long, the default
again), three of them in a row, two faults. `TunBridge`: a buffer of two packets
and three packets in all, so that it is filled a second time and partly;
signals are not bounded except by `SIG_IGN`. `SoftTimer`: two timers and a clock
of six ticks, so that it wraps inside a timeout. `SysTimeouts`: two cyclic timers
and TCP's, delays longer than the shortest interval, times of 32 ticks of which
`clock()` reaches those from -4 to 4, so that they wrap at 0 and jump at 4, by
more than any interval; the run goes on for ever, any number of wraps and
overflows. (For a `clock_t` of 64 bits, `Mod = ClockMax = 16` gives a clock that
only wraps; the same properties pass, and neither exception of `CheckEnds` and
`AllServed` is needed.) `Codec`: frames of up to three bytes from the ends of their ranges behind any of six sums, in chains of one to three
pbufs, with a changed byte, two exchanged, or the end cut off. `Dhcp`: one address, a tick
of two units of time, timers of values up to 5, leases shorter than a tick, of five
ticks, too long, unlimited, absent; two faults of any kind (loss, repetition,
NAK, conflict, missing pbuf), enough for a NAK followed by a lost message. The
number of renewals is not bounded.

Deadlock is checked for the queue, `HostRx`, `WlanApi`, `WifiConfig`,
`SoftTimer`, `SysTimeouts` and `Dhcp`. `SlipLink`, `DeviceTx` and `Codec` stop
when their bounded input is used up, `TunBridge` when the program has ended.

**Fairness.** `SlipLink`: a character on the line raises the interrupt, and the
SLIP task leaves `xQueueReceive` when there is one (weak fairness).
`HostRx`: both threads keep running, the SLIP thread is only ever blocked in
`recv_packet` and on the mutex (weak fairness of its steps; none for the
arrival of frames). `WlanApi`: the main loop spins and the device and `read()`
respond (weak fairness); the timer is looked at in every turn while the clock
advances, so that it is found expired in the end (strong fairness, because the
place in the loop changes all the time). The access point owes nothing, and
the line loses finitely many frames. `WifiConfig`: both tasks run when nothing
of higher priority does, attempts to join and delays end. `TunBridge`: threads
and handlers are scheduled; there is no fairness for frames, packets or
signals, so `read()` may block for ever. `SoftTimer`, `SysTimeouts`: the loop of
main spins and the clock runs. `Dhcp`: both timers are called, messages that
are not lost arrive and are answered.

## 4. The proofs

All for every value of the constants allowed by the named assumptions
(`LinkAssumption`, `TxAssumption`, `QueueAssumption`, `ApiAssumption`,
`RxAssumption`, `PrioAssumption`, `ConfigAssumption`, `BridgeAssumption`,
`SoftTimerAssumption`, `TimeoutsAssumption`, `DhcpAssumption`, `CodecAssumption`). The bounds of the
runs are constants like the others: what is proved holds for any number of
packets, faults and calls. Every invariant below was checked by TLC on the
instance of the run before it was proved.

* `LinkProofs`, host to firmware. `LinkTypes`: the buffers keep their limits.
  `DamageEndsAtOneFrame` (`ResyncWithinOneFrame`): the property speaks of an END
  that has arrived; the invariant follows the damage from where it happens.
  Of two neighbours on the line, the second begins a frame only if the first is
  of the packet before it or that packet is hurt (`LinePassed`), and an ESC in
  `charQueue`, or pending in `recv_packet`, is followed by the beginning of a
  frame only if that frame is owed to damage or noise (`QueueOwed`, `EscOwed`).
  Each of the four ways to lose a character keeps this because it marks the
  packet whose characters are no longer there to stand between.
  `CleanLineDelivers` (`CleanLineInOrder`): while nothing is lost, every
  character is the one its frame has at its place, neighbours are successors
  (`InStep`), and `recv_packet` has stored exactly the bytes in front of the
  character it gets next, and waits behind an ESC exactly in front of a stuffed
  one (`RxAt`). This is where the codec is proved: `FrameByte` says where the
  characters of a byte are, for packets of any length. It needs no induction
  over the packet because the place of a byte is a cardinality (`PlaceStep`,
  `PlaceGrows`), every place belongs to exactly one byte (`CoversExists`,
  `CoversUnique`), and one step of `recv_packet` moves by one byte (`RxStep`).
* `LinkProofs`, firmware to host. `NeverLeaks`: type correctness and pbuf
  accounting are inductive together (a buffer is freed only by the thread whose
  place in the code says that it has one), for any priorities.
  `FramesStayWhole`: if `RxPrio > SlipPrio`, frames are contiguous. Contiguity is
  not inductive: the invariant adds that `slip_used` is 1 exactly while the SLIP
  task is between setting and clearing it, that the receive thread is then
  outside `from_ap_input`, that a thread is in the middle of a frame only while
  it sends, and what the last character on the line is in either case.
* `LinkProofs`, the bytes of a frame. `IntactFrameAccepted` (`IntactAccepted`),
  `SingleChangeCaught` (`ChangeCaught`), `TunnelWaysAgree` (`TunnelAgrees`), for
  frames of any length and content, sums of any size, and chains of any number
  of pbufs. The invariant `CodecInv` follows the frame: what is on the line is
  the packet made of it, what arrives is that packet or, where the line changed
  a byte, that packet with another byte at one place (`DamageIs`), and `len` is
  what `if_api_check` says of it (`Judged`). The steps are easy; the work is in
  the operators, which are loops over data. Instead of an induction each lemma
  looks at the set of places where it fails and shows that this set has no first
  member (`NoFirstPlace`). In this way it is proved that the recursive sum
  exists (`SumsExist`), is a number (`SumsType`) and follows a changed byte by
  the difference (`SumsOfChanged`); that flattening a chain adds its pbufs one
  by one (`FlatStep`, from `FlatExists` and `FlatUnique`); and that the key laid
  along the pbufs one after the other lies as it does along the copy
  (`ChainAgrees`, from `PbufXorRunsOn`). `LowTellsApart` and `SmallChange` are
  the arithmetic of the checksum: a change of the sum by less than 256 that
  leaves its low seven bits alone is 128. `XorTwice` goes through the eight bits.
  `ByteChangeCaught` is the same fact for one byte, apart from any frame.
* `HostProofs`, the queue. `TypeCorrect`: `front` and `rear` stay inside the
  array. `RefinesFifo`: with `PTR_SPAN = INT_SPAN`, `QueueSpec => FifoSpec`. The
  invariant is type correctness, with every slot a C int; the work is arithmetic
  modulo `MAX_QSIZE` (what the length and the contents are after a put and a
  get), stated as lemmas, and that the two casts are inverse to each other.
* `HostProofs`, the bring-up. `RetryWhileWaiting` and `BringUpMovesForward`. The
  invariant ties three variables of two files together: a request is
  outstanding, or its timer on, only in the state `WIFI_FREE`. Without it a late
  answer could be accepted in a later state.
* `HostRxProofs`. `PbufsInOnePlace` (`PbufsUntilRace`) and `FramesWholeInOrder`
  (`FramesUntilRace`), whatever `SYS_LIGHTWEIGHT_PROT` is: nothing but two threads
  in the pool at once breaks it, which is what the run `host_rx_unprotected`
  shows to happen. `ProtectedNeverRaces` says that critical sections exclude it,
  and `ProtectedConserves` that `PbufsConserved` and `FramesIntactInOrder` hold
  outright then. The invariant
  `PbufInv` says that no link closes a circle (`Acyclic`), what the threads'
  pointers point to at each place in the code (`Places`), that no two roots are
  the same (`Distinct`) and that the chains of the roots divide the pool
  (`OnePlaceEach`). Behind it is a small theory of chains: what is reached after
  a link was changed (`Relinked`), that unlinking and freeing the head of a list
  divide it (`UnlinkDivides`, `FreeDivides`). Where an argument along a list
  would be an induction, it uses the least closed set, or the least member of a
  set of numbers (`LeastMember`). `FrameInv` adds the frame numbers: each waiting
  chain is of one frame, and the queue is in their order.
* `WifiConfigProofs`. `JoinsWithWholeCredentials`: the invariant says how far the
  replacement has come and how far each attempt has read; the step that needs
  it is the scheduler's (`NetRunsAlone`): `net_task` runs, outside of the mutex,
  only when the SLIP task is idle or joining. `CredentialsFit` (`TypeOK`): the
  two length checks in front of the copies are enough. Its invariant adds that a
  request being copied has passed them.
* `TunBridgeProofs`. `StopsWriting`, `JoinsAfterCreate`, `LocalOutlivesThread`. The
  invariant relates the places of the two threads and of their handlers: before
  `pthread_create` there is no SLIP thread, a cleared flag means that a handler
  is at work or main is past its stop, a late packet leaves the thread at a
  place where it tests the flag next. `BridgeKeepsOrder` (`InOrderOnce`): while
  `read()` has not failed, what lies in the buffer from the pointer on continues
  what was written and is continued by what is on the line (`OrderInv`).
* `SoftTimerProofs`. `TimersOnWhileArmed`, `TimersNeverLate`, `TimersNeverEarly`.
  The invariant (`TimeOf`) says what the difference of the clock and a timer's
  count means: the time elapsed, or that less one full turn of the clock. It is
  inductive because no timer waits longer than a turn (`SoftTimerAssumption`).
* `SysTimeoutsProofs`. `TimeoutsNeverEarly` (`NeverEarly`), `ListStaysSorted`
  (`Sorted`), both until `clock()` overflows and for every `ClockMax`, and
  `TimersOnceEach` (`EachTimerOnce`), before and after. `ListInv` ties every wrapped
  time to a true one: the stored time is the clock that many ticks from now
  (`Times`), and the `now` that `sys_check_timeouts` and the handlers read
  earlier is the clock of a known number of ticks ago (`Ages`, `Handling`). As
  all of these are less than half a turn apart, `TIME_LESS_THAN` decides as the
  true times do (`HalfRange`, `TimeLess`), and inserting by it keeps the order
  (`Inserted`, `PutAt`). `TimersOnceEach` adds that the list holds no timer
  twice, so that a timer that is missing finds an element in the pool (`RoomLeft`,
  a pigeonhole argument).
* `DhcpProofs`. `StructInRange`, `ClientNeverWaitsInVain`, `BoundHasAddress`,
  `AddressWithinLease`. The invariant is in three parts: `struct dhcp` by itself
  (`Sound`), the interface and the structure (`InUse`: the clock of the lease is
  the time the address has been held), and the messages under way (`Carries`).
  Rounding to ticks, `% U32` and the cut to 16 bits are dealt with in `TicksType`
  and `TicksWithin`. `RenewalComesFirst` (`RenewsBeforeGivingUp`, an action
  property): while a lease that T1 can precede is BOUND, T1 has not come up, so
  the step that gives the address up finds the client past BOUND.

Only model-checked: liveness (TLAPS has no fairness reasoning), among it that an
undamaged packet arrives (`EventuallyDelivered`). Every invariant and every
action property of a passing run is stated by one of the theorems.

## 5. Not modelled, and the plan

Not modelled:

* termios and UART set-up: settings without state. Their one consequence, VMIN,
  is a constant of `WlanApi` and `TunBridge`;
* the SDK of the firmware (Wi-Fi driver, FreeRTOS, its LwIP): not in the
  repository. What the code relies on is external in the modules;
* the socket of the UDP tunnel (`src/tun.c` from line 55 on, and
  `slip2ip_task.c` with `_USE_UDP_TUNNEL`): what a call with a null socket does
  is decided by the SDK's LwIP. The bytes of the tunnel are in `Codec`;
* lwIP beyond the pbuf pool, the timeouts and the DHCP client. The repository
  holds a whole copy of lwIP 2.1.0, more than 130,000 lines, of which
  `ethoslip_lwip` compiles a part: the core, IPv4, IPv6 and, of the applications,
  the HTTP server (`Makefile:13`), which `user_loop` starts after the bring-up; no
  sockets, no PPP. The server is not modelled. It is third-party code with its own tests. The share of all
  lines that the modules cover is small for that reason; of the program's own
  code in `src/`, `tools/ethoslip_tun` and `tools/ethoslip_lwip/src` and `user`
  what is left out is listed here;
* of `dhcp.c`: REBOOTING and `dhcp_network_changed` (the link is set up once),
  `dhcp_inform`, AUTOIP, the options' parser; of `timeouts.c`: `sys_untimeout`,
  `sys_restart_timeouts`. This program does not reach them.

Left of the plan: more of lwIP where `ethoslip_lwip` depends on it: the ARP table
(`etharp.c`: pending queues, ageing, a full table), and the reassembly of IP
fragments, which is what keeps pbufs in `HostRx`.
