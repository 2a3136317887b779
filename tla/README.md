# A verification of the SenseZilla sensor firmware (USF)

`src/USF` is the firmware of battery-powered sensor nodes: an AVR that sleeps
most of the time, samples its sensors, keeps the reports in memory and hands
them to a host over a radio that it wakes for the purpose. This directory holds
TLA+ models of its core, the TLC configurations that check them on small
instances, and proofs that TLAPS checks for every value of the constants.

The configuration modelled is the one the repository builds
(`configurations.h`, `devicedefs.h`): `ENVIRONMENT_SENSOR`, hardware version 3,
`MOTE_WIFLY`, `LOW_POWER`, `USE_RECORDSTORE`, default fields `0x31F`, a sample
every 2 s, a transmission every 15 s, UART0 at 115200 and UART1 at 57600 baud.

Contents: 1 the system, 2 the plan, 3 the modules and the code, 4 the runs,
5 fairness, 6 what the violations show, 7 the proofs, 8 what is only
model-checked, 9 what is not modelled.

## 1. The system

One thread of C, preempted by interrupts. `main` (USF.c:142) repeats
`pcint_check`, `rtctimer_check_alarm`, `datalink_tick`, `avr_sleep`. Interrupts
only touch the drivers' static variables; everything else is called from the
loop, but not in a simple order: callbacks run inside other calls.

    main loop -> rtctimer_check_alarm -> rtc_timer_cb (logic.c)
                   -> scheduler_start -> sensors' tasks, report and record store
                        -> pcint_check -> PIR callback, radio's ready callback
                   -> datalink_wake -> ready callback, at once if connected
              -> pcint_check -> the same callbacks
              -> datalink_tick -> bytes of the radio -> packet handlers (logic.c)
    ready callback -> record store to the radio -> datalink_tick for half a second
                   -> packet handlers -> datalink_sleep

So a packet of the host can be handled in the main loop, inside
`datalink_wake`, or in the middle of a list of the scheduler, while the code
around it holds values it read before. That nesting, rather than parallelism,
is where this code is hard.

### Inventory

| part | state | operations | depends on |
|---|---|---|---|
| UART driver (`drivers/uart.c`) | two rings with head and tail, last error, need-flush flag, for UART0 and UART1 | receive and transmit interrupt, `getc`, `putc`, `flush` | hardware registers; used by the radio, console |
| Pin changes (`drivers/pcint.c`) | callbacks, latch and change flags of each port | interrupt, register, unregister, check | used by radio, PIR, doors, accelerometer, software UART |
| RTC (`drivers/rtctimer.c`) | 32-bit time, alarm count-down and period, callback | overflow interrupt, read, write, set and check alarm | 1 Hz from Timer 2 |
| Scheduler (`utils/scheduler.c`) | two lists of at most `MAX_EVENTS` tasks in order of time, position, Timer 1 | add, remove, reset, start | sleeps (doze) until Timer 1 matches; calls `pcint_check` |
| Report ring (`protocol/report.c`) | ring of reports, insert, remove and current index | new, current, poplast | filled by tasks |
| Record store (`protocol/recordstore.c`) | memory block, write position, first-record pointers | insert (whole or delta), dump, clear | filled by tasks, dumped by the ready callback |
| WiFly link (`motes/wifly.c`, behind `protocol/datalink.c`) | trying-to-connect, wake status, MAC, times of wake and sleep, failures, line buffer with its escape, latch and position, MOTE pins | init, wake, sleep, tick, ready callback, sleep and wake hooks, send packet, collect and read lines | UART1, pin change of CONNECTED, RTC |
| Reporting logic (`protocol/logic.c`) | requested fields and intervals, times of last report and transmission, retries, invalid packets | alarm callback, ready callback, tasks, configure, timesync | all of the above |
| Packets (`protocol/sensor_packet.c`) | registered callbacks | construct, dispatch by type | called by the link |
| PIR sensor (`devices/amn41121.c`) | accumulators of time seen and not seen, latched moves, time somebody came | pin callback, two tasks, wake, sleep | pin changes, RTC |
| Light, humidity, accelerometer, gyroscope (`devices/`) | last reading, power, hysteresis or debouncing | start, read, write report | I2C |
| Door sensors (`devices/door_sensors.c`) | touches not reported, the switch as last told | pin callbacks, two tasks | pin changes |
| Software UART and K20 (`drivers/softserial.c`, `devices/k20.c`) | one buffer for both directions, counts of bits and bytes, Timer 0 | write, read, start of a byte, timer interrupt; ask for CO2 | pin changes, sleep; hardware versions 1 and 2 |
| RFID, power monitor, triacs | frames, tags seen, pins, registers | poll, tasks | other boards only |
| XBee link (`motes/xbee.c`) | frame buffer, association, outstanding AT command | the other `datalink.h` | not the configured board |
| Sleep (`drivers/power.c`) | - | idle, doze and power-save with hooks | RTC and pins wake it |

`PROJECT.json` lists every part of the repository with its status. Outside
`src/USF` the repository holds earlier firmwares of other boards, bench
sketches, an FPGA design, an Android application, and vendored SDKs.

### What is hard, and what makes each part correct

| part | hard | correct if |
|---|---|---|
| UART | the interrupt between any two accesses of `getc` or `putc`; a flush that waits a fixed time | bytes come out in order, none lost or changed once stored; `putc` and `flush` return; a flush leaves nothing on the wire |
| scheduler | the compare interrupt lost just before the doze; the lists reset inside the run | every task called once, in order, not early, at most an RTC period late; the run ends |
| record store | deltas that need their base; a block that fills while the link is down | what is dumped decodes to what was accepted; nothing is written outside |
| link | pins, clock and wakes in every order; waking, timing out and sleeping nested in each other | a session for each wake at most, none without one; every wake ends; the radio is on while it is waited for |
| lines | bytes lost; an escape that outlives its line; lines that join; answers of the radio among packets | a lost byte spoils its line and the next and no other; the radio is reset for three bad lines and not less; the node is not left deaf |
| logic by the clock | a clock that is set or wraps while `rtc_timer_cb` holds an older time; retries racing late answers | reports and transmissions neither skipped nor repeated; they go on forever |
| logic by the data | packets inside a running list; a ring that overflows with left-over reports | tasks fill in their own report; a report reaches the host once, in order; the lists hold what is configured |
| PIR | a 16-bit clock read in two parts; moves lost between look and clear; a time that also means nobody; configured, or its list stopped, while somebody is there | a share is at most one; coming and going alternate; the end of presence is told while the list runs |
| accelerometer, doors | callbacks, clearing of flags in two accesses, reports and a clock that is set, in every order | the position the device is in is told or on its way; a touch is reported |
| software UART | a byte's start that is only noticed when the program polls; one buffer for both directions; an answer later than the wait | a command goes out whole; a value read is one the sensor sent; the port gets free again |

The hazards behind this table, each at its line, are in `PROJECT.json` with
the properties that cover them or a note why none does.

## 2. The plan

Built so far, in this order (composition in brackets):

1. `BoundedFifo` (abstract), `Ring`, `UartRx`, `UartTx` [each extends Ring and implements BoundedFifo]
2. `RecordStore`
3. `Scheduler`
4. `DataLink` (abstract), `WiflyLink` [implements DataLink]
5. `ReportCycle` [logic by the clock over DataLink]
6. `ReportQueue`, `SensorNode` [report ring, scheduler, logic, store over DataLink]
7. `Presence` [PIR, pin changes, RTC, configure and timesync]
8. `WiflyLines` [framing of packets and lines, the radio's answers, invalid packets]
9. `Monitors` [accelerometer's orientation and door sensors, over pin changes]
10. `SoftSerial` [software UART and the K20 behind it]

Left:

1. `RecordLog`, the queue of records that `SensorNode` assumes, as the abstract
   specification that `RecordStore` implements; the theorem from `RoundTrip`.
2. The light sensor's power, which its tasks on the two lists share, with its
   threshold (`tsl2560.c`).
3. `Twi` (timeouts of `twimaster.c`), `PN532` frames and the list of tags, `CS5467`
   transfers, `crc8` against its polynomial: boards that are not configured, or
   single-threaded polling.
4. Proofs: `RecordStore` as the implementation of `RecordLog`.

The XBee link is not in the plan any more: `logic.c:77` calls `datalink_reset`,
which `datalink.c` defines for the WiFly alone, so that no board with an XBee
builds at this commit.

## 3. The modules and the code

Each definition's source lines are in `PROJECT.json` (`map`). Actions carry the
names of the functions they stand for. Variables have the C names where one
variable stands for one; `pc` or `stage` is the place in the code; a variable
marked *history* is read by no guard.

**Ring** - the ring buffer of `uart.c`, once for both directions: `NextSlot`, the
distance from tail to head, and what the ring holds (`Held`).

**UartRx** - `RxHead`, `RxTail`, `RxBuf`, `LastRxError` are the driver's; getc is
one step per access to a volatile variable (`GetcCheck` .. `GetcReturn`), the
receive interrupt one step. The byte values matter only as different, so `Byte`
is a set of two. The status of a byte that is stored is `FE`, `DOR`, both or none.

**UartTx** - the same for `putc`, the data-register-empty interrupt and `flush`,
with the UART's data register and shift register as the code relies on them.
Time is in bits, so that the fixed delay of `flush` can be compared with the
time a byte takes. An interrupt that is pending is served before the next
instruction, as on the chip with interrupts enabled.

**BoundedFifo** - what both promise: a queue and a hand. For receiving, the hand
is the byte `getc` has claimed (its slot is published as free before it is
read, uart.c:427-430); for sending, the data register.

**RecordStore** - the block as a sequence of items, each whole or a delta, with
the byte position the code writes at. `InsertFirst`, `InsertDelta`,
`InsertRefused` are the branches of `recordstore_insert`; `Clear` is
`recordstore_clear`. `Decode` is the receiver, which the repository only
implies. Bytes of an item count in `pos`: 1 + length, or 1 + bitmap + changes.

**Scheduler** - `event_lists`, `eventpos`, Timer 1 (`TCNT1`, `OCR1A`), and where
`scheduler_start` is: `run` (its inner loop), `doze`, `pcint`, `last` (the
closing loop). A callback is what it does to the scheduler: takes time. The
callbacks of `pcint_check` can also reset the lists (`PcintReconfigure`), as
`cmd_configure_sensor_cb` does. `Doze` lets a tick go by between the comparison
and the sleep, which is how a compare interrupt gets lost; the next RTC tick then
wakes the chip.

**WiflyLink** - the driver under the main loop, `avr_sleep`'s hooks,
`pcint_check` and the session of `send_over_datalink`; the pins change and the
RTC ticks at any point. The clock enters only as the seconds since the wake
and since the sleep, kept up to the constants they are compared with. A
timesync of the host moves both at once. `wifly_sleep` called twice by one
`wifly_tick` (the clock it holds is behind `try_sleep` then) is in
`TickTimeout`, which takes the time of both.

**DataLink** - idle, waiting, session, with `Wake`, `Ready`, `GiveUp`, `Finish`:
what `datalink.h` means to `logic.c`.

**ReportCycle** - `rtc_timer_cb` statement by statement over `DataLink`. `curtime`
is its local variable, and the clock, the intervals and the last times may be
changed by `Timesync` and `Configure` wherever the link listens: in the main
loop and in sessions, also those inside `datalink_wake` and the lists. Times are
unsigned and wrap; `Never` is `(uint32_t)-1`.

**ReportQueue** - the ring of `report.c`: `ReportNew` (which drops the oldest when
full), `ReportPopLast`, `SetFields` of the current report.

**SensorNode** - the data's way: the tasks of the two lists (`StartList`, `Fill`,
`LastEvents`), what cuts a run short (`CutShort`), the ready callback with
`Dump`, and configure and timesync. When something is due is left open, so every
behaviour of `ReportCycle`'s clock is allowed; the link is `DataLink`; the store
holds records whole. A list is the set of fields it was filled for. Configure
is two actions, for the two ways through `cmd_configure_sensor_cb`: with other
fields (the lists are reset and filled again, or stay empty if the scheduler
runs), or with the same (it returns after `using_monitor_list = 0`).

**Presence** - the pin with its latch and flag in `pcint.c`, the accumulators and
latched moves of `amn41121.c`, the clock in counts of Timer 2. `Reading` is the
two-part read of the time: at the end of a second it may be a second less, or
nearly one more. The 32-bit time that the monitor list compares is `since`, the
seconds since `int_interrupt_started`, with `Nobody` where that variable is 0;
`zero` says that the clock is 0, and `Torn` that its bytes may change while they
are read, so that `Started` is what the assignment of amn41121.c:103 can leave: a
time, or by either way a 0. `SomebodyMoved` and `NobodyThere` are the two halves of
`_pir_interrupt_write_report`, each with the test that decides whether it reports.
`scheduled` and `using_monitor_list` are the lists as far as the sensor needs them:
`Configure` has the three ways of `cmd_configure_sensor_cb` to treat the sensor, and
leaves the lists filled anew, or empty if one of them was running; `ConfigureKeeps`
is its return after `using_monitor_list = 0`. `presence`, `repeated` and `zeroed` are
the history of what was told.

**WiflyLines** - a line on the wire (`line`, `next`, `half`), sent byte by byte with
escapes, and the node's side: `mote_line_buffer`, `line_buffer_pos`,
`escape_next_char` under `_wifly_process_byte` (`Collect`, `EndLine`), the dispatch
with its count of invalid packets, and `_wifly_readline` as `wifly_init` and
`wifly_wake` use it (`reading`, `tmout`, `Answer`, `Pass`). Bytes are numbers, for
an escape flips one of their bits and a handler takes them from the buffer as
they are. `Lose` is any byte on its way. The host sends as the node does; the
radio's texts are one byte for the word that is looked for. `heard` is what a
handler was given; `harmed`, `stale` and `blame` say what may be bad.

**Monitors** - the pins' flags and latch in `pcint.c` as a set, `pcint_check` in its
steps (`CallTouch`, `CallRadio`, `CallAccel`, `ReadPosition` or `ReadFails`, `Load`, `Store`),
with the port each pin is on: the two touch sensors and the radio's CONNECTED pin
share port B (wifly.c:67), and so the byte that `Load` and `Store` read and write; the
session that the radio's callback may hold (`session`), and the packets in it; the
orientation latched with the seconds since (`int_start_latch` as far as it is
compared), the doors' latched touches, the monitor list's two reports, `Watch` and
`Unwatch` for what a configure packet does to the accelerometer.

**SoftSerial** - `port` is the state of `softserial.c`; `BitTime` is one bit's time: the
timer's interrupt and the line go on together (`BitTimeAsleep`: the line alone). `_softserial_rx_isr` is called by
`pcint_check`, not by an interrupt, so it is an action of the program. The
K20's sequence (`at`) is command, waiting poll by poll, reading byte by byte with
`available--` in two accesses, and leaving. The sensor answers a command at any
time, or after the wait is over. Answers that the wait gave up on stay on the
line. A byte is its bits, a function of their numbers; `Frame` puts it between its
start and stop bits, `Frames` a sequence of bytes in a row.

A proof module covers several of these, so that the definitions of `UartRx`,
`UartTx`, `SoftSerial` and `ReportCycle` have names of their own: `RxInit`, `TxNext`,
`SoftSpec`, `CycleTypeOK` and so on.

Definitions called `...Late`, `...Always` and the like, with a `mutant:` comment,
are plausible bugs: each is a mutation under which one property of the runs
fails (`mutants` in `PROJECT.json`). No specification uses them.

## 4. The runs

`tlc -config X.cfg M`; distinct states and time are of one laptop-class run.

| run | question | states |
|---|---|---|
| `uart_rx` | is the receive ring a FIFO whatever the interrupt does | 14 208 |
| `uart_tx` | is the transmit ring a FIFO; do `putc` and `flush` return, and is the wire quiet then | 10 584 |
| `record_store` | does the block decode to what was accepted, within its memory | 2 303 |
| `scheduler` | does a run call each task once, in order and in time, and end | 117 792 |
| `wifly_link` | one session a wake, every wake ended, the radio on when waited for | 349 152 |
| `report_cycle` | are reports and wakes never late and never ending, and when do retries stop | 1 338 295 |
| `sensor_node` | does every report reach the host once | 126 318 |
| `presence` | what the PIR's share and its reports of changes are worth | 1 340 245 |
| `wifly_lines` | what can a lost byte spoil, when is the radio reset, is the node left deaf | 571 274 |
| `monitors` | which touches and positions can be missed | 1 407 900 |
| `soft_serial` | which CO2 values can be trusted, and is the port always free again | 947 161 |
| `node_fields` | do the lists hold the configuration told to the host (violated) | - |

A type invariant that a proof module establishes is not always checked by the run
as well; the runs of `uart_tx`, `report_cycle`, `wifly_lines`, `monitors` and
`soft_serial` check it.

Bounds, and why they are enough:

- `uart_rx`: ring of 4 slots (128 in the code), two byte values. Head and tail
  take every relative position, the ring goes round, fills and overflows; nothing
  in the code compares more than equality of indices. For every size: proved.
- `uart_tx`: ring of 3 slots, a frame of 10 bits and a flush delay of 11, which
  are UART0's real ratio (87 µs against 100 µs). UART1's is 6 bits.
- `record_store`: the real lengths of the default records (9 and 36 bytes), one of
  128 that is refused, and a block of 71 bytes, so that six records run into its
  end in different ways. What `Full` tests depends only on the room left.
- `scheduler`: one list of three places, times 0, 1 ms and last. The lists share
  only `list` and `eventpos`, which a start sets. The RTC's period of 4 ticks is
  shorter than a task's time (7 ticks), so it wakes the chip before, at and after
  it; Timer 1 of 32 ticks is well beyond the last task, as in the code.
- `wifly_link`: timeouts of 2 and 1 instead of 5 and 3 seconds keep the order of
  all comparisons. Both an interval longer than a wait (as configured) and one
  shorter (as the host may configure) are checked; the properties that need the
  former say so (`WakesApart`).
- `report_cycle`: a clock modulo 8, intervals of 1 to 3, times set to 0 or 5
  (backwards, forwards, across the wrap), two packets anywhere. Each packet can
  meet any statement of `rtc_timer_cb`, and two suffice for one to undo what the
  other did.
- `sensor_node`: a ring of two reports, so that two runs cut short overflow it;
  a store of two records; four reports; three packets, in any place.
- `presence`: a second of two counts and a wrap of four: a misread time is half a
  turn off, and three counts can pass before accumulators may wrap. A release
  one second after the last move, one timesync, which may set the time to 0. Packets
  come any number of times, with any of the fields, with none changed, and inside
  a running list.
- `wifly_lines`: lines of at most three bytes, two taken by a handler, in a buffer
  of eleven, which is the least that `FitAssumption` allows; packets with either
  byte to escape, one for no node, and the two answers looked for. Four lines and
  two lost bytes: three refused lines reset the radio and the fourth shows the
  count after it; two losses can join three lines, or spoil a line twice. The
  count of invalid packets wraps at four instead of 256.
- `monitors`: two positions, the fewest between which the device can be turned;
  a settling time of one second, so that a report comes before, at and after it;
  both touch sensors and the radio's pin, all there is on their port.
- `soft_serial`: bytes of one bit, a command of two bytes and answers of four, a
  buffer of five; two commands and one stray byte. A late answer and the next one
  make eight bytes, which run round the buffer's end and fill it. With one data
  bit a byte still has a start bit, a last bit and a stop bit, which are all the
  code tells apart. The run evaluates `HeaderUnmistakable`, below, for its header.

Deadlock is checked in every run but `wifly_lines`, where the host and the radio
may fall silent: the other programs may never stop.

## 5. Fairness

Only what the hardware and the main loop give:

- the program takes its next step (weak fairness of its steps): one thread,
  interrupts are short;
- interrupts that stay pending are served, and the UART shifts its bits;
- the RTC or Timer 1 ticks however often something else wakes the chip (strong
  fairness of the tick: each wake disables and enables it again, and takes time);
- in `wifly_lines`, `_wifly_readline` goes on waiting and returns the line it has
  (weak fairness of `Pass` and `Answer`); bytes may fail to come;
- in `soft_serial`, bits follow each other (weak fairness of `BitTime`); the
  program need not poll, nor the sensor answer;
- loops that count time end (the half second of a session, the reading of the
  MAC, the run of a list, which `Scheduler` proves to terminate in TLC);
- in `sensor_node` only: when the link is woken again and again it connects at
  some time. Without it nothing could be said of reports leaving the node;
  `ReportCycle` shows that wakes are repeated forever.

Nothing is assumed of the host or of the pins, except where a property names
it: `KeepsReporting` is stated for finitely many packets (a host that sends a
timesync more often than the interval does stop the sampling, logic.c:345), and
`AbsenceTold` for a room that stays empty and a monitor list that stays in use with
the sensor's task on it (`Monitored`). The fairness of `SomebodyMoved` and
`NobodyThere` is that of rtc_timer_cb, which starts the monitor list every second
while `using_monitor_list` is set: their guards have `Monitored`, so nothing is
assumed of a list that a packet has stopped (logic.c:101) or emptied
(scheduler.c:61).

## 6. What does not hold

`node_fields` is a run that TLC ends with a counterexample, and a finding in
`PROJECT.json` that quotes the line it disagrees with: a configure packet that is
handled while a list runs resets the lists and can add no tasks; the node tells
the host the new fields and reports no more, and ignores the same packet when
sent again.

Seen while modelling, without a run of their own:

- `num_retries_remaining` wraps: a retry answered inside `datalink_wake` zeroes it,
  and logic.c:257 then decrements it to 255. `RetriesStop` says that this is the
  only way to more than `ERROR_NUM_RETRIES` retries;
- the overflow test of the record store (recordstore.c:58) counts the record and
  a length byte, but a delta also has a bitmap: the 81-byte report of the power
  strip build, if it differs wherever it can, takes seven bytes more than was
  tested for. Not so the default reports, which are shorter and share four bytes
  (`DeltasFit`, assumed by the theorem `NoOverrun` and evaluated by the
  `record_store` run);
- a configure packet with the same fields, or intervals only, stops the reports
  of changes (logic.c:101-103), and a going that was not told by then is never
  told: `AbsenceTold` is about a list that goes on;
- `int_interrupt_started` is 0 for nobody, and a time otherwise. Somebody who comes
  at time 0 is told again at the next move, and his going is not told
  (amn41121.c:99, 106). The host can set the clock to 0, and the time reads as 0
  when the interrupt changes its bytes in the middle of the read, at 255 s:
  `ReportsAlternate` and `AbsenceTold` say that there is no other way;
- a touch, or its end, that falls between the two accesses of pcint.c:62 while the
  flag of another pin of port B is cleared is lost, the radio's CONNECTED pin
  included: `TouchesKept` says that no other is;
- a 0x7D whose byte is lost flips a byte of the next line, since
  `escape_next_char` outlives its line (wifly.c:311-321), and what a lost byte
  leaves missing of a packet is taken from an earlier line, since
  `packet_recieved` does not look at the length; `OthersArrive` says that no third
  line suffers;
- `mote_line_buffer` has no bound of its own (wifly.c:329): `TypeOK` of `WiflyLines`
  and the theorem `Typing` say how many lines it has to hold;
- a packet that comes while the radio's answer is waited for is taken for one
  (wifly.c:308), and the count of invalid packets is not cleared by the reset it
  causes (logic.c:75), so that each further one resets the radio again;
- `K20_TIMEOUT`, 100000, is compared with a `uint16_t`: the wait is 34464 polls;
  and k20.c:47 makes one value of two `softserial_read()`s whose order C leaves
  open. `available` is counted in two accesses (softserial.c:128): `CountRight` says
  when it is wrong;
- UART1's `flush` returns up to 74 µs before its last byte is on the wire, after
  which the chip may sleep (uart.c:466 at the 57600 baud of wifly.c:71);
- an overflow that happens while `getc` reads the error register is cleared
  unreported (uart.c:432-433), and the errors `getc` returns belong to whatever
  bytes came since the last call rather than to the byte it returns;
- fields with `OCCUPANCY_CHANGED` but not `OCCUPANCY` never wake a PIR that is
  asleep (logic.c:119);
- `pcint_register` does not latch the port, and `pcint_check` clears a flag that
  was set after the callback looked: `NoOtherMoveMissed` says that these are the
  only two ways to miss a move;
- times are read while their bytes may change (rtctimer.c:78, amn41121.c:31): a
  PIR share can then be wrong; `ShareAtMostOne` says when it is not;
- the K20's port is initialized in the middle of its own wait, when `pcint_check`
  (k20.c:59) first calls the radio's callback and a packet configures the sensors:
  the answer is lost, the port is not (`LineFree`);
- a `wifly_wake` during the wait of an earlier one may leave the radio off while
  the driver waits for it (wifly.c:119), with intervals below the timeout only.

## 7. The proofs

`tlapm M.tla` in this directory; every theorem is of the specification, for all
values of the constants that satisfy the named `ASSUME`s of the module.

**Serial_proofs**, receiving (`RxTyping`, `RxRingIsAFifo`, `DropsAreReal`). From
`Size >= 2` and `NoByte` not a byte. The invariant is `RxTypeOK` and what `getc`'s
place says of the ring: it is not empty before the tail is advanced, and the local
`data` holds a byte exactly between the read and the return. That the slot `getc`
has claimed is not stored to follows from the arithmetic: the interrupt stores
`d + 1` slots behind `RxTail` for a `d` below `Size - 1`. Each step maps to a step of
`BoundedFifo`: the interrupt's store to `Put`, `GetcAdvance` to `Take`, the return to
`Finish`, the rest to stutters. `DropsAreReal` is `NoSpuriousOverflow`, inductive by
itself.

Sending (`TxTyping`, `TxRingIsAFifo`, `FlushLeavesNothing`). `putc` writes the slot and
publishes it in two steps; `TxInv` says that until it does the slot is still free,
wherever the interrupt has moved the tail, and holds the byte. `PutcPublish` is then
`Put`, the interrupt `Take`, and `LoadShifter` `Finish`. Both sides share the lemmas on
the ring (`HeldShape`, `RingWrite` and the arithmetic under them). `DrainInv` is why
`flush` works: `UART_NeedFlush` is set while the data register is full, and the
interrupt stays enabled while the ring holds a byte, so that with the flag clear
only the byte being shifted is left. The delay outlasts it only if
`FlushBits >= FrameBits`, the theorem's one hypothesis: UART0 has it, UART1 does not
(section 6).

The software port (`SoftTyping`, `CommandGoesOutWhole`, `CountFollowsBuffer`,
`ValuesAreMeasured`). For any
number of bits, buffer, command and answers. `PortInv` says that the timer runs
exactly while the port sends or receives and never for both, and that `bufend` leaves
the buffer only for a command that fills it; `ReaderInv` that as many bytes are
available as the reader has still to read, which keeps `available--` above zero.
`CommandWhole` speaks of the end: `SendInv` says it of every moment, by the quotient
and remainder of the bits gone out. `CountInv` adds to `CountRight` what the two
halves of `available--` hold between them.
`ValueTrue` is about a whole answer. `Known` says of every byte read of an attempt,
waiting in the buffer or still on the line which byte of which answer, or which stray
byte, it is (`Chain`), and of the receiver that it is as many bits into its byte as the
line is (`InStep`, `LineOf`); the lemmas on the line are one bit's time. A count that
lost a byte is too small and never too large (`Queued`), so that the program does not
read an empty buffer while the buffer was never full. A byte that was coming in when
the command began has passed before the command is out, or the next one is missed
(`LineFreed`): nothing of it reaches the reader. Assumed (`HeaderUnmistakable`):
answers and stray bytes in a row do not hold the header anywhere but at an answer's
head, for `_k20_reporting_checkread` looks at nothing else, neither length nor CRC
(k20.c:45-47). Of the K20's answers, with their CRC as the Modbus protocol has it,
none of all 65536 holds a second header, nor do two in a row; but one byte of 44 hex
and one of 02 after an answer that ends in FE, or stray bytes alone, would make one.

**RecordStore_proofs** (`DumpRoundTrips`, `OnePointerPerLength`, `NoOverrun`). The
inductive invariant relates each item to the record accepted with it
(`Encoded`): a whole item is the record, a delta differs from it nowhere outside
its stored bytes given the whole item of its length, which is in the block
(`HasBase`), is found by a pointer (`PointersFind`) and is the only one
(`LengthsDiffer`). `RoundTrip` alone is not inductive: it does not say where a
delta's base is. `NoOverrun` assumes `DeltasFit`, without which it is false.

**Scheduler_proofs** (`Typing`, `CallsInTime`, `CallsAll`, `LateByOnePeriod`,
`SortIsStable`). The
invariant adds to `TypeOK` that lists are sorted, that what ran is the list's
prefix up to `eventpos` unless a reset came, that only last-events tasks are left
in the closing loop, and that a list is empty after a reset until the run ends.
Insertion keeps a list sorted by the place where the shifting loop stops
(`InsertSorts`), removal because it keeps the order (`RemoveSorts`).
`LateByOnePeriod` needs a second invariant, `DozeLag`: what the timer is past the
task's time is no more than the RTC is into its period. `SortIsStable` carries along
where each added task stands in its list (`Placed`: an order-preserving map onto
the places); an insertion shifts it, a removal restricts it (`InsertPlaces`,
`RemovePlaces`), and that place is the number of tasks that a stable sort puts
before it (`PlaceIsRank`), by counting along a bijection.

**WiflyLink_proofs** (`Typing`, `ImplementsDataLink`, `AsksForWhatItWaits`). `TypeOK` is
inductive; the
refinement is by case analysis of the steps under it, with `linkState`
(`trying_to_connect` and the place in `wifly_wake` or the session) as the mapping.
`AsksWhileTrying` speaks of one moment and is not inductive: that no wait is left
when `wifly_wake` is called needs the age of the wait. `Waits` bounds the time since
the last wake by that age, and by the timeout wherever `wifly_tick` has looked since
the clock last moved (`Ticked`); with `WakesApart` the next wake is later than both.
`Asks` says what the outputs are while `wifly_wake` and a session run.

**SensorNode_proofs** (`Typing`, `TasksFindTheirReport`, `ReportsExactlyOnce`,
`LeftOversAreFew`). The
invariant says that while a list runs the current report exists and has the
time of the run, which no packet and no nested session can change, since they
never touch the ring; that times in the ring, the store and at the host are at
most the number of reports taken. Exactly-once is not inductive without one
more conjunct (`OnceInv`): the report of a run is not yet reported while it runs,
so that the insertion at its end appends a greater time than any before.
`LeftOversAreFew` adds that a run accounts for one report of its own, until a packet
has emptied its list, and then that packet does (`LeftInv`); `CountIs` and `NextIs`
are the arithmetic of the ring's indices.

**Presence_proofs** (`Typing`, `ShareIsAShare`, `MovesAreSeen`, `Alternation`). `ShareAtMostOne`
says where `pir_latch` stands (as far back as the accumulators lack of the span),
which makes it inductive: the next difference is taken from there. The lemmas
`Ago` and `CountOn` are the modular arithmetic. `NoOtherMoveMissed` needs
`Latched`: while the sensor is awake and nothing was missed, the latch agrees with
the pin. `Alternation` needs `Told`: the host was last told that somebody is there
exactly while `int_interrupt_started` is not 0, but after a coming whose time was 0.
That the next report differs from the last then follows from the tests of
amn41121.c:99 and 106.

TLC evaluates the assumptions in the runs of the modules that extend these, and
the invariants were checked by TLC before they were proved.

**WiflyLines_proofs** (`Typing`, `OtherLinesArrive`, `ResetsAreEarned`). The buffer's
bound is not inductive, nor is the count of invalid packets. `Room` counts: only
what is lost lets the line in the buffer grow beyond the line sent, `MaxLen` for a
newline that is lost, and a 0x7D counts as a byte until its byte has come.
`InStep` says how a line brings the receiver in step again: one no byte of which
is lost leaves `escape_next_char` clear, and one that begins in step is copied.
`Account` books a line that may be refused (`Doubted`) and the one that a loss may
spoil next. `Moves` splits what the sender does in four ways (the newline, a 0x7D,
the byte after it, a plain byte), `Collects` what the receiver does in two, and
each conjunct goes through their combinations. Assumed: packets long enough for
a handler's bytes, texts without a newline, 0x7D or a first byte 0, and a buffer
longer than `MaxLost + 1` lines (`FitAssumption`).

**Reporting_proofs**, the monitor list (`Typing`, `TouchesAreKept`,
`PositionIsKnown`). `Returned` says what the flags read by `pcint_check` lack when they
are written back, of each pin that shares the port of the one being cleared, `Latched` that the port's latch agrees with the pin unless a move
was missed, and `Acted` what the callback has latched when its flag is about to be
cleared. None of the three properties is inductive without them.

The cycle (`CycleTyping`, `LateAnswersEndRetries`, `ReportsComeWhenDue`).
`RetriesStop` speaks of the step that retries. `RetryInv` is what makes it so: an
answer after `datalink_wake` leaves no retries once its session is over, and the
counter is beyond `ERROR_NUM_RETRIES` only if a retry was answered before it returned.
`ReportsWhenDue` compares the seconds gone by with the clock's difference, which the
host may set and which wraps. Three things are carried along: how far `curtime` may be
behind the clock at each place of `rtc_timer_cb` (`TimeInv`: sessions and lists take
time); that the history is no longer than the clock's difference (`Kept`); and that the
difference cannot wrap before the next alarm looks at it, because the time left until
then (`Left`, a bound for each place) and the difference are together below the
interval and a round, or the history starts anew (`Soon`). `KeepUp` and `SoonUp` are
their modular arithmetic, and `PlainPasses` says once for all steps of time that what
they take is taken from what was left. Assumed (`Fits`): every interval is five below
the width of the clock (16 bits in 32), `ERROR_RETRY_INTERVAL` is not zero, and `Round`,
the allowance for a clock set during a list, covers the longest round of the model, of
five seconds. The run's constants satisfy all three.

## 8. What is only model-checked

- Every liveness property (`CallsReturn`, `Terminates`, `EveryWakeEnds`,
  `KeepsReporting`, `Leaves`, `AbsenceTold`, `HearsAgain`, `LineFree`): fairness and
  `ENABLED` are beyond the prover.
- What the two ends of a link do together beyond the theorems above: the runs of
  `wifly_lines` and `sensor_node` check it on their bounds.

## 9. What is not modelled

- What the handlers read from their bytes, the digits of the MAC address, and
  `wifly_init`'s wait for the radio to start: `WiflyLines` stops at the call of the
  handler, `SensorNode` and `ReportCycle` begin there.
- Bytes that arrive changed: the UART has no parity, and nothing in a line shows
  it; a changed byte can make any packet of any other.
- Readings and their conversion (floats), and text output: no property of control
  depends on them.
- The record store's `recordstore_start_new_block` and
  `recordstore_flush_sent_block`, `report_last`: no caller.
- The XBee link (it cannot be built, section 2); the sensors other than the PIR,
  the accelerometer, the doors and the K20 on its serial port; the I2C master;
  the accelerometer's clicks, which nothing registers, and its periodic reading;
  the K20 of hardware 3 on I2C.
- In `SoftSerial`, that the 8-bit `available` wraps (the buffer is smaller), and the
  passes of the K20's wait, which may end at any of them.
- The watchdog (disabled in the main loop, USF.c:144-148) and loss of power: nothing
  is kept in non-volatile memory, so a reset is `Init`.
- The programs outside `src/USF`: earlier versions, bench tools, vendored code.
