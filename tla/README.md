# TLA+ verification of the A1707 LED lamp gateway

The repository holds two programs for one STM32F103 micro-controller: a boot
loader (`src/IAP project`, "the loader") and an application on RT-Thread
(`src/APP project`, "the application"). A host updates the firmware over CAN or
UART, sets parameters and identifiers, and controls the lamps. There are no
tests. Paths below are relative to `src/`; the sources are GB18030 text.

This directory models the parts of both programs that keep state of their own:
the firmware update, where an error costs most; the way of a command from the
wire to the program that obeys it (CAN ring, byte ring, frame search, timeouts);
the identifiers that say which device obeys; and the lamps. Section 5 says what
is left out, and why.

## 1. The system

### 1.1 Components

| Component | Source | State | Operations | Correct when |
|---|---|---|---|---|
| Boot loader | `IAP project/Projects/Src/main.c`, `iap_if.c` | mode flag page; retry count, source pointer | read mode, verify, copy or unpack, give up, jump | an incomplete image never runs; a verified update is installed in the end |
| Flash access | `flash_if.c` of both programs | header page, download area, run area | erase pages, write double words, store header | the header describes the download |
| Download over CAN / UART | `canbus_middle.c`, `ota_protocol.c`; `general_app/can_ota_protocol.c`, `uart_ota_protocol.c` | OTA_SubSize and friends | start, update, end, restart | commands in any order do no harm |
| CAN driver ring | `drv_can.c` of both programs | 20 messages, two indices | interrupt adds, loop reads and clears | order kept; loss only when full |
| Byte ring | `usdl_buf.c` of both programs | array, Head, Tail | add, read, delete, clear | a bounded queue that drops its oldest byte |
| UART driver | `stm32_uart.c` | a byte ring | interrupt adds, loop reads, deletes, clears | as above |
| Frame search | `canbus_middle.c`, `ota_protocol.c`, `general_app/can_ota_protocol.c` | none that outlives a call | accept, reject, wait | a good frame is found behind any rubbish; no fragment is obeyed |
| Protocol framework | `general_app/protocol_anylise_frame.c` | up to three analysers, a wait tick | add, delete, process, time out | what waits is judged or times out |
| Parameters | `param.c`, `iap_if.c` | one flash page each | save, default, load | what is saved survives a restart |
| Identifiers, search, heartbeat | `manage_id.c`, `can_search_protocol.c`, `can_heartbeat_protocol.c` | device identifier | set, search, send | a device answers for its identifier only |
| Lamp control | `bsp/BMLG_LW/app/gpio.c`, `canbus_middle.c` | lamp modes, USART1 frame automaton, UART1_RxFlag | interrupt completes a frame, LED thread obeys it | no command is lost or torn |
| Sensors, RTC, LEDs, switch, watchdog | `drivers/` | registers | read, write | (I/O, not modelled) |
| Common library | `common_lib/` | none that outlives a call | lists, conversion, calendar | (not modelled) |
| Vendored | RT-Thread, lwIP, mbedtls, MQTT, HAL, CMSIS, zlib | | | (not modelled) |

### 1.2 How they interact

The loader and the application never run together. They talk through the flash:
the mode flag (last page), the header page ("app info", fourth from the end)
and the download area ("app copy", 52 pages) are written by either of them
while it serves a download, and read by the loader after the next reset; the
run area ("app run") is written by the loader only. In the loader one loop
(`OTA_Periodic_Handle`, `CAN_OTA_Periodic_Handle`) does everything, with
interrupts that fill the rings. In the application threads do: the CAN thread
moves messages from the driver ring to a byte ring, the analyser thread reads
that ring and runs the commands, the LED thread reads the USART1 buffer that an
interrupt fills.

### 1.3 What is hard

* **Power loss** between and within flash operations; erased flash reads as
  "run the application", so every flag change passes through that value.
* **Flash faults**: the results of erase and write are ignored nearly
  everywhere.
* **Commands out of order**, repeated or missing; RAM state (OTA_SubSize) lost
  by a reset in the middle of a download.
* **Interrupts** against the loop, **threads** against each other over rings
  without locks.
* **Resynchronisation and timeouts** of the frame parser.

* **What the host knows**: commands and answers get lost, identifiers are
  overridden at a start and forgotten by a save that is cut short.

The full list, each item at its line, is under `hazards` in `PROJECT.json`,
with the properties that cover it or the reason why none does.

## 2. The modules

### 2.1 `IapBoot`: the boot loader and the download

One module, since the loader's steps and the download commands share all their
state. The flash is `flag`, `hdr`, `copy`, `run`; RAM is `count` (`Count`),
`src` (`pSrcData`), `k` (the page the copy loop is at) and `sub`
(`OTA_SubSize`); `pc` is where control is.

| `pc` | Code | Actions |
|---|---|---|
| `reset` | `main.c` 96-121, `iap_if.c` 155-158 | `ReadIAPMode` |
| `runapp` | label RunAPP, 101-119 | `JumpToApp` |
| `verify`, `fallback` | 121-157 | `Verify`, `Fallback` |
| `erase`, `write`, `check`, `finish` | retry loops, 160-258 | `EraseRun`, `GiveUp`, `WritePage`, `CheckRun`, `Finish` |
| `force1`, `force2` | `ForceUpdateAppMode`, `iap_if.c` 122-145 | `ForceErase`, `ForceProgram` |
| `iap`, `app` | the loader's loop, the application | `OtaStart`, `OtaUpdate`, `OtaEnd`, `Restart` |
| `end1`, `end2` | `UpdateAppMode`, `iap_if.c` 88-111, then the reset | `UpdateErase`, `UpdateProgram` |

A download command is one action: one thread runs it from its frame to its
acknowledgement, and only a loss of power can come in between. That is
`PowerLoss`: `LostBetween` at every point, `LostInFlag`, `LostInRun`,
`LostInStart` and `LostInUpdate` within the flash operation under way, each
with the partial results that operation can leave.

What is abstracted, and what that assumes:

* An image is a model value, and a page of it a pair; a CRC matches exactly
  when all pages are those of the image (no CRC collisions).
* A data frame carries one page, and frame numbers stay within the image.
* A page whose erase or write was cut short is `Garbage`: it equals no page of
  an image, and its first word may or may not look like a stack pointer.
* A header is its image, its author and how many of its three double words are
  there. The second word completes size and CRC of the download; the third
  holds what only a compressed image needs.
* A header of the application is never accepted: the loader reads it through a
  structure without the `Version` field, so the size it sees is wrong.
* A compressed image unpacks to at most the run area.
* At most one fault per flash operation. Programming a cell that is not erased
  fails, as on this family (the exception for the value 0 is left out).
* Only power losses are environment steps at boot: in the loader's update loop
  no interrupt is enabled yet.

### 2.2 `AtomicInstall`: what it promises

Seen from outside, one image is installed; it is replaced in one atomic step, a
device that has an image never loses it, and a boot starts the installed one.
`IapBoot` defines the mapping: `Installed` is the image of the header once the
update is committed (flag set over a verified download, and control back at the
boot), else the complete image in the run area; `Running` is the image the
application executes.

### 2.3 `MCIapBoot`: instances

`MCIapBoot` gives lengths to four images: `a` and `b` of two pages, `c` of one
page compressed from two, and `big`, which is longer than the download area.
Two pages are enough for a first page that is right and a second that is not,
and for writes out of order. Faults are bounded by `MaxFaults` in the guard of
`Faulty`; nothing else is unbounded, and power losses and commands are not
bounded at all.

### 2.4 `CanRing` and `LossyQueue`: the receive ring of the CAN driver

`drv_can.c` is the same ring in both programs. The receive interrupt writes a
slot, advances `CanRx_Write` and, if that meets `CanRx_Read`, advances
`CanRx_Read` to drop the oldest message; `stm32_CAN_recv` tests, increments and
reduces the same `CanRx_Read`, with a `memcpy` in between and nothing masked.
`CanRing` therefore gives the caller one action per access:

| `pc` after | Code | Action |
|---|---|---|
| `reload` or `store` | the test, 215; the compiler may keep the index in a register or not | `Test`, `Reload` |
| `copy1` | the `++` of 220 | `Increment` |
| `copy2`, `load` | the two halves of the `memcpy` | `CopyHalf` |
| `wrap`, `idle` | load and store of the `%=`, 221 | `LoadRead`, `WrapRead` |
| `clear`, `idle` | `stm32_CAN_clear`, 243 | `LoadWrite`, `StoreRead` |

`Interrupt` is one action (the caller cannot run inside it) and may come before
any of them. `burst` counts the interrupts within a call, and `MaxBurst` bounds
them: 1 in the loader, where a call takes some microseconds and a message on the
bus at least a hundred; more in the application, whose CAN thread other threads
preempt. Messages are numbers, so "in order" is `<`; the hardware FIFO in front
of the ring and the filter by identifier behind it are left out, and a failing
`HAL_CAN_GetRxMessage` too (its interrupt is only raised when a message pends).

`LossyQueue` is what the ring promises: a queue of `Size - 1` messages that
hands out each once, in order, and loses the oldest only to make room, or all
that waits when it is cleared (`Discard`). As the loop may call
`stm32_CAN_clear` in any state, the refinement alone does not say that messages
are lost only when it does; `EveryMessageIsTaken` (section 4) says it. The
mapping takes a message out of the queue when the caller commits itself to a
slot (`Claimed`), at the load of the index, not at its store.

### 2.5 `FrameLink`: from bytes to a command

| Definitions | Code |
|---|---|
| `Added`, `Adding`, `Add`, `Length` | `AddByteToBuf`, `AddDataToBuf`, `GetLenFromBuf`, `usdl_buf.c` 40-89 |
| `Receive` | the head of `CAN_OTA_Periodic_Handle`, `canbus_middle.c` 874-921 |
| `Measure`, `CopyByte`, `Copied` | `ReadDataFromBuf`, which works on the shared `Head` and puts it back, `usdl_buf.c` 146-174 |
| `Search`, `SkipLength`, `Incomplete`, `SkipFrame`, `Accept` | the `while` of `can500_protocol_anylise`, 560-622, and its end, one round each |
| `Delete`, `Wait`, `Expire` | the rest of the loops, `canbus_middle.c` 931-945, `ota_protocol.c` 419-433 |
| `Wait`, `Clear` | load and store of `stm32_uart_clear`, `stm32_uart.c` 405 |
| `Interrupt`, `Message` | `stm32_uart_isr`; the CAN receive callback |
| `Get_Sum8` | the sum of bytes modulo `Bytes`, `usdl_calc.c` 273-284; the host's frame has the same |
| `Ask`, `Repeat` | a host that repeats its command until it is answered |

`kind` is the link of a behaviour. On the UART the interrupt adds a byte between
any two steps of the loop, byte by byte within `ReadDataFromBuf` too; on CAN the
loop adds the bytes itself, from the driver's ring (`line`, as `CanRing` and
`LossyQueue` have it), and a timeout clears that ring instead of the byte ring.
The application's search is the same code; its framework, with the one analyser
each device registers, is the loop of the UART.

What is scaled, and what that assumes:

* A frame is a head, one byte of length, a command, a sum and a tail; the
  identifiers and the command code of the real header are part of the command.
  Ring, array and limits keep the order of the code's (a shortest frame of 8
  bytes, a longest of 1280 or 1460, a ring of 1024, an array of 2048): the ring
  is smaller than the longest legal frame, and holds what a lost byte leaves
  together with the host's next try. That last proportion matters: with a ring
  of 8 bytes, smaller than these two together, a wrong length blocks the ring,
  overflow and stale deletion take turns, and the host is never answered.
* Bytes behind those received read as 0, though the arrays are static and keep
  what an earlier pass left. That is sound as long as the search does not look
  at them (`ScanInBounds`), and it does not unless what was read ends in a run of
  `MinLen` heads (section 4 proves it). With such a run `len - i`
  does wrap, and the search goes on in the old bytes. In the code, where a
  length has two bytes, the run is eight bytes 0xFE, or seven and one more byte;
  the commands of the instance make none, a firmware image might, behind a head
  that got lost.
* The sum is a real sum, so a false frame is refused by what refuses it in the
  code; the commands are chosen so that a length can be false and a sum can look
  like a head.
* `stm32_uart_clear` loads `Head` and stores it as `Tail`. A byte that comes in
  between is cleared with the rest, unless the ring is full: then the interrupt
  moves `Head` on, and the stored `Tail` lies just behind it, so that the ring
  stays full of what was to be cleared. That takes two faults, a lost byte that
  lets the ring fill up and a timeout on a frame under way, one more than `Link`
  has. With two faults, on the UART and with the command 13 only, all properties
  of `Link` hold too (2626762 states); the run leaves this out for its time.
* `Head == Size` between the `++` and the `%=` of one statement is not modelled.
* `MaxFaults` bounds lost bytes, messages and answers, and the timeouts that
  strike while a frame is under way. A timeout is acted on before the host sends more.
* `Fits` is not assumed by the model but by some theorems, and holds in the
  instance (`MCFits`): the host's frames have a legal length, two of them fit
  the ring of bytes (1023 in the code), and on CAN one fits the driver's ring (19
  messages of 8 bytes). It is what a host must keep to if no byte is to be lost
  in the loader however slow its loop is. Longer frames are legal, and get
  through when the loop keeps up; nothing is proved of them beyond section 4's
  first table for `FrameLink`.

### 2.6 `Identity`: who answers to which identifier

`page` is the parameter page both programs keep: how many of its three parts are
programmed (flag and half of the chip number; the rest of it; the identifier),
whether the chip number is whole, and the identifier, which is `Blank` (0xFFFF)
while it is erased. `ram` is `iap_param`.

| `pc` | Code | Actions |
|---|---|---|
| `off`, `load` | reset; `iap_param_load`, `iap_if.c` 257-279, then `device_id_set` in the application | `PowerOn`, `Load` |
| `erase`, `program` | `iap_param_save`, 189-223 | `Erase`, `Program`, `Saved` |
| `run` | the command switch, `canbus_middle.c` 632-791; the UART's write and save, `ota_protocol.c` 374-379 | `Handle` (`DoSet`, `DoWrite`, `DoSave`, `DoRestart`, `DoDefault`), `UartWrite`, `UartSave` |

`then` says what comes after a save: the load that needed it, an
acknowledgement, or nothing. `PowerLoss` may strike anywhere; an erase cut short
leaves the old page or one without its flag, a program what is there so far.

The host sends one command at a time to all devices; each obeys, ignores or
misses it. It keeps in `may` what each device may hold besides its board's,
learns only from the acknowledgement of a save (an answer may get lost), and
gives an identifier to a device only if no other may hold it (`FreeFor`). That
restraint, and boards whose compiled identifiers differ (`IdAssumption`), are
the environment's part: two boards of a kind have one identifier in fact, and
then nothing can tell them apart. The technician who writes an identifier over
the UART does so with the same restraint and while no command is under way; the
UART's save gets no answer, so the host only notes that the device may come out
of it blank. The UART's restart (380-383) is a `PowerLoss` of a running device.

Board identifiers are constants because `device_id_set` reads a working mode
that is 0 at every start: `stm32_param_load` looks for its flag where the save
puts the IP address (`param.c` 222, 65), and so restores the defaults each time.

Not modelled: flash faults in this page, the remote identifier (it labels
answers; the loader takes one of its bytes from the wrong place, 630), and
commands that only read.

### 2.7 `LampFrame` and `Lamp`: the lamps

`LampFrame` is a host on USART1, a line that loses bytes, and the receive
interrupt with its five states. `Lamp` adds the LED thread, in steps from one
`rt_thread_delay` to the next, with the three steps in which it takes a command
apart: `Test` (969), `Take` (971), `Clear` (972). The interrupt comes between
any of them. `lit` is the set of lamps that are on, of each colour.

`ShowAll`, `Blink`, `FirstRound`, `NextRound`, `EndRounds` and `Unfill` are the
twinkle modes, by their style (`Style`) and colours (`Paint`). 19 lamps of a
colour are `2 * Half + 1`; `num - 1` for the lamp 0 is 255 in the code, no lamp,
and the lengths of delays are left out.

`quiet` is a ghost: the last whole frame did not come while the thread took the
one before, and no later frame has written into the buffer it waits in. Where it
is false the code loses a command (the flag is cleared after the buffer was
read), or obeys one of a frame that never completes: the buffer is written before
the checksum is seen. `LatestObeyed` says there is no other case.

A frame loses at most one byte, and its length only if the command taken for it
fits the buffer: the code does not test the length (175), and a length of 0
never ends.

## 3. The runs

| Run | Instance | Checks | Result |
|---|---|---|---|
| `BootPlain` | a, b, big; 2 faults | `TInv`, `SInv`, `JumpSafe`, `PartialGuarded`, `CommittedUntilInstalled`, `ImplementsAtomicInstall`, `CommittedIsInstalled` | hold, 126520 states |
| `BootPacked` | a, c (compressed), big; 0 faults | `SInv`, `JumpSafe`, `PartialGuarded`, `BootEnds` | hold, 18470 states |
| `BootFaults` | a, b; 4 faults | `GiveUpAfterFaults`, `BootEnds` | hold, 241611 states |
| `RetryPacked` | a, c; 1 fault | `ThreeWriteFailures` | violated |
| `TornHeader` | a, c; 0 faults | `VerifiedIsInstalled` | violated |
| `ForceWindow` | a; 3 faults | `ForcedStaysOut` | violated |
| `AppLayout` | a; 0 faults | `AppDownloadAccepted` | violated |
| `RingLoader` | 4 slots, 8 messages, 1 interrupt in a call | `RingInv`, `InOrder`, `ImplementsQueue`, `Drained` | hold, 1324 states |
| `RingPreempted` | the same, 2 interrupts in a call | `WholeMessage` | violated |
| `Link` | both links, ring of 12 bytes, frames of 5 to 13, 2 commands, 1 fault | `TypeOK`, `ScanInBounds`, `GoodFrameKept`, `DeletesJudged`, `OnlySent`, `FirstTry`, `ObeysAsked`, `Answered` | hold, 731816 states |
| `Identity` | 2 devices, 3 identifiers | `TypeOK`, `HostKnows`, `UniqueIDs` | hold, 1688079 states |
| `Lamp` | 5 lamps of a colour, 4 hosts with 2 or 3 commands | `TypeOK`, `Picture`, `OnlySent`, `LatestObeyed`, `Obeyed` | hold, 376653 states |

Four slots and eight messages let both indices wrap round twice and the ring
overflow at every position of the caller; the proofs cover every size.

One fault in `Link` is enough for all but one case (2.5): a head, a length, a sum or a tail
is lost, a CAN message, an answer, or a timeout strikes a frame on its way; and a
lost length makes one that the ring can never hold, so that it overflows with
everything that follows. `ObeysAsked` and `FirstTry` are about what comes before
the fault, every order of bytes, messages, passes and commands. In `Identity` nothing is bounded: power losses, lost
commands and lost answers may go on for ever. Two devices and a free identifier
let one be given away, given up, and given to the other; the symmetry swaps the
devices together with their boards' identifiers. The four hosts of `Lamp`
between them use every style of mode, an unknown command, and changes from one
colour to another; five lamps have ends, a middle and something in between.

`MaxFaults = 2` in `BootPlain` is the largest number for which the safety
properties hold: three faults spoil three attempts, and then a partial image
stays in the run area with the flag off (`ForceWindow` shows what that leads
to). For compressed images even one fault is too many (`RetryPacked`).

**Fairness.** `FairSpec` adds `WF_vars(BootStep)`: while it has power the
program runs. Nothing is assumed of commands. The liveness properties assume in
their premise that power is not lost for ever (`<>[][~PowerLoss]_vars`); without
it a device that is reset in every copy never ends one. `CanRing` assumes weak
fairness of the steps of the caller, not of the interrupt: the loop of
`main.c` 269-275 calls `CAN_OTA_Periodic_Handle` for ever, and a call that was
interrupted goes on.

`FrameLink` assumes that the loop runs, that bytes travel, that time passes, and
(strongly, as the loop may be in the way now and then) that the host repeats its
command. Faults are bounded, as no protocol gets an answer over a line that
loses everything. `Lamp` assumes weak fairness of the LED thread (priority 14,
above the threads that are busy), of the interrupt and of a host that goes on
sending; `Obeyed` assumes in its premise that losses end and that the host keeps
to one command. `Identity` has no liveness property: nobody repeats a save.

`Answered` holds though the CAN timeout clears the ring that does not hold the
incomplete frame (`canbus_middle.c` 942): what the host repeats completes the
false frame, which is then refused byte by byte, or overflows the ring. It would
hold without any clear, too. `DeletesJudged` has a premise: over a full ring the
interrupt tests a `Head` that the reader has moved, and what the reader then
restores and deletes is not what it has judged. So the deletion after an overflow
is not judged by that property but by `Answered`: repetition gets over it.

The five violated runs are disagreements between the code and its own comments:

1. **RetryPacked.** After the first pass over a compressed image `pSrcData` is
   left at the run area (`main.c` 197), which the second pass erases and then
   unpacks. One flash fault ends the update, which the comment at 174 calls
   three failed writes.
2. **TornHeader.** The check at `main.c` 127-157 does not cover the third double
   word of the header, which a power loss during OTA start may leave out. The
   verified compressed update erases the application and cannot be installed.
3. **ForceWindow.** `ForceUpdateAppMode` erases the flag before it programs it,
   and an erased flag means "run": a reset in between starts the partial image
   that the call is there to shut out.
4. **AppLayout.** The application stores the header with a `Version` field that
   the loader's structure does not have, so its downloads are refused.
5. **RingPreempted.** When the application's CAN thread is preempted in the copy
   while the ring is full, two interrupts drop and overwrite the slot it copies,
   and `stm32_CAN_recv` ("receives one message") returns halves of two.

Without a run, since the layout (4) hides it: the application's
`Flash_Storage_Header` programs the header page without erasing it (`flash_if.c`
190), so that a second download keeps the header of the first. `IapBoot` has it
so, in `StoreHeader`.

## 4. The proofs

`IapBoot_proofs` proves, for every set of images, all lengths, every
`MaxPages`, and any number of power losses and commands:

| Theorem | Says | Assumes |
|---|---|---|
| `UpdateContract` | `Spec => []TInv` | nothing about faults |
| `UpdateInvariant` | `Spec => [](TInv /\ SInv)` | `FewFaults` |
| `NeverStartsPartial` | `Spec => []JumpSafe` | `FewFaults` |
| `PartialIsGuarded` | `Spec => []PartialGuarded` | `FewFaults` |
| `GivesUpAfterFaults` | `Spec => []GiveUpAfterFaults` | no compressed image |
| `CommittedIsKept` | `Spec => CommittedUntilInstalled` | `Plain` |
| `LoaderIsAtomic` | `Spec => ImplementsAtomicInstall`, the refinement of `AtomicInstall` | `Plain` |

`FewFaults` is: no fault at all, or plain images and at most two; `Plain` is the
second of these. Compressed images are excluded there for a reason: a power loss
in the start of a download can leave a header that verifies but cannot be
unpacked (`TornHeader`), and then the committed image is never installed. The two named
assumptions on the constants, `ImageAssumption` and `FaultAssumption`, say only
that lengths are positive and that plain images are not unpacked.

The argument has three layers. `TInv` (types, and: in the update loop the flag
is set and the download verified) holds by itself, since nothing in the loop
changes flag, header or download. `AttemptInv` follows one attempt: it is good
so far (`GoodSoFar`), or a pass that writes nothing because it unpacks the erased
run area (`EmptyPass`), or it has cost a flash fault, as all attempts before it
did. Hence after three attempts either three faults have happened or the run
area is empty. `SafeInv` adds what holds around the loop: wherever control has
left it, the run area is complete or empty, and at a reset it is that or the
update is still committed. `JumpSafe` alone is not inductive: that an image is
complete when the application starts depends on what the resets before left.

The last two theorems need to know how an update ends. `TurnedAway` says that
wherever the loader has turned away from the update loop the flag is not set
over a verified download, so that it gives up no update that was committed;
`NeverGivesUp` follows from the invariant, since with two faults one of three
attempts succeeds. For the refinement, `OneImage` says that the run area never
holds two images at once; then each step either leaves `Installed` and `Running` alone (`CommittedStutters`
while an update is committed, `UncommittedAtomic` otherwise) or is the atomic
step: it commits, or it starts what is installed.

Only model-checked: liveness (out of reach of the prover).

`CanRing_proofs` proves, for every `Size >= 2` and any number of messages
(`RingAssumption` says only that the constants are numbers):

| Theorem | Says | Interrupts within a call |
|---|---|---|
| `RingInvariant`, `RingInvariantCalm` | `[]RingInv` | at most one, or any number if `Calm` |
| `HandsOutInOrder`, `CalmHandsOutInOrder` | `[]InOrder` | the same |
| `RingImplementsQueue`, `CalmRingImplementsQueue` | `ImplementsQueue`, the refinement of `LossyQueue` | the same |
| `EveryMessageIsTaken` | `[]NoneMissing`: what was taken and what waits are all that came | any, if `NeverFull` and no clear |
| `IndicesStay` | `[](TypeOK /\ IndicesInRange)` | any |

`Calm` says that of the interrupts within a call only the first may find the ring
full. In the loader it follows from `MaxBurst <= 1`. In the application it is the
answer to `RingPreempted`: a preempted CAN thread gets whole messages in order,
each once, unless the ring is full and goes on to lose a second message within
the call. `NeverFull`, that no interrupt finds it full, is stronger, and then
nothing is lost at all. `IndicesStay` covers what `RingPreempted` shows too: a
message may be torn, but no access leaves the array.

`InOrder` is not inductive: that the next message is later than the last one
needs to know what all slots hold. `RingInv` says it without sequences: the slot
`d` steps behind `Write` holds message `arrived + 1 - d` if it still waits
(`ContentInv`), the message of the call lies before these and after the last one
(`CallInv`), and the only states in which the interrupt may have moved the index
under the caller are those in which the caller does not look at it again
(`IndexInv`). From that the queue is a row of consecutive numbers
(`QueueInv`), and each step maps to one of `LossyQueue` or to a stutter. The
place where `Calm` is needed is `InterruptWaiting`: with `burst = 0`, or with a
free slot besides the one of the call, the slot of the call is not the one the
interrupt writes.
`Drained` is only model-checked.

`FrameLink_proofs` proves, for every ring and array, all limits, commands and
bytes, and any number of faults:

| Theorem | Says | Assumes |
|---|---|---|
| `NoFrameIsSkipped` | `Spec => []GoodFrameKept` | nothing about the bytes |
| `LinkTyped` | `Spec /\ []NoRunOfHeads => []TypeOK` | no run of heads |
| `SearchInBounds` | `Spec /\ []NoRunOfHeads => []ScanInBounds` | no run of heads |
| `DeletesWhatItJudged` | `Spec /\ []NoRunOfHeads => []DeletesJudged` | no run of heads |

`LinkAssumption` says that the constants are numbers in their ranges, that the
ring fits the array and that the length of a frame fits a byte (two in the
code). `NoRunOfHeads`, the assumption that no pass reads a run of `MinLen` heads at
the end, is about what a host sends and what gets lost, and no property of the
loader. Without it the last three are false, in the code as in the model (2.5). The search lemmas themselves
assume only `ScanInBounds` of the state they start from, so that the next module
can use them with another reason for it.

For `GoodFrameKept` the step that needs an argument is `Search`: it jumps to the
next head, and a frame begins with one. The others rest on `LinkInv`.
`ReadInv` says how far the loop and the interrupt have got, both counted from
the head at which the ring was measured: the tail is `len + added` behind it,
the head the reader has moved is `k` behind it, and `k` bytes have been copied as
the ring still holds them. While `len + added < Size` these places are all
different (`Apart`), so the interrupt neither overwrites what is read nor takes
the ring for full, and what the loop restores is right. `PlaceInv` says that the
search got where it is from a place with room for a frame, over nothing but
heads; hence it cannot come to the end unless the end is a run of them
(`SearchStays`), and then what is deleted does not exceed what was read.

What a message adds to the ring and what a host puts into a frame are recursive
functions of a sequence of any length. Their types (`AddingIsRing`,
`SumIsByte`) are proved by induction, in the form the provers can use: for a
set of natural numbers instead of a predicate (`Induction`, from the library's
well-foundedness of `<`). That the functions exist at all (`AddingDefined`,
`SumsDefined`) is proved in the same way.

`FrameLinkClean_proofs` proves, for every ring, array, limits, size of message
and set of commands with `Fits`, what the link does while nothing is lost:

| Theorem | Says | As long as |
|---|---|---|
| `ObeysWhatItIsAsked` | `Spec => ObeysAsked` | there was no fault (the property says so) |
| `FirstTryIsAnswered` | `Spec => []FirstTry` | there was no fault (the property says so) |
| `ExecutesOnlySent` | `[]OnlySent` | nothing but answers is lost |
| `CleanSearchInBounds` | `[]ScanInBounds` | nothing but answers is lost |
| `CleanDeletesJudged` | `[]DeletesJudged`, and its premise in every deletion | nothing but answers is lost |

`ObeysAsked` is the contract of a link without faults: whatever the interleaving
of interrupt, messages, loop and host, the search comes to one judgement only,
that the command asked for is there whole. It needs the bytes of the ring, the
messages of the line and what the host has yet to send in one invariant,
`CleanInv`. `Holds` says that the three of them cut the frame of the command that
is wanted into pieces: the ring, behind what was judged (`Judged`), has its first
`Got` bytes, message `m` of the line the next `Chunk` after those before it
(`Sent`), and `rest` what is left. Either that holds (`UnderWay`) or nothing is
anywhere (`Nothing`). `CleanPass` says where the loop can be then: it has read
something, has room behind it, has not gone past the first byte, has judged
nothing or one whole frame, and no timeout has passed. Three facts carry the
steps: a pass reads a prefix of the frame (`ReadsFrame`); a search over a prefix
finds its head at 0 and a legal length, so that it can only wait or, the sum being
that of the frame, accept (`SearchClean`, `GoodFrame`); and the frame under way
fits behind an accepted one that is not deleted yet (`Room`). An answer that is
lost starts the same frame again. `FirstTry` needs one thing more, `Served`: while
there was no fault, a command that is not answered is under way, as no step but
its acceptance ends a frame (`KeepsGoing`). TLC checked `CleanInv` on the instance
of `Link` before it was proved, with one fault and with three lost answers.

The theorems about lost answers assume `[][AnswersOnly]_vars`: each step counts
no fault, or is `Accept`, whose fault is a lost answer. In `LinkTyped` and the
theorems next to it, anything may be lost.

Only model-checked: `OnlySent` when bytes or messages are lost, since then it
depends on the bytes of the commands (what is left of two frames may have the sum
of a third), and `Answered`.

`Identity_proofs` proves for all devices and identifiers, from `IdAssumption`:

| Theorem | Says |
|---|---|
| `IdentityTyped` | `Spec => []TypeOK` |
| `HostIsRight` | `Spec => []HostKnows` |
| `IdentifiersAreUnique` | `Spec => []UniqueIDs` |

`HostKnows` is not inductive. `Own` adds what a device alone keeps: a page that
is not complete is blank, a complete one under way is what RAM holds, and who
saves may be blank, which the host has noted. `InFlight` says that a command
under way gives nothing the host has not noted, for whoever may obey; `Acking`,
that an acknowledgement is of that command, so that it is never learnt too late.
`Disjoint` is the host's restraint as an invariant: what two devices may hold
has nothing in common but `Blank`. From `Own` and `Disjoint` uniqueness follows
without looking at a step.

`Lamp_proofs` proves, for any number of lamps, any buffer and any hosts
(`HalfAssumption`, `LampAssumption`):

| Theorem | Says | Assumes |
|---|---|---|
| `LampsShowMode` | `Spec => []Picture` | nothing about commands |
| `LastCommandIsObeyed` | `Spec => []LatestObeyed` | nothing about commands |
| `ObeysOnlyWhatWasSent` | `Spec => []OnlySent` | `NoHeads` |
| `LampTyped` | `Spec => []TypeOK` | `NoHeads` |

`NoHeads` is: no host uses the head of a frame (0xFE) as a command; the modes go
up to 27. With such a command a lost byte could make it a head, and what follows
a length of 254, which the index of the callback would follow out of the buffer.

`Picture` needs that a mode is not changed while it runs and that its loop
variable is in range (`InMode`); the picture of a round then follows from the one
before. For `LatestObeyed` the invariant says what each step of taking a command
has done so far, and what the buffer holds while the flag is set and the ghost
is true.

For `OnlySent` and the types `LineInv` says that what is on the line is always
the end of a frame, and `PlaceInv` where in it the automaton may be: it takes a
byte for a length, or for the first of the data, only where a frame has one or
where the loss of one byte in this frame has put it. So the byte stored first is
always the command, even when the command was taken for the length and the
automaton then runs on through the frames that follow; `SentInv` carries it to
the thread. Whether the sum fits plays no part in that.

Only model-checked: `Obeyed`.

## 5. Not modelled

* **Vendored code**: RT-Thread, lwIP, mbedtls, MQTT, finsh, the HAL and CMSIS,
  zlib. It is nearly all of the repository's lines (well over nine tenths); the
  programs' own code is some forty files.
* **Registers**: initialisation, sending, sensors, LEDs, clock, watchdog. No
  state of their own that outlives a call, and no concurrency beyond the
  interrupts that are modelled.
* **Acknowledgements, heartbeats, search and check answers**: layouts and
  values; they change no state. What a host learns from them is in `Identity`.
* **Protocol framework**: several analysers on one device, added or removed
  while it runs. Each device registers one, at its start.
* **The application's own parameter page**: its defaults replace it at every
  start (2.6), so nothing depends on what it holds.
* **Lengths of single commands**, such as the update frame of 11 bytes whose data
  length wraps (`canbus_middle.c` 676); reading behind a frame that is too short
  for its command is a matter of bytes that the models do not have.
* **Beyond the prover**: liveness (`BootEnds`, `CommittedIsInstalled`, `Drained`,
  `Answered`, `Obeyed`), which is model-checked.
