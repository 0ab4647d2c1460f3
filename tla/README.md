# A TLA+ verification project for USB-FWU

USB-FWU is a firmware upgrader over USB for LPC214x microcontrollers. It has four
programs:

* the **upgrader** (`LPC214X_USB_FWU/usb_fwu`), resident in the first 8 KB of the
  flash: it starts the firmware when the firmware is intact, and otherwise, or when
  the firmware asked for it, reads and writes the rest of the flash for a host;
* the **host program** (`fwl_src/usbfwu`), a Windows dialog application on the USBIO
  driver library (`USBIOLIB`), with two pipe threads;
* the **example application** (`LPC214X_USB_APP/usb_app`), a firmware with a bulk
  transfer demo that can hand control back to the upgrader;
* **TNKernel** (`TNKernel`), the preemptive real-time kernel the example runs on.

This directory holds TLA+ models of all four, TLC configurations that check them on
small instances, and TLAPS proofs of the properties that carry most. Line numbers below
are of the files in the repository.

## 1. Inventory

### 1.1 Upgrader

| part | state it keeps | operations | who else touches it |
|---|---|---|---|
| packet rings `queueEP2RX`, `queueEP2TX` (`fwu_queue.c`, `fwu_usb_ep.c`) | `header_cnt`, `tail_cnt`, a slot array | `get`, `tst`, `put` from main; `tsti`, `puti`, `geti` from the interrupt | main loop and USB interrupt, at opposite ends |
| main loop (`fwu.c`) | `gState`, `fw_length`, `fw_crc`, the block buffer, position | read the request, erase, stream in, stream out, start the firmware | the interrupt writes `gState`, `fw_length`, `fw_crc` |
| flash (`fwu_utils.c`, IAP) | sectors, header words in the first 32 bytes | erase the sectors of a length, write a block, CRC | power loss |
| control endpoint (`fwu_usb_ep.c`, `fwu_usb_req.c`, `fwu_usb_thumb.c`, `fwu_int.c`) | the SETUP packet, `pdata`, `nbytes`, `gEP0Buf`, the configuration | standard, class and vendor requests, bus reset | the host, at any stage of a request |
| boot (`fwu.c` main, `fwu_utils.c`) | mark in RAM, header in flash | stay or start the firmware | the firmware sets the mark |

Hard here: main and the interrupt share the rings and three globals with interrupts
enabled; a slot is freed before it is copied; requests arrive at any point of a stream and
of each other; power fails inside an erase; a stream must end although the host does what
it likes. Correct means: packets arrive whole, once and in order; nothing is written
outside the buffers or the flash; only a firmware whose length and CRC agree with its
header is started (and no length is so short that the CRC says nothing); a firmware stays startable until a write request erases it; no host
keeps the upgrader in a stream; an answer belongs to the request it is taken for.

### 1.2 Host

| part | state | operations | interactions |
|---|---|---|---|
| Write dialog (`WriteFWDlg.cpp`, `fwu_cmd.cpp`, `fwu_utils.cpp`) | where the session is, `m_rc`, events | Start, Stop, the waits | device, both threads, user |
| pipe threads (`TxStreamPipe.cpp`, `RxPipe.cpp`) | buffer pool, `FW.len`, `CtrlRxExch` | fill, collect | dialog by events |
| USBIOLIB (`UsbIo*.cpp`) | file handle, buffer chain, pending list, `TerminateFlag`, `ThreadHandle` | open, bind, requests, read and write, thread start and shutdown | driver, device, dialogs |
| Read dialog, regular operation (`ReadFWDlg.cpp`, `RegOpDlg.cpp`) | buttons, output file | Start, Stop | the same globals `g_dt`, the same `g_RxPipe` |
| main window (`usbfwuDlg.cpp`) | timer count, `fOpInProgress`, `OpState`, page | tab change, timer, device change | runs nested in the dialogs' handlers while they wait |
| hex files (`fwu_hex_processing.cpp`, `fwu_list.cpp`) | ordered list of chunks, base addresses | parse a line, search, insert, overlap test, binary image | none |
| history of file names (`HistoryComboBox.cpp`, `TRegisry.cpp`) | box, registry key | read, add, save | the registry outlives the program |

Hard here: the answer to a request carries no name of the request; threads are stopped
while they wait; the device leaves and comes back as another program; handlers nest in one
another through the message pump; the process may be killed. Correct means: "Done." only
for an image that is in flash; a write nobody disturbs succeeds; Stop returns; no buffer is
freed that a read is pending in; the image is the file's; the history is what was saved.

### 1.3 TNKernel

| part | state | operations | hard |
|---|---|---|---|
| lists (`tn_utils.c`) | two pointers per entry | reset, add, remove | one `task_queue` per task for the ready list and for wait lists |
| tasks, scheduler, tick (`tn_tasks.c`, `tn.c`) | TCBs, ready lists, bit map, `tn_next_task_to_run`, timeout list | the task services, the tick, time slices | interrupts are enabled before the switch; cached choice of the next task |
| context switch (`tn_port.c`, `tn_port_asm.s`) | `tn_curr_run_task`, request flag, saved contexts | switch, switch on exit, interrupt exit | nested with the services |
| semaphores, data queues, event flags, memory pools (`tn_sem.c`, `tn_dqueue.c`, `tn_event.c`, `tn_mem.c`) | count; FIFO and two wait lists; pattern; free list through the blocks | wait, give, poll, delete, from tasks and interrupts | delete is a loop with switches in it; things are in several places |
| mutexes (`tn_mutex.c`) | holder, list of the holder's mutexes, locked and blocked lists | lock, unlock, delete, inheritance, ceiling | chains of holders |

Correct means: each ready list holds exactly the runnable tasks of its priority; no task
runs while a higher one is runnable; timeouts are exact and end; a wait ends with the code
of what ended it; nothing sent or allocated is lost; nobody waits for what is there; an
inherited priority is given back; tasks do not wait for each other in a circle.

### 1.4 Example application

Three tasks (`task_ep2_rx`, `task_ep2_tx`, `task_io`), USB interrupts, two data queues, two
memory pools, a semaphore. Hard: the result of a queue send is not looked at; the abort
flag is polled now and then; a queue takes one element less than its pool has blocks.
Correct means: no block of a pool is lost; an abort ends the stream.

## 2. Modules and how they correspond to the code

| module | models | granularity |
|---|---|---|
| `FwuChannel` | what a packet ring promises: a bounded FIFO channel | abstract |
| `FwuQueue` | `fwu_queue.c` with the endpoint 2 interrupts and the copies of `stream_rx`, `send_to_host` | one step per word copied, per ring operation and per interrupt |
| `FwuControl` | endpoint 0: its interrupt handlers, all requests, a host that gives up and resets | one step per packet or interrupt |
| `FwuDevice` | the upgrader: `fwu.c`, `fwu_utils.c`, vendor requests, SET_CONFIGURATION, boot; SWITCH_TO_FWU of the application; power loss | one step between two reads or writes of what the interrupt shares |
| `FwuWrite` | `FwuDevice` composed with the Write dialog, its two threads, driver and user | one step per wait, event or driver call |
| `UsbApp` | the example's tasks over its pools, queues and semaphore, its endpoint 2 interrupts and vendor requests | one step per kernel call or interrupt |
| `TnList` | `tn_utils.c`: lists as memory, pointer by pointer | operators |
| `TnCore` | the kernel's data and the functions its services share, the mutex routines among them | operators from kernel to kernel |
| `TnKernel` | task services, scheduler, tick, time slices, context switch, interrupt exit | a service is one step (interrupts are disabled), the switch behind it another; an interrupt with the switch at its end is one step |
| `TnObject` | waiting in a service and the delete loop, which every kind of object writes out | the delete loop in the pieces interrupts and tasks can come between |
| `TnSem`, `TnQueue`, `TnEvent`, `TnMem`, `TnMutex` | the kinds of objects | as `TnKernel` |
| `TnObjects` | the kernel composed with all objects | |
| `HexImage` | `fwu_hex_processing.cpp` over `fwu_list.cpp` | one step per line of the file |
| `UsbIoLib` | a pipe of USBIOLIB with its reader thread, its user and the driver | one step per call, or per access to what the threads share |
| `UsbWindow` | the handlers of the window and of three dialogs, nested by the message pump, the reader and the device | one step between two points where a handler waits or calls the device |
| `RegHistory` | the history box over the registry class | one step per registry call |
| `MCFwuEndpoints`, `MCFwuDevice`, `MCFwuWrite`, `MCTnKernel`, `MCTnObjects`, `MCHost` | instances for TLC | |
| `FwuQueueProofs`, `FwuDeviceProofs`, `FwuWriteProofs`, `TnKernelProofs`, `TnObjectsProofs` | theorems, each about the module of its name | |
| `EndpointProofs`, `HostProofs` | theorems about `FwuControl` and `UsbApp`, and about `UsbIoLib`, `UsbWindow`, `RegHistory` and `HexImage` | |
| `TnObjectProofs` | what the proofs about all objects share, and the steps of semaphores and events; `TnObjectsProofs` extends it | |

`PROJECT.json` maps each definition to its lines. The correspondences a reader needs:

* **`FwuQueue`.** `ptr` is the pointer `fwu_queue_get` / `fwu_queue_tst` returned and
  `cpy` the word the copy has reached. `fwu_queue_get` advances `tail_cnt` *before* the
  copy, so what protects the slot is only that the ring is one slot short of full.
  `hw` is the controller's double buffer; a packet that finds the ring full stays in it
  and the NAK interrupt comes again. `Packet(i)` fills all words of packet `i` with `i`,
  so a torn packet shows.
* **`FwuControl`.** `udi` is `USB_DEVICE_INFO` with `gEP0Buf`, the controller its two
  buffers, the stall and the pending interrupts (`EpIntSt`, `DevStat`). Contents are named,
  lengths are real. `usb_int_func` serves reset, EP0 OUT and EP0 IN in the order of
  `fwu_int.c`. `late` marks a SETUP that was served while an IN interrupt was pending.
* **`FwuDevice`.** `fw_length` counts rows of 32 bytes, begun ones too: the first row is the
  header, `FW_START_OFFSET` bytes that no CRC covers, and two rows are a packet
  (`Rows`, `PacketsOf`). All else counts 64-byte packets; a transfer unit of 4096 bytes is
  `Block` packets and also the sector of the model. `flash` is the firmware area packet
  by packet, `hdr` the header words that `stream_rx` patches into the first block. The
  CRC is taken to be injective, and that of a length within the header is that of nothing,
  0. `Infos` is what PUT_FW_INFO may announce: any lengths with any CRCs, those of the
  images among them. Programming NOR flash only clears bits (`Program`), so
  writing what was not erased leaves `Garbage`. The rings appear as the FIFO channels
  that `FwuQueue` implements; a vendor request is one step, as it is for the main loop.
  `dpc` names the program points between which an interrupt makes a difference; the
  interrupt's actions are enabled at each of them.
* **`FwuWrite`.** `hpc` is the dialog, `txt` the writer thread, `bufs` what the driver
  holds. A handle to a device that left is `~bound`: transfers fail. `himg` is the image
  loaded; the dialog announces its length and CRC (`Header`). Each session has a fresh
  image, which need not be another one.
* **`TnCore`, `TnKernel`.** `k` is the kernel's memory as one record, so that the functions
  all services share (`task_to_runnable`, `task_wait_complete`, ...) are operators from
  record to record and a service is their composition, in the code's order. `pc[t]` is
  where the context of task `t` is: in its own code, before `tn_switch_context`, inside a
  wait or a delete loop. `Wild` is what `get_task_by_tsk_queue` makes of a list head (an
  address that is no TCB); once `tn_next_task_to_run` is `Wild` nothing is defined and no
  task runs. `Programs` says which services the tasks and interrupts of an instance use
  (`services`), which tasks exist at the start and the protocol of the mutexes; a behaviour
  picks one.
* **The objects.** Each is a record beside `k`; `granted`, `order`, `asked` and `owned` are
  history variables that properties read (and `owned` the application: it gives back what
  it has). Deleting is a chain of steps with the places `delTest`, `delFound`,
  `delEmpty`, `delMasked`, `delSwitch`.
* **`UsbApp`.** `tx` and `rx` are where the two tasks are; pools and queues are counted by
  blocks, since a block's contents decide nothing. A queue of `Blocks` entries takes
  `Capacity` elements, one less (`dque_fifo_write`); a transmitter that finds it full waits
  with its block in its hand (`waitsSend`).
* **`HexImage`.** `list` is `FWU_LISTINFO` with its capacity, `told` the records of the file
  as a reader of the hex format understands them; the property compares the image with
  `told`. The search is the code's binary search, as a recursive function of its range.
  `Within` excepts a record that reaches the last address: `prev_mem_addr` is 0 then, and a
  record at address 0 is put behind it. `Sought` is `fseek`, whose offset is signed: it
  reaches half of the addresses. A line whose first address byte is no hex is a data line at one of
  the last 256 addresses below `Modulus`, where the code puts it.
* **`UsbIoLib`.** `drv` is the driver (each buffer's status), `io` the object's handle,
  `Pending` the thread's list, `Buf` the buffer it holds. The user frees buffers only when
  no thread runs; `UsbWindow` shows where a dialog does not keep to this.
* **`UsbWindow`.** `frames` is the stack of Start handlers. The system's and the user's
  handlers, the device and the reader run while the innermost handler waits (`Pumps`);
  between two waits any request to the device may fail, which is all a handler sees of a
  device that leaves there. A message box keeps the user out, not the timer or the system.
* **`RegHistory`.** The registry enumerates values in the order they were set or by name;
  the choice is made at the start (`byName`).

Mutated forms of a definition stand before it and are marked as mutants. They are used by
no specification; each is a plausible bug, and the checks confirm that it breaks the
property it is listed for.

## 3. Runs

| run | specification | checks | bounds |
|---|---|---|---|
| `endpoints` | `MCFwuEndpoints!MCSpec`: one of endpoint 2 OUT, 2 IN, endpoint 0, the application's endpoint 2 | `TypeOK`, `InOrder`, refinement of `FwuChannel` (`IsAChannel`), `Delivered`; `AnswerIsForRequest`, `OkIsExecuted`; `BlocksConserved`, `AbortEnds` | ring of 4, 3 words, 2 controller buffers, 10 packets; 19 requests; pools of 3 blocks, queues of 3 entries |
| `device` | `FwuDevice!FairSpec` | `TypeOK`, `RunningIsIntact`, `AlwaysReturns` | one image of 2 rows, flash and block of 1 packet, queues of 1, one fault; announced: the image, a length of 1 row with CRC 0, one of 4 rows (too long) with a wrong CRC |
| `write_session` | `FwuWrite!WriteSpec` | `WriteTypeOK`, `DoneIsWritten`, `WritesErasedFlash`, `IntactUntilErased`, `RdyStarts`, `RunningIsImage` | images of 5 and 4 rows, block 2, flash 4; 2 sessions, 1 fault, 1 abort, 1 kill, any timeout |
| `write_fair` | `FwuWrite!WriteFairSpec` | `StreamInOrder`, `WriteSucceeds`, `JoinEnds` | the same images and one of 1 row, with 1 abort, without faults, kills and timeouts |
| `kernel` | `TnKernel!Spec`, 4 programs | `TypeOK`, `ReadyListsHold`, `HighestRuns`, `TimeoutListHolds` | 3 tasks of 2 priorities, timeout 2, time slice 1 |
| `kernel_fair` | `TnKernel!FairSpec` | `SleepEnds` | 2 tasks, timeout 2 |
| `objects` | `TnObjects!OSpec`, 14 programs | `ObjectsTypeOK`, `MutexHolds`, `RaisesChain`, `SemWaitsForAReason`, `OkIsASignal`, `NothingLost`, `QueueWaitsForAReason`, `EventWaitsForAReason`, `PatternFulfils`, `BlocksPartitioned`, `DeletedHasNoWaiters` | 2 or 3 tasks, max_count 2, `num_entries` 0 and 3, 2 flags, 2 blocks, 2 mutexes |
| `host` | `MCHost!MCSpec`: one of the four parts | `ImageIsTheFile`, `IdleWhenStopped`, `SessionCleansUp`, `HistorySurvives` | 4 records, 2 buffers, handlers nested 2 deep, the device comes once more, 4 history items |
| `write_stop_hangs` | `FwuWrite!WriteFairSpec` | `StopEnds`, violated | 1 session, 1 abort |
| `sem_timeout` | `TnObjects!OSpec` | `ReadyListsHold`, violated | 2 tasks, timeout 2 |
| `ceiling_deadlock` | `TnObjects!OSpec` | `CeilingNoDeadlock`, violated | 2 tasks, 2 mutexes |
| `host_double_start` | `MCHost!MCSpec` | `FreedIsIdle`, violated | as `host` |

Why these bounds are enough for what is asked:

* **`endpoints`**: ten packets wrap a ring of four twice, so every pair of indices is
  reached, each with the ring empty, full and in between; three words let the interrupt
  come before, inside and behind a copy. `NumEntries = 4` has a slot that is neither first
  nor last. The proofs remove the bound. The requests have an answer shorter than the
  packet, one cut by the host, one that is refused, data good and bad; the host may follow
  any by any, so longer histories add nothing. Three blocks are the least with one in each
  place, and let the queue of two be full while the pool still has one. The four do not share state and are looked at one at a time.
* **`device`**: with queues of one packet every full test is met from both sides; a block
  of one packet makes the header block a block of its own; the image fills the flash, so
  the address behind the last block is the address behind the flash. The lengths announced
  are one the CRC covers, one it does not, and one that does not fit. The host of this run
  sends everything at any time, so longer sessions add nothing. The proofs remove these
  bounds too, and let any length be announced with any CRC.
* **`write_session`**: one image ends inside a packet and a block, the other fills a block; the second
  session meets everything a first one can leave behind: messages in the queue, packets in
  the ring, a half-written flash. One fault, abort and kill each is what the questions
  ask for; faults in the repair of a fault are covered by `device` for what the device
  promises.
* **kernel runs**: three tasks of two priorities and the idle task are the least that has
  a ready list of two, one of one and a higher task to preempt both. A timeout of two ticks
  counts down once before it ends. A FIFO of three entries has the slot `tail_cnt = 0` full,
  and wraps; 0 is the queue without a FIFO. Two mutexes make a chain of inheritance and a
  circle possible, and the third task waits at the end of the chain. A program names the services that are used together: all together the
  services would multiply, and the departures below would meet each other. Which program
  runs is chosen at the start.
* **`host`**: four records can be a chunk, one before, one between and one that closes the
  gap; base addresses move a record behind another, and addresses have 19 values so that
  a record may end at the last one and the next be the first; nine of them are in the reach
  of `fseek` from the first, so that there are files on both sides. Handlers nest when a second Start is clicked inside the first. The device that
  comes once more may be either program. Item 10 gets a second digit where item 3 does with
  three digits (`Radix`).

Bounds in the guards: `MaxPackets`, `MaxFaults`, `MaxSessions`, `MaxAborts`, `MaxKills`,
`MaxLines`, `MaxDepth`, `MaxPlugs`, `MaxVal` (the code's own `max_count`), `MaxErrorCount`
(the code's), `MaxItems` (the code's).

`CHECK_DEADLOCK FALSE` is given where the system stops by itself: a stream of `MaxPackets`
packets is sent (`endpoints`), all sessions are over and the firmware runs (`write_*`), the
last image is written, or no button can be used and the device is gone for good (`host*`).

### Fairness

* `MCFwuEndpoints!MCSpec`: the endpoint interrupt is level-triggered (a NAK interrupt
  repeats while a packet waits) and main, or the application's tasks, run whenever the
  interrupt does not. The sender owes nothing. For `AbortEnds` the host keeps reading from
  the application: `TxGet` waits for a free block and `TxSend` for room in the queue, which
  only the host's reads give.
* `FwuDevice!FairSpec`: weak fairness of the main loop. Main is never blocked: it polls.
  Timeouts of streams count empty polls (`RX_TIMROUT`), so they are steps of main. The
  host owes nothing: `AlwaysReturns` holds against every host.
* `WriteFairSpec`: main, the dialog's own steps, the writer thread, the reader thread and
  the bus are weakly fair, as the operating system schedules threads and the host
  controller polls. The user's Stop, timeouts, faults and kills are not obliged to happen.
* `TnKernel!FairSpec`: the timer interrupt keeps coming (weak fairness of `Tick`), and a
  context that stands before `tn_switch_context` executes it. No task is obliged to make
  a call.
* `UsbIoLib` has no liveness property because the code does not have it: see departures.

`SleepEnds` asks for the end of a wait with a timeout, `WriteSucceeds` for the end of a
write from the moment the dialog waits for the ask and the main loop is idle, unless the
user stops it. `JoinEnds` excludes the thread in `ProcessBuffer`: see `write_stop_hangs`.

## 4. What the checks show

**The rings are FIFO channels**, in both directions, although one side frees a slot
before it is copied and the other fills it with interrupts enabled. The reason is the
slot that is never used; `Full` without its case for `tail_cnt = 0` tears packets.

**Requests do not mix**: whatever requests a host gave up or reset before, an answer is the
answer to its own request and what the host sees completed was executed once
(`AnswerIsForRequest`, `OkIsExecuted`), when SETUP is served before the IN interrupt of the
request before it becomes pending.

**Only intact firmware runs**, whatever a host sends, with power lost or a write failing
anywhere: `do_switch_to_firmware` reads the header and recalculates the CRC each time,
and does not rely on what `stream_rx` has checked. There is one exception, and
`RunningIsIntact` names it: a length within the header, 1 to 32 bytes, announced with the
CRC of nothing, 0, makes whatever is in the flash startable. When every image is longer
than the header, what runs is an image that a dialog has announced (`RunningIsImage`).

**A write that is not disturbed succeeds**, also after another one. With disturbances, a
dialog that shows "Done." in the first session of a device has written its image.
**After the CRC test has passed the firmware does start** (`RdyStarts`), although requests
can still change `fw_length` and `fw_crc`: `do_switch_to_firmware` loads them from flash
again; with three requests under way the header itself may be half of one and half of
another, and the start is refused. **A startable firmware stays startable until a write
request erases it**, for images that fit, as long as there has been one request: see the
departures for a second one.

**The scheduler's choice is always right**: `HighestRuns` holds with the switch as a
separate step and interrupts in between, with priority changes, suspends, restarts and time
slices, for every orderly program (see 5) that does not start tasks on creation
(`tn_tasks.c:98` below) and does not combine time slices, terminate and priority changes
(`tn_tasks.c:861` below).

**Objects hand over exactly once**: no task waits for a unit, an element, a flag or a block
that is there; elements arrive once and in order whichever way they went; a block is in one
place; a wait ends with TERR_NO_ERR when and only when it got what it waited for, although
the task reads the result later. Deletes leave no waiting task behind, though they loop with
task switches in between (but see `tn_sem.c:68` below). A task that begins to wait for a
mutex raises every task of the chain behind it that may run, and a raised priority is given
back.

**The host's parts**: the image is the file's for records in every order, when they are less
than half of the addresses apart; a reader thread
that has been joined has no read pending, however its end came about; when the last handler
has returned the device is closed and the reader gone, for every nesting of handlers; the
history is what was saved, or after a kill the end of the old or the beginning of the new.

### Findings (the four violation runs)

1. **Stop can hang the Write dialog** (`write_stop_hangs`, `TxStreamPipe.cpp:98`). The
   writer thread waits for `EventTxStream` with no limit; only Start sets it, after the
   device has answered. Stop or a timeout before that makes the dialog wait for a thread
   that never ends.
2. **A timed wait corrupts the kernel's lists** (`sem_timeout`, `tn_tasks.c:773`).
   `task_wait_complete` puts the task into a ready list without taking it out of the
   object's wait list, and there is one pair of pointers for both. The runs of the objects
   therefore wait for ever, as the example application does; so does `tn_task_release_wait`
   of a task that waits for an object.
3. **Ceiling mutexes deadlock** (`ceiling_deadlock`, `tn_mutex.c:546`). A task is let
   through when its priority equals the ceiling of a mutex another task holds
   (`ceil_priority < curr_task->priority`), so two tasks can take two mutexes in opposite
   orders; the protocol of the paper named at `tn_mutex.c:35` asks for a higher one.
4. **A second click on Start frees buffers in use** (`host_double_start`,
   `RegOpDlg.cpp:200`). The handler of the regular operation never disables its Start button
   and pumps messages while it runs; the nested call frees the buffers of the reader.

### Departures that the passing runs work around

These were met while modelling; each is what the code does and what the model does, or
what the model leaves out. Where a run can be made to show one, the last column says how.

| where | what the code does | to see it |
|---|---|---|
| `WriteFWDlg.cpp:278` | any packet but FW_WR_ERR counts as success, so a message left in `queueEP2TX` by a killed session makes the next one show "Done." | drop `sessions = 1` from `DoneIsWritten`, run `write_session` |
| `fwu.c:159` | a PUT_FW_INFO between the read of `fw_length` and `set_state(STATE_DEFAULT)` replaces the length but is not erased for; the CRC test refuses the result | drop `sessions = 1` from `WritesErasedFlash` |
| `fwu.c:189` | `queueEP2RX` is not emptied before a stream; after FW_WR_ERR the packets left in it start the next image; the CRC test refuses it | `write_fair` with `MaxFaults = 1` |
| `fwu_utils.c:245`, `fwu.c:227`, `usb_thumb.c:205` | any length may be announced with any CRC, and a length of 1 to 32 bytes leaves the CRC nothing to cover: with CRC 0 any block passes and is started | the second disjunct of `RunningIsIntact`; drop it, run `device` |
| `fwu.c:223` | lengths are signed; one near -2^31 makes `fw_length - FW_START_OFFSET` overflow, which C leaves undefined; ordinary negative lengths count as not positive, as in the model | not modelled |
| `fwu_utils.c:215` | an image longer than the flash has no erase and is written over the old firmware; `FWBuf` of the host is larger than the firmware area (`LoadHexFile` does not test the size either) | an image of 5 packets, `IntactUntilErased` |
| `fwu.c:223` | three requests, the third between the patches of length and CRC: the header has the length of one and the CRC of another, the image is refused after FW_WR_RDY | `sessions <= 3` in `RdyStarts`, `write_session` with `MaxSessions = 3` |
| `fwu.c:159` | a second request that arrives between the erase for a *shorter* first one and `set_state(STATE_DEFAULT)` streams over sectors nobody erased; aborted and not drained, it can spoil a firmware that the flash still held | drop `sessions <= 1` from `IntactUntilErased`: images of 3 and 1 packets, block 1, flash 3, 1 kill, 1 abort |
| `TxStreamPipe.cpp:108` | "dummy, should be never in use": the 0xFF blocks are sent in every write, because the pool hands buffers out again after the last block | an invariant that `FF` is not in `bufs`, `write_fair` |
| `fwu_usb_ep.c:33`, `fwu_int.c:78` | a SETUP served while the IN interrupt of the request before it is pending: the handler then takes the interrupt for the new request, sends an empty packet or reports a refused one as done | drop `~late` from `AnswerIsForRequest` |
| `fwu_usb_ep.c:76` | OUT data longer than one packet is waited for inside the interrupt; GET_ISFWU answers 8 bytes of which 4 are written; a stall is of EP0 OUT only | read `EP0_rx_int_data` |
| `tn_usb_ep.c:135`, `tn_utils.c:133` | `queueEP2RX` has eight entries and takes seven elements, its pool has eight blocks. When a host sends eight packets before the receiving task runs, the eighth `tn_queue_isend_polling` fails, nobody looks at the result, and the packet and its block are gone. It happens once: with seven blocks left the queue takes them all | drop `Capacity` from `BlocksConserved`, run `endpoints` |
| `fwu_hex_processing.cpp:523` | the distance of a chunk is passed to `fseek` as a signed 32-bit offset and the result is not looked at: a chunk 2^31 or more above the first is written directly behind the one before, though line 399 says "With this LBA it is possible to send files up to 4Gb in length" | drop `Near` from `ImageIsTheFile`, run `host` |
| `usb_app.c:305` | a USER_ABORT behind the end of a stream ends the next one early; the last packets of an aborted stream may stay in the controller | read `TxCheck` |
| `tn_tasks.c:546` | terminating a sleeping task unlinks a `task_queue` that is in no list, by stale pointers; terminating a holder ignores what unlocking asks for | `"terminate"` beside `"sleep"` in `kernel`, `ReadyListsHold` |
| `tn_tasks.c:505` | exit-and-delete with an activation pending restarts a task that no longer exists | `"exit"` and `"exit_and_delete"` beside `"iactivate"` in `kernel`, with `DeletedIsDormant` as an invariant |
| `tn_tasks.c:98` | TN_TASK_START_ON_CREATION makes a higher task ready without a switch | drop the exception in `HighestRuns` |
| `tn_tasks.c:861` | round robin rotates the ready list and leaves `tn_next_task_to_run`; when `tn_task_terminate` then empties another list, `find_next_task_to_run` chooses the list's new first, so that next is another task than the running one, of the same priority, and no switch is asked for; if the priority of the running task is lowered now, `change_running_task_priority` asks for none either, and a task runs while a higher one is ready | drop the second conjunct of `SwitchesAsked`; in `kernel` put `"tslice_ticks"`, `"terminate"` and `"change_priority"` in one program and the slice at priority 1; `HighestRuns` |
| `tn_tasks.c:270` | a wakeup of a task that does not sleep is counted for the *calling* task | read `WakeupOf` |
| `tn_tasks.c:512` | an interrupt with a switch between `tn_task_exit` and `tn_switch_context_exit` stores the old context over the new one | `pc` "stuck" is reachable in `kernel` |
| `tn.c:222` | round robin rotates the list but not `tn_next_task_to_run`, so nothing is shared until the running task waits; `tn_sys_tslice_ticks` with wrong parameters returns with interrupts disabled | read `RoundRobin` |
| `tn.c:241` | a timeout of a *suspended* task returns TERR_NO_ERR; so does a delete that ends the wait of a suspended task | `"suspend"` beside a delete in `objects`, `OkIsASignal` |
| `tn_sem.c:68`, and the other deletes | the last test of a queue is made with interrupts enabled; a task that an interrupt or a woken task makes wait there waits on the deleted object; a sender that comes while receivers are deleted is not seen | `"sleep"` and `"iwakeup"` beside `"sem_delete"`, `DeletedHasNoWaiters` |
| `tn_utils.c:133` | the FIFO holds `num_entries - 1` elements | read `Full` |
| `tn_event.c` | setting an event with the CLR attribute does not clear it when the task it releases is suspended | read `SetTo` |
| `tn_mutex.c:433` | with the ceiling protocol, when the next waiter may not lock the mutex it keeps the holder that has just unlocked it, in no list | `AllThree` in the ceiling programs of `objects`, `MutexHolds` |
| `tn_tasks.c:926` | at the end of a chain of mutexes that stands still for another reason (it sleeps, or is suspended), `set_current_priority` changes the priority of the *first* task of the chain, not of the last | read `SetTurn` |
| `tn_mutex.c:453` | a mutex handed to the next waiter does not raise it to what those behind it need; deleting a mutex leaves its holder raised | drop `"mutex_delete"` from `GivenBack` |
| `tn_mutex.c:69` | a mutex deleted by two tasks at once is unlinked twice | drop the second guard of `MutexDelete` |
| `fwu_hex_processing.cpp:254` | the overlap test misses the last byte of a chunk and a record that runs into a later chunk; segment and linear base are added, never reset by each other; a non-hex first digit of an address is not noticed; addresses wrap | drop `Disjoint` or `Within` from `ImageIsTheFile` |
| `UsbIoThread.cpp:112`, `UsbIoReader.cpp:63` | the thread tests `TerminateFlag`, then the user sets it and aborts the pipe, then the thread submits a read that nobody aborts: the join waits until the device sends | a property that `Joined` follows `Shutdown`, in `UsbIoLib` |
| `usbfwuDlg.cpp:578`, `fwu_utils.cpp:444` | any arrival of the device ends `wait_for_flag`: if no removal was seen in the session, it goes on with `NowFWLoader` FALSE, the timer that ends an operation is never armed, and Start and the tabs stay disabled until the device is attached again; an end that the timer announces while another tab is in front is lost | read `DeviceArrived`, `TimerEnds` |
| `usbfwuDlg.cpp` timer | the timer may announce the end of an operation before a slow session has ended, and a nested Start begins | `frames` of length 2 in `host` |
| `RegOpDlg.cpp:159` | a file that cannot be opened disables the Start button of the regular operation for good | read `NoFile` |
| `RxPipe.cpp`, `EventRxData` | an event set behind the end of a session makes the next read report "Done." | read `Response` |
| `ReadFWDlg.cpp:197` | when the switch to the loader fails the output file stays open | not modelled |
| `TRegisry.cpp` | relative keys of DeleteKey are resolved at the root; `SetRootKey` reads `CloseRootKey` before it is set | not used, not modelled |

## 5. Proofs

Every theorem holds for all values of the constants under the named assumptions of the
modules, which every run evaluates: `QueueAssumption` (a ring of two or more slots, packets
of at least one word), `DeviceAssumption`, `InfoAssumption` and `PacketAssumption` (sizes are
positive, the flash is a whole number of blocks; any set of lengths and CRCs may be announced
that has those of the images; erased flash and torn programming are no packet of an image), `WriteAssumption` (one buffer or more, counts are numbers), `ControlAssumption`
(a request is in the direction it is for, and data for the device come only with the two
requests that take some; it names the answer it must get, `RequestOK`), `AppAssumption` (the sizes are positive),
`LibAssumption` (finitely many buffers, the one on the stack of `ReadSync` is none of them),
`HistoryAssumption` (no more items than names of two digits), `HexAssumption` (addresses
below the modulus, data are bytes).

**`FwuQueueProofs`: `RxInOrder`, `TxInOrder`, `RxTypes`, `TxTypes`.** Endpoint 2 delivers
every packet whole and in order, for every ring size, packet size and stream length.
`InOrder` speaks of what has been delivered and is far from inductive. The strengthening
says what every slot holds: with the packets delivered numbered up to `Len(out)`, the ring
holds the next `Used` ones in the slots from `tail_cnt` on, the controller the ones behind
them up to `sent`; and the slot being copied, which is *outside* the ring's contents, still
holds the packet before `tail_cnt`'s, its first `cpy` words being in `buf` (`RxIInv`). The
step that needs it is the interrupt's: it writes slot `header_cnt`, and that is not the slot
being copied because the ring is not full. For endpoint 2 IN the slot being filled is
`header_cnt` and has its first `cpy` words (`TxIInv`).

**`FwuQueueProofs`: `RxIsAChannel`, `TxIsAChannel`.** `RxSpec` and `TxSpec` implement
`FwuChannel`, for the same constants. The channel's queue is the ring, oldest packet
first, with the controller's buffers behind it on endpoint 2 OUT; what its reader holds
is the slot `stream_rx` copies from, which counts as held from `fwu_queue_get` until the
copy is complete. By the inductive invariants each of these is a *piece* of the stream, a
run of consecutive packets (`RxView`, `TxView`), so that a step is settled by the two
numbers that bound the piece: `HostOut` and `Put` make it longer behind (`Send`), `Get`
and `EpTxInt` shorter in front (`Take`, `Pass`), `CopiedOut` delivers what was held, and
the interrupt that moves a packet from the controller into the ring, or a word copied,
changes neither number. Four lemmas about pieces carry the argument. The bounds of the
channel (`NumEntries - 1`, and `HwBuffers` more on OUT) are part of what is proved.

**`EndpointProofs`: `AnswersOwnRequest`, `CompletesOnce`.** Whatever requests of the form
`RequestOK` the host begins, gives up or resets, the answer it takes is the whole answer to its own request, and
what it sees completed was executed once. `ControlInv` describes a request from the SETUP
packet on: until the SETUP is read, both buffers are empty and nothing of the request
before is pending, so that what the controller holds afterwards was put there by the
handlers of *this* request (`UnreadIsQuiet`); once it is read, the device has the host's
request, has executed it at most once, and has nothing left to send when it has
(`ServedOnce`); the packet in the IN buffer is the answer (`AnswersAre`). A reset that comes
together with a SETUP packet is served first (`ResetComesFirst`); that is the order of
`fwu_int.c`. As in the property, a SETUP that is served while an IN interrupt is pending
(`late`) is excepted.

**`FwuDeviceProofs`: `DeviceTypeOK`, `DeviceRunsIntact`.** For every size, every set of
images and every host, the queues, the block buffer and the flash accesses stay within
their bounds, and the firmware that runs has the length and CRC of its header, or a length
within the header and the CRC of nothing. The
types are not inductive: `DInv` adds what each point of the main loop knows. The block
buffer is shorter than a block while `stream_rx` collects, a whole block while it patches
the header and writes, and empty elsewhere (`BlockShape`); while `stream_tx` runs, the
length is at most that of the flash and the next packet to read is inside it (`TxShape`).
`RunningIsIntact` is proved on top of it: only `DoSwitchToFirmware` starts the firmware,
and nothing the device does while the firmware runs writes the flash.

**`FwuWriteProofs`: `WriteTypes`, `WriteImplementsDevice`, `WriteRunsImage`.** Each step of
the dialog, its threads, the user and the driver is a step of `FwuDevice`'s host or leaves
the device alone, so `WriteSpec => Spec` with no refinement mapping but the identity, and
what `FwuDeviceProofs` proves for every host holds for this one. `WriteRunsImage` says more
of this host: it announces only images, so the exception of `RunningIsIntact` does not arise,
in any number of sessions. The header may still be half of one request and half of another;
what is inductive is that no length within the header is in the globals, in the block buffer
or in the flash (`Honest`), since images have none and torn flash does not make one.

**`FwuWriteProofs`: the first session.** `DoneMeansWritten`, `WritesOnlyErased`,
`IntactTillErase` are the properties of `write_session`; `FirstRdyStarts` and
`FirstStreamInOrder` are the parts of `RdyStarts` and `StreamInOrder` about one request, and
`NoErrorWithoutFault` adds that the user is shown FW_WR_ERR only when a write failed or
power was lost. They hold for all sizes, with any number of aborts, kills, timeouts, faults
and power losses. `DoneMeansWritten` and `FirstRdyStarts` are about images longer than the
header (`Covered`): of one that is not the CRC says nothing, and a failed write of it goes
unnoticed. The second session is where the departures begin, so the inductive
invariants speak of `sessions <= 1`:

* `FirstInv` follows the one request. From the moment the dialog has sent it, what the
  globals hold is its image (`OneRequest`). The flash behind the block under way is erased
  up to the last sector of the image (`ErasedFrom`), and the header is blank or that of the
  image, depending on whether the first block has been written (`Fresh`): this is what
  makes programming safe and what is not startable before the last block. The messages
  under way are at most one answer and, behind it, one result (`Answers`), so a dialog in
  `waitres` cannot take the answer for the result; and FW_WR_RDY, wherever it is, means
  that the image is in flash (`Rdy => Finished`). A kill or a loss of power inside any of
  this leads back to a state the invariant describes.
* `StreamInv` follows the packets. Those in the driver's buffers, in `queueEP2RX`, in the
  block buffer and in flash are numbered one after the other without a gap (`OrderInv`),
  and what the writer thread has left is what has not been sent (`Progress`); `CopyInv`
  says of the flash that each packet written is the image's unless a fault was injected.
  The difficult steps are `AbortPipe`, which drops packets in the middle of the stream: the
  dialog no longer waits then, and the stream ends by its timeout.

Lengths of blocks are multiples, so half of the lemmas are about `%` and rounding.

**`FwuWriteProofs`: every session that nothing disturbs.** `StreamsInOrder` is
`StreamInOrder` as `write_fair` checks it, for any number of sessions, and
`UndisturbedSucceeds` says that no session shows an error and that a device which has sent
FW_WR_RDY leaves `switch` only for the firmware. The hypothesis `Undisturbed` is that of the
run: no fault, kill or timeout, and images that fit the flash; aborts are counted, and what
is claimed after one is only what `StreamInv` gives. It is needed: after a failed write or an
image that is too long the dialog ends on FW_WR_ERR while packets of the stream are still
with the driver and in `queueEP2RX`, and the next session may find them.

`UndisturbedInv` goes through the places where dialog and device may be, across the border
of two sessions:

* `Calm`, no request under way: queues and buffers are empty and the globals at rest, which
  is what makes the second session begin as the first.
* `Talking`, the dialog waits for the answer or the result: the facts of the first session
  (`OneWrite`, `Copied`, `InSequence`, `Progress`) hold of the request under way, and one
  message at most is on its way to the dialog (`OnlySent`), never an answer of an earlier
  session.
* `Leaving`, the delay before the switch: the dialog ends its session and may have begun
  the next, whose request changes the globals of `fwu_task` but not what the switch starts.
* `Gone` and `TooLate`: the firmware runs, and the dialog is still ending its session or
  waits for the answer to a request that came during the delay.

`Ended` closes the circle: the writer thread leaves with no block pending, so that
the packets of one session are gone before the next can ask.

**`EndpointProofs`: `AppKeepsBlocks`.** For any number of blocks, what is free, queued and
with a task is all of the transmitter's pool, and all but one block at most of the
receiver's. Nobody looks at the result of a send to a queue: a block that finds it full is
lost, which takes all blocks of the pool but those of a full queue, so that none is left to be
lost after it. That a task in a wait gets what the interrupt brings needs that it waits only
while there is none, or while the queue is full (`WaitsForNone`).

**`HostProofs`: `LibIsIdleWhenStopped`.** For every finite set of buffers: when the user
may free them, neither the driver nor the thread has one. `LibInv` says that each buffer is
in the chain, in the thread's list or in its hand, and in one of them once (`OnePlace`); that
the driver has pending only what is listed, and the buffer of `ReadSync` only while that
call lasts (`DriverHasListed`); and that a thread that runs is known to the user or being
joined (`ThreadKnown`). The case that needs care is the thread that ends by itself after
`MaxErrorCount` errors: it drains its list first, as one that is told to.

**`HostProofs`: `WindowCleansUp`.** For every depth of nesting and any number of
arrivals of the device. Handlers that nest share one pipe and one handle, so it is not true
that a handler finds them as it left them, or closes what it opened. What is inductive is
weaker and enough: while the pipe reads, *some* handler is in a place from which stopping it
is still ahead of it, and while the device is open, some handler will close it
(`SomebodyWill`).

**`TnKernelProofs`: `ReadyLists`, `TimeoutListIntact`, `Preemption`, `DeletedTasks`,
`KernelTypes`.** The five properties of the run `kernel`, for any number of tasks and
priorities, any base priorities, timeouts and slices, and any program, under two
hypotheses. `Mutex = {}`: the system has no mutexes, as the example application has none.
`Orderly`: no program uses the services that spoil the lists on a path the code itself
opens (`tn_tasks.c:546`, terminating a sleeping task, and `tn_tasks.c:505`, deleting on
exit a task that may be activated; both are in the table above). The assumption
`ProofsApply` of `MCTnKernel` makes TLC check that the programs of the runs `kernel` and
`kernel_fair` satisfy both, so the theorems speak of what these runs explore.

The proof has three layers.

* *Lists.* `WellFormed` and `Members` walk a list by a recursive function, which is no use
  for an induction over steps. The proof says instead that there is a circle of `n + 1`
  distinct nodes from the head back to it, linked both ways (`IsList`). Adding at the head
  or the tail, removing an entry and rotating set at most four pointers; from these four
  pointers it follows that they make a circle of the entries asked for and leave every
  circle through other nodes alone (`ListAddTail`, `ListAddHead`, `ListRemove`,
  `ListFrame`). Only at the end the walk is shown to meet the entries of the circle, each
  once (`WalkIs`, by well-founded recursion; the circle is no longer than the number of
  nodes that bounds the walk).
* *The functions services share.* For each of `task_to_runnable`,
  `task_to_non_runnable`, `task_curr_to_wait_action`, `task_wait_complete`,
  `change_running_task_priority`, `task_set_dormant_state`, the round robin and an entry
  of the tick, one lemma says what it does to the lists, the bit map and the next task,
  in terms of the set `R` of ready tasks (`Sched(K, R)`): `R` is a parameter because inside
  a service the lists run ahead of the task's state or behind it. The walk of the tick
  and the start of the system are iterations of these (`TickedIs`, `StartedIs`).
* *The invariant.* `KInv` adds to the lists (`Sound`) what a switch needs. Between a service
  and its switch an interrupt may change the next task again, so it is not true that the
  task at "switch" is to be replaced by the one the service chose; true is that whoever
  stands in its own code is ready and as urgent as the next task (`RunsRight`), and is the
  next task when no slices meet terminate (`Exact`). Without slices the next task is the
  first of its list (`First`), which is what makes taking another task out of a list leave
  the next task alone. Time slices rotate the list without the next task, and that is how
  the departure `tn_tasks.c:861` was met: the step of `tn_task_change_priority` could not
  be proved, and TLC then found the behaviour.

All of it is proved with the wait queues of objects in place (`Queues(k)`: for each queue
the sequence of tasks in it), which in `TnKernel` alone stay empty: tasks may stand in any
place of a service or a delete loop (`Spots`), and `OneTask` says of each in which queue it
waits and why. `SchedulerInvariant` is the theorem for the kernel alone; the objects use the
lemmas about the same `KInv`.

**`TnObjectsProofs`: `SemaphoreWaits`, `SemaphoreAnswers`, `EventReleases`, `EventAnswers`,
`DataQueueWaits`, `DataQueueDelivers`, `PoolKeepsBlocks`, `DeletesReleaseAll`,
`ObjectsTypes`.** Nine of the twelve properties of the run `objects`, for any number of
tasks, priorities, flags and blocks, every `max_count` and every length of a data queue.
The other three are about mutexes. `OSpec => []OInv` (`ObjectsInvariant`) is proved on top of
the scheduler's invariant, and the nine follow from it.

The hypotheses name what a program must not do, each because the code goes wrong then, on a
path it opens itself, or because the property cannot be meant; all but the last clause of
`Returns` are departures of section 4:

| hypothesis | what it excludes | why |
|---|---|---|
| `Mutex = {}` | mutexes | the scheduler's invariant is about unchanged priorities |
| `AllCareful`: `Orderly` | what spoils the ready lists | as for `TnKernelProofs` |
| `AllCareful`: `Careful` | `release_wait` of a task that waits for an object; a delete beside services that make an interrupt or a sleeping task preempt it | the released task stays in the object's queue (`tn_tasks.c:773`); the last test of the queue is made with interrupts enabled (`tn_sem.c:68`) |
| `AllCareful`: `QueueCareful` | sending, receiving and deleting a data queue in one program | a sender that comes while the receivers are released is not seen by the delete |
| `NoTimeouts` | a wait for an object with a timeout | a task that times out stays in the object's queue (`tn_tasks.c:773`, the run `sem_timeout`) |
| `Answers` (`SemaphoreAnswers`) | suspending beside the delete of a semaphore | the delete tells a suspended task TERR_NO_ERR |
| `Sends` (`DataQueueDelivers`, `ObjectsTypes`) | terminating beside sending | what the task waits to send is gone with it; nothing else can be meant |
| `Returns` (`PoolKeepsBlocks`, `ObjectsTypes`) | terminating beside `tn_fmem_get`, and suspending beside the delete of a pool | a block on its way to a task that is terminated is lost; a suspended task is told TERR_NO_ERR by the delete and has no block |
| `Returns` | creating tasks beside `tn_fmem_get` | only for the proof: a task is created anew after it was terminated or has returned |

`ProofsApply` of `MCTnObjects` makes TLC check that every program of the run `objects` is
`Careful` and `QueueCareful` and satisfies `Answers`, `Sends` and `Returns`; its waits for
objects have no timeouts. Those of its programs that use no mutex behave as with
`Mutex = {}`, so the theorems speak of what the run explores of them.

* *What every service does, once.* Five kinds of steps cover all services of all objects:
  a task starts to wait (`WaitStep`, `Fallen`), a service hands something to the first
  waiting task (`HandedIs`, `Handed`), a task goes on behind its wait (`SwapStep`), a delete
  releases one task (`TakeStep`, `Turned`), the object is written (`WrittenIs`, `Written`); the
  other steps of a delete are `TestsStep` and `DeleteSwitchStep`. For each a lemma
  says that `Steady` holds again and that only one queue and the tasks of one object are
  touched (`Beside`). `Steady` is `KInv` with `Closing`: a delete that has found no waiting
  task is not preempted before it says so.
* *One invariant per object*, over its data, its queue and the tasks in its services.
  `SemInv`: who has been granted the semaphore is behind its wait with TERR_NO_ERR.
  `EventInv`: a waiting task asks for what the pattern does not fulfil; the scan of the
  queue, an iteration that takes tasks out of the list it walks, releases exactly the ones
  that are fulfilled (`ScanIs`, by induction over the entries). `QueueInv`: the FIFO is a
  sequence (`Stored`), and what has been sent is what waiting receivers were given, the
  FIFO, and what waiting senders hold, in this order. `MemInv`: the free list is a chain of
  distinct blocks, as long as `fblkcnt` says (`FreeChain`), and the blocks are shared out
  among it, the tasks a block is handed to and the application (`Shared`); adding or taking
  a block changes the two ends of a sequence, and the walk of the pointers meets it
  (`FreeListIs`).
* *Side by side.* A step of one object leaves the invariants of the others alone because it
  is `Beside` them (`SemAside`, `EventAside`, `MemAside`, `QueueAside`); a step of the
  scheduler leaves all of them alone (`OtherStep`); a task that is terminated or whose time
  slice ends is the only one that has to be followed into each.

**`HostProofs`: `HistoryKept`.** For every set of texts and every number of items that names
of two digits can tell apart: the next start reads what was kept, in its order, wherever the
program was killed. The key holds consecutive names, each with its text (`Items`). While the
old values are deleted, what is left to delete is exactly what the key has, and is the end
of the old history; while the new ones are written, the key has the beginning of what is to
be kept (`HistoryInv`). That neither order of enumeration disturbs this is a property of the
format `%#2d`: names are in the order of their numbers (`NamesOrdered`, with the blank before
every digit), so that the only rearrangement of such a key that is in the order of the names
is none (`OnlyIdentity`, by induction over the places). The proof also showed that the
property had been written as a CASE whose guards overlapped; it is three implications now.

**`HostProofs`: `ImageRight`.** For all lines a file may hold, and any number of them: the
binary file is the image of the records, when they do not overlap, stay below the last
address and are less than half of the addresses apart (`Near`). The argument has four parts.

* *The search.* Each round of `fwu_list_search` halves a range; what it leaves out on the left
  is below the item and what it leaves out on the right above it (`Around`). So the entry it
  ends at has the item as its neighbour (`Placed`, by induction over the length of the range),
  and `InsertByOrder` keeps the list in the order of the addresses (`InsertsByOrder`).
* *The list.* `HexInv` says that the list is in this order (`Ordered`), that its chunks hold
  exactly the bytes of the records, each at its address (`ListCells`, `FileCells`), that the
  lowest chunk starts where the lowest record does (`Lowest`), and that `curr` is the chunk
  that ends at `prev_mem_addr` (`Current`). Appending a record to the current chunk, or to a
  new one, adds its bytes at its addresses (`FillStep`); that a record follows the last one
  is decided by an address modulo 2^32, and `Within` is what makes the address mean one place.
* *The file.* After `n` chunks the file is as long as its last byte, has the byte of its
  address in each place a chunk covers and zero elsewhere (`Filler`, by induction over `n`);
  every chunk starts where a record does, so that `fseek` reaches it (`NearIs`);
  since no two records have an address in common, which chunk is written last is the same.
* *The image.* The first address of the list is the least of the records', the last byte of
  the file the greatest (`ImageIs`).

Inductions are over numbers, as the least element of a set that has none (`LeastOf`,
`HandedOn`); they define the recursive functions and say what these compute.

**Only model-checked:** `RdyStarts` in the second session of a write after an abort, a kill
or a fault (`write_session`); mutexes (`MutexHolds`, `RaisesChain`), and the other objects in
programs that use mutexes too; liveness (`AlwaysReturns`, `Delivered`,
`AbortEnds`, `WriteSucceeds`, `JoinEnds`, `SleepEnds`), which is out of the prover's reach.

## 6. Not modelled, and why

* Registers, vectors, start-up, stacks: no state the properties are about. Suspend and
  resume of the bus: the code only sets a flag.
* Endpoint 0 of the example application: `tn_usb_req.c` and the handlers in `tn_usb_hw.c`
  are the upgrader's text again; `FwuControl` stands for both. `big_flash_size_imit.c` is a
  table of constants that makes the image large.
* Real time: a timeout may come whenever it is armed. Whether the delay before the
  firmware takes the controller over is long enough for the host to see FW_WR_RDY is not a
  question for this model; it lets the message be lost.
* The USBIO driver and Windows: external, modelled by how the code uses them. The registry
  is taken to enumerate in one of two orders; it promises neither. Calls to it do not fail
  (a failed one shows a message box and loses the item).
* Of the window: the file buttons, the icons, the output file, and `OnDestroy` (closing the
  window while a session runs). Of USBIOLIB: `PnPNotificator` and loading `setupapi.dll`.
  Of the registry class: operations on key trees, which the program does not use. Drawing
  (`EnTabCtrl`, `hlstatic`, `AnimBmp`).
* In the kernel: the timer task, the create list, statistics, and calls the code refuses,
  which change nothing. `fwu_list_sort` and `fwu_list_exchange` are never called.

## 7. Plan

Modelling and proofs follow the plan to its end but for this:

1. **Mutexes in the proofs**: `MutexHolds` and `RaisesChain`, and the theorems about the
   scheduler and the other objects without the hypothesis `Mutex = {}`. The lemmas about
   the functions services share already speak of any priority; a mutex adds the list of
   the holder's mutexes and a change of priority of a task that may wait.
2. **A second session of a write after an abort**: `RdyStarts` for two requests, which has
   to follow packets of the session before through the whole of the next.
