# TLA+ models of esp32sx-c-plus-wrappers

The repository is a set of C++ wrappers around ESP-IDF. Most wrappers forward one
call to the IDF; some keep state of their own, and share it between tasks, callbacks
and interrupts. The models concentrate on those. Paths below are relative to
`src/components/`.

- [Inventory](#inventory): the components, their state, how they interact, what is hard
- [Plan](#plan): the modules and how they are composed, and what is left
- [UsbMsc](#usbmsc-the-mass-storage-driver): state, actions, bounds, fairness, what each run shows
- [SocketServer](#socketserver-the-tcp-server): the same for the socket server
- [USB stack](#the-usb-stack-usbhost-and-usbacm): the host's client task and the ACM driver on it
- [Network](#network-eventloop-and-wifi): the default event loop and WiFi on it
- [Wrappers](#wrappers): eleven wrappers that share nothing
- [Proofs](#proofs): what holds for every instance, and why
- [What is not modelled](#what-is-not-modelled)

`PROJECT.json` is the index: components, runs, seeded faults ("mutants"), the map from
definitions to source lines, findings, hazards and theorems.

## Inventory

### Components with behaviour of their own

| Component | State | Operations | Correct when |
|---|---|---|---|
| USB mass storage, `usb-host-comp/msc/usb_msc.cpp` | `event` (the command whose answers are awaited), `_luns`, `_lun`, `block_count[4]`, `block_size[4]`, `temp_buffer`, `xTaskToNotify`, one static instance | `init` (GET MAX LUN), the chain READ CAPACITY per unit, INQUIRY; `_read10`, `_write10`; callbacks `onCBW`, `onCSW`, `onData`; `mount`, `unmount`, `reset` | the disk sees a CBW, the data and an IN transfer for each exchange, in that order; a call that returns `ESP_OK` has read or written what it was asked to; the enumeration ends with every unit's size recorded |
| diskio glue and volume table, `usb-host-comp/msc/vfs/diskio_rawmsc.cpp` | `ff_raw_handles[FF_VOLUMES]`: drive number to logical unit | `ff_raw_read`, `ff_raw_write`, `ff_raw_ioctl`; `vfs_fat_rawmsc_mount`, `vfs_fat_rawmsc_unmount`, `ff_msc_get_pdrv_raw` | `RES_OK` means done; the table says which drives are mounted, for which unit, and nothing about other drivers' drives |
| USB host, `usb-host-comp/host` | `client_hdl`, `dev_hdl`, `xfer_ctrl` | `init`, `open`, `close`, the client task's event loop, `allocate`, `deallocate` | `client_hdl` is the registered client's or NULL but for the moment between deregistering and clearing it, `dev_hdl` names the open device; after a device is gone the next one is found |
| USB CDC-ACM, `usb-host-comp/acm/usb_acm.cpp` | `connected`, the single control transfer | `setControlLine`, `setLineCoding`, `getLineCoding`, `INDATA`, `OUTDATA`, callbacks | every transfer allocated is freed once, whatever is unplugged |
| Socket server, `socket-server/socket-server.cpp` | `socketfd`, `tcp_sockets`, `task_handle` | `create`, `bind`, `listen`, `start`, `stop`, `accept`, `send`, `close`; a task per connection, each starting the next acceptor | at most one acceptor; every connection served, closed once, and shut down by `stop`; every data buffer freed; CONNECTED, DATA, CLOSE in that order |
| Event loop, `events-comp/event_loop.cpp` | `event_loop`, `default_running` | `init`, `deinit`, `initDefault`, `deinitDefault`, `registerEvent`, `post`, `run` | `ESP_OK` from `initDefault` means that the default loop exists |
| OTA, `ota-comp/ota.cpp` | `update_handle`, partitions, `image_header_was_checked` | `init`, `begin`, `write`, `finish`, `compare` | an image of the last invalid version is never made bootable; every handle begun is ended or aborted once |
| AWS IoT, `aws-iot-comp/aws-iot-comp.cpp` | `client`, `yieldSemaphore`, `last_status`, the internal task | `init`, `connect`, `subscribe`, `publish`, `status`, `updateShadow` | the MQTT client is used by one task at a time; only the holder gives the mutex |
| SNTP, `sntp-client-comp/sntp-client.cpp` | a binary semaphore | `init`, `syncWait`, the synchronisation callback | `syncWait` reports the synchronisation it asked for |
| WiFi, `wifi-comp/wifi.cpp` | `mode`, `esp_netif_ap`, `esp_netif_sta` | `init`, `enableAP`, `enableSTA`, `setMode`, `setAPConfig`, `setSTAConfig`, `start`, `stop`, `connect`, `scan` | what was enabled with success stays on; nothing is on that nobody asked for |
| Ethernet, `eth-comp/eth-comp.cpp` | `eth_handle`, `glue_handle` | `init`, `start`, `stop`, `deinit`, `setConfig` | each round of start and deinit leaves no driver; there is an address or DHCP |
| Tasks, `tasks-comp/tasks-comp.cpp` | `task_handle` | `create`, `remove`, `suspend`, `resume`, `notify`, `take` | every task can be removed through its handle, and the handle names a task that exists |
| Timer, `timer-comp/timer-comp.cpp` | `soft_handle` | `create`, `start`, `stop`, `remove`, the callback | a removed timer is deleted and silent |
| DS18B20, `ds18b20/ds18b20.cpp` | `num_devices`, `max_num_devices`, four arrays | `init`, `search`, `addSensors`, `removeSensors`, `read` | every sensor has its element in all four arrays, and what is allocated for it is freed |
| NVS, `nvs-comp/nvs.cpp` | `my_handle`, `itr` | setters and erasers, `find`, `next`, `release`, `dump` | a dump has a line for everything that was there all along |
| I2C, `i2c-comp/i2c-comp.cpp` | command links | `write`, `read`, `scan` | each call uses a link of its own; only a call that returns early leaves one behind |
| UART, `uart-comp/uart-comp.cpp` | `uart_queue` | `init`, `waitRX`, `read`, `flush` | bytes announced by an event are there |
| Provisioning, SmartConfig, Queue, MQTT, HTTP server and client, JSON, Base64, CLI, tools | a handle at most | one IDF or library call each | |

`FreeRTOS-Plus-CLI` and `jsmn` are vendored; `tests/*` are example applications, and the
USB one only prints descriptors, so nothing in the repository exercises the
mass-storage driver.

### Interactions

- The application calls FatFS, which holds a volume's lock and calls `ff_raw_read` or
  `ff_raw_write`, which call `_read10` or `_write10` on the one `USBmscDevice`. These
  submit transfers to the USB host library and wait for a FreeRTOS notification.
- The client task (`client_async_seq_task`, priority 20) polls the library and runs
  `usb_transfer_cb` for every completed transfer. The callback reads and writes the
  same members as `_read10` and `_write10`, with no lock, submits the next IN transfer and
  wakes the waiting task.
- Socket tasks post to the default event loop, whose handlers call back into the
  server (`send`) and free the buffers the tasks allocated.
- The AWS client and its internal `Task` share a mutex; SNTP shares a semaphore with a
  callback of the TCP/IP task.
- The one default event loop is asked for by whoever comes first: `WiFi::init`,
  `Provision::init`, `registerEventDefault`, the application. `default_running` is tested and
  set without a lock.
- `ff_raw_handles` takes drive numbers from the same FatFS as the SD card's driver.
- The esp_timer task runs a `Timer`'s callback, which may call back into the object
  while another task removes it.

### Hard behaviours

Callbacks that interpret a completion by a member which the next command has already
overwritten; a waiter that registers after what it waits for has started; waits of
20 ms and 50 ms against exchanges of any length; a notification left over from a call
that gave up; two transfers that only make sense together; a device that disappears
at any moment; handles kept after what they name is gone. `PROJECT.json` lists each
one with its line.

## Plan

1. **UsbMsc** (done): the driver's exchanges, enumeration and calls, with the disk and
   the tasks that use it; refines **BlockDevice** (done), the promise of `diskio`.
   Proofs in **UsbMsc_proofs** (type correctness, OUT pipe in step: done) and
   **UsbMscSerial_proofs** (enumeration, one task's calls, the refinement: done).
2. **SocketServer** (done for TCP): acceptor and serving tasks, descriptors that lwIP
   reuses, the event queue and the buffers in it; `stop` racing an accept; refines
   **Sessions** (done), what the event handler may believe of a descriptor. Proofs in
   **SocketServer_proofs** (types, ownership, what `stop` deletes and reaches, buffers: done)
   and **Sessions_proofs** (the refinement: done).
3. **UsbHost** and **UsbAcm** (done): the port, the library and the client task; the ACM
   driver EXTENDS it, so one behaviour has both. Proofs in **UsbStack_proofs**.
4. **EventLoop** and **WiFi** (done): the default loop and the WiFi object that asks for it;
   WiFi EXTENDS EventLoop. Proofs in **Network_proofs**.
5. **FatVolumes** (done), the mount table, against **Volumes** (done), what mounting promises.
   **AwsIot**, **Ota**, **Tasks**, **Timers**, **Ds18b20**, **Nvs**, **I2c**, **Uart**, **Eth**, **Sntp** (done).
   These share nothing; **Wrappers** composes them as a sum. Proofs, among them the
   refinement of Volumes, in **Wrappers_proofs**.

Runs: one passing run for each group of components that interact, plus one per
disagreement between what the code does and what a comment, a doc or a test says of it.

What is left to do: the UDP loop of the socket server; units of different block sizes in
UsbMsc; the buffer of the shared control transfer. Every safety property of a passing run
and both refinements have a theorem. What the theorems could still say more generally:
`ExchangeConservation` and `WriteTruthful` for several tasks of one volume, where exchanges
follow one another although the answer to one may come late.

## UsbMsc: the mass-storage driver

### State and actions

| Variables | In the code |
|---|---|
| `event`, `luns`, `lun`, `capacity`, `temp_buffer`, `xTaskToNotify` | the members of `USBmscDevice`; `capacity[l]` stands for `block_count[l]` and `block_size[l]`, `temp_buffer` names the task whose buffer it points to |
| `outPipe`, `inPipe`, `completed`, `noMem` | the USB host library: OUT transfers not yet taken by the disk, the number of IN transfers posted, completed transfers whose callback has not run, allocations that failed |
| `pc`, `cmd`, `buf`, `reply`, `notified`, `slow`, `ready` | the application tasks: the place inside `_read10`/`_write10`, the command, the caller's buffer, the last return value, the pending FreeRTOS notification |
| `phase`, `current`, `left`, `disk`, `asked` | the disk (external): the phase of the bulk-only protocol and what is stored |

One callback is one action: `OnCBW`, `OnMaxLun`, `OnCapacityStatus`, `OnInquiryStatus`,
`OnTransferStatus`, `OnInquiryData`, `OnCapacityData`, `OnReadData`, `OnOtherData`. A
callback runs at priority 20 on the client task and other tasks see its effects through
the pipe only after it has submitted its transfer, so it is atomic. `usb_transfer_cb`
tells transfers apart by length and signature, then by `event`; the actions are guarded
by exactly that: the kind of the oldest completion and the current `event`.

A call is several actions, cut where another actor can see it or be seen by it:

- `Read10` (buffer, event, CBW), `Read10Csw` (the IN transfer), `Read10Notify` (only now
  `xTaskToNotify`), then `NotifyWaitTaken` or `NotifyWaitExpired`. `Read10Retry` is the
  recursion for a CBW that the pipe refused.
- `Write10` (event, CBW), `Write10Data`, `Write10Csw` (`xTaskToNotify` and the IN transfer),
  then the same wait.

Transfers on one pipe complete in order, and the library hands completions to the
client in order; the two pipes and the callbacks interleave freely. A transfer that
times out is not cancelled by the code, and in the model it stays where it is.

`Unplug` completes every outstanding transfer empty; the callbacks then take them for
data, as the code does. `Allocate(ok)` lets an allocation fail where the code goes on
afterwards. `MayCall` is the lock FatFS holds for each volume; `LunOf` says which
volume a task uses. The data-in buffer is reduced to one value per block, since
every copy in the code moves one whole block.

### Runs

| Run | Instance | Shows |
|---|---|---|
| `msc_base` | one task, two units, two blocks of two contents, reads of one sector, writes of up to two, unplug at any time; a wait expires only when the exchange is dead | the invariants and the refinement below, and that enumeration and calls get done |
| `msc_faults` | two tasks on one volume, a disk that refuses writes, one wait that expires although its exchange still runs | stale completions and notifications mix into later calls, still the OUT pipe stays in step and every call returns |
| `msc_multi_sector` | `msc_base` with reads of two sectors, unplug off | `ReadTruthful` is violated |
| `msc_stale_notification` | one wait may expire early | `ReadTruthful` is violated |
| `msc_two_volumes` | two tasks on two volumes of one disk | `WriteTruthful` is violated |

Properties:

- `PipeInSync`: the disk finds a CBW where it expects one, and behind the CBW of a write
  the data of that write.
- `ExchangeConservation`: as many exchanges unfinished as IN transfers posted, about to be
  posted by a task, or held by a callback that posts the next. It counts across the
  tasks, the client task and the disk; one `_csw()` too many or too few breaks it.
- `ReadyMeansEnumerated`: when `inquiry_cb` lets the application mount, every unit has
  its own capacity.
- `ReadTruthful`, `WriteTruthful`: `ESP_OK` means that the caller's buffer and the disk agree,
  for as long as the task makes no other call.
- `ImplementsBlockDevice`: the driver refines `BlockDevice`. A task inside a call has a request
  pending, otherwise its last answer stands; stores are the abstract steps that change
  the disk.
- `EnumerationCompletes`, `RequestsSucceed`, `RequestsReturn`: liveness while the disk
  stays plugged in. `RequestsSucceed` covers a read only when `xTaskToNotify` already is the
  reading task: before that its status may come when nobody is registered and the
  wait expires although all went well.

The three violations are disagreements between the code and what `usb_requests.hpp:84-85`
says the two commands do; each counterexample is a short schedule of the driver's
own steps. A seeded fault per property (the definitions whose names end in
`_<lowercase words>`) shows that the property notices.

Two tasks on one volume are left out of `msc_base` because the same stale-registration window
makes `ReadTruthful` fail there: the status of one task's read may notify the other.

### Bounds

Two units give an enumeration with a first, an inner-to-last step and both edges of
`_lun < _luns`; two blocks and writes of one or two let a block be outside, at the edge
of and inside a request; two contents tell old from new. `MaxSlow = 1` is enough for one
stale exchange to meet every step of a later call. `MaxBacklog` bounds the transfers of
abandoned exchanges when a new call begins; with a larger value the model grows and
shows the same steps. `MaxNoMem = 0` in the passing runs: an allocation failure between
the CBW and the data of a write leaves the disk waiting for data (`usb_msc.cpp:286`), which
`PipeInSync` catches, as the hazard list says.

Deadlock checking is off: an unplugged disk, or a backlog at its bound with every task
idle, leaves nothing to do.

### Fairness

Weak fairness of the client task (an endless loop with one-tick timeouts at priority
20), of the disk (it answers) and of a task inside a call (FreeRTOS schedules a ready
task). No fairness for beginning a call or for unplugging, and none that makes a wait
expire before the exchange is over: `NotifyWaitExpired` is only forced by
`AppTask`'s fairness once nothing else can happen in the exchange.

## SocketServer: the TCP server

### State and actions

| Variables | In the code |
|---|---|
| `socketfd`, `tcp_sockets`, `task_handle` | the members of `Socket`. `tcp_sockets` is a set: the vector may name a descriptor twice, which a second `shutdown` does not tell |
| `app`, `walk` | the application's task: what it has called, and what `stop()` has still to shut down |
| `pc`, `sock`, `client`, `noTask` | each `socket_task`: its place in `accept()` (`poll`, `delay`, `connect`, `start`) and in the receive loop (`recv`, `data`, `end`, `close`), `socketfda`, the connection behind it when it was accepted, and how often `xTaskCreate` has failed |
| `owner`, `link` | lwIP (external): what each descriptor stands for; each client's connection: `away`, in the backlog (`waiting`), `open`, `ended` by the client, `shut` by `stop()` |
| `queue`, `handling`, `heap`, `late` | the default event loop: events posted, the data packet whose handler runs, data buffers allocated, posts that gave up |
| `told`, `missed` | history: which connection the handler knows under each descriptor; connections `stop()` could not see |

A task is cut where it blocks or can be seen. `Accept` is a successful `::accept` (the
polls that fail change nothing); `Push` comes after `vTaskDelay(10)`; `OnConnect` posts;
`StartNext` creates the next acceptor and stores its handle, in one step because
`xTaskCreate` stores it before the new task can run. Then `RecvData`, `OnData`, and at
the end `RecvEnd`, `OnClose`, `Close` in the code's order. `stop()` is `Stop`, one `StopShutdown`
for each descriptor, `StopDelete` (`vTaskDelete`, `erase`), `StopClose`. The handler is that of
`tests/socket-server`: `Dispatch` hands it an event, `Echo` is the end of `send()` and `free()`.

What the code leaves undefined is a choice. A `push_back` while `stop()` iterates may move
the vector: then `walk` becomes any set of descriptors. `vTaskDelete` of a task that has
ended corrupts the heap: the model stops in `corrupted`; with a NULL handle the
application's task deletes itself (`deleted`) and the others go on. The heap may
hand out the control block of an ended task again, hence tasks are reused.

### Runs

| Run | Instance | Shows |
|---|---|---|
| `socket_base` | two clients, three descriptors, three tasks, a queue of two; nothing fails; the server is started and stopped for ever; symmetric in clients and tasks, all properties being safety properties | the invariants below, and that the server refines `Sessions` |
| `socket_faults` | two descriptors (one client at a time), a queue of one, one post that gives up, one failed `xTaskCreate` | descriptors keep their owner; liveness where nothing failed |
| `socket_echo` | `socket_base` with a queue of three | `EchoReachesSender` is violated |

Properties:

- `OwnDescriptor`: a task uses and closes only the descriptor of the connection it
  accepted, although lwIP reuses descriptors and `stop()` works on numbers.
- `AcceptorIsHandle`: whoever is inside `accept()` is the task `task_handle` names, and the server
  is running. So there is one acceptor, and none after `stop()`.
- `StopDeletesLiveTask`: `stop()` never deletes an ended task, nor its caller.
- `StopReachesAll`: after `stop()` every connection it found in service is shut. The exceptions
  are exact: a connection pushed while `stop()` ran, and those whose descriptor the
  moved iterator skipped. Closed descriptors never leave `tcp_sockets`; that makes the
  list too long but never too short.
- `BuffersAccounted`: data buffers are with a posting task, in the queue or with the
  handler; nothing else holds one, as long as no post and no task creation fails.
- `ImplementsSessions`: from its CONNECTED to its CLOSE a descriptor names one connection, and
  data of that connection only comes in between. CLOSE does not say whose it is: it
  works because it is posted before the descriptor is closed.
- `ClientsAccepted`, `DeparturesTold`: a client in the backlog of a running server does not
  wait for ever; the end of a connection in service is told.

`EchoReachesSender` is what the handler of the test wants from `packet->sockfd`: that the
answer goes to the client the data came from. While a data event waits, or while its
handler prints or blocks in `send`, the client may leave, its task closes the descriptor
and the next client gets it.

### Bounds and fairness

Two clients are enough for a descriptor to change hands and for a stale number to
name somebody else; a third would only repeat the second. A client reconnects only
when no event of its last connection is under way, so the model tells connections
apart by client. The three descriptors and tasks of `socket_base` are what two clients, a
listener and an acceptor can occupy, and neither can run out; in `socket_faults` the table can be
full. A queue of two lets events of two connections wait together.

Weak fairness of each task, of the event loop's task (so peers read what is sent to
them: a peer that never reads blocks the handler and with it the whole loop) and of a
`stop()` that has begun; strong fairness of posting, since FreeRTOS wakes the tasks that wait
for room in a queue in turn. Clients and the application are free to do nothing.

## The USB stack: UsbHost and UsbAcm

### State and actions

| Variables | In the code |
|---|---|
| `client_hdl`, `dev_hdl` | the members of `USBhost`; a handle is the number of its client or device, 0 is NULL |
| `pc`, `hdl`, `flags` | `client_async_seq_task`: `client` is `usb_host_client_handle_events`, `lib` is `usb_host_lib_handle_events`, `free` the loop around `usb_host_device_free_all`, `deregister` the branch of the other flag, `forget` its second line; its copies of `client_hdl` and `event_flags` |
| `client`, `clients`, `device`, `events`, `libFlags`, `claimed` | the USB host library (external): who is registered, the one device it knows (`idle`, `open`, `gone` or `closed`), messages to the client, flags not yet returned, claimed interfaces |
| `plugged`, `plugs` | the port; a device is numbered by the plug that brought it |
| `object`, `connected`, `ctrlDev`, `ctrl` | `USBacmDevice`, and its one `xfer_ctrl`: `idle`, `flying` or `done` |
| `flying`, `done`, `leaked`, `allocated` | the transfers of `INDATA` and `OUTDATA` by direction: submitted, completed with the callback still to run, refused and never freed; all that the library has given out |

The task's loop is cut where the library can act in between: `LoopTop` copies the handle,
`OnNewDevice` and `OnDeviceGone` are `_client_event_callback` with `open` and `close`,
`ClientEventsDone` and `LibEventsDone` the returns of the two IDF calls, then `FreeAllSpins`,
`Reinstall` (`init(false)`) and, by the other flag, `Deregister`, whose result the code ignores, and
`ForgetClient`, one line each (`usb_host.cpp:56-57`): in between `client_hdl` is the handle of a client that is gone, and
what other tasks ask for with it the library refuses. The library only works while the task
is inside `usb_host_lib_handle_events` (`pc = "lib"`); the port changes at any time. ACM callbacks
run where the client's events are handled (`pc = "client"`). `Submit` is `allocate` and
`usb_host_transfer_submit`, refused when the device is gone, the interface is not claimed, or
an IN length is not a multiple of the packet size (`INDATA` rounds to the OUT endpoint's).

### Run and properties

`usb_stack`: two plugs, IN and OUT endpoints of one packet size, one transfer under way in
each direction, one leaked.

- `DevHandleIsOpen`: whenever a device is open, or gone and not closed, `dev_hdl` names it, although
  `dev_hdl` is never cleared and the next device may come before the old one is closed.
- `ClientHandleIsRegistered`: outside the moment between those two lines `client_hdl` is NULL or the registered
  client's, and the copy the task took at the top of its loop is not stale where the task uses it.
- `TransfersAccounted`: what the library gave out equals what is in flight, waits for a callback,
  leaked, or belongs to a ready object: each callback frees exactly one, across unplugs.
- `DeviceServed` (liveness): a device that stays plugged in is opened. `Lost` lists the exact ways
  this fails: the task spins in `usb_host_device_free_all`, whose events only that task would
  handle; both flags came in one iteration and the client just registered by `init(false)` was
  forgotten, or its deregistration was refused; or the application kept its interface claim, so `close()` was refused.

Two plugs are enough for a device to arrive while the one before is still in each of its states,
and for the client to be deregistered and registered anew in between; a third meets the same
states. Fairness: weak fairness of the library and the client task, which is an
endless loop at priority 20. None for the port, the application or the transfers. Deadlock
checking is off: with the plugs used up the port has nothing more to do.

## Network: EventLoop and WiFi

| Variables | In the code |
|---|---|
| `default_running`, `defaultLoop`, `asking` | the static member, IDF's loop, and each task's place inside `initDefault()`: between its test of the flag, the creation and the assignment other tasks run |
| `promised`, `deleted` | history: `initDefault()` returned `ESP_OK`; `deinitDefault()` was called |
| `mode`, `driverMode`, `wifiDriver` | the object's copy of the mode, the driver's, and the driver's state |
| `esp_netif_ap`, `esp_netif_sta`, `connecting` | the interfaces (`setSTAConfig` creates an AP where the station should be: `sta` may be `ap`), and whether the station connects |
| `granted`, `asked` | history: interfaces enabled with `ESP_OK`, and those anybody asked for |

`InitWiFi`, `EnableAP`, `EnableSTA`, `SetMode` take the step that `fails` as a parameter: everything before it
is done, everything after it is not. `setMode` assigns `mode` before the driver answers. One task
calls `WIFI` (the tests have one); the others are inside `initDefault()` meanwhile.

`network`: two tasks inside `initDefault()` and `WiFi::init` as a third caller.

- `DefaultIsThere`: after an `ESP_OK` there is a default loop, whoever tested, created or found no memory in
  which order; until `deinitDefault()`, which leaves `default_running` set (listed as a hazard).
- `EnabledStaysOn`: an interface enabled with success stays on in the driver until `init()` or `setMode()`;
  and none is on that nobody asked for, although the next mode is computed from a copy
  that may be ahead of the driver.

A third task inside `initDefault()` only repeats what the second does: all that a task sees of
the others are two flags. There is nothing to say about progress: every call returns.

## Wrappers

`Wrappers` is the sum of eleven modules. They share no variable, no lock and no task in the
code, so any behaviour of all of them together is, seen from one of them, a behaviour of
that one with stuttering; `component` says which one moves, and the states checked are the
sum of theirs and not the product. `OneInitialState` keeps the others from multiplying
initial states.

| Module | State and cut |
|---|---|
| **FatVolumes** | `ff_raw_handles`, whose initialiser sets the first entry only; FatFS's drives (`driver`, `unitOf`) and the VFS (`pathOf`). A mount that fails gives its drive back and leaves its entry. Another driver takes and returns drives |
| **Tasks** | `task_handle` against the FreeRTOS tasks that exist, wait, are suspended or notified. One application task creates; it and the loops remove, line by line: `remove` (line 46), `DeleteTask` (48), `ClearHandle` (50). With an external stack (`createStatic`) the task runs before `StoreHandle`, and NULL is stored when there is no memory |
| **AwsIot** | the internal task (`take`, `use`, `give`) and callers; a take that times out goes on and gives all the same. A give by a task that is not the holder stops the chip (`asserted`) |
| **Ota** | the object (`update_handle`, `image_header_was_checked`), esp_ota's open handle and `progress`, two slots, `boot` and the boot loader's rollback. An image is a version in two pieces, of which the first carries it |
| **Ds18b20** | `num_devices`, `max_num_devices` (8 bits, scaled to `Width`), the room of each array; `f` is the allocation that fails; `infos`, the elements whose `DS18B20_Info` exists: any of them may be missing |
| **Nvs** | the namespace as a log, where setting a value moves it to the end; `itr`; a dump step by step (`NextEntry`, `PrintEntry`), other handles writing in between; a getter fails on a closed handle, a key that is gone and a string or blob longer than the 128 bytes (`fits`), and an empty line is printed |
| **I2c** | the command links that exist, and for each caller its link and how far it is: `CreateLink`, `ReturnEarly` or `RunLink`, `DeleteLink`; a scan does so for each address |
| **Uart** | ring buffer, the interrupt's stash, the event queue; `flush` in its two steps |
| **Timers** | the esp_timer, its callback, and `remove` in its two steps. Besides the callback one application task uses the timer, and it does not call `remove()` before the destructor does: a second one would delete the handle of a deleted timer |
| **Eth** | the round init, start, stop, deinit of the test with the step that fails; drivers installed, the glue; DHCP and address of `setConfig`. After a start that installed nothing `stop` and `deinit` follow all the same, with the handles of the round before: `deinit` deletes a glue twice, or one never set, and the heap aborts (`none`) |
| **Sntp** | the semaphore, the SDK's status that reading clears, `init` in two steps (the second empties the semaphore), `syncWait` in three steps for each task |

The run `wrappers`:

- `MountedReachesUnit`: a drive FatFS reads through is served by the unit it was mounted for.
- `VolumesUnlessMisled`: mounting and unmounting refine `Volumes` (a map from paths to units, and the drives of
  others), with steps exempt in states where `Misled` holds: a lower entry that names no
  mounted drive has the unit of a mounted one. There `unmount` frees the wrong drive; it happens
  with the code's own initial table, where entries 1 and up read as unit 0.
- `TasksAccounted`: a task nobody can remove, now or once its handle is stored, is one over which `create()` was
  called, or whose `create()` raced with a `remove()`; a handle of no task is that of one that deleted itself, or a
  `remove()` has come to the line that clears it.
- `OneUser`: two tasks are inside the SDK's client only if one of them never asked (`connect`) or its
  take timed out. `YieldsGoOn` (liveness): the internal task comes to its yield again and again.
- `RolledBackRefused`: the update of the first `begin()` after a rollback, on whatever object, never boots the
  version that was rolled back, whichever writes fail. Later ones are not covered: on a fresh object an update
  is accepted once an aborted one has erased the slot that `compare` looks at. `ota_rolled_back_again` shows that the second one on the same object can
  (`RolledBackNeverBoots` is violated): `image_header_was_checked` is never reset, against what
  the messages in `ota.cpp:127-132` say.
- `SensorsHaveRoom`: the elements that `read()`, `getTemp()` and the loops that free visit lie inside all four arrays,
  and every `DS18B20_Info` that exists is at one of them, whichever allocation fails.
- `LinksAccounted`: however the calls of several tasks interleave and fail, each builds and deletes a link that exists
  and is its own, and the links that nobody has are those of calls that returned early.
- `DumpComplete`: a dump begun without an iterator prints a line for every entry that is there throughout: the value
  if the handle is open and the value fits, and empty otherwise.
- `AnnouncedIsThere`: outside `flush` the buffer holds what the queued events announce. In the other order of
  `flush`'s two steps a reader would wait for ever.
- `RemoveRemoves`: `remove()` leaves a timer only if its callback started it in between.
- `EthReleased`: no driver outlives a round that `deinit` ends, whichever step of `start` failed, unless there was
  no memory for a glue; after a `setConfig` that said so there is an address or DHCP.
- `ReportedOnce`: `syncWait` never reports one synchronisation twice, over any mix of tasks, timeouts and callbacks.

Bounds: three drives and three units let an entry left over lie before, at and after the drive in use;
two callers and the internal task give every pair of users; two versions tell the rejected one
from another, and three updates give a rollback, a refused update and the one after it;
`Width = 8` makes the 8-bit count wrap within three additions, with up to three sensors on the bus;
two tasks on three links, scanning two addresses, let a link be created anew while another
is in use or lost, and let all be lost; a log of three with two keys, one of them a text, lets a value move behind
the iterator and a string be too long; two tasks created let one replace the other; a ring of four with chunks of two overflows; two waiters
and three synchronisations let a token, a status and a timeout cross.

Fairness (`AwsFairness`): weak fairness of SDK calls returning (they have timeouts) and of gives; strong
fairness of the internal task's take: callers take and give the mutex in between, and FreeRTOS
hands it to the waiting task of highest priority. The other components have no
liveness property and no fairness. Deadlock checking is off: each component may reach its
bound and stop.

## Proofs

`UsbMsc_proofs` holds two theorems, for every set of tasks, assignment of tasks to volumes,
number of units up to four, blocks, contents and bounds allowed by `DiskAssumption` and
`HostAssumption`.

`TypeCorrect == Spec => []TypeOK`. `TypeOK` is not inductive alone: that the disk
reads inside its blocks needs the number of transfers left to be positive in the data
phase (`LeftOK`). `TypeInv` is the conjunction; the lemmas follow the structure of `Next`, one per
actor, with one step per action.

`OutPipeInSync == ASSUME OneVolume, MaxNoMem = 0 PROVE Spec => []PipeInSync`. The
assumptions are those under which it is true: `msc_two_volumes` shows how it fails with two
volumes. Early expiries (`MaxSlow`), refusals and unplugging are unrestricted. The
invariant `SyncInv` says

1. `OneCaller`: one task at a time is inside a call, and none before the enumeration's
   last command has been sent. Without it the steps of two writes could interleave.
2. `RetryGone`: a read is only retried when the disk is gone.
3. `PipeFits`: in the OUT pipe each write CBW is followed by its own data and everything else by
   a CBW (`InOrder`); the first transfer is what the disk's phase expects (`FirstFits`);
   and the last one is a write CBW, or the disk is in the data phase with an empty pipe,
   exactly when a task is between its two submissions (`LastFits`). `PipeInSync` only talks about the
   first transfer; what becomes first was second, hence the order of the whole pipe,
   and what is appended depends on the last, hence `LastFits`.

Both invariants were checked by TLC on the instances of `msc_base` and `msc_faults` before they were
proved.

`UsbMscSerial_proofs` holds five more about the driver. It names the stages of one exchange as
what is in the pipes, on the disk and in the callbacks' queue: for a read `Asking`, `Answered`,
`Ending`, `Ended`; for a write `Owing`, `Writing`, `WriteEnded`; and `Nothing`. Lemmas say to which
stage each step of the disk and of the client task leads (`ReadingDisk`, `ReadingData`, `ReadingStatus`,
`OwingDisk`, `WritingDisk`, `WritingClient`), and where a disk that is pulled out leaves it (`Cancelled`).

- `EnumerationRecorded == Spec => []ReadyMeansEnumerated`, with no assumption on tasks, memory or time. `EnumInv`: until
  `ready`, exactly one exchange is under way, for the unit `lun`; all units below have their
  capacity, and so has `lun` itself from the data on. A CSW that could not be posted for want of
  memory leaves the enumeration stuck and nothing recorded wrongly; the transfers an unplugged disk cancels are not
  taken for statuses (`NoStatus`), so they let no unit be skipped.
- `ReadsReturnTheDisk` (`ReadTruthful`), `WritesReachTheDisk` (`WriteTruthful`) and `ExchangesConserved`
  (`ExchangeConservation`), for one task and as long as `Calm`: no wait has ended before its exchange and no
  allocation has failed. `Calm` is part of the formula, not an assumption on the bounds:
  behaviours that stop being calm are covered up to there. `SerialInv(t)`: a plugged disk has one exchange under way, in the
  stage that `event` and `pc[t]` name; a notification is only pending when its exchange is over and has achieved
  its command (`Done`); an unplugged one has at most callbacks left that are no status, or those of an
  exchange that had ended (`StatusLeft`). It needs `EnumInv` for the exchange the first call follows.
- `BlockDeviceImplemented == ASSUME Tasks = {t}, MaxRead = 1, ~Rejects PROVE Spec /\ []Calm => ImplementsBlockDevice`, the
  refinement: one lemma per abstract action says which step of the driver it is (`CallMaps`, `StoreMaps`, `SucceedMaps`,
  `FailMaps`, `StutterMaps`), one lemma per actor that each of its steps is one of these. `Called(t)` adds that a
  task inside a call has a request of FatFS.

The assumptions are those the runs that expect a violation show to be needed: a second task, or a wait that ends
early, lets a notification wake the wrong call (`msc_stale_notification`, `msc_two_volumes`); two-sector reads
overwrite their first sector (`msc_multi_sector`). For a write that the disk refuses (`Rejects`) the driver
returns `ESP_OK` all the same, since the CSW's status is never looked at. TLC checked `EnumInv` and `SerialInv` first: on the
instance of `msc_base` completely.

`SocketServer_proofs` holds seven, for any number of clients, tasks and descriptors, any queue,
and any number of failed posts and task creations (`ServerAssumption`; `TasksAssumption`: the tasks are finitely many,
so that those holding a buffer can be counted):

- `TypeCorrect` and `DescriptorsOwned == Spec => []OwnDescriptor`, from one invariant. `OwnInv` says that a
  task which has accepted holds a descriptor that lwIP gave to its client and a connection
  that is not `waiting` or `away` (`Holds`); that no two tasks hold one client (`Apart`), which is why
  descriptors differ; and that `socketfd` belongs to the listener (`Listening`), which is why
  `stop()` closes nobody's connection. `Accept` preserves it since a waiting client is held by nobody.
- `AcceptorKnown == Spec => []AcceptorIsHandle`: inductive as it stands, given types. A new
  acceptor only starts where there is none or where the old one moves on.
- `StopSafeUntilNoTask == Spec => [](noTask = 0 => StopDeletesLiveTask)`, and from it `StopSafe` for
  `MaxNoTask = 0`: by `ExistsInv`, the running server has an acceptor behind `task_handle`. One failed `xTaskCreate` breaks it: on the instance of
  `socket_faults` TLC finds `stop()` deleting its caller.
- `StopComplete == Spec => []StopReachesAll`: `ReachInv` follows a connection from `tcp_sockets` to what is
  left of it in `walk`; it needs `OwnInv` to know that the shutdown of another descriptor
  leaves the connection alone, and `AcceptorIsHandle` to know when a push can happen.
- `NoBufferLost == Spec => []BuffersAccounted`: the sum of three counts is carried through each step by `BufInv`;
  `OneHandled` says that the handler has one event at most. `stop()` can only delete a task without a buffer,
  the acceptor, which `AcceptorIsHandle` and `ExistsInv` provide.

`Sessions_proofs` holds the refinement, `SessionsImplemented == Spec /\ []NoneLate => ImplementsSessions`, for the same
constants. `NoneLate` says that no post has given up: `told` and the tasks then never disagree for good. The invariant `SessionInv`
describes the whole queue: there is a `Story`, what the handler will know after each event still to be
dispatched, in which every event fits what is known before it (`Tells`), and which ends where the tasks are now
(`Consistent`). A post adds the last chapter and a dispatch takes away the first. That CONNECTED
names a descriptor the handler believes free needs `OneFd`: a connection owns one descriptor at most, even after
its task was deleted.

`UsbStack_proofs` holds three, for any number of plugs, lengths, packet sizes and transfers:

- `HandleNamesDevice` (`DevHandleIsOpen`) and `ClientHandleKnown` (`ClientHandleIsRegistered`): the second needs
  that while the flag NO_CLIENTS stands the task holds no copy of a handle, so that the reinstallation leaves no stale one
  (`ClientInv`); the first with the types of `device` and `plugs` (`DevHandleInv`). `open` is what gives a device its handle, and the library knows one device at a time.
- `NoTransferForgotten` (`TransfersAccounted`): `AccountInv` adds that the counters are natural numbers; `Submit`,
  completion and callback each move one transfer between two summands.

`Network_proofs` holds two, for any set of tasks inside `initDefault()`:

- `PromiseKept` (`DefaultIsThere`): `AnswersTrue` extends the promise to what tasks are about to act on: an answer
  `ok` or `exists` that a task holds and has not yet stored, and `default_running` itself, are true as long as
  nobody calls `deinitDefault()`.
- `EnabledKept` (`EnabledStaysOn`): `ModeInv` says that what was granted is also in the object's `mode`, or the next enable
  would drop it, and that `mode` holds only what was asked for, because it is what the driver gets next.

`Wrappers_proofs` holds twelve. `WrapperSteps` says that a step of the sum is a step of one component or
leaves it alone; each invariant is then proved of that component's own `Next`.

- `TableReachesUnit` (`MountedReachesUnit`) from `TableInv`, which adds types. `MountingImplementsVolumes`
  (`VolumesUnlessMisled`) is the refinement, initial state and every step: `PathsApart` (no two mounted drives share a
  path or a unit) makes the path determine its drive, so the map of the abstract state is well defined; what
  `unmount` frees is then the drive of its path or one without a path.
- `TasksKnown` (`TasksAccounted`): `TaskInv` adds what each place of a `remove()` knows: whoever clears the handle has
  deleted its task, or the handle is that of a task created meanwhile (`raced`); and whose handle is still to be
  stored while a `remove()` is under way.
- `LinksConserved` (`LinksAccounted`): inductive with the types and that only a call between creating and deleting has a
  link (`I2cInv`).
- `OneUserUnlessUnlocked` (`OneUser`): `HolderInv` says that whoever went in by the mutex and is still inside
  holds it; a stray give stops the chip rather than taking it away.
- `FirstUpdateRefused` (`RolledBackRefused`): `FirstAttempt` follows the update of the first `begin()` after a rollback. Before its first piece
  the slot still holds the version that was rolled back and is the invalid one (`Untouched`), so `compare`
  looks at the right version; afterwards what is in the slot is not that version.
- `ArraysHoldSensors` (`SensorsHaveRoom`): `SensorInv` bounds the counts by their width, and before `init()` no `DS18B20_Info` exists.
- `EthRoundsRelease` (`EthReleased`): `EthInv` says what each phase of the round owns: a driver and its glue, or neither.
- `SyncsReportedOnce` (`ReportedOnce`): a synchronisation is reported or still marked `completed`, never both (`SyncInv`).
- `DumpPrintsAll` (`DumpComplete`): `DumpInv` says that what has been there throughout is printed, or about to be, or lies after the
  iterator; it needs that a key has one entry at most (`OnePerKey`), since the getter goes by the key. A value that is set again goes to the end of the log and is no longer "there throughout".
- `TimerRemoved` (`RemoveRemoves`): between its two steps `remove()` has the timer disarmed, or the callback armed it (`TimerInv`).

- `AnnouncedBytesStay` (`AnnouncedIsThere`): the recursive sum is carried along as one of its running sums
  (`RunningSums`), which every step extends, shifts or lowers as a whole; `SumsAgree` shows by a least place of difference that
  there is no other, so it is the sum the property takes. While `flush` is between its two steps nothing is claimed, and
  outside a read nothing is wanted (`UartInv`).

Only model-checked: liveness and everything under fairness (`EnumerationCompletes`, `RequestsSucceed`, `RequestsReturn`,
`ClientsAccepted`, `DeparturesTold`, `DeviceServed`, `YieldsGoOn`), which is beyond TLAPS, and the states outside a
theorem's hypotheses: `PipeInSync` with a failing allocation is false, as the hazard list says.

## What is not modelled

Of the driver: units with different block sizes (the code mixes `block_size[0]`,
`block_size[lun]` and `block_size[_lun]`), a disk with more than four units or one that stalls
GET MAX LUN, `reset()` on the control transfer that the callback has freed, the
user callbacks other than `inquiry_cb`, allocation failures that dereference NULL,
`format()` and `_unitReady()`, whose bodies are commented out, and the CSW's status and
tag, which the code never reads (`Rejects` lets a disk refuse a write all the same).

Of the socket server: the UDP loop and multicast, socket options, `bind` failing with
`EADDRINUSE`, `socket()` failing because other components hold the descriptors, and sockets
of other components that `stop()` shuts down by a stale number. The order and the contents of
data are abstract: a packet is the connection it came from.

Of the USB host: several devices or hubs, string and configuration descriptors, the getters. Of the ACM
driver: the buffers' contents, so also what rewriting the control transfer under way does to it.

Of the event loop: the loop of an object, whose `init`, `deinit`, `run`, `post` and registrations are one IDF call each.
Of Tasks: the stack and the buffer of a static task, which nobody frees, and more than one task that creates. Of WiFi: the getters, power
and protocol settings, host names. Of I2C: the slave, `begin()`, what the links
send, so also which register a device is left at. Of UART: writing, baud rate and pattern
detection. Of Timer: the hardware timer, which is one register access per method. Of AwsIot: certificates
and configuration; `disconnect`, `onDisconnect` and `onSubscribe` are empty.

Not modelled at all, each for the reason in `PROJECT.json`: WiFi provisioning, SmartConfig, MQTT, HTTP server and client
(the state machine is the IDF's, the wrapper forwards), Queue (a NULL guard around each FreeRTOS call), JSON, Base64, CLI
and Tools (formatting, coding or single calls without state), and the vendored `FreeRTOS-Plus-CLI` and `jsmn`.

Hazards without a property: `reset()` on the freed control transfer (nothing calls it), block sizes that differ
between units, the stranded connection and leaked buffer of a stopped acceptor, the handle that `deinit()` of a
loop keeps, and I2C registers from 128 on, which an `int8_t` cannot say. Only the stranded connection is in a model; for
the last three nothing in the repository promises anything else. Where a property exempts the wrong outcome of a hazard
it is named for, the hazard's note says so.
