# Verification of the HSYS framework and the ferp-com firmware

`ferp-com` is the communication controller of a fuel dispenser: an ESP32 (and a macOS
simulator of it) that reads transactions from pumps, posts them to a cloud, keeps on an SD
card what it cannot post, takes commands and firmware images over MQTT and HTTP, and
prints. It is built on HSYS, a small framework of modules that talk only through a message
bus. This directory holds TLA+ models of the parts of that program where interleavings,
failures and restarts decide whether it is right, the TLC configurations that check them,
and proofs for TLAPS.

Paths below are relative to the repository; `fw/` stands for
`src/sub-modules/hsys-framework/`, `mod/` for `src/app-modules/`, `mw/` for
`src/sub-modules/middleware/`.

Contents: 1 inventory, 2 how the parts interact, 3 modules and code, 4 runs, 5 bounds, 6
fairness, 7 proofs, 8 what does not hold, 9 what is not modelled, 10 plan.

## 1. Inventory

| part | state it keeps | operations | what makes it correct |
|---|---|---|---|
| message bus (`fw/hsys_msg.cpp`, `hsys_module.cpp`) | slab of 32 headers, each with `ref_count` (8 bits), receiver and payload; subscription table | create, publish, send, wake, subscribe, unsubscribe, release, dispatch | a header and its payload live exactly as long as somebody refers to them; a message reaches every subscriber once; headers come back |
| buffer pool (`fw/hsys_pool.cpp`) | one arena cut into size classes, a free list for each | init, alloc, free | no block is handed out twice, buffers never overlap, the counts are exact, the smallest block that fits is taken |
| task manager (`fw/hsys_task_mgr.cpp`) | task table, an inbox for each task, three barrier counters | create, the three start-up phases, the dispatch loop, enqueue, wake | no phase begins before the one before is over; every task reaches its loop |
| OS port (`src/sub-modules/hsys-os`) | mutex, queue, event group, software timer, on FreeRTOS and on macOS | wait, notify, timeouts | no lost wake-up |
| list manager (`mw/list-manager`) | files of lines by date and sequence number, a table of days with totals and read positions, a metadata file | init, add, peek_next, ack | the counters agree with the files, whatever power cut falls between two storage calls |
| retransmission (`mw/retransmission-manager`, the retx part of `mod/module_cubesphere`) | the post in flight and its read handle, "last send failed" | store, try to send, result, the minute tick | a transaction is consumed only when the cloud confirmed it, and is posted in the end |
| OTA manager (`mod/module_ota`) | session state, owner, target, deadlines | start, driver request, progress, complete, abort, tick | one writer; only a whole image is announced as complete; every session ends |
| web server (`mod/module_web_server`) | upload state shared between HTTP thread and bus handler, semaphores; the HTTP-to-bus bridge | upload start, chunk, complete; post_message; wait for an answer | an answer belongs to the request that waits for it |
| MQTT (`mod/module_mqtt`) | connection, OTA state, outbound messages | OTA commands and data, answers, disconnects | the same, across two threads without a lock |
| web OTA client (`mod/module_web_client_ota`) | state of a check and a download | check, download, abort on lost network | a late result is not taken for a new one |
| HTTP client (`mod/module_http`) | one session, its owner, a worker thread, an idle timer | start, execute, stop, expire | one owner at a time, every request is answered once |
| CubeSphere (`mod/module_cubesphere`) | registration, config session, a queue of live events, the HTTP phase | register, heartbeat, post | it never waits for an answer that cannot come |
| timer module (`mod/module_timer`) | slots, one-shot and periodic | start, stop, tick | no expiry after a stop; a period is not skipped |
| fuel and pumps (`mod/module_fuel`) | one state machine for each nozzle, totalizers | poll, start, stop, transaction | a transaction is reported once, with the right amount |
| printing (`mod/module_printing`) | the last transaction and the waiting job of each nozzle, the active job | button, transaction, delay over | a request it posts is of one job, whole |
| configuration (`mod/module_config`) | fields, the file they are kept in | get, set, load, save | what was read back after it was saved stays |
| device information, time, network, translator, log, storage, buttons and LEDs, codecs, tables, PAL | see `PROJECT.json` | | mostly conversions or device input and output |

`PROJECT.json` lists every part with its sources, its status and, for what is not
modelled, the reason; under `hazards` it lists, each at its line, what in this code a test
would hardly reach, with the properties that watch it.

## 2. How the parts interact

Eight tasks (`product/ferp-com-main/app/app.cpp:737`) each run the modules bound to them:
the dispatch loop takes a pointer to a header from the task's inbox and gives it to every
bound module that subscribed. A handler runs to its end before the next message of that
task; handlers of different tasks run concurrently. Besides the tasks there are threads of
the platform (MQTT client, HTTP server, timers, the button interrupt) that call the bus
too. Nothing else is shared between modules, with four exceptions, which is where the hard
behaviour is: the OTA driver handed from one module to another and used from the HTTP and
the MQTT thread; the fields the web server's and the MQTT module's bus handlers share with
those threads; the SD card under the list manager; and the settings file, which the
configuration module writes in its task and `POST /api/config` in the HTTP thread, without
a lock between them.

The cloud side adds a third kind of traffic: CubeSphere, printing and the web OTA client
share the one session of the HTTP module, each by its own sequence of messages and
answers, and every module that waits for time asks the timer module, whose callback runs
in a thread of its own.

Hard behaviour: fan-out of one reference-counted pointer while receivers already release
it; full inboxes and an empty slab; a start-up barrier that is compared outside its lock
while tasks are still created; power cuts between two storage calls; asynchronous posts
whose answer arrives after the table under their handle was shifted; answers that arrive
after the wait for them has ended, or that belong to the request before; timers that are
stopped, restarted and ring in three threads; a display with too few digits for the price;
a watchdog that ends a session its source still uses; requests, deletions and writes whose
result nobody looks at.

## 3. Modules and the code they model

**HsysMsg** - the bus, with each task's inbox and dispatch loop. `hdr`/`used` is
`s_header_pool`/`s_header_used`, `subs` is `s_sub_table`, `queue` the inboxes, `disp`
where each dispatch loop is, `call` and `rel` where each thread is inside a bus function
and inside `hsys_msg_release`. A step is one critical section, one queue operation, or one
write to a header that another thread may hold. The payload pool is the set of blocks
`HsysPoolSpec` promises; its block sizes play no part. The de-duplication of subscribers
by task is nondeterministic in which one stands for a task (table order). `hist` is
history: who is owed a message, who got it, and whether a send to a full inbox lost it.
`Owed` says who can count on a publish: every subscriber, but of a message whose
descriptor says `HSYS_MSG_DIRECT` only a sole one, because the fan-out rewrites
`receiver_id` for each target while those already served read it. The product publishes
such messages (`app.cpp:479-483`, `ModuleMqtt.cpp:617`), and so does the instance,
`MCHsysMsg`.

**HsysPoolSpec, HsysPool** - what `hsys_pool.h` promises, and the pool: the carving loop
of `hsys_pool_init` (`Base`), the free lists as stacks with their stale entries (`fl`,
`cnt`), the watermark, `hsys_pool_alloc` (`Alloc`, `AllocFails`) and `hsys_pool_free`
(`Give`, with its address range test and its guard against a full list).
`HsysPool!Promise` is the abstract specification under the refinement mapping `Blocks`,
`Capacity`, `lent`, `ret`. `MCHsysPool` gives the instance.

**HsysTaskMgr** - `hsys_task_mgr_create` in the main thread (`Register`, `Spawn`, their
failures) against the barrier of each task (`Bump`, `Compare`, `SetBits`, then the event
group). `Atomic` chooses the port: FreeRTOS tests and blocks in one step, the macOS port
in `FindClear`, `Sleep`, `Notify`, `SpuriousWake`.

**ListManager, Retransmission, RetxQueueSpec** - `ListManager` has one handle, the card
under it, and the steps of `list_mgr_add` and `list_mgr_ack` cut at every storage call, so
`PowerCut` may fall between any two; `Retransmission` is its client, the asynchronous post
of `module_cubesphere.cpp`, and closes the system. `RetxQueueSpec` is the first-in
first-out queue the documents promise. The history variable `torn` names the dates that
met one of four accidents (a power cut between a file operation and the metadata write; a
line added after the unfinished last file was drained and deleted; an acknowledgement
through a stale handle; a date that comes back); the invariants are about the other dates.
Deletions may fail, which the code ignores: of the files of an expired day it goes on to
the first that it cannot delete. `undeleted` names the files that stay for that reason,
until one of their name is written or deleted.

**OtaSession, OtaWebUpload, OtaMqtt, OtaUpdate** - the OTA manager with the drivers of
both targets; the web server's and the MQTT module's upload handlers as two of its
sources; and their composition, in which the shared network task, the HTTP thread and the
MQTT thread interleave. `sess` is `_state`, `_active_source_id` and `_active_target`;
`inbox` and `task` are the network task's; `dev` the driver contexts and the files;
`web.pc` and `mqtt.pc` where the two other threads are. `Faults` chooses what may go
wrong. A deletion of the display board's file may always fail, at the opening and after an
abort; the image then begins behind what is `left` in the file. Time is abstracted: a
deadline may pass when nobody works on the upload, and at any moment with `"silent"`; a
wait of 5 s may end unanswered when nothing of that source is in the inbox, and at any
moment with `"late"`.

**HttpClient, WebOtaClient, Printing, HttpSessions** - the HTTP module and two of its
clients. `http` is its one session (owner, what it was opened for, the parts of the
request that were set and by which job), `asks` its inbox, `timer` its idle timer whose
callback runs elsewhere, `mail` what each client has not read yet. A request that carries
an image streams it into the driver of `OtaSession`, which `HttpClient` extends.
`WebOtaClient` is the third source of updates: the interval, the targets in turn, the
check, the OTA session, the download. `Printing` has the last transaction of each nozzle,
the job that waits for its delay and the job that is posted; the answers of the HTTP
module are mailed to it and dropped, since `init` subscribes to none of them
(`module_printing.cpp:64-72`, `hsys_module.cpp:181`). `HttpSessions` closes the system
with four interleaving tasks; `MCHttpSessions` gives the order of targets. The tick of the
interval (30 s at least) comes through the same queue as the answers: what an earlier
attempt left in `inbox` has been read by then, except with `"slow"`.

**TimerModule, PumpDisplay, Fuel, FuelStation** - `TimerModule` has the slots, the
messages queued for the service, and the callback that takes a snapshot of what is due
under the lock and sends the alarms outside it (`tick`), so that the module woken may run
before the slot is released. A request that finds the inbox full is dropped, as the code
does that ignores the result (`Ask`); `missed` names the requesters whose last request was
dropped or whose new timer was released in place of the old one. `PumpDisplay` is the
arithmetic of `_process_data` in all six pump drivers (`Total`, `Accepted`) and of the
identifier of a transaction (`NeId`). `Fuel` is the module: frame queues, nozzle switches,
the pass of `on_wake`, and of each nozzle the two state machines of the driver
(`ValueStep`, `NozzleStep`) with the counts and snapshots they use. `FuelStation` adds
customers, the display, the debounced switch and the clock.

**CubeSphere, CubeStation** - the whole state machine of `module_cubesphere.cpp` on top of
`TimerModule`: `cube` holds its fields, `retx` those of the retransmission, `link` how far
its HTTP session is. Each handler of the code is an action; helpers that change fields are
operators from a state of the module to the next (`StartsNext` for `_start_next_event`,
`TrySend` for `_retx_try_send_one`), since a handler chains several of them. Here the list
on the card is a sequence; `ListManager` has its detail. `CubeStation` is its
neighbourhood: sales, wifi, internet, card, the HTTP module, timers.

**Config, DeviceInfo, WebApi, Settings** - `Config` has the table of settings, the file
and the three steps in which SPIFFS replaces it; `DeviceInfo` the table of device values
with its permissions, in the same task; `WebApi` the bridge that turns a POST into a
message and the first message with the expected identifier into its answer, in two
threads, whoever asked for that message: values are broadcast, and the web server gets the
answers to others and what is written meanwhile. It is also the second writer of the file:
`POST /api/config` reads the file, merges, deletes and writes in the HTTP thread, between
any two steps of the other. `Settings` is a browser in front of them, with a tool and the
cloud module beside it, and power cuts. `MCSettings` gives the permissions.

An operator described as a *variant* is a changed form of the definition it stands next
to, as a plausible slip in the code would have it; the property named for it in
`PROJECT.json` (`mutants`) is then violated. No specification uses a variant.

## 4. Runs

| run | what it asks | states | result |
|---|---|---|---|
| `bus` | two threads, one inside a handler, publish a note with a payload and a message whose descriptor says direct, send to one module and wake one, against inboxes of length one, while a subscriber leaves and comes back: reference counts, use after free, payloads, delivery to all and at most once, no header lost but by a send to a full inbox | 994 k | holds |
| `bus_live` | every header a publish takes comes back | 4.7 k | holds |
| `pool` | every sequence of allocations and releases on three classes; refinement of `HsysPoolSpec` | 36 k | holds |
| `start` | three tasks start while others are still created, creation may fail, macOS event group | 28 k | holds |
| `retx_faults` | three transactions, three dates, power cut at any step, failing appends, deletions and metadata writes, busy session, midnight during a post | 313 k | holds |
| `retx_live` | every stored transaction is handed out in the end | 3.7 k | holds |
| `retx_drained` | a line stored after its day was drained is never found | | violated |
| `ota` | three uploads by two sources for two targets, failing driver calls and deletions, lost connections, clients that vanish; every session ends | 368 k | holds |
| `cloud` | two clients of the one HTTP session: receipts, checks and downloads for two targets in turn, requests that fail, a connection that is lost at any moment | 2.0 M | holds |
| `fuel` | two sales at a nozzle, up to a price for which the display has rolled over, misread frames, alarms that find no room, requests for a timer that are dropped, a callback preempted between an alarm and the release | 3.0 M | holds |
| `cube` | registration, three sales, retransmission, an HTTP module that may be busy, lost answers, wifi and internet that come and go, requests for a timer that are dropped | 2.8 M | holds |
| `web` | two requests or posts of a browser and one message of a tool or the cloud module, a power cut at any step of the file system, two writers of one file, late, missing and foreign answers, failing saves | 1.0 M | holds |

The violated statement is the comment "Peek Next: Returns next unprocessed line"
(`mw/list-manager/list_manager.h:69`): a line stored after the day was drained falls into
a file whose index peek has passed. `PROJECT.json` (`findings`) has the details.

**The properties of the bus.** `RefCountExact`: `ref_count` equals the number of holders
(the call that owns the message, subscribers counted but not yet queued, inboxes, dispatch
loops, releases about to decrement). `NoUseAfterFree`: a slot that is referred to is never
handed out, and one thread frees it. `PayloadAlive`: whoever reads a message finds its
payload, and two messages share none. `DeliveredToAll`: when a header is freed, nobody is
still owed it (`Owed`). `AtMostOnce`: no module is given a publish twice. `NothingLeaks`:
a header in use has a holder or is being freed; the one exception is named, a direct send
to a full inbox (`lost`). `HeadersComeBack`: without direct sends every header returns to
the slab.

**Of the pool.** `NoBlockTwice`, `CountsExact`, `BuffersDisjoint`, `Promise`.

**Of the start-up.** `BarrierHolds`: whoever is past a barrier, every task that existed
when it was opened has finished the phase. `CreatedEnterLoop`: every task created gets to
its loop, unless a thread could not be created or the port lost a wake-up.

**Of the store.** `QueueExact`: counters, files and what was stored agree, and the index
arithmetic of peek finds every line. `ConsumedWasSent`. `NoOrphanFiles`: no file outlives
its last line or its day, but those whose deletion failed and, of an expired day, those
after it. `FifoUntilTorn` (it implements a queue), `EventuallyHandedOut`.

**Of the updates.** `CompleteIsWhole`: what is announced as complete is one whole image,
meant for that target; ahead of it in the file there is at most what a failed deletion
left. `PartialRemoved`: a file nobody writes is absent or whole, unless a restart cut it
or its deletion failed. `OneWriter`, `AcceptedIsGranted`, `EndsItsOwn`, `SessionsEnd`.

**Of the HTTP session and its clients.** `RequestIsWhole`: what is executed consists of
parts that were all set by one client for one job, although each arrives in a message of
its own and sessions expire in between. `CheckIsOfSlot`: an update is asked for only after
a check of that target, although the client takes whatever result comes first.
`CompleteIsWhole` as above, for streamed images. `OtaGoesOn`: the web OTA client never
waits for an answer that will not come, nor the HTTP module for a timer that does not run.
It replaces a liveness property: the code has no other remedy, so a state in which nothing
is under way is a state it never leaves. For printing no such property is left (section
8).

**Of the fuel module.** `WatchdogRuns`: while a transaction is not over, something will
wake the module, unless its last request for a timer came to nothing (`missed`).
`PumpedIsSold`: what is published is a sale that is over, with the exact volume and price,
once, in order. `SoldIsPumped`: no sale is forgotten.

**Of CubeSphere.** `CubeGoesOn`: it waits for an answer exactly when one is due, and
otherwise a timer runs, with the same exception. `SaleConserved`: every sale is in exactly
one of queue, post, list, cloud and lost. `NoOrphans`: a sale and its totalizer stay
together in a queue that may fill up.

**Of the settings.** `ReadBackSurvives`: a value ModuleConfig has answered with, when
memory and file agreed, is there after any restart, until its key is set or posted again;
what a cut, a load or a post finds incomplete is lost, and excepted.

## 5. Bounds

- Bus: two managed tasks, one with two modules (the least for de-duplication), one foreign
  thread, one module bound to no task; one id with a payload and one direct id, both
  published, the second to two subscribers of different tasks one of which comes and goes,
  so that it has two subscribers and one; two headers and two blocks, inboxes of one. Two
  headers are enough for one to be reused while another is in flight; an inbox of one
  makes every enqueue meet a full one. `Slots` makes headers and blocks interchangeable,
  which they are: no action looks at which slot it takes. `bus_live` has one block, so
  that allocation fails too, no direct sends and no subscriber that leaves.
- Pool: three classes with five blocks, requests that fit one class each and one that fits
  none; every fall-back and exhaustion occurs. The theorems need no bound.
- Start-up: three tasks (one waits, one opens, one is late). `MaxTasks` is the code's 16;
  a table with more rows than that is the branch a queue failure takes as well. The safety
  theorem needs no bound on the tasks.
- Store: two lines to a file (500 in the product), two tracked days (7), three dates, so
  that files roll over, days expire and dates come back; one power cut, which may fall at
  every step; sequence numbers to 3 (1 in `retx_faults`, enough for all three transactions
  on one day). Dates are interchangeable there (`Symmetry`), since the store compares them
  for equality only. `Unusable` makes one record one that cannot be sent.
- Updates: two chunks to an image (a first and a last), uploads to three (one interrupted,
  one that meets its remains, one after); the inbox needs no bound since each source has
  at most one request under way.
- HTTP sessions: two targets and three checks (each target has its turn, and one again),
  three uploads of two chunks, one nozzle with two sales and two presses (the second finds
  the job of the first active).
- Fuel: one nozzle (nozzles share nothing but the pass), the driver `sanki`, a unit price
  of 300 rupees and portions of 20 l, so that the second portion of a sale takes the price
  to 12,000 rupees, over what six digits can show; one frame in the queue and one request
  in the inbox of the timer service; the delays are counted in units that keep their order
  (`Settle <= Quiet <= Late < Short`).
- CubeSphere: a queue of three (four in the product, two entries to a sale), so that the
  second sale does not fit whole; three sales, one at a nozzle that is not configured; one
  other event; one request in the inbox of the timer service.
- Settings: two keys with two values, so that a post may name both, one or none; two
  requests of the browser (a set or a post, and a read), one message of another, an inbox
  of two (full with two messages), one power cut. Keys are interchangeable (`Symmetry`).

Nothing but counters of events (uploads, checks, sales, presses, requests, cuts) is
capped; each cap is a CONSTANT named `Last...` or `Max...`, and stands in the guard of the
action it bounds.

## 6. Fairness

- Bus: a thread inside a bus call goes on (nothing there waits without a bound), a
  dispatch loop is not starved, and a handler returns, however often it calls the bus:
  strong fairness, because each call disables its return for a while. The code asks
  handlers to be non-blocking.
- Start-up: weak fairness of the main thread, strong fairness of each task's steps,
  because the event group's mutex may be taken by another each time a task looks.
- Store: the card and the HTTP module answer, the minute tick comes, `SdReady` comes;
  strong fairness that the cloud in the end accepts a request posted again and again.
  Without it nothing could be said about delivery.
- Updates: each thread gets time and the tick comes every second. A client need not do
  anything: one that does nothing for ever is one that has vanished, which is a step.
- The runs `cloud`, `fuel`, `cube` and `web` state no fairness: that their modules go on
  is an invariant in the first three (something under way, or a timer that runs).

## 7. Proofs

TLAPS checks eight modules. None of their theorems bounds anything TLC has to bound; each
rests on the assumption named in the module it is about, which TLC evaluates on the
instances.

**HsysMsgProofs** (from `BusAssumption`: one binding per module, at most 255 subscribers
to a message, finitely many threads and modules): `BusTypes`, `BusRefCounts`
(`RefCountExact`), `BusNoUseAfterFree`, `BusPayloadAlive`, for every number of tasks,
threads, headers and blocks and every subscription table. None of the three is inductive:
that the count equals the holders is kept by an enqueue only if the inbox does not hold
the header already, and that depends on the de-duplication of publish. `IInv` adds, header
by header (`HeaderInv`), that while its creator has not handed it over nobody else refers
to it, that only one thread is in a call with it, that a fan-out serves no task twice and
has not yet served those it still counts, and that one thread frees it; `PayloadInv` says
the same of its block. Each step moves one reference from one holder to the next
(`OwnerMoves`, `OwnerLeaves`, `NextTargetStep`, `LoopMoves`) or drops one
(`ReleaseDecrementStep`), and concerns one header: the others keep theirs (`KeepsHeader`,
`KeepsPayload`).

From the same assumption follow `BusDeliversToAll` (`DeliveredToAll`), `BusAtMostOnce`
(`AtMostOnce`, an action property) and `BusNothingLeaks` (`NothingLeaks`), for published
and sent messages, direct or not. The argument of the delivery: a module that is owed a
message is *due* it in one place, which is the fan-out that has not reached its task, the
inbox of its task, or the dispatch loop that has not passed it (`Due`, `DeliveryInv`). A
message is given only to a module that is due it, and then it is not any more; and while
somebody is due it there is a reference. Of a direct message somebody is owed,
`receiver_id` names the one who is, from the fan-out on (`Aim`): it has one target, so
that nothing rewrites the field. `LostInv` is about the references: a header in use has a
holder, is being freed, or was sent directly to a full inbox, which is the one loss
(section 8).

**HsysProofs**, first part (from `PoolAssumption`: block counts and sizes of the classes):
`PoolTypes`, `PoolPartition` (`NoBlockTwice`), `PoolCounts` (`CountsExact`),
`PoolBuffersDisjoint` and `PoolKeepsItsPromise`, the refinement of `HsysPoolSpec`. The
argument: blocks of different classes lie in disjoint address ranges, so the class the
range test of `hsys_pool_free` finds is the block's own, and what lies on top of a free
list is a block nobody has. `PoolInv` is the types, `NoBlockTwice`, `CountsExact` and
`Housed`: what was asked of a block fits into it.

**HsysProofs**, second part (from `TaskMgrAssumption`): `StartTypes` and `StartBarrier`
(`BarrierHolds`). The argument: the counter of a phase is the number of tasks that
finished it, and `s_task_count` is never less than the tasks that exist, so a task that
finds them equal sees all of them finished, although it compares outside the lock. `IInv`
is `TypeOK`, `Creation`, `Counting` and `Opening`.

**FuelProofs**, first part (from `DriverAssumption`), for every volume and unit price:
`SankiWrapsExact`: that driver recovers the exact price from six digits, unless they are
all zero; `ExactStays`: running the driver again on its own result changes nothing;
`AcceptedIsNear`: what any driver accepts is right or less than a rupee too low;
`OthersRejectLarge`, `RolledOverToZero`: what the drivers do above the range of the
display (section 8); `NeIdUnique`: two transactions with the same identifier happened at
the same second and nozzle code. These are facts of the operators alone: the quotient of
the price by the display's range is named and the division replaced by its bounds.

**FuelProofs**, second part (from `TimerAssumption`, `FuelAssumption` and
`StationAssumption`), for every set of nozzles, number and size of sales and all delays:
`FuelPublishesSales` (`PumpedIsSold`), `FuelForgetsNone` (`SoldIsPumped`) and
`FuelWatchdogRuns` (`WatchdogRuns`). The first two assume `Steady` (no frame is lost and
no nozzle is lifted before its last sale is over, the faults `"slow"`, `"quick"` and
`"idle"`) and `PricesShown`: the unit price is one a pump shows, and no total shows six
zeros. `RolledOverToZero` is why: such a sale is published with a hundredth of its price.
`NozzleInv` goes through a sale at one nozzle, by the state of the driver: which of the
queued frames are of this sale, that each is exact or will be refused, and that what the
driver keeps is a reading of this sale or still of the last. For the watchdog `WatchInv`
follows the last request to the timer service: unless a pass runs or the request was
missed it is a start, and it is in the queue, in a slot, in the callback's list, or has
woken the module. That needs no assumption on frames and customers, nor on when the
callback is preempted.

**CubeProofs** (from `CubeAssumption` and `TimerAssumption`), for every number of sales,
every length of the queue and every set of unconfigured nozzles: `CubeSalesConserved`
(`SaleConserved`), `CubeNoOrphans` (`NoOrphans`) and `CubeKeepsGoing` (`CubeGoesOn`), with
no fault excluded. A handler takes the module from one value to the next through several
helpers; `Whole(c, r, conf, gone, n)` says of values that each of `n` sales is in one of
the places, that queue entries come in pairs, and that the phase agrees with what is
posted. Each helper takes whole values to whole values, and the step of each handler is
the chain of its helpers. `CubeGoesOn` needs besides that the timer covers each state in
which nothing is awaited: it runs, is asked for, has rung, or was missed (`Covered`).

**HttpSessionsProofs** (from the assumptions of the five modules it is composed of; no
task falls behind timers of several seconds, `"slow"`): `SessionsRequestIsWhole`,
`SessionsCheckIsOfSlot`, `SessionsCompleteIsWhole` and `SessionsOtaGoesOn`, for every
number of targets, slots, uploads, chunks and nozzles. Each theorem is named after its
property. The inductive invariant describes the conversation of each client with the HTTP
module by its stages (`PrintTalk`, `OtaTalk`): a request for a session is queued, the
session is open and the parts of the request are on their way, it was refused, it is
executed, its result is queued. A stage says what the client remembers, whose session it
is, which messages of the client are queued and in what order, and which parts are set.
The web OTA client may have forgotten a conversation when the connection was lost: then a
stage may run to its end without it, and at most one stale result is before the answer to
its next request. The properties read off the stage; the proof is that a step of one
client moves its own conversation by a stage and leaves the other's alone. With the
session manager at most one message is on its way (`SessTalk`), and what is in a target is
a prefix of one upload's image, whole when the session is complete (`DevTalk`). Of
printing, which sends its whole request at once and reads no answer, a stage says only
what is queued and whose session it is.

The attempt to prove `CompleteIsWhole` showed that an earlier form of the model was wrong
in a way the run could not show with two checks: the interval was allowed to pass while an
answer of the session manager, asked for by an attempt long given up, was still unread,
and two checks later it was taken for the answer to a new request. The interval is a
message of the same queue; the model now says so.

**SettingsProofs** (from `ConfigAssumption` and `SettingsAssumption`, with no fault
excluded): `ReadBackStays` (`ReadBackSurvives`), for every set of keys, values and items,
any number of requests, posts and power cuts, and any failing step of the file system. It
is not inductive. `IInv` relates five copies of a setting, the one in memory, the one in
the file, the texts that the configuration module and the web server are about to write,
and what was promised: each copy holds what is promised, and memory is what the file holds
unless they are known to be `apart` (`SavedInv`); and nothing is handled before the
settings are loaded (`BootInv`). The hard case is a post that overlaps a save: it carries
the values of the file it read, which memory may have left behind; but promises are made
only when memory and file agree, and no new ones while a post is under way.

**OtaProofs** (from `OtaAssumption` and `FaultsAssumption`, and `Timely`: the faults
`"late"`, `"silent"` and `"race"` are excluded, since with each of them some of what is
proved is false, as section 8 says), for every set of targets, every number of chunks and
uploads, any interleaving of the three threads, failing writes, lost connections, vanished
clients and restarts: `UpdateCompleteIsWhole` (`CompleteIsWhole`), `UpdatePartialRemoved`
(`PartialRemoved`), `UpdateOneWriter` (`OneWriter`), `UpdateAcceptedIsGranted`
(`AcceptedIsGranted`), the action property `UpdateEndsItsOwn` (`EndsItsOwn`),
`UpdateNeverNull` and `UpdateTypeOK`. None is inductive, and no part of `IInv`
(`UploadsInStep`) is without the others. It goes through the stages of each source's
upload: the start is asked for, granted, the driver asked for, the file opened, written,
closed (`WebInv`, `MqttInv`). A stage says which one request or answer of the source is in
the inbox (`Sole`, or none: `Quiet`), whether the session is the source's for this upload
(`Own`), and what the semaphores hold. Only the target of an active session is open, and
its image is what the session's source has written so far (`Opens`); what is closed is
absent, whole, cut by a restart or left by a failed deletion (`Left`). What makes the
stages hold against stale messages is an order: what a source says when it gives an upload
up is queued before the request of its next (`Before`, `Ordered`, `Fits`), so an end that
OtaModule reads is never that of an earlier upload than its session's. OtaModule, the two
sources and the restart each move one source by a stage; that the other source stays where
it is follows from `Mine`, what of the inbox concerns it.

This attempt also corrected the model: after a tool had vanished and its upload had been
refused, a new tool could begin only with an abort, which the code does not ask for; and
the handler of the session's answer was written as a CASE whose conditions overlap, of
which TLC takes the first but nothing can be proved. The properties hold as before.

**RetxProofs** (from `ListAssumption`, with no fault excluded), for every set of dates and
events, every length of a file and of the table, any number of files and of power cuts:
`StoreTypes`, `StoreQueueExact` (`QueueExact`), `StoreConsumedWasSent`
(`ConsumedWasSent`), `StoreNoOrphanFiles` (`NoOrphanFiles`) and `StoreIsQueue`
(`FifoUntilTorn`), that the store implements `RetxQueueSpec`. The properties count over
days and files; the invariant (`IInv`, `StoreInStep`) does not. It says of each day
outside `torn` and of each of its files which lines that file holds, as a function of the
row's two counters: all that belong to it until the row has passed them, all or none after
that, since a deletion may fail (`FileOK`, `Passed`, `LinesIn`). `PairOK` adds that the
write position counts the lines of the newest day; `CardOK`, that the table on the card
has each such day once; `Confirmed` and `Flight`, that what the counters have passed was
sent, and what is to be acknowledged too. Between a file operation and the metadata write
the two tables differ in one row; a power cut there puts that row's day into `torn`, and
on every other day the tables agree (`AgreedDay`).

For the refinement, what a reader would be handed is a concatenation over a table from
which rows may leave, so it is first shown to be a function of the table and the log alone
(`Queue = QueueOf(Table, log)`, `Queued`). The concatenation of the community modules is
handled through the function that defines it (`Stages`) and by the least number for which
a claim would fail (`Least`, `Strong`), which needs no induction theorem. Then each step
moves the queue as a queue moves: `AppendQueue` adds at the end, `QueueTake` takes the
first, `NewDayQueue` drops the oldest day's, `QueueAgree` says a cut between tables that
agree moves nothing. That it is the line in flight that is taken, and no other, is
`OrderInv`: events are numbered as they come (`Fresh`), and the line handed out is the
first left of the oldest day that has one (`Handed`), until it is acknowledged or its day
is torn.

## 8. What does not hold

Reported by a run: `retx_drained`. The other statements below are defined in the modules,
or hold only because the passing run excludes the fault named; to see one fail, name it as
INVARIANT or PROPERTY in a copy of the configuration and change the constant as said.

**Bus** (`bus.cfg`). A published message whose descriptor says `HSYS_MSG_DIRECT` and that
has subscribers in two tasks may reach only the last of them, or none if that one's inbox
is full: the fan-out writes `receiver_id` for each target into the one header
(`fw/hsys_msg.cpp:362`), and the dispatcher passes over whom it does not name by then
(`hsys_module.cpp:182`); of two subscribers in one task the second is always passed over.
The product publishes such messages (`app.cpp:479-483`, `ModuleMqtt.cpp:617`).
`DeliveredToAll` therefore owes them to a sole subscriber only; with `Owed(id, S) == S` it
is violated. `hsys_msg_send` to a full inbox returns without releasing header and payload
(`fw/hsys_msg.cpp:391`): `NothingLeaks` without its exception is violated, and with direct
sends `HeadersComeBack`; in the end the slab is empty and nothing can be published (TLC
then reports a deadlock).

**Start-up** (`start.cfg`): `LoopAfterAllPhases` (a task that is created early may enter
its loop before later ones exist); `AllWoken` with `Atomic = FALSE`
(`mac_os/hsys_event.cpp:33-39` sets the bit without the mutex and a waiter between its
test and its sleep misses the notification); with `"task"` among `Failures` the tasks that
compare while the failed one is still counted wait for ever.

**Store** (`retx_faults.cfg`): `AckedWasConfirmed` ("Acknowledge only after the HTTP
response confirms success", `module_cubesphere.cpp:900`): when a transaction with a new
date is stored while a post is in flight, the days move and the acknowledgement consumes
another transaction (`list_manager.cpp:389`). `TotalsSurvive`: a power cut in the middle
of the metadata write leaves it empty (`MaxCuts = 1`). A file that cannot be deleted is
ignored (`list_manager.cpp:175`, `:411`) and stays on the card with lines that are
nobody's; of an expired day the files after it are not tried. `InProgressMeansLive`: after
a busy session `_retx_in_progress` stays set and no post is tried again until another
result clears it. `DayZeroFirst`: the comment says the newest day first, the code takes
the oldest.

**Updates** (`ota.cfg`): `UploadSlotFreed` with `"vanish"` (`m_ota_busy` is not cleared
when a browser goes away, `ModuleWebServer.cpp:645`; web uploads are refused until the
restart). With `"late"`: `AcceptedIsGranted` and `CompleteIsWhole` (a start request whose
answer came after 5 s leaves the semaphore given and the session pending; the next upload
passes on that grant and may be written to the other target). With `"silent"`:
`CompleteIsWhole`, `PartialRemoved`, `OneWriter` (the watchdog ends a session whose source
goes on). With `"race"`: `NeverNull` (`ModuleMqtt.cpp:282`), `PartialRemoved`. A deletion
that fails is ignored (`ota_driver_esp32_dt.c:48`, `:93`): a fragment stays, and the next
image is appended to it and announced as complete. With no fault at all:
`CompletionAnswered` (`ModuleMqtt.cpp:944` sends the completion before it sets the state
in which the answer is looked for, so the tool may wait for an answer that has passed).

**HTTP sessions** (`cloud.cfg`). Printing waits for ever after its first job:
`module_printing.cpp:71` says "MsgHttpResult is DIRECT — automatically delivered by HSYS",
but `init` (`:64-70`) subscribes to no message of the HTTP module and the dispatcher gives
a module only what it subscribed to (`hsys_module.cpp:181`). So no result is handled, no
copy is counted, nothing is retried, and the module stays in its HTTP state; a later press
is kept in its pending slot. The model says so by `AnswerDropped`, after which no step
clears `active`; that a posted job is in the end over is therefore no property of any run.
`documents/HSYS FW User Manual.md:1013` says of `printer_copy_count` what
`module_printing.cpp:123` does not do for 0 (it is taken for 1). A download that takes
longer than 120 s is ended by the watchdog, since nothing calls
`WebOtaClient::_publish_progress`.

**Fuel** (`fuel.cfg`): `WatchdogRuns` without its exception `missed`, for two reasons. A
request for a timer that finds the inbox of the timer module full is dropped, and its
result is not looked at (`module_fuel.cpp:617-638`; CubeSphere does the same at
`module_cubesphere.cpp:1045-1055`). And the callback sends the alarm and releases the slot
afterwards; if the woken module asks for its timer in between, the request finds the slot
taken and is refused, or a forced one is granted and then released, and nothing wakes the
module again (`module_timer.cpp:113-130`; the timer thread has the lowest priority). With
`"idle"` `PumpedIsSold`: a nozzle lifted for four seconds and put back without a drop
publishes the sale before once more. With `"quick"` `SoldIsPumped`: of a nozzle that is
lifted before its last sale is over one of the two sales may never be published, whatever
the driver. From the theorems of section 7: the other drivers reject prices of 100,000
rupees and more, and every driver accepts a display that has rolled over to zero exactly
with a hundredth of the price; a misread digit is accepted if the price is less than a
rupee too low. The comment of `module_fuel.h` on a full frame queue says the old frames
are discarded, the code drops the new one.

**CubeSphere** (`cube.cfg`): `SaleConserved` counts what the module gives up as a place of
its own (`lost`): a sale in hand when the HTTP session is busy
(`module_cubesphere.cpp:372`; `documents/HSYS FW User Manual.md:2087` says it is stored),
one whose post failed (`:888`), one before the card is ready, and a stored one of a nozzle
that is not configured. A request to open a session that finds the inbox of the HTTP
module full is not noticed (`:973`): the model assumes it arrives. An answer that is lost
after the cloud took a stored sale makes the module post it again.

**Settings** (`web.cfg`): `AnswerIsOwn`. The web server takes the first message with the
expected identifier (`ModuleWebServer.cpp:173`): an answer of the same kind that comes
late, which leaves its semaphore given for the next request; the answer to another module
of its task, since values are notifications (`msg_config_value.h:51`,
`msg_dev_info_value.h:46`); a device value written meanwhile.

A power cut between the deletion of the file and the last write loses all settings
(`pal_esp_idf_spiffs.cpp:172`), and since every start saves what it loaded, a cut during
start does too; a file that cannot be read at boot is replaced by the defaults. `POST
/api/config` (`ModuleWebServer.cpp:276-337`) writes the same file without a lock: if it
reads the file between the deletion and the write of the module's save, what it writes are
the posted settings alone. Otherwise what it changes is in the file only: nothing loads it
before the next start, since the buffer is gone after the first `SpiffsReady`
(`module_config.cpp:138-141`, `:199`), and the next `MsgConfigSet` overwrites it with what
is in memory. When the write fails, a value is live but not saved; the model makes no
promise there. `mod/module_config/README.md` describes `MsgConfigReady` and `MsgConfigGet`
in steps the code does not take.

## 9. What is not modelled

Left out on purpose within the modelled parts: `hsys_msg_publish_from_isr` (nothing calls
it), `retx_mgr_process` as a sender (its callback always fails), the abort of an HTTP
session (no module asks for it), `list_mgr_deinit` and `list_mgr_cleanup` (nothing in the
product calls them), logging and stall supervision, the text of metadata and records, the
length of the settings (4096 bytes), versions and progress messages of an update, requests
that are refused without changing state, the layout of receipts, the limits on URLs and
headers, the macOS soft timer, and the failure to create or to queue a message, except on
the bus itself, for requests to the timer service, and where a `Faults` constant names it.

Not modelled as components: the connection state of wifi, internet and MQTT, and the
selection of the time source, are modules of their own that others see as connections and
a time that come and go; they appear as such in `CubeStation`, `HttpSessions` and
`OtaUpdate`. Codecs, tables, the translator, the platform layer and pump byte protocols
are conversions or device input and output, whose failures appear as outcomes of the calls
into them; buttons, LEDs, buzzer and system monitor keep no state another part depends on;
the display-board firmware and the Python tools are other programs.

Only model-checked, not proved: the temporal properties beyond safety (`HeadersComeBack`,
`CreatedEnterLoop`, `EventuallyHandedOut`, `SessionsEnd`), which are out of TLAPS's reach
under fairness. Every invariant, action property and refinement of the passing runs is a
theorem of section 7, under the assumptions stated there.

## 10. Plan

What would add most next:

1. The connection modules (`module_wifi`, `module_internet`, `module_timemgr`, the
   connection state of `module_mqtt`) on `TimerModule`, with the answers to timer requests
   that they wait for: once the internet is reachable, the time is synchronised.
2. The software timer of the macOS port: expiry against stop and delete.
3. The theorems that exclude a fault (`Timely`, `Steady`, `"slow"`): weaker properties
   that hold with it, such as what an upload that follows a late answer can still spoil.
