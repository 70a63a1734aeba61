# TLA+ models of the Amlogic common frameworks

The repository holds the native services with which Amlogic's Android devices drive
HDMI, HDCP, pictures, screens and settings. It is C++ with callbacks, detached threads,
sysfs files and few locks. This directory models the parts of it in which the order of
events decides whether the device works, checks them with TLC, and proves the invariants
that matter with TLAPS. Source paths below are relative to `src/`; `services/` is left
out where the file is unambiguous.

Contents: 1 Inventory. 2 Plan. 3 How to read the modules. 4 The message queue. 5 The CEC
library. 6 HDCP authentication. 7 The boot environment. 8 Screen recording. 9 The transport
stream. 10 The data integrity guard. 11 The proofs. 12 Bounds. 13 What is not modelled.

## 1. Inventory

| Component | State it keeps | Operations | Talks to | What is hard, and what must hold |
|---|---|---|---|---|
| **CEC message queue** `hdmicec/libhdmi_cec/CMsgQueue.cpp` | a vector sorted by due time, a mutex, a condition | `sendMsg`, `removeMsg`, `clearMsg`, `startMsgQueue`, destructor, worker `threadLoop` | the CEC library, which overrides `handleMessage` | the worker unlocks between looking and taking, and reads the size unlocked: order, no lost wake-up, nothing early |
| **HDMI-CEC library** `HdmiCecControl.cpp` | options, filter of one-touch play, wait for an EDID, addresses of devices, status of the inputs | receiver `threadLoop`, `handleMessage`, `sendMessage`, `setOption`, `getPortInfos`, `TvEventListner::notify` | driver, queue, CEC server, TV server | four threads, one lock that covers little: every temporary state ends, no promised request is lost, the framework's view is right |
| **HDCP TX authentication** `systemcontrol/HDCP/HDCPTxAuth.cpp`, `HDCPRxAuth.cpp` | thread id, exit flag, semaphore, the version that runs, mute | `start`, `stop`, `authThread`, HDR exit, RX uevents | display modes, 3D modes, sysfs | restarts by three threads without a working lock: one thread at a time, joined once, the picture comes back |
| CEC server, uevents `hdmicec/server`, `UEventObserver.cpp`, `EARCSupportMonitor.cpp` | one callback per connect type | HIDL calls, `onEventUpdate`, deaths | library, clients | callbacks replaced while they are called |
| CEC client `hdmicec/binder` | connection, callback | remote calls, `serviceDied` | server | reconnection takes its own lock twice |
| **Uboot environment** `ubootenv/Ubootenv.cpp` | list of values, image, `mEnvInitDone` | `init`, `reInit`, `getValue`, `updateValue`, `save` | flash or eMMC | memory and partition must agree after failures, retries and crashes |
| Display modes `DisplayMode.cpp`, `FormatColorDepth.cpp` | current mode, policy | `setSourceOutputMode`, hotplug, boot | HDCP, uboot environment, sysfs | the mode chosen is one the TV has |
| Frame rate adaption `FrameRateAutoAdaption.cpp` | last mode, switch flag | duration and end hints | display modes | the old mode comes back after the last hint |
| 3D and dimension `Dimension.cpp` | 3D format | `set3DMode`, `autoDetect3DForMbox` | HDCP, sysfs | one thread per call of the detection |
| HDCP keys `HDCPRxKey.cpp`, `HDCPRx22ImgKey.cpp` | key images | load, check, decode | files | sequential data handling |
| System control service and client `SystemControl*.cpp`, `ISystemControl*.cpp` | callbacks by cookie | about 250 calls that pass on | all of the above | calls out with the lock held; reconnection |
| Sysfs, scripts `SysWrite.cpp`, `SysTokenizer.cpp`, `VdcLoop.c` | none | read, write, parse | kernel | none |
| Picture quality `PQ/CPQControl.cpp`, `CPQdb.cpp` ... | about 100 saved parameters | getter and setter of each | SSM, database, driver | sequential, data |
| SSM `PQ/SSMAction.cpp`, `SSMHandler.cpp` | a file with header and marks | verify, recreate, read, write | PQ control | a crash while the header is written again |
| Dynamic backlight, device poll `PQ/CDynamicBackLight.cpp` ... | thread status | start, stop, pause | driver | restart while the old loop still runs |
| **Data integrity guard** `data_integrity_guard/DigManager.cpp` | count of boots on `/cache`, `mBootCompleted` | `workThread` and its handlers | init, recovery system | counting across restarts on a partition that fails too: bad data must end in recovery, good data must not be wiped |
| FBC tool `fbc_tool/libfbc` | reply slot, upgrade flag and state | `sendDataAndWaitReply`, reader, upgrade | serial line | answers must go to the request they belong to |
| **Screen recording** `screencontrol/ScreenManager.cpp`, `Media2Ts/esconvertor.cpp`, `ScreenControlService.cpp` | `mStarted` of three objects, five queues of frames, `mBufferRelease` | `start`, `stop`, `dataCallBack`, `readBuffer`, `freeBuffer`, video thread, `signalBufferReturned` | capture device, encoder, packer | four threads without a common lock: a device's buffer is in one place, no frame is dropped, stop returns |
| **Transport stream packer** `screencontrol/Media2Ts/tspack.cpp` | continuity counters | `packetize`, `threadFunc` | convertor, service | sizes, lengths and counters at their limits |
| Screen capture `screencontrol/ScreenCatch` and the remote interface | one picture | start, stop, read | capture device, callers | stop joins with the lock its thread needs |
| Subtitle server `subtiltleserver` | callbacks, last answers | about 40 broadcasts | Java side | answers awaited by sleeping |
| Image player `imageplayer` | bitmap, display, movie thread | load, show, release | Skia, driver | the thread is joined under the lock it needs |
| Zygote proxy, remote control, DV configuration, Miracast HDCP | little | one loop, or calls passed on | init, vendor libraries | none |
| Java and JNI `core/` | wrappers and apps | calls passed on | the services | none of its own |

The interaction modelled first: the driver's events and the bus reach the CEC **receiver**,
which calls back into the **server** and queues delayed messages; the **queue's worker**
writes them to the bus; **binder threads** call `sendMessage` and `setOption` meanwhile.
On the output side, a hotplug, an RX uevent, a mode set by an application and a 3D mode
all **stop and start the authentication**, each from its own thread.

`PROJECT.json` lists every component with its status, and under `hazards` the lines at
which an interleaving, a crash or a timeout may go wrong. Further ones that no property is
about:

* `HdmiCecControl.cpp:83` a delayed message is written although CEC was switched off after
  it was queued; `:984` an arrow key also goes to a device of another input; `:687` the
  table of ports is freed while the receiver walks through it; `:202` `closeCecDevice`
  waits for a receiver that is blocked in `read`; `DroidHdmiCec.cpp:246` a callback is
  replaced while events are passed to it.
* `HDCPTxAuth.cpp:97` a `pthread_create` that fails leaves `start` waiting for ever; `:423` a
  mutex that was never initialised is unlocked, also when it was not locked.
* `ScreenManager.cpp:607` `mStarted` is tested without the mutex of which
  `ScreenManager.h:155-157` says that it "must be locked whenever the member variables are
  accessed"; the model counts what that costs as `lost`. `tspack.cpp:252` the packer's thread
  is created before `mStarted` is set and may end at once (`PackerExit`): the caller of
  `startScreenRecord` then waits for packets that nobody writes. `ScreenManager.h:189`
  `mCanvasMode` is given no value before line 612 of `ScreenManager.cpp` reads it: if it is
  true by chance, one frame without a canvas sets `mError` and every later frame is lost.
  `esconvertor.cpp:972` the wait for the video thread is made once and its result ignored: if
  it ends early, the thread and `stop` use the convertor's queues at the same time without a
  lock, and `mEncoder` may be cleared under the thread.
* `DigManager.cpp:341` between the command file and the restart the power may go: the command
  stays, and a recovery that somebody else enters would follow it (the thread's own always
  empties the file first).
* `HdmiCecHidlClient.cpp:62` options set before the daemon died are not set again;
  `SystemControlClient.cpp:1271` the reconnection polls with the lock held, and callbacks wait;
  `SystemControlHal.cpp:75`, `SubtitleServerHal.cpp:71` clients are called with the lock held.
* `FrameRateAutoAdaption.cpp:173` an end hint in CVBS mode leaves the old mode remembered;
  `:207` a second hint without an end overwrites the mode to return to.
* `Ubootenv.cpp:212` a read that succeeds at the last try counts as a failure; `:121` the pointer returned points into a list that others change; `:63`
  `mEnvInitDone` is read although no constructor set it when `init` failed, so an update may
  then write an environment with nothing else in it; `cmd/setbootenv.cpp:22` the tool
  saves its own copy of the whole environment, and the service's next save undoes it.
* `ScreenCatch.cpp:298` `mStart` is set after the thread began.
* `CFbcProtocol.cpp:246` a request is written before its answer is expected; `:397` a late answer
  is taken for that to the next request with the same command; `:400` signal without the mutex, `:422` the upgrade flag is looked at before
  the read only; `CFbcUpgrade.cpp:66` a second start gives the line back to the reader, `:384`
  the protocol object is replaced under its users; `CFbcCommunication.cpp:55` so is the linker.
* `SubtitleServerHal.cpp:122` an answer that comes after the sleep goes to the next caller.
* `SSMAction.cpp:83` header and marks are written in two steps; `CDynamicBackLight.cpp:52` a
  restart does not wait for the old loop.

## 2. Plan

Done, in this order:

1. `DelayQueue` (what a delay queue promises) and `CecMsgQueue` (the code), with the
   refinement, because the CEC library's timeouts all rest on it.
2. `HdmiCecControl`, which uses the queue through what `CecMsgQueue` establishes.
3. `HdcpTxAuth`, which composes the authentication with its three kinds of callers.
4. `Ubootenv`, the one component with a persistent state: failing reads and writes, retries
   and crashes.

5. `ScreenRecord`: the longest chain of threads and queues in the repository.
6. `TSPacker`: what the packer promises the receiver, for every size of a unit.
7. `DigManager`: boots, restarts and failures of disks.
8. The contracts: `MessageBag`, `EnvStore` and `FrameStream` say in a few lines what the
   queue with removals, the environment and the recording promise who uses them, as
   `DelayQueue` does for the queue with senders only; each is refined by its component,
   checked by TLC and proved.
9. The measures that fall: what four liveness properties need besides fairness, proved for
   `HdcpTxAuth`, `Ubootenv` and `ScreenRecord`.

Not done, in the order in which the modules would be of use:

* the FBC tool. It decides by timing alone to which request an answer belongs, so the
  properties one would want (an answer belongs to the latest request, an upgrade has the
  line for itself) fail at once, and a model would repeat the list above;
* the reconnection of the two clients and `ScreenCatch::stop`, which stop in a lock they hold
  on every path: a model would have nothing left to explore;
* the frame rate adaption, SSM and the backlight thread, small machines between long
  stretches of file and sysfs access;
* the display modes and the picture quality control, by far the largest files, which
  choose from lists and pass values on.

Every invariant that a passing run checks is proved; what is left to TLC is the liveness.

## 3. How to read the modules

* Each component is one module with its variables, one action per operation or per
  section of it that another thread can come between, and `Spec`; `FairSpec` adds
  fairness. Variables, actions and operators have the names of the code's fields and
  functions where they stand for them.
* `DelayQueue`, `MessageBag`, `EnvStore` and `FrameStream` are contracts: they have none of the
  code's threads, locks, buffers or retries. The component instantiates them with a
  refinement mapping and states that it implements them (`KeepsPromise`, `KeepsBag`,
  `KeepsStore`, `KeepsStream`).
* `MC<module>` gives the constants for TLC where the `.cfg` alone cannot; a `.cfg` is one question.
* `<module>Proofs` holds the theorems.
* Definitions marked `MUTANT` are deliberately wrong variants of the definition that
  follows, as a plausible slip would write it. They are never part of `Next`; replacing
  the definition by its mutant makes the run fail. They show that the properties can
  tell the difference.
* History variables (`stamp`, `taken` and `dirty` of the queue, `view`, `hidden`, `owed`,
  `edidOpen`, `rx.option`, `rx.moved`, `overlapped`, `givenUp`, `unsaved`, `blind`, `lost`,
  `failed`, `expected`, `broken`, `seen`, `carried`, `asked`) record what happened; no action
  of the code looks at them.

## 4. The message queue

| Code | Model |
|---|---|
| `m_v_msg`, `mWhenMs`, `getNowMs()` | `queue`, `when`, `now` |
| `sendMsg` 41-53 | `sendMsg`, with the insertion loop as `IsSlotFor` and the signal as `Signal` |
| `removeMsg` 55-68 | `removeMsgLock`, one `removeMsgStep` per iteration, `removeMsgUnlock` |
| `clearMsg`, `startMsgQueue`, `~CMsgQueueThread` | `clearMsg`, `startMsgQueue`, `destroy` |
| `threadLoop` 83-130 | `loopTest` ... `handleMessage`, one action per locked section and per unlocked read |

What the model makes of the code's corners: `removeMsg` is one action per iteration
because the worker reads `size()` without the lock and could see a size in between;
`size()` itself is read in one piece. When the worker reads element 0 of a vector that
was emptied between test and read, the model takes any message that is no longer queued
or none (`SlotZero`): libutils keeps the bytes of removed elements. `waitRelative` takes
nanoseconds while the code passes milliseconds, so the wait may end at any time
before the message is due; the loop then looks again. `clearMsg` does not signal, and the
worker does not need it. Nobody in the repository calls `clearMsg`; it is part of the
component.

Runs:

* **QueueSend** (senders only, three messages, delays 1, 2, 0, clock to 4). The module
  implements `DelayQueue`, liveness included (`KeepsPromise`, `KeepsFairPromise`): nothing
  is handled early, and everything in due order.
* **QueueRemove** (`removeMsg` of one of two types, `clearMsg` and the destructor). What
  is left of the promise: the vector stays sorted; a message is handled early, or a
  ghost is handled, only if something was removed since the worker looked
  (`EarlyOnlyAfterRemoval`); `removeMsg` leaves a message of its type only behind one it
  removed (`RemoveSkipsOnlyBehindRemoved`: `i` is incremented although `removeAt(i)`
  moved the next one there); every message that was sent leaves the queue
  (`EverySentLeaves`), so no wake-up is lost. All of it together is the contract `MessageBag` (`KeepsBag`): whatever the interleaving, a
  `removeMsg` looks to everybody else like one step, in which at least half of the messages
  of its type go and nothing else does (the bag is what was in the vector when it took the
  lock, until it gives the lock back); what the worker handles was sent, and is taken once;
  a ghost is the one exception, and the contract names it. `HdmiCecControl` models the
  queue by what this contract leaves of a type.
* **QueueExit** finds a violation. `CMsgQueue.cpp:86` says the loop runs while exit is not
  requested. The destructor requests it and joins, but does not signal the condition: a
  worker that sleeps on an empty queue is never woken, and the destructor waits for ever.

Fairness: the worker and `startMsgQueue` are strongly fair because they wait for
`mLockQueue`, which others take again and again; `removeMsg` is called once per event and
not in a loop, so a waiting thread gets its turn. `removeMsg` finishes and the clock
advances (weak fairness). Nobody is obliged to send, to remove or to destroy.

## 5. The CEC library

| Code | Model |
|---|---|
| `threadLoop` 312-373 | `startCheck`, `readMessage`/`readNothing` ... `deliver`; `rx` holds the place and the local variables |
| `checkConnectStatus`, `handleHotplug` | `checkPort`, `reportHotplug`, `handleHotplug`, `endCheck` |
| `messageValidateAndHandle` | `messageValidate`, `messageHandle` |
| `handleOTPMsg`, `isWakeUpMsg`, eARC test | `handleOTPMsg` with `Filtered`, `WakesUp`, `supportForEARC` |
| `MsgHandler::handleMessage` | `take`, `handleOtpTimeout`, `handleEdidTimeout`, `handleSend` |
| `TvEventListner::notify` | `notifyRemove`, `notifySend` |
| `sendMessage`, `preHandleOfSend`, `postHandleOfSend` | `sendMessage`, `pre...`, `askForAddress`, `sendAndPost` |
| `setOption`, `getPortInfos` | `setEnableCec`, `setSystemCecControl`, `getPortInfos` |

`mLock` protects the one-touch-play filter and the wait for an EDID only. The queue has a
lock of its own, which each of its calls takes and gives back, so that the receiver, which
removes and sends without `mLock`, and the worker can come between a `removeMsg` and the
`sendMsg` behind it. These two are therefore separate actions everywhere, also in the
sections of `notify` and `preHandleOfSend` that keep `mLock` meanwhile (`switching`, and
"ask" of a caller; `LockFree` guards every other use of `mLock`). What lies before and after
in such a section is looked at under `mLock` only and goes with one of the two calls;
everything else is one action per access that another
thread can come between. The queue appears as a count per kind of message
(`queued`) and the one message the worker handles (`hand`), with what section 4
establishes: `removeMsg` may leave one behind if there were several. Delays are left
out: a queued message may be taken at any time, which allows more orders than the clock
does.

Runs (two inputs, an AVR and a player; the events are bounded per source by `Budget`):

* **CecRequests**: receiver, worker and a binder thread remove and send the request for a
  physical address across each other, in any order of their calls of the queue. They
  remove each other's requests, of whatever device, so an earlier promise may be taken back
  by a later one; `owed` is the device of the last one. Its request is never lost, unless
  somebody has just removed it to send his own (`OwedAddressIsAsked`), and in the end
  the last one promised is made (`OwedAddressIsSent`). At most two requests wait, for all
  devices together, and those about to be sent count (`FewAddressRequests`, which is also
  what `MayStay` rests on).
* **CecEvents** has three budgets. One is four plug events and two changes of option on
  two inputs. A wait for an EDID never loses its timeout although the timeout is sent after the lock was released
  (`EdidWaitHasTimeout`, `EdidWaitEnds`), and what the framework was told agrees with
  what the library believes, except for inputs whose change was not to be reported
  (`ViewFollowsStatus`). The second is a message, two source switches and a change of
  control, the third two messages and a switch: the filter has its timeout, or the switch
  that removed it is under way (`OtpFilterHasTimeout`, `OtpFilterEnds`); a foreign `<Active Source>` passes only if the source was switched
  after the filter let it through (`FilterHoldsUpToSwitch`), and a message passes without
  control only if it wakes up or was read before (`UncontrolledOnlyWakes`); one
  `<Set Stream Path>` waits at most, the latest (`OnePathRequest`).
* **CecEdidRace** finds a violation. The comment at `HdmiCecControl.cpp:996-998` says the
  AVR is not asked for its address before the EDID is updated. The framework is told
  of the connection (line 648) before the wait begins (563), so a binder thread may ask
  in between.

Fairness: worker, receiver, a binder thread inside `sendMessage` and a switch inside `notify`
keep running. No
message on the bus, call, switch or cable is assumed to come, and `read` may block.

Other places where comment and code differ, modelled as the code is: delayed messages
are written with CEC off (`HdmiCecControl.h:121-122`); a routing change wakes the first
device found at the input (comment at 967, `break` at 977); an arrow key is sent to the
active device as well, whatever its place (984-985); a message that fails validation
(481-484) is passed on in the standby case, because the test compares the opcode with
the states.

## 6. HDCP authentication

| Code | Model |
|---|---|
| `start` 86-107 | `startCreate`, `startWait`, `startPublish` |
| `stop` 110-137 | `stop`, `stopTest`, `stopExit`, `stopJoin`, `stopJoined`, `stopClear` |
| `authThread` 158-177, `authInit`, `authLoop` | `threadEntry`, `bootWait`, `authInit`, `authStart`, `authLoop`, `authSuccess`, `authPending` |
| HDR exit, RX uevents, `setSourceOutputMode`, `set3DMode` | `Op`, and `begin`, `mute`, `early`, `unmute3D`, `unmute`, `setBootAnimFinished`: the steps an operation makes around stop and start |

Every access to a shared field is an action of its own, because `pthreadTxMutex`
excludes nobody: it is never initialised, only tried, and the result is compared with a
value that `trylock` does not return. It is left out. Which version `authInit` chooses
depends on keys, firmware and files: either one or none, nondeterministically. `hdcp` is the
version that the service started last and has not stopped. The uevent of a suspend
(`HDCPTxAuth.cpp:358`) is left out: it touches no field and neither starts nor stops a
version, but it asks the driver to make a 2.2 daemon quit, and a version that ended in this way
still counts as the one that runs. A join
of a thread that somebody else joins, or of none, fails and leaves the id (on bionic it
may also abort). A `pthread_create` that fails is not modelled; the code would wait for
a semaphore that nobody posts.

Runs:

* **HdcpRestart**: the TX thread, the RX thread and a binder thread, each with every
  operation it has, two authentication threads. While operations do not overlap, one
  authentication runs at most and can be reached (`OneAuthThread`), every join is of a
  thread nobody joined (`JoinSucceeds`), and between operations the version that runs is
  the one the thread polls (`VersionFollowsThread`). However they overlap, once the boot
  animation has finished every operation returns, every authentication ends, and a mute
  ends unless an authentication was refused or stopped for good (`OperationsReturn`,
  `AuthenticationEnds`, `MuteEnds`).
* **HdcpStopRace** finds a violation. `stop` (`HDCPTxAuth.cpp:109`) is to stop the
  authentication, but it switches HDCP off before it tells the thread to end, so the
  thread may switch it on again on its way out.

The liveness properties need `mBootAnimFinished`: an authentication thread waits for it
without looking at the request to exit, so a `stop` before the first mode is set joins a
thread that waits for its own caller. `MuteEnds` needs the exception `givenUp`: `authInit`
that finds no key does not unmute.

Fairness: callers that have begun and authentication threads run on. No event and no
call is assumed.

## 7. The boot environment

| Code | Model |
|---|---|
| partition, image in memory, list of values | `part` with `torn`, `image`, `list` |
| constructor, `init` 155-237, `readPartitionData` | `construct`, `readPartition`, `readFailed` |
| `updateValue` 62-108 | `updateValue`, `compare`, `lock`, `set`, then `open` and `write` for each `save` |
| `save` 364-438, `formatAttribute` | `open`, `write`, `writeDone`, `saveFailed`, `saveCut` |
| loss of power, death of the service | `crash` |

`part` is the last environment that was written completely, and `torn` says that a write
over it has begun and not ended, so that the checksum fails. `mEnvInitDone` is given no
value before `init` does, so it may be anything after an `init` that failed, and
a read that succeeds at the last try counts as a failure (line 212). An `init` that failed
leaves the head of the list uninitialised as well; the model takes it for empty, and the
case that the service dies of it is a `crash`. The comparison at line 86 is made
without the lock; while another thread copies a value to the same key it may have either
outcome. Keys and values are model values: parsing what was formatted gives the same map.
A write is complete, or reports an error, or ends early: line 433 looks for a result below
0 only, so one that wrote a part of the image, or nothing, counts as done and is not tried
again (`saveCut`); what it began leaves the partition torn.

Two histories say which differences between list and partition the code makes. `unsaved`
holds the keys every save of which failed, or one of which was cut short, with no
complete save since; it is empty when the service starts. `blind` is true after a start
whose five reads failed, until the first complete save: `init` gives up (line 212), the
list is empty whatever the partition holds, and updates are refused, unless `mEnvInitDone`
is true by chance: then the first save replaces the whole environment by the one value.

Run:

* **EnvUpdate** (two threads, two keys, values "", a and b, three tries, any number of
  crashes). While the service runs, the list differs from the partition (from an empty
  environment while `blind`) only in the value being saved and in `unsaved` ones, and
  the partition is torn only during an update, after a save that failed or was cut short,
  or since before a blind start (`ListFollowsPartition`). When `updateValue` returns 0 the
  value is on the partition, with four exceptions: a save of the key was cut short, an
  earlier update of it failed, another thread is updating it, or the value is "" and the
  service is blind (`SuccessMeansStored`). All four are real: the comparison looks at
  the list, and a short write is not noticed. A device that fails does not keep the lock
  (`LockIsFreed`). Without its threads, retries and buffers it is an `EnvStore`
  (`KeepsStore`): one value at a time is set in memory and saved, what the boot loader
  reads changes only to the whole of what is in memory and in one step, and a start reads
  all of it or nothing.

Fairness: a thread that has the lock goes on. The device may fail for ever, and nobody
is obliged to call.

## 8. Screen recording

| Code | Model |
|---|---|
| `ScreenControlService::startScreenRecord` 116-164 | `cPc` from "init" to "done", `WritePackets` |
| `TSPacker::start`, `ESConvertor::start`, `ScreenManager::start` | `StartDevice` or `StartFails`, `StartManager`, `StartConvertor`, `CreatePacker`, `StartPacker`, in the order of the calls |
| `ScreenManager::dataCallBack` 599-714 | `Capture` (the device calls), `CallbackTest` and `CallbackError` (without `mLock`), `CallbackDeliver` (with it) |
| `threadVideoFunc` 770-796 | `HasEncoder`, `DequeueInput`, `ReadBuffer`, `KeepFrame`, `Feed`, `DequeueOutput`, `VideoTest` |
| `feedEncoderInputBuffers` 169-205 | `FeedNothing`, `FeedFrame`, `FeedFails` |
| `signalBufferReturned` 1085-1101 | `Encode` up to the write of `mBufferRelease`, `ReturnBuffer` from there |
| `TSPacker::threadFunc` 113-188 | `PackerTest`, `PackerFindsNothing`, `PackerReadCsd`, `PackerRead`, `PackerExit` |
| `ESConvertor::stop` 947-1032 with `ScreenManager::stop` | `StopConvertor`, `WaitForThread`, `WaitTimeout`, `DrainFrame`, `DrainFree`, `DrainEnd`, `StopManager`, `ResetManager`, `StopEncoder`, `Uninit` |

Five threads work at once: the caller, the device's callback, the video thread, the codec's
and the packer's. A frame goes from the device through `mCanvasFramesReceived`,
`mFramesReceived`, `mInputBufferQueue`, the encoder and two output queues to the file; with
the hardware encoder its buffer must come back to the device, with the software encoder a
copy travels. `soft` chooses the path. Every recording makes its own manager, so there
is one client, and the search for a client id and the mix of client kinds do not come up.

What the model takes from the libraries: the encoder encodes in order, returns the buffer
of a frame after it, and its `stop` waits for its own thread; the device may still be in
a callback when its `stop` returns.

`stop` waits for the video thread once, with a condition whose mutex it does not hold, and
does not look at the result (`esconvertor.cpp:972`). `WaitTimeout` lets the wait end at any
moment, whether the time has passed or not, so `stop` may take the convertor apart while the
thread is still in its loop. Both then use the convertor's queues without a lock. The model
keeps each call of a queue in one piece, and a thread that reaches for the encoder after
`stop` has cleared it takes no further step (`HasEncoder`), where the code would end the
process. What the properties promise holds in spite of this.

`dataCallBack` refuses a frame without memory and, when `mCanvasMode` is true, one without a
canvas. `mCanvasMode` is given no value before, so `CallbackError` allows both, and leaves
`mError` set or not; once it is set no frame is wanted any more, and every buffer that the
device fills is lost. The packer tests `mStarted` and then reads, and the read waits
while the convertor is stopped: one unit may still be read, and packed, after `stop`.

Run:

* **ScreenRecord** (both paths, two buffers, two slots of the encoder, four frames, one frame
  refused). Until stop begins to give buffers back each buffer is in exactly one place
  (`BufferInOnePlace`), although `mBufferRelease` is shared. The recording is a
  `FrameStream` (`KeepsStream`): frames are numbered as they are taken; the file grows by
  the next one that was not refused, so it has them in order, none twice and none missing
  but the refused ones (`RecordingHasNoGap`), also when the thread runs on while stop takes
  the convertor apart; and a refused one never comes later. Stop ends whether the signal
  found it waiting or not (`StopEnds`). A buffer comes back to the device unless its frame was
  not wanted, the encoder refused it or it
  waits in `mInputBufferQueue` (`BufferComesBack`). That last exception is real: line 651 feeds
  one frame for each new frame, so what was queued while the encoder was busy stays queued,
  and with as many such frames as the device has buffers the recording stands still.

Fairness: all threads run, the codec encodes what it is given, and the time of the wait
passes. The device is not assumed to capture.

## 9. The transport stream

| Code | Model |
|---|---|
| `threadFunc` 141-183, the arguments of `packetize` | `Packetize` |
| `numTSPackets` 451-504, `sizeAvailableForPayload` | `PacketCount`, `FirstRoom`, `NextRoom`, `Stuffing` |
| PAT, PMT, PCR 517-670 | `ProgramAssociation`, `ProgramMap`, `ClockReference` |
| `PES_packet_length` 674-718 | `PesLength` |
| first packet and the packets behind it 680-790 | `FirstPacket`, `NextPacket`, both through `UnitPacket` |
| `incrementContinuityCounter` 305-326 | `Increment` |
| the last `CHECK` 792-796 | `Return` |

Bytes are left out but for their number. `Receive` is the other side of the format, a
receiver that expects the counter of each PID to go up by one and believes the
length in the PES header.

Run:

* **ScreenPackets**: units of every size around which the number of packets or the form of
  the length changes (`Boundaries`), video and audio, with and without tables, for ever. The
  buffer of the precomputed size is filled to the end and never beyond
  (`PacketsFillBuffer`); the receiver finds no packet missing (`ContinuityKept`) and every
  unit whole (`UnitArrivesWhole`). A video unit of 65528 bytes or more, or an audio
  unit of 65526, has no length in its header. `tspack.cpp:675` says that this "really
  should only happen for video", and nothing prevents it for audio, so the model does it too;
  a receiver that insists on a length there is not modelled.

## 10. The data integrity guard

| Code | Model |
|---|---|
| the count in `/cache/dig_data_ro_count`, `/cache/recovery/command` | `stored` (0 when there is no file), `command` |
| `sys.boot_completed`, `sys.powerctl`, the mounts | `completed`, `powerctl`, `dataRo`, `cache` |
| `workThread` 86-134 | `checkBoot`, `checkCache`, `checkData`, `checkSystem`, `endLoop` |
| `setDataRoCount` 381-393 | `openCount`, `writeCount`, with the place they return to in `after` |
| `handleCacheRo`, `handleCacheNull` | `repairCache`, `repairCacheFails` |
| `handleDataRo`, `doReboot`, `doRebootRecoveryTipDataro` | the same, with `openCommand`, `writeCommand` and `rebootRecovery` |
| `HanldeSysChksumError`, `doRestoreSystem` | `SysChksumError`, `doRestoreSystem` |
| init, kernel, disks, recovery system | `Boot`, `CompleteBoot`, `Reboot`, `Recover`, and the failures |

A restart takes time: between `powerctl` and `Reboot` the thread goes on. Failures are those of
`/data`, `/cache` and the system partition at any moment, a repair that does not work, the
loss of power, and a restart that somebody else asks for. `isRebooting` does not know one
form of that, a shutdown with a reason (line 670 compares with the bare word), and the
thread may then ask for a restart of its own. Both files are written in two steps:
opening empties the file, and what `fprintf` and `fsync` answer is not looked at, so that a
`/cache` that has become read-only or full leaves it empty or unchanged while the thread goes
on. A loss of power between opening and synchronising the count leaves the old one, the new
one, or none; a restart there leaves it empty or new. The command to restore the system is
never synchronised (290-292): a loss of power may lose it, and a restart does when `/cache` has
failed since; with a sound `/cache` init writes back everything before it restarts. Left out
is a journal that, when `/cache` fails, brings back the contents a file had before it was
emptied. On a device with A/B updates `/cache` may not be there.

Run:

* **BootGuard**, with the code's own limit of 5 and interval of 5. Data is wiped only after
  more than `mDataRoCountMax` boots in a row that found it read-only
  (`WipeOnlyAfterFailures`), plus a count that the last completed boot could not reset
  (`carried`): `setDataRoCount` says nothing of a failure, and at line 93 it runs before the
  check that would repair `/cache`. The recovery system finds the command it was started
  for or, if `/cache` had failed by then, none, but never another one, such as one that an
  earlier loss of power left over (`RecoveryFindsCommand`). A device without A/B updates whose data stays damaged gets
  it wiped in the end unless it comes up (`BadDataEndsInRecovery`). Nothing of the kind
  holds with A/B updates: lines 409-411 then start counting again, and the device restarts
  for as long as its data is bad.

Fairness: the thread runs, init restarts and boots, the recovery system follows its
command. No boot needs to complete. Failures are finitely many, for with infinitely many
the count may be lost each time.

## 11. The proofs

All proofs are checked by tlapm with Z3, Zenon and LS4. They hold for every value of the
constants that the named assumption of the module allows: `QueueAssumption`,
`ControlAssumption`, `AuthAssumption`, `EnvAssumption`, `RecordAssumption`, `SizesAssumption`,
`DigAssumption`, which only state the constants' types (any messages, delays, devices, inputs,
callers, operations, keys, values, buffers, sizes, limits, bounds), that the callers and the
buffers are finitely many, that there is a key, that a
try is made at all, and that the interval of the system check is not 0. The type invariants
are proved and not checked again by the runs.

* `CecMsgQueueProofs`. `TypeCorrect`; `QueueStaysSorted` and `EarlyNeedsRemoval` for any
  callers; `InDueOrder`, `NeverEarlyWithoutRemoval` and the refinement
  `QueueKeepsPromise` under the assumption that nobody removes or clears. The inductive
  invariant grows in three layers. `StampInv` (what is queued was sent) makes
  sortedness inductive; the insertion and the removal are lemmas about sequences. `HeadInv`
  says what the worker may rely on at each of its places while nothing was removed:
  the vector is not empty and its first message is due no later than the one the worker
  saw. `OrderInv` says that everything handed over comes before everything queued. The
  refinement follows from all three: a `sendMsg` is a send, a `pop` a delivery, and every
  other step a stutter of `DelayQueue`. `QueueKeepsBag` holds for any callers. While a
  removal runs, the bag is mapped to what the vector was before it (`rm.before`), so that only
  `removeMsgUnlock` is a `Remove`; `BagInv` says that the vector then holds nothing that was
  not in `rm.before`, and that a worker on its way to an empty vector, which reads past its
  end, has lost to a removal what it saw; that half of a type goes is the injection that sends each message left to the removed one before it
  (`HalfIsGone`). `OneOfThreeStays` is the consequence that the CEC library is modelled with:
  of at most three messages of a type at most one stays. The once-only part of it rests on
  `TakenInv`, which says that what was taken was sent and is not in the vector any more.
  `RemoveAlwaysSkipsBehindRemoved` rests on `LoopInv`: the messages the loop has not come to stand
  where they stood, moved by as many as are gone, and it kept its promise of those before.
* `HdmiCecControlProofs`. `TypeCorrect`; `OtpFilterAlwaysEnds`, `EdidWaitAlwaysEnds`,
  `AddressRequestKept`: the two timeouts and the request that the library waits for are
  never lost, or whoever removed them is about to send his own. The invariant `Waiting` is
  their conjunction. Removal and send are two steps, so the argument for a removal is that
  whoever removes is at the place from which he sends (`switching`, "edidSend", "askSend",
  `Asking`), and that nobody leaves such a place without sending, whatever the receiver, the
  worker and the caller that has `mLock` do in between. `AlwaysFewAddressRequests` and
  `AlwaysOnePathRequest` follow from
  `CountInv`, which counts the messages of each type together with those about to be sent: each
  kind of timeout and the `<Set Stream Path>` have one sender at a time, so none waits after
  its removal and one after its send; requests are sent by the receiver and by one caller at most, the one with `mLock`, so
  one waits at most while one of the two is between its calls, none while both are, and two
  afterwards. `OnlyWakesWithoutControl` and `FilterAlwaysHoldsUpToSwitch` follow from
  `WakeInv` and `FilterInv`, which say what the receiver knew at each of its places when
  it tested; `ViewAlwaysFollowsStatus` is inductive as it stands.
* `HdcpTxAuthProofs`. `TypeCorrect`; `OneAtATime`, `JoinsOnce`, `VersionsAgree`. The
  invariant `Alone` says, while operations did not overlap, that one caller at most is
  under way, and by its place (`Stage`) which thread may be alive, whether the id is set
  and its thread joined, and when the version that runs must agree with the thread's;
  `Fresh` says that threads not yet created are untouched. `OneAuthThread` alone is not
  inductive: it says nothing of a caller between the join and the new thread.
  Five theorems hold however operations overlap, and are what `AuthenticationEnds` and
  `OperationsReturn` need besides fairness. `AuthenticationAdvances`: `StepsLeft`, 4 steps and
  two rounds of polls at most, falls with every step of the thread and rises with nobody
  else's. `OperationsAdvance` is the same of the places of a caller. `SemaphoreAlwaysCounts`
  counts: the starts that wait are as many as the posts and the threads that have yet to
  post, although a start may be woken by the thread of another. `EachThreadHasOneJoiner`: who
  waits in `stop` waits for a thread that was created, and alone. `WaitsEnd` draws the
  conclusion; for the bound on threads it needs `RoomInv`, which counts the operations
  that are still to create one. What is left to fairness is that whoever can step does, and
  that the boot animation ends.
* `UbootenvProofs`. `TypeCorrect`, `ListFollowsPartitionAlways`, and the action property
  `SuccessMeansStoredAlways`, for any number of threads and tries, and with the exceptions
  that section 7 names. `LockInv` says which thread
  holds the lock and that the loop that counts has not ended, without which not even the
  type of the counter is inductive; `SaveInv` says that what the holder writes is the list
  with its own value in it, and that a service that is not up has loaded nothing. `KeepsStoreAlways` is the refinement of `EnvStore`: `Saving` (the
  key whose value the holder of the lock has set) is the abstract key being saved, `set` is
  the abstract step of an update, `writeDone` the only one that changes the disk, and a
  retry a stutter; a last save that failed or was cut short gives the key up; `StoreInv` says
  that the partition is torn while a write is under way.
  `UpdatesAlwaysNearEnd` is the safety half of `LockIsFreed`: `HolderLeft`, two steps for each
  try, falls with every step of the thread that holds the lock, and nobody else raises it.
* `ScreenRecordProofs`. `TypeCorrect`, `BufferAlwaysInOnePlace`,
  for both paths and any number of buffers, frames and slots, wherever the video thread is when
  the wait for it ends. The invariant comes in layers:
  `HolderInv` says who may hold a buffer at which place, `ThreadInv` when the video thread
  exists, from when to when the convertor is started, and that the thread does not leave
  before, `RunningInv` that the manager runs as long as anybody frees a
  buffer. The places of a buffer are counted; lemmas say how `Count` changes
  when a frame is appended or taken, and that a sum stays 1 when a buffer goes from one
  place to another. `RecordingNeverHasGap` needs more than the order of one queue: `Line` puts
  the ten places a frame passes through, from the file (1) back to the device (10, the
  number to come), behind each other, and `LineInv` says that the numbers along the
  line increase and that none is missing up to `Cut` but those the encoder
  refused. `Cut` is the last place from which a frame can still get into the file: 10 while
  recording, 7 once stop began, 1, the file itself, once the convertor is taken apart, since from
  then on frames are dropped from the middle of the line while its thread may still move
  others. A step either moves the first frame of a place to the end of a place
  ahead with nothing in between (`Moves`), or drops frames behind the cut (`Drops`), or
  takes the first frame and refuses it (`LosesHead`, `Released`); one lemma for each
  kind says that it keeps the line. `CsdInv` adds that the codec's configuration, number 0, is
  at the front until the packer has read it, so it never reaches the file; and
  `PackerInv`, which queues are empty on which path, without which a move could overtake.
  `RecordingKeepsStream` adds `RefusedInv`: what was refused was taken and is nowhere on the
  line. It is kept because numbers only come onto the line when they are taken
  (`OnlyTakenComes`), and the head of a place stood nowhere else (`HeadHasLeft`). With it
  `FeedFails` is the abstract refusal of a frame on its way, `WritePackets` the abstract
  write, the gaps being `RecordingHasNoGap` of the next state.
  `StopAlwaysNearsEnd` is the safety half of `StopEnds`: `StopLeft` and, while buffers are given
  back, `DrainLeft` fall with every step of `stop`; `ThreadLeft` falls with every step of the
  convertor's thread from the moment it is told to end, and nobody raises any of the three while
  they count. No bound on the queues is needed: should the thread still run when the buffers
  are given back, it moves frames between the two queues or takes one out, but adds none
  (`ThreadAddsNothing`).
* `TSPackerProofs`. `TypeCorrect`, `PacketsAlwaysFillBuffer`, `ContinuityAlwaysKept`,
  `UnitAlwaysArrivesWhole`, for units of any size. The work is in four lemmas of arithmetic:
  the number of packets computed beforehand is the number that remains after each packet
  plus one (`PacketCountIsExact`, `OnePacketLess`), the increment is the receiver's
  (`IncrementIsModulo`), and the length is the number of bytes or 0 (`PesLengthIsShort`).
* `DigManagerProofs`. `TypeCorrect`, `WipeAlwaysAfterFailures`, `RecoveryAlwaysFindsCommand`, for
  any limit and any number of faults. `CountInv` says that the file holds no more than the
  boots that failed and what could not be reset; `PassedInv`, that a boot is counted once: if
  it was counted and is not being restarted, the limit was passed; `CommandInv`, what is on
  the disk between the command and the restart (`Found`: the command, or none and a `/cache`
  that failed), and that the thread does not come back to the beginning of its loop there. `WipeOnlyAfterFailures` needs all three.

Only model-checked: all liveness (out of the prover's reach), with it the fair half of
the refinement (`KeepsFairPromise`); of `AuthenticationEnds`,
`OperationsReturn`, `LockIsFreed` and `StopEnds` the measure that falls is proved, and the
fairness that lets it fall is not. The three violations are counterexamples of TLC.

## 12. Bounds

* Queue: three messages of two types, one of each removed kind twice, so that removal can
  skip one; delays 1, 2 and 0, so that a later message overtakes, and two may be due
  together; a clock to 4 (3 with removals), past every due time. `MaxTime` guards
  `sendMsg` and `Tick`.
* CEC: each member of `Budgets` bounds how often each source of events (bus, calls, cables, switches,
  options) acts. `RequestBudget` is one message from the bus, two calls, a plug event and an
  option, so that a request of the receiver and two of a caller meet; `EventBudgets` are the
  three of section 5, each with two of the kind of event that must cross another of its kind;
  four plug events put both inputs through in and out. Two devices tell the AVR from another; addresses
  on both inputs, one behind the AVR and the unknown address 0 appear.
* HDCP: `Threads` = 2 lets an authentication be replaced, which is where the id can be
  lost; `Polls` = 1 instead of 40 keeps both the repeated poll and the limit. Three
  callers, each repeating its operations while threads are left.
* Environment: two threads and two keys, so that a save of one carries the other; `Retry` is 3
  for the code's 5: a first try, one in the middle and a last one, which is all the loop tells
  apart; the proofs hold for any number. Nothing else is bounded.
* Recording: two buffers, so that one is on its way while the other is captured; `Slots` = 2
  lets one frame wait in the codec behind another, `RawLimit` = 2 (the code's 60) and
  `Limit` = 1 let every queue be full; with `MaxFrames` = 4 each buffer goes round twice, and
  `MaxErrors` = 1 refuses one frame at any place of the order.
* Packets: `Boundaries` holds the sizes on both sides of what one, two and three packets
  take and of the largest length the header can give, which audio reaches two bytes
  earlier. Nothing else is bounded: the
  counters come round.
* Guard: the limit of 5 boots and the interval of 5 seconds are the code's. `MaxFaults` = 3
  is enough to lose the count, the power and a good partition in one history.
* What TLC visits: 300 000 distinct states for QueueRemove, 450 000 for CecRequests, 640 000 for
  CecEvents, 300 000 for HdcpRestart, 2 350 000 for EnvUpdate, 570 000 for ScreenRecord,
  12 700 000 for ScreenPackets (long but narrow: most of them are the packets of the longest
  units), 270 000 for BootGuard. No symmetry is used, since most of these runs check liveness.
* `CHECK_DEADLOCK FALSE` in the queue's, CEC, HDCP and recording runs: with the clock, the
  budgets, the threads or the frames used up the models stop; the liveness properties say
  that nothing is owed then. The environment, the packets and the guard are checked for
  deadlock.

## 13. What is not modelled

* Queue: the bytes of `mpPara`.
* CEC library: the playback device type, what `setOption` writes to the driver, the
  properties and sysfs, `closeCecDevice`, the getters, and the table that
  `getPortInfos` frees while the receiver may walk through it (undefined behaviour of
  the allocator).
* HDCP: keys and their loading, the RX services, the uevents that do not restart the
  authentication (that of a suspend among them, see section 6), physical layer and mode
  writes, the repaint of the screen.
* Environment: `reInit` (its only caller is a class that `main_systemcontrol.cpp` does not
  create), `getValue` and `printValues`, which change nothing, the branch of `save` for mtd
  devices (no name that `init` chooses contains "mtd"), overlong keys and values, and the
  second process `setbootenv`.
* Recording: the conversion of audio, clients that are native windows, crop and rotation,
  and the calls for a screen capture, which share the service.
* Packer: the bytes of headers and descriptors, the checksum, the time stamps, PCM audio.
* Guard: messages to applications and their listener, how mounts and checksums are read, and
  `doRemount`, which nobody calls.
* Every other component of section 1, for the reasons `PROJECT.json` gives. Most of the
  lines of this repository are of a kind that a model would only repeat: getters and setters
  of picture parameters, the same remote call written four times (interface, service, client,
  JNI), Java applications, databases, and strings read from and written to sysfs.
