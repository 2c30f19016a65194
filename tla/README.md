# A TLA+ development of the AIDIN Hand 2 SDK core

This directory specifies the C++ SDK (`cpp/src`): the API calls of one hand, its realtime control loop,
the channels between its threads, the homing sequence, the CAN FD link from the bring-up of the interface to
the control word of every drive, the way of the user's settings through a cycle, and the programs of
`cpp/examples` that use all this. TLC checks the modules on small instances; TLAPS proves all the safety
properties the runs check, most of them for every instance.

## Inventory

One `Hand` is one `HandCore` (`hand_core.hpp:31-52`). It has three threads which never call each
other:

| Part | Source | State | Operations | What is hard |
|---|---|---|---|---|
| API calls (user thread) | `hand_core.cpp` | requested lifecycle, staged command, homing flags | connect, disconnect, reconnect, close, run, stop, home, start_homing, set_command, getters | every call races the loop; bounded waits; failures half way |
| Control loop (RT thread) | `hand_core_control_thread.cpp` | observed lifecycle, stop cause, loop locals | one cycle: input, observe, watch, send, judge, publish; failure handler; automatic recovery | loads and stores of atomics in one cycle are far apart |
| Event logging thread | `hand_core_event_logging_thread.cpp` | reported drop count | drain the ring, report drops | the end of the thread, full ring |
| Latest value handoff | `types/realtime_buffer.hpp` | three slots, one index word | write, read | copies that are not atomic; two producers of the command |
| Event ring | `types/realtime_event_ring.hpp` | slots, two indices, drop counter | push, pop | limit, order |
| Lifecycle table | `lifecycle/action_check.cpp` | none | check_action_allowed | requested and observed differ |
| Hand communication | `comms/hand_comms.cpp` | socket, last frames, seen quick stop bits, silence counter | connect, read, write, home, verdicts | stale frames, send errors |
| Homing sequence | `comms/state_machine/homing_sequence.cpp` | stage, cycle, who takes part, outcome | start, cancel, step | drives that answer late, never or wrongly |
| CiA 402 words | `comms/state_machine/cia402.hpp` | none | control word ladder, enable verdict | fault reset edges |
| Protocol, transport | `comms/canfd/protocol.cpp`, `transport.cpp` | socket, errno | open, close, send, recv, decode | half-open sockets, errno kept, frames of others |
| Interface setup | `comms/canfd/interface_setup.cpp` | none of its own; the kernel's links | look up, query, configure, bring up | the device may change between two requests |
| Controllers | `controllers/*` | held target, filter section, previous count | compute, reset | state kept while inactive |
| Kinematics | `kinematics/*` | - | forward, inverse, clamp | floating point |
| `Hand`, `HandManager` | `hand/*` | ownership of cores | forwarding, destroy | lifetime of handles; the destructor on every way out |
| Example programs | `cpp/examples/*` | a script, a shutdown flag, recovery attempts | calls in an order | errors, signals and faults between any two calls |
| Logging, Python bindings | `logging/*`, `python` | sinks | - | - |

How they interact: the user thread writes `requested_lifecycle_`, the homing and hold requests and
the staged command; the loop reads them, and writes `lifecycle_`, the stop cause, the homing state
and the link checks. `comms_` belongs to the loop while its thread lives and to the user thread
otherwise. `Hand` is not thread-safe (`07_cpp_usage_guide.md:152`), so there is one user thread.

What makes the parts correct, and the hazards that threaten it, is listed with its source line in
`PROJECT.json` under `hazards`.

## Modules

| Module | Models | Composes or refines |
|---|---|---|
| `LatestValue` | what a `RealtimeBuffer` promises: a one-place mailbox of the latest value | |
| `RealtimeBuffer` | `write()` and `read()` access by access, `staging_mutex_` | implements `LatestValue` |
| `RealtimeBufferProofs` | theorems about it | |
| `EventQueue` | what the ring promises: a bounded FIFO that drops at its limit | |
| `RealtimeEventRing` | `push()`, `pop()`, the logging thread and its lifetime | implements `EventQueue` |
| `RealtimeEventRingProofs` | theorems about it | |
| `ActionCheck` | `check_action_allowed()` | used by `HandCore` |
| `HandCore` | the calls and the control loop of one hand | uses `ActionCheck`; implements `WireContract` |
| `WireContract` | what a hand promises to whoever watches its bus | abstract |
| `HandCoreProofs` | theorems about it | |
| `HomingSequence` | `HomingSequence::step()` with the drives | justifies the homing of `HandCore` and the modes of `HandLink` |
| `HomingSequenceProofs` | theorems about it | |
| `CanConnection` | `HandComms::connect()` and discovery, `Transport::open()`, interface setup, on a host with other programs | the link `HandCore` and `HandLink` start from |
| `CanConnectionProofs` | theorems about it | |
| `HandLink` | `HandComms::read()` and `write()`, the drain, the five sends, the ladder of each drive | the link of `HandCore` in detail |
| `HandLinkProofs` | theorems about it | |
| `ControlCycle` | settings, controllers, frame and snapshot of a cycle | uses `ActionCheck` |
| `ControlCycleProofs` | theorems about it | |
| `HandContract` | a `Hand` as a program sees it: each call its beginning and its end | uses `ActionCheck`; coarse `HandCore` |
| `Applications` | the example programs on a `HandContract` | composes it with 21 scripts, and with the client of the server |
| `ApplicationsProofs` | theorems about it | |

### RealtimeBuffer

A payload copy is two steps (`BeginWrite`/`EndWrite`, `Swap`/`EndRead`), and a slot is `Torn` in
between. A `compare_exchange_weak` that fails changes nothing and is a stutter. Memory order is
sequentially consistent: the acquire and release pairs of the code order every access that the
model separates. `Lock` is the `lock_guard` of the four functions that stage a command; the buffers
with one producer are the instance in which the lock is free whenever it is wanted.

### RealtimeEventRing

`push()` is split at the load of `read_index_`, at the copy and at the release store; `pop()`
likewise. `Connect` to `StopLogging` are the moments at which the user thread starts and ends the two
threads: `Connect`, `StartControl` and the rollback (`StartFails`, `JoinLogging`) of `connect()`, `JoinControl` of
`stop_control_loop()`, `StopLogging` of `close()`. `LoggingThrows` is an exception of the logging thread, which takes at most the event
being written with it; `NoticeLogged` is the handler, and the dead thread stays joinable, so that only a
`connect()` that fails to start the RT thread makes room for another. The 64 bit width of the indices is not modelled: they do not
wrap in the lifetime of a hand.

### HandCore

Six variables, each a record: `hand` (the atomics, the stop cause, the staged command and its
one-place buffer, which `RealtimeBuffer` justifies as one step), `comms`, `rt` (the loop), `user` (the
call in progress), `env` (link and drives), `seen` (history for the properties). A call and a cycle are
sequences of steps named by `user.pc` and `rt.pc`; a step is at most one access that the other thread
can observe, or several which no step of the other thread can tell apart.

* `connect()`: the check (`ConnectRefused`, `ConnectChecked`), the two loads behind it (`ConnectAsked`, then `ConnectIgnored` or
  `ConnectAgain`), `SocketIsOpen`, `ConnectOpen` (with `NewLink`), `ConnectOpenFails`, `ConnectThreadFails`, `Terminates`,
  `FirstFrameSeen`, `FirstFrameMissed`, `ConnectSucceeds`.
* `stop_control_loop()`: `Leave` and `Join`, for the failed connect and for reconnect, disconnect and
  close, which differ in what follows the join.
* `stop()`, `run()`, `home()`, `start_homing()`, `set_command()` with a target: the actions under
  their headings. `request_control()` is shared by run and homing, as in the code.
* `seen.late` counts the frames after a stop only while Stopped is still asked for: a stop that the recovery takes back
  (`hand_core_control_thread.cpp:456`) is not judged by `StopReachesTheWire`.
* the loop: `LoopTop` to `StageOrigin` in the order of `run_control_loop()`; `LoopThrows` (anywhere in the try block but where
  only atomics, arrays, `::send` and the ring are touched: `Throwing`), `LoopFails` and `LastQuickStops` are the failure handler; `Reopen` to `Recovered` are `try_reconnect_once()`.

Commands are told apart only as torque-free, hold, hold of the origin and the user's. A homing inside
`HandCore` advances or ends at every frame; `HomingSequence` is its detail. The calls of `HandComms` do nothing
without a socket, and the loop may be without one: when its recovery has failed to reopen the link, and a
confirmation has meanwhile overwritten the fault, it goes on with its cycle. `Drives` are the
actuators that are neither disabled nor in a drive error, which the enable verdict skips.

Time is abstracted. A drive follows a frame in that cycle or later. A bounded wait may give up once it
has watched `WaitCycles` cycles of the loop begin. With `WaitCycles = 0` any wait may end at any
moment, which covers every timing including a loop that is starved; the runs that are to show a
property hold use it. The runs that show a disagreement use 2, so that none of them depends on an
unreasonably early timeout.

`WireContract` says what all this comes to on the bus, without threads, calls, cycles or drives: from the lifecycle that
is asked for, the fault that is observed, the origin, the homing asked for and the voided target it says which frame may be made
next. A frame is made (`Makes`) and goes out (`GoesOut`) in two steps, so that a stop may be asked for in between and
then turns the next frame. `NextFrame` of `HandCore` maps to it the frame that `ReadLatest` has decided on and `Send` has not yet
sent; `Stop` is the quick stop on request, the first of which voids the target.

### HomingSequence

`seq` holds the members of the class, `frame` what the last cycle sent, `drive` the state and homing
status of each drive. Bits 12 and 13 of a drive are its homing status if the last frame was in mode 6
and anything at all otherwise (`Shown`). A drive may follow a frame, ignore it, or fall out of the
ladder. `start()` may restart a run that is going on, and between runs anything may have happened.

### CanConnection

A process of `Programs` is one program with one `HandComms`; every system call is a step (`FindInterface` to
`BringLinkUp` for a link that is down, `CreateSocket` to `SetErrorMask` for the socket), and each may fail for
reasons of its own. Between two steps another program transmits, an adapter is replugged under a new index,
the operator takes a link down or brings it up by hand, or a hand is moved to another channel. `NextCandidate`,
`ScanHears` and `ScanIsSilent` are `discover_interface()`; `ProbeHears` and `ConnectSucceeds` the probe of
`connect()`. A 150 ms window is a set of senders yet to be heard (`owed`): it closes only after all that were
sending when it opened, and still are, have been heard. A frame is whose ids it carries and whether a hand or a
master sends it, which is all that the filters and `decode()` look at.

### HandLink

One session after another of one hand. A cycle is `Read` (the whole queue is drained, `watch_link()`) and `Write`
(the control words, the five sends, the transmit verdict, `watch_drive_state()`); a fault still observed at its head ends the
loop (`LoopEnds`). `asked` and `own` are what the cycle has loaded of the two atomics; `previous` is the edge on which
`watch_link()` faults, once for a silence however long. A call that waits for the loop confirms it in two steps: `WaitEnds` is
its last look, `Confirm` the store of Connected or Running, over a fault if one came between. Requests, confirmations and
reports of the drives fall between the two steps of a cycle; what only another step of the same place could tell apart
(trips, error frames) falls between cycles. A drive has an error code while it is in fault. A burst is every sequence of five results that changes at most once, which is where
the bus goes down or comes back inside it. The stages of homing are an arbitrary choice of the mode they
may ask for, so that what holds here does not rest on their order. `React` is the drive (CiA 402), external to
the repository; a drive leaves a fault only on a rising edge of bit 7 and only once its cause is gone.

### ControlCycle

One actuator with one joint. A call is one step, or two when it waits (`Return` is the end of the wait, with the
Connected that `connect()` then stores even over a fault); a cycle is `Input`, `Observe`, `Write` and `Publish`, because
the requests are read again at `Write` and at `Publish`. Angles and counts are small integers, the kinematics a
table with a pose that does not solve (`NaN`), the low pass a section that moves one step towards the held
target, the effort of the impedance controller a product of small integers clamped to the cap. `Reach` is the workspace
clamp, or nothing (`AIDIN_HAND2_WORKSPACE_CLAMP=0`): the assumption only asks that an angle comes out of which a count is
known. `ToInteger` is the cast of a target to an integer: a value out of range becomes the smallest. `Encoded` is what the
encoder adds, the origin counted from the drive's, with a sum that wraps. A burst is sent, or one of its sends fails for
good (`lost`): while running that is a fault of the same cycle, which the snapshot then reports as a quick stop.

### HandContract and Applications

`HandContract` has the calls of `HandCore` with what a program can tell: refused at once with a code, done at
once, or waiting for a lifecycle that the loop reaches or a deadline that passes (`TimesOut`). The loop, the drives and
the cable go on meanwhile. Two of the loop's races reach a program in another way than by an answer, and are steps here:
`run()` and `connect()` end in two steps, the last look and `Confirm`, the store over whatever the loop has stored in between
(`hand_core.cpp:614`, `146`); and a homing ends in two, `HomingOver` with the result `home()` answers from and `HomingPublished`
with the state `set_command()` is checked against (`hand_core_control_thread.cpp:352-354`). `hand.loop` says what has become of
the loop: a silence faults on its edge only (`LinkLost`), a fault ends the loop at the head of its next pass (`LoopLeaves`) unless
a confirmation was faster, and a socket that could not be reopened stays closed. `HomingMissed` is a request of `home()` that falls
into a cycle begun before control was asked for, `SendFails` the transmit fault. The command a call stages is left to `HandCore`.

`Applications` gives every example a script: `Must` is a call whose exception leaves
`main()`, `Demo` one that is expected to be refused, `Try` one whose exception skips the rest of a pass. A loop
that counts may run out at its head, and one that looks at the shutdown flag does so there. The destructor of
`HandManager` follows every way out. The server of example 19 is a loop over one TCP client.

## Runs

| Run | Bounds | Shows |
|---|---|---|
| `buffer` | 2 producers, 2 values | no shared slot, no torn read, `LatestValue` implemented |
| `event_ring` | capacity 2, 6 events, 2 throws | order, completeness up to reported drops and throws, catching up while a logging thread runs, `EventQueue` implemented |
| `calls_and_loop` | 1 drive, 5 calls of connect, run, home, stop, set_command, reconnect; the loop may throw | a voided command stays off the wire; no target without an origin; a stop reaches the wire with at most one late frame; there is one loop; `WireContract` implemented |
| `recovery` | automatic recovery with homing and with a limit, 1 drive, 1 loss, 4 calls of connect, start_homing, set_command, disconnect | over up to two sessions and a recovery by the loop: homing of one link does not count on the next, no homing that nobody asked for, no command of the old link; `WireContract` implemented |
| `calls_return` | 3 calls, 1 loss, auto_home, fair | every blocking call returns; a visible fault has its cause and quick stops |
| `homing` | 2 actuators, stage budgets 1 to 3 cycles, 2 starts, fair | success is earned, budgets hold, culprits took part, the push is never released, a sequence that is stepped ends |
| `connection` | 2 programs for the same hand, one "auto" and one on `can1`; 2 channels, 1 failing system call, 1 event | no socket is lost or half set up, no link is brought up whose bit rates nobody has set, a rival master is noticed, a scan finds its hand |
| `link` | 2 actuators, one disabled; 1 silent cycle tolerated, queue of 1, 1 trip, error frames, fair | nothing of the old socket counts, silence behind noise is noticed unless a confirmation overwrites its fault, no fault from a stale errno, a disabled drive gets no power, a fault is reset |
| `cycle` | 2 counts, one without a solution; cap 4, word 4, 2 settings, 1 move, 1 fault | settings survive a connection, no controller jumps, the frame is bounded but for targets that wrap, the snapshot names what was sent or the quick stop of a failed send |
| `applications` | 21 programs, 2 cuts of the cable, 1 missed deadline, 4 verbs (connect, run, home, reconnect) with 1 line on its way, fair | calls in order but for a target too early, no hand left under torque, Ctrl-C and `quit` end a program unless `home()` hangs, a fault reaches the client |

The bounds are small because the interesting cases are short: the ring fills and wraps three times;
two producers and one consumer meet in every order; five calls are enough to connect, home, set a target,
stop and run again, and to leave and return; one drop of the link is one fault at any access of either thread;
one drive answers early, late or never, and in `homing` two disagree; a stage budget of 2 or 3 has a first, a
middle and a last cycle, and the ratio of `kEdgeCycles` to `kSettleCycles` is kept. Two channels and two programs
are a scan with a wrong and a right candidate and a probe with a rival; one event replaces, removes or takes down a link
between any two system calls. One silent cycle is tolerated, the next one faults, and an error frame may arrive in
each. Two settings are a target and a second target, a cap, a configuration or a bias, in either order and in
either of two sessions. Two cuts are a fault, and a fault in the recovery from it. The verbs of the server are those that wait
or recover; the keys of `lifecycle_walkthrough`, a loop of the same shape, are all the others too.

Each module has a type invariant, `TypeOK`, which TLC finds to hold under the configuration of its run. A
run lists the deeper properties only.

Deadlock is not checked where the system may stop: calls are bounded, the logging thread ends, the
sequence is idle after its last start, settings, failures and cuts run out, a program is over.

Fairness: `RealtimeEventRing` assumes that the logging thread is scheduled (its exceptions need not happen) and a push that began ends;
`HandCore` assumes that both threads are scheduled and that a homing that is advanced ends
(`HomingEnds`, strong because the frame that ends it is not enabled between frames), which
`homing` shows of the sequence under the fairness that the loop goes on to step it. `HandLink` assumes that the
cycle runs and the drives report, and, strongly, that each of the two words of the fault reset gets
through now and then: a bus that is full whenever the same one of the two is due would defeat any
alternation. `Applications` assumes that `main()` is scheduled, that the loop goes on, and that a call that can
end does, as its bounded waits and `CallsReturn` of `HandCore` say. A `home()` whose loop has left behind a confirmation (`Hangs`,
the disagreement on `CallsReturn` below) cannot end, and `ShutdownEndsIt` and `QuitEndsTheServer` name it as their exception.
That a send fails is never assumed. Nothing is assumed of the link, the cable, the user or the client.

### Disagreements between the code and what is written about it

Two runs expect a violation; `PROJECT.json` quotes the sentence and the line for each.

| Run | Property | In short |
|---|---|---|
| `faulted_is_left` | `FaultedUntilReconnect` | the store of a confirmation overwrites a fault the loop stored after the last look |
| `join_hangs` | `CallsReturn` | the automatic recovery takes back the exit request of `close()` |

More were met while modelling (`hand.md` is in `docs/en/08_cpp_api_reference`, the others in `docs/en`). Their
properties stand in the modules, and TLC finds each violated under a configuration like those of the runs;
they have no run of their own.

| Property | Where the code does it | What is written |
|---|---|---|
| `RunIsConfirmed` | `hand_core_control_thread.cpp:283`: `run()` may succeed on status words older than a quick stop that is on its way, with a drive not enabled | `07_cpp_usage_guide.md:248` |
| `HomeErrorMeansFailure` | `hand_core_control_thread.cpp:114`: between the cleared request and the active flag, `home()` sees a homing that ended without success | `hand.md:135` |
| `HomeSuccessIsVisible` | `hand_core_control_thread.cpp:353`: the active flag is cleared before the homing state is published, so a target set directly after `home()` may be refused, the one exception of `ScriptsAreInOrder` | `hand.md:139` |
| `TargetStaysInEffect` | `hand_core_control_thread.cpp:358`: a hold of the loop replaces a target that was accepted | `hand.md:153` |
| `DisconnectVoidsTheCommand` | `hand_core.cpp:162`: a hold staged by the loop after the reset survives `disconnect()` | `07_cpp_usage_guide.md:647` |
| `LinkErrorsAreNamed` | `hand_core_control_thread.cpp:443`: the recovery clears the cause before the fault, and a call in between blames the loop | `07_cpp_usage_guide.md:1356-1357` |
| `DisabledAreNotBlamed` | `homing_sequence.cpp:167`: an enable timeout without any drive present names the disabled actuators too | `15_error_messages.md:163-164` |
| `SettleHoldsThePush` | `homing_sequence.cpp:217`: the settle stage is in mode 6 from its first cycle | the comment at `homing_sequence.cpp:214` |
| `CallsReturn` with home() | `hand_core.cpp:315`: `home()` has no deadline, and after a confirmation overwrote a fault no loop is left to end its wait; in an example, neither Ctrl-C nor `quit` gets past it (`Hangs` of `Applications`) | `07_cpp_usage_guide.md:201` |
| `StopIsConfirmed` | `hand_core.cpp:291`: a homing or `run()` from Stopped leaves `lifecycle_` Stopped until a verdict moves it, and a `stop()` before that takes it for its own confirmation while the enabling frame is on its way; `hand_core_control_thread.cpp:285`: the verdict itself may be older than the request | `07_cpp_usage_guide.md:249`, the comment at `hand_core.cpp:282` |
| `OneControlLoop` with automatic recovery | `hand_core.cpp:129`: a second `connect()` is checked while Connected, the link drops before its loads, and the recovery has closed the socket when it opens one: it assigns the thread of a live loop, which ends the process (`Terminates`) | `hand.md:46` (a no-op when Connected) |
| `TargetsNeedOrigin` with automatic recovery | `hand_core.cpp:398`: a target checked before a drop is stored and sent after the recovery | `07_cpp_usage_guide.md:1365-1367` |
| `HomedUnlessFaulted` with automatic recovery | `hand_core.cpp:614`: once the confirmation of `run()`, or of a late `connect()`, has overwritten a fault, the recovery opens a link on which the homing still reads Succeeded, and a loop without a link publishes the outcome of the last one | `07_cpp_usage_guide.md:1365` |
| `AutoFollowsItsHand` | `hand_comms.cpp:94-95`: the first scan pins its channel, "auto" never scans again | the comment at `hand_core_control_thread.cpp:439` |
| `SourceIsActual` | `hand_core_control_thread.cpp:178-184`: the last cycle before an exit sends a quick stop and publishes Controller, and a cycle of which a send failed publishes a quick stop it did not send | `07_cpp_usage_guide.md:761` |
| `BiasIsMeasured` | `hand_core.cpp:689`: a bias requested before the end of a session is taken by the next one before its first frame, from a blank reading | `07_cpp_usage_guide.md:818`, `hand.md:204` |
| `InProgressIsTrue` | `hand_core.cpp:351`: `start_homing()` publishes InProgress before `request_control()` may refuse, and nothing takes it back | `types_state.md:42` (beside `hand.md`) |

Observed on the way, without a property of their own:

- the flag of the first frame is set before the first snapshot is written (`hand_core_control_thread.cpp:185`), so `connect()`
  may return in front of a blank snapshot, against the comment at `hand_core.cpp:140`; and `run()` directly after
  `connect()` may be refused, as no cycle has judged the link (`hand_core.cpp:564`);
- `17_fault_recovery.cpp:161` says that a failed attempt leaves the hand Faulted, which is not so when `run()` or `home()` fails after a
  successful `reconnect()`; likewise `18_self_managed.cpp:132-133` when a homing fails while Running. That program also
  meets `join_hangs`, which is why `ShutdownEndsIt` leaves it out;
- a hand that is Connected after `reconnect()` is destroyed without a quick stop, whatever state the
  drives were left in (`hand_core.cpp:164`);
- an actuator target within 1000 counts of the largest 32 bit integer is accepted (`hand_core.cpp:773-780`, and so
  `command_validators_test.cpp:209`), and overflows when the encoder adds `kHomeOffsetCount` (`protocol.cpp:220`): the drive is
  sent to the other end. `FrameIsBounded` names these targets;
- a silence faults on its edge only (`hand_core_control_thread.cpp:228`): where the confirmation of `run()` or `connect()` has
  overwritten that fault (`hand_core.cpp:622`), the loop runs on with a hand that stays silent and never faults again.
  `SilenceIsNoticed` names this exception;
- two programs that probe at the same moment both find the bus silent and both connect (`hand_comms.cpp:136`):
  `MasterIsNoticed` speaks of a rival that was commanding when the probe began;
- the server of example 19 does not notice a client that is killed, and accepts no other.

## Proofs

`RealtimeBufferProofs` proves, for any set of producers and payloads under `BufferAssumption` (the
markers are not payloads), `TypeCorrect`, `SlotsDisjoint`, `ReadsWhole` and `BufferIsMailbox`. The
inductive invariant `IInv` adds to the types that the three indices differ, that whoever is inside
`write()` holds the lock and still owns the write slot, and that only that slot can be torn. Without
the second part nothing relates the slot a producer chose to the word it exchanges later. The
refinement maps the exchange in `write()` to `Put`, the exchange in `read()` to `Take`, every other
step to a stutter.

`RealtimeEventRingProofs` proves `RingTypeCorrect`, `Accounted` and `RingIsQueue` for any capacity and any number of
events. `Counted` relates the indices, the log and the drop counter to what was offered; `InOrder` says
what the window between the indices holds, and that the event being pushed is younger than all of it;
`LogInOrder` the same of what has left; `EndsInOrder` in which order the threads may end, and that only a throw ends one
early. The log may lag behind the ring by one event for each throw that was noticed (`Counted`). A push writes outside the
window because two indices less than the capacity apart have different slots (`SlotsApart`). The refinement maps the release
store of `push()` to `Accept`, a full ring to `Drop`, and the store of `pop()` to `Deliver`, also when the line then throws.

`HandCoreProofs` proves `TypeCorrect` under `HandCoreAssumption` alone: any finite set of
drives, any calls and bounds, any configuration. `TypeOK` is not inductive: what a join returns to
depends on the call in progress, and what `StoreVerdict` stores on what is waiting. `Labels` adds
which call and goal may be at which label, and that only a verdict is stored. Eight safety properties follow, and the refinement of `WireContract`.

| Theorem | Property | Invariant, and why it is needed |
|---|---|---|
| `OneLoop` | `OneControlLoop`, without automatic recovery | `Homed` below: a loop that is alive has its socket open. A `connect()` whose check passed while Connected may find a fault behind it and go on, but then `Transport::open()` refuses a second socket before the thread is assigned. |
| `FaultIsQuickStopped` | `FaultQuickStops` | `Requests`: a Disconnected request leaves a loop only to a call about to join it, and under a Connected request a live loop has observed Connected or Faulted unless a call is still connecting or leaving. `FaultsSeen`: before the watch of the link the loop has not observed a fault, and after it `rt.obs` shows every fault in `hand.observed`. A failed `connect()` inside `reconnect()` stores Faulted too, but has no loop then, which is what `Requests` is needed for. |
| `StopReaches` | `StopReachesTheWire` | `OneLate`: a loop that is about to send, and read Running before the stop was requested, has sent nothing late yet. |
| `CauseKnown` | `FaultHasCause`, without automatic recovery | `CauseKept`: the cause stays while `reconnect()` joins, and is saved from the join until its `connect()` has succeeded or put it back. |
| `VoidedStaysOff` | `VoidedCommandStaysOff` | `TargetsVoided`: no target waits under a request other than Running, except where a call is about to void it. `StaysOff`: one that was taken before goes with a request read before, which keeps it off the wire. |
| `HomingAsked` | `HomingWasAsked` | `Asked`: a pending request was made on this link, or the loop is in the first cycle of a connection (`FirstCycle`), which drops it. |
| `HomedHere` | `HomedOnThisLink`, unless a loop recovers and may throw as well | Without recovery `Homed`: an outcome not yet published is of this link, and the socket stays open under a live loop. With it `HomedSince`: a loop without a socket may take an old verdict for that of a homing it could not start, but publishes it in the same cycle, before it opens the next link. |
| `TargetsAfterHoming` | `TargetsNeedOrigin`, without automatic recovery | `Targets`: a target anywhere on its way, the one being staged included, has a homing of this link behind it. |

`OneLoop`, `CauseKnown` and `TargetsAfterHoming` fail with automatic recovery: it closes the socket under a `connect()` that is past
its loads, clears the cause before the fault (`LinkErrorsAreNamed` above), and may pass between the check and the store of a target. Most steps touch
nothing an invariant speaks of. `QuietCall` and `QuietCycle` say so once for all of them; for the last four
the steps are summed up as their effects on a few fields (`Passes`, `Turns` and the like), and the
invariants are proved of the effects.

`KeepsToTheWireContract` is `Spec => ImplementsWireContract` for every configuration, automatic recovery included, where a target
may then go out without an origin (`NeedsOrigin`). It brings the theorems of the table together: a call is one of the `Asks` or
opens the link (`CallsAsk`), `Rereads` makes the frame, whose kind `HomingAsked`, `VoidedStaysOff`, `TargetsAfterHoming` and
`FaultIsQuickStopped`, taken in the next state, allow (`FrameIsMade`), and `SendsFrame` is `GoesOut` (`FrameGoesOut`). The one
new invariant is `Unfinished`: a homing that is being advanced has no verdict yet, so that only a homing frame can bring an origin.

`HomingSequenceProofs` proves `SuccessEarned`, `WithinBudget`, `BlameIsFair`, `PushDoesNotSlip` and the types, for any
actuators and stage budgets (`HomingAssumption`). `OnTime` bounds the whole run by the budgets of the stages before and the
cycle of this one. `OriginsAreNew` is what makes a success earned: past the clearing stages a bit 12
that is shown was attained in this run, which needs that the word is read in mode 6 there (`ReadInModeSix`).
`PushHolds` says that nobody is pushed before the preload and everybody taking part from then on.

`CanConnectionProofs` proves `SocketsOwned`, `BroughtUpLinksConfigured`, `MasterNoticed`, `ScanFinds` and the types, for any
programs, channels, failures and events. `CallsOwn` says at which system call a program holds a socket, and how far it
is set up. `Indexed` says that a new device has an index never given before, without which a replugged
adapter could pass for the one that was configured. `RivalsAreHeard` and `ScansAreOnTheWay` follow a rival, or
the hand, from the opening of the window into the queue.

`HandLinkProofs` proves `SessionsAreApart`, `SilenceFaults`, `TransmitFaultsAreReal`, `DisabledStaysOff` and the types, for any
actuators, silence limit and queue. `CountsTruly` ties the counters of the session to the silence as it is,
`UnheardIsUnknown` says that a session knows nothing of a drive before its first frame, and `LossIsKnown` that the loop
remembers from the cycle before whether the link was lost, and has then faulted unless that fault was overwritten: without
it a silence that goes on could pass for one that was noticed. What remains of a whole
queue is shown from its last frame (`MaxIsGreatest`), as a queue is not read frame by frame here.

`ControlCycleProofs` proves `SettingsTaken`, `OutputDoesNotJump`, `FramesBounded`, `SnapshotNamesTheSource` and the types, for any
maps, caps, gains and deadband. `ControlCycleAssumption` asks that the angles are an interval, the counts of angles and the
offset of the origin fit the word, and NaN is neither. `FramesBounded` says of a target within the offset of the end of the
word that it wraps, and of every other that the drive is sent to it. `InForce` follows a setting from the call to the loop. `NoJump` needs the longest argument (`Reset`,
`Requests`): memory that a controller left and nobody has reset is of an earlier session, and a joint command is refused there
until a homing, in whose cycles it is reset.

`ApplicationsProofs` proves `NothingIsLeftPowered` for any of the examples, any of the server's verbs, and any number of cuts and
troubles. `Closing` says that only the destructor's own waits follow it, and that behind them the link is closed
and the loop gone that could reopen it; `Unhurt`, that while nothing has gone wrong torque is held in Running alone, where no call opens
or cuts the link without a quick stop. Of the scripts it is used only that each item is a call of the hand or none
(`EveryScript`). `TutorialsAreInOrder` proves the order of their calls. `Path` annotates a script with the stage (new, connected,
running, homed, stopped, gone) the hand is in before and behind each item; `OneStep`, `Onward` and `Around` build the annotation
up from the items, sequences and loops a script is written with, and `Courses` does so for every script. The
invariant `OnCourse` says that the hand is in the stage in front of the item that is next, or in a call that leads to the stage
behind it (`Underway`): a call in its stage is right (`RightCall`) or told of a fault, and an answer without error leaves the
hand in the next stage. A hand is homed (`AtHome`) once its homing is over, be its state published or about to be; only a target
that falls in between can be told of a wrong order, which `hand.early` notes.

TLC finds these invariants to hold on the instances of the runs too, but for `OnCourse`, which quantifies over
annotations. Only model-checked:

- liveness under fairness, and `ENABLED`, which are outside the prover: `EveryEventIsLogged`, `CallsReturn`, `HomingEnds`,
  `FaultIsReset`, `ShutdownEndsIt`, `FaultIsSeen`, `QuitEndsTheServer`;
- the disagreements above, which are counterexamples.

No module declares a recursive operator, and nothing here computes over data of unbounded size that induction
would be needed for.

## Plan

Done: `RealtimeBuffer`, `RealtimeEventRing`, `ActionCheck`, `HandCore`, `WireContract`, `HomingSequence`, `CanConnection`, `HandLink`,
`ControlCycle`, `HandContract`, `Applications`. To come:

1. `HandContract` as what `HandCore` implements. It is not so as the two stand: `HandContract` has a call as its beginning and
   its end, and its loop does not throw. Today the two are tied by `ActionCheck` and by what `calls_return` shows.
2. The verdict of an automatic stop in the event log (`watch_stop_verdict`, `evaluate_stop_confirmation`). The loop
   ends in the cycle of the fault, so StopNotConfirmed, and ReceiveRestored of a hand under control, are not reached;
   the verdict is read by nothing else.
3. 32 bit conversions of the protocol as operators against a reference definition.
4. Several hands of one `HandManager`, and moving it.

The set of runs is kept small: a run for each component and question.

## Not modelled

- Kinematics and `JointClamp`: closed prebuilt kernels and floating point polygons; `ControlCycle` takes a table.
- The laws of the controllers beyond their memory; payload layouts of the protocol; the bytes of netlink messages.
- Sinks, formatting and wiring of the log. `logging.cpp:62` exchanges the sinks without synchronisation with a
  thread that logs, and the documentation asks for the call before any hand exists.
- The terminal and log queue of example 03, which is its input and output; example 02, two hands that do not interact.
- Realtime scheduling and deadline counters, the Python bindings (a wrapper of the same calls).
- Memory order weaker than sequential consistency.
