# A TLA+ model of ArduinoMock

ArduinoMock lets Arduino and ESP32 sketches be built and tested on a host: it
replaces FreeRTOS by `std::thread`, the radio, the serial ports, the file system
and the pins by objects in memory, and lets tests inject what the hardware would
do. This directory holds TLA+ modules of the parts that have behaviour of their
own, TLC configurations that check them on small instances, and TLAPS proofs of
the main results for every instance. Paths below are relative to the repository.

## 1. The system

| Component | State | Operations | Interaction | What is hard |
|---|---|---|---|---|
| Queue, `src/freertos/queue/` | items, length, `mtx`, `cv_not_full`, `cv_not_empty` | create, delete, send, send to front, receive, peek, waiting count | any thread | single `notify_one`s, barging, deadlines against notifications |
| Semaphore and mutex, `src/freertos/semaphore/` | `available`, `mtx`, `cv` | create (2), delete, give, take | any thread | a wait without a loop, deadlines against gives |
| Tasks, `src/freertos/task/` | per task a thread, mutex, cv, the atomics `cancel` and `suspended`, a notification | create, delete, delay, suspend, resume, notify, take | tasks about each other and about themselves, `main` | flags stored outside of the mutex, unwinding by exception, join |
| Software timers, `src/freertos/timer/` | a global vector of timers | create, start, reset, stop, delete, change period, is-active, process, fire, clear | callbacks run inside three of them and call the others | iteration over a vector that callbacks change, re-entrancy |
| Time alarms, `src/TimeAlarms.h` | eight slots, the next free one | repeat, once, enable, disable, free, write (2), reset, delay | `delay` ticks, and ticks call callbacks | a clock reading kept across callbacks, re-entrancy |
| ESP-NOW, `src/esp_now.h` | two callbacks, a flag, a mutex | init, deinit, register (2), unregister (2), send, inject, reset | callbacks on any thread | a callback copied under the lock and called after it |
| Serial ports and streams, `src/HardwareSerial.h`, `src/Stream.h`, `src/stream/` | two byte queues with a mutex each, `_startMillis`, `_timeout` | read, peek, write, inject, drain, flush, clear; `timedRead` and what is built on it | sketch and test threads share a port | a time-out member shared by all readers, late bytes |
| SPIFFS and LittleFS, `src/SPIFFS.cpp` | a map of contents; open files point into it | mount, open, remove, rename, clear; read, write, close | files alias contents | pointers that outlive the entry, read positions after truncation |
| GPIO and interrupts, `src/Arduino.h` | 256 levels, a table of ISRs | write, read, attach, detach, set pin state, reset | ISRs run inside `mockSetPinState` | re-entrancy, detaching while running |
| Scheduler flag and clocks, `src/freertos/task/task.cpp`, `src/times.h`, `src/TimeLib.h` | `g_scheduler_running`, `g_scheduler_start`, start of `millis`, an offset | start, end, tick count, `millis`, `setTime` | everything that waits | two time bases |
| Wire and SPI | byte queues | begin, request, read, write | sketch only | an 8-bit count |
| Preferences and EEPROM | a map, a byte array | put and get of several widths | sketch only | truncation, bounds |
| MD5Builder | the library's context, a digest and a flag | begin, add, calculate, print | sketch only | a digest kept across calls; the fallback hash |
| Print and String | none, a `std::string` | formatting, searching | everything that prints | the smallest integer, bounds |
| WiFi; HTTP, TCP and updater; logging, heap and chip data | canned answers and counters | setters and getters | tests | nothing between them |

The correctness properties of each, in words:

* **Queue**: never over its length; each call takes effect at one instant, in
  order; a full or empty queue is the only reason for `pdFALSE`; nobody sleeps
  beside what he waits for unless somebody else is already coming for it; every
  call returns.
* **Semaphore**: one token, granted to at most one taker per give; no give lost;
  every take returns by its deadline.
* **Tasks**: no wake-up (resume, notification, suspension, deletion) lost; a
  suspended or deleted task does not return from `vTaskDelay`; a resumed one
  does; `vTaskDelete` returns; a notification is pending only while something is
  left of it.
* **Timers**: a pass serves every timer that was due; every dispatcher settles
  the timer it fired; a fired one-shot is inactive.
* **Alarms**: the same for ticks; firings keep their interval (but for those from
  within an alarm's own callback); slots of live alarms are not handed out again; a
  one-shot fires once.
* **ESP-NOW**: nothing delivered after a teardown reaches a callback; callbacks
  may call the API.
* **Serial ports**: a timed read that has the port to itself gives up no earlier
  than its timeout and comes to its end; each byte goes to one reader, in order;
  the text of one `write` is not torn.
* **SPIFFS**: what a `File` reads is the file from its beginning, whatever other
  `File`s append meanwhile.
* **GPIO**: an edge is told once, and only when there was one.
* **Wire**: what `requestFrom` announces can be read.
* **Preferences**: a typed get gives what was put, a string ends inside its buffer.
* **MD5Builder**: after `begin` only one digest is ever shown, that of the bytes
  added before it was asked for, however cut.
* **Print and String**: a numeral denotes its number, `parseInt` reads back what
  `println` wrote, `replace` substitutes what the text held before, a search finds
  the first or the last place there is.

## 2. The modules

| Module | Models | Checked by | Proofs |
|---|---|---|---|
| `BoundedQueue` | what a queue promises: an atomic bounded deque | (abstract) | |
| `FreeRTOSQueue` | `queue.cpp` | `MCFreeRTOSQueue`, `MCCallsReturn` | `FreeRTOSQueueProofs` |
| `BinarySemaphore` | what a semaphore promises: one token | (abstract) | |
| `FreeRTOSSemaphore` | `semaphore.cpp` | `MCCallsReturn`, `MCFreeRTOSSemaphore` | `FreeRTOSSemaphoreProofs` |
| `SemaphoreContention` | the same with a history variable, and the refinement | `MCCallsReturn`, `MCFreeRTOSSemaphore` | `FreeRTOSSemaphoreProofs` |
| `FreeRTOSTask` | `task.cpp` | `MCFreeRTOSTask`, `MCCallsReturn` | `FreeRTOSTaskProofs` |
| `FreeRTOSTimer` | `timer.cpp` | `MCFreeRTOSTimer` | `FreeRTOSTimerProofs` |
| `TimeAlarms` | `TimeAlarms.h` | `MCTimeAlarms` | `TimeAlarmsProofs` |
| `EspNow` | `esp_now.h` | `MCEspNow` | `EspNowProofs` |
| `SerialPort` | `HardwareSerial.h`, `MockStream.cpp`, the timed reads of `Stream.h`, the critical sections of `Print.cpp` | `MCPeripherals`, `MCCallsReturn` | `SerialPortProofs` |
| `MockSPIFFS` | `SPIFFS.cpp`, `SPIFFS.h` | `MCPeripherals` | `PeripheralsProofs` |
| `GpioInterrupt` | the pins and routines of `Arduino.h` | `MCPeripherals` | `PeripheralsProofs` |
| `WireBus` | `Wire.cpp` | `MCPeripherals` | `PeripheralsProofs` |
| `Preferences` | `Preferences.h` | `MCPeripherals` | `PeripheralsProofs` |
| `MD5Builder` | `MD5Builder.h` with OpenSSL or CommonCrypto | `MCPeripherals` | `PeripheralsProofs` |
| `MD5Fallback` | the hash of `MD5Builder.h` that stands in for them | itself | |
| `PrintAndParse` | the integers of `Print.cpp`, `parseInt` of `Stream.h`, the numerals of `WString.h` | `MCPeripherals` | `PeripheralsProofs` |
| `ArduinoString` | the text of `WString.h` and its stream position | `MCPeripherals` | `PeripheralsProofs` |
| `Peripherals` | the seven from `MockSPIFFS` to `ArduinoString` without `MD5Fallback`, and the port, one at a time | `MCPeripherals` | `PeripheralsProofs` |

`Peripherals` (with its instance `MCPeripherals`) and `MCCallsReturn` each take
several components that share no state. Their variable `part` says which one is in use: it is chosen in the first
state and never changes, each disjunct of `AllNext` is the `Next` of one part, and
the variables of the others rest; in `Peripherals` the two directions of a port
are two parts, with different threads. So a run explores one part after the other, each
on an instance whose bounds stand in the MC module (for the component that the
module extends, in the `.cfg`), and a property that speaks of one part holds
trivially in the others. Fairness conditions of a part that is not in use ask for
nothing, as its actions are not enabled.

Each component module declares its parameters as CONSTANTS, with named
assumptions where proofs need them, its state as VARIABLES, one action per function or per stretch of a
function between two points where other threads or callbacks can run, and its
properties at the end. The names of the actions are those of the functions. Some
definitions are marked "Mutant": they are the definition that follows them (or
the one they name) with a plausible mistake, kept to show that each property
notices one; `PROJECT.json` says which mutant belongs to which property.

**Where steps are cut.** A function that holds a mutex throughout is one action,
because everybody else needs that mutex to look. A wait on a condition variable
is cut into going to sleep, being woken (or timing out, or waking for no reason)
and getting the mutex back; between the last two anybody may come first. In
`FreeRTOSTask` the atomics are stored without the mutex, so the test of a
predicate and the sleep that follows are separate steps, and so are a store and
the `notify_task` after it. In `EspNow` locking, unlocking and calling are steps,
because callbacks may call the API again. `FreeRTOSTimer` and `TimeAlarms` run on
one thread: their steps end where a callback begins or returns, and a stack holds
the dispatchers that are waiting for their callbacks.

In `SerialPort` each queue has its mutex, so every read, write, injection and
clearing is one action; between them a timed read reads the clock, stores
`_startMillis`, polls, reads the clock again and compares, each a step, because
other readers of the port do the same to the same `_startMillis`. `println` is
three or four writes, and so as many steps. The other peripherals are used by one
thread and have one action per function; `GpioInterrupt` keeps, as the timers do,
a stack of the routines that run inside of `mockSetPinState`.

**Time.** Deadlines are a flag that some step sets ("the clock has passed it") at
any moment; durations do not matter to the properties. `TimeAlarms` has a clock,
bounded by `MaxTime`, because intervals are what its properties are about.
`SerialPort` keeps the age of `_startMillis` instead of the time, in unsigned
arithmetic of `Width` bits as the code computes it; ages beyond every timeout are
one, and a clock reading may be up to `MaxHold` ticks old when it is used.

**Data.** Items, callbacks, timers and threads are model values. Notification
values are numbers of `Width` bits with their wrap-around. Logging, names,
priorities, stack sizes and cores have no effect in the code and are left out.
Injected bytes are numbered, so that a lost or doubled one shows; written ones are
named by the call and the part of it that they belong to. The context of
`MD5Builder` is what the library was fed, its digest is taken to be the same
(MD5 tells inputs apart), and `MD5_Final` adds a `Padding` to the context, so that
finalizing it again would give another digest. A byte of `MD5Fallback` is the set
of its 1-bits, because `s1` shifts and xors them; the three other words depend on
the bytes and their order alone, which stand for them. Printed numbers are real
digits, because their properties are about the conversion.

**What clients do not do.** Using a freed object is undefined in the code and
excluded in the models, each time by a guard whose comment says so: nobody is
inside a queue or semaphore that is deleted; nobody else is in a call about a task
that is deleted, and tasks do not delete each other (`Deleter`); a callback does
not delete or clear the timer that some dispatcher will come back to, nor free the
alarm it belongs to; a mutex is given by a thread that took it; a `File` whose
entry was erased is not used; an interrupt routine neither replaces nor erases a
routine that runs.

## 3. The runs

| Run | Instance | Shows |
|---|---|---|
| `Queue_safety` | 3 threads, 2 items, lengths 1 and 2, all operations | `TypeOK`, `NoStrandedSender`, `ImplementsBoundedQueue`: the deque with its two condition variables refines the atomic one |
| `Semaphore_two_holders` | 3 takers | finding: `MutualExclusion` is violated |
| `Task_safety` | 2 tasks and `main`, all calls, all `eNotifyAction`s | `TypeOK`, `NoLostWakeup`, `StopIsEffective` |
| `Task_zero_take` | 1 task and `main` | finding: `PendingOnlyIfCountRemains` is violated |
| `Timer_nested` | 2 timers, dispatchers nested 2 deep, callbacks that call anything but `xTimerDelete` | `TypeOK`, `PassServesAll`, `SettlesItsOwnTimer` |
| `Timer_delete_in_callback` | 3 timers, callbacks that delete | finding: `OneShotInactiveAfterFiring` is violated |
| `Alarms_ticks` | 2 slots, delays nested 2 deep, callbacks that call anything | `TypeOK`, `FreshSlots`, `TickServesDue`, `Spaced` |
| `Alarms_delay_in_callback` | the same | finding: `OneShotFiresOnce` is violated |
| `EspNow_callbacks` | 2 threads, 1 callback, calls nested 2 deep | `TypeOK`, `Silenced`, `NoSelfDeadlock`, `CallsReturn` |
| `Calls_return` | part by part: a semaphore with 3 takers, 4 givers and spurious wake-ups; a queue of length 1, 3 threads that do not peek; 1 task, 2 other threads; a port with 2 readers | semaphore: `TypeOK`, `NoLostGive`, `TakeReturns`, and `ImplementsBinarySemaphore` up to the first contention; the others: `NoStrandedReceiver`; `CallReturns`: every call returns although others barge in, because its deadline is fixed before its loop; `ResumeFrees`, `NotifyReaches`, `DeleteReturns`; `ReturnsAlone` |
| `MD5_fallback_late_add` | 2 bytes, messages of up to 3 | finding: `AddAfterFinalizeIsIgnored` is violated |
| `Peripherals` | part by part, see below | `AllTypesOK`; files: `ReadersGetTheText`; flash: `GetsAreExact`; pins: `EdgesAlternate`; bus: `PromisesKept`; digest: `DigestIsOfMessage`; numbers: `ParsedIsPrinted`, `NumeralsDenote`; text: `ReadersGetTheText`, `ReplaceIsSimultaneous`, `SearchesAgreeWithCuts`; port: `TextsStayWhole`, `ExactlyOnce`, `PatientAlone` |

**Why the bounds are enough to be interesting.** Three threads on a queue are two
that compete and one that serves them; with length 2 a queue is empty, half full
and full. Three takers are one that sleeps, one that is woken and one that barges
in. A task has one mutex and one condition variable on which only
itself waits: two other threads suffice for two concurrent notifiers, and two
tasks and `main` for tasks that are callers and callees at once. Two timers or
slots are one that fires and one that its callback acts on, three timers one to
delete before and one to skip after the fired one; depth 2 is the first at which
a dispatcher runs inside another. The theorems of section 5 hold for all sizes.

The parts of `Peripherals`: two paths, two `File`s and files of up to 2 bytes, one
of them a newline, so that a `File` is behind, at and beyond the end of what
another cuts or appends. Two keys, values of up to 3 bytes: one longer and one
shorter than each of the buffers. Two pins, three levels (one neither `LOW` nor
`HIGH`), a routine inside of a routine. Ten queued bytes under a count of 3 bits,
which wraps at 8. Messages of up to 3 bytes in every partition, with any calls
before, between and after. Ints of 5 bits,
which have one and two digits and a smallest one, in longs of 6 bits; bases 2, 8,
10, 16 and one that is treated as 10; up to 8 characters on the line, which are
two printed ints. Texts of up to 4 characters and arguments of up to 2, so that
occurrences overlap, touch and arise from an edit. A port with two threads that
print texts, signs and line ends into 6 places, and, as the other direction, two
readers, 2 injected bytes of which one is a terminator, timeouts of 1 and 2 ticks,
and clock readings that are up to one tick old.

**Fairness.** `Fairness` of the queue: a woken thread gets `mtx` back and runs on,
and the clock passes every deadline; nothing is assumed of the other threads, who
need never call. `Fairness` of the semaphore: the same. `Fairness` of the tasks:
threads run on; whoever calls `notify_task` gets the task's mutex in the end
(strong fairness, as the task holds it again and again). `DeleteReturns` also
needs `Delaying`, that a task body goes on calling `vTaskDelay`, the only place
where it can learn that it is cancelled; it is part of `Calls_return`'s
specification. `Fairness` of the serial port: time passes, and a thread inside a
timed read runs on; nobody need send anything. `FairSpec` of ESP-NOW: the mutex is
not withheld for ever from a thread that waits for it, and no callback calls the
API without end. An operating system with a fair scheduler and `std::mutex` gives
all of these but `Delaying` and the last, which are assumptions about the sketch.

## 4. Findings

1. **Two threads hold one mutex** (`Semaphore_two_holders`). `xSemaphoreTake`
   waits with `if`, not `while` (`src/freertos/semaphore/semaphore.cpp:44`): a
   taker that arrives between a give and the woken sleeper takes the token, and
   the sleeper consumes it again. `docs/development/freertos.md` promises
   "`Take` waits if already taken". What remains true is in `Calls_return`.
2. **A count of zero wraps around** (`Task_zero_take`). `ulTaskNotifyTake(pdFALSE)`
   of a pending notification of value 0 leaves 2^32 - 1 and keeps it pending
   (`src/freertos/task/task.cpp:162`), against the comment two lines below.
3. **A callback that deletes a timer** (`Timer_delete_in_callback`) moves the
   vector under the index of `mockProcessTimers` (`src/freertos/timer/timer.cpp:101`):
   the one-shot that fired stays active, its successor is switched off unfired.
4. **A one-shot alarm that waits fires again** (`Alarms_delay_in_callback`):
   `tick` clears `enabled` only after the callback (`src/TimeAlarms.h:116`), and
   `Alarm.delay` ticks.
5. **The fallback hash takes bytes after `toString`** (`MD5_fallback_late_add`):
   its `add` does not look at `calculated` (`src/MD5Builder.h:99`), against
   "should have no effect" in `test/md5builder_gtest.cpp:55`.
   This concerns builds without OpenSSL. `CMakeLists.txt` insists on it, so the
   tests never meet the fallback; a build by `library.json`, which does not define
   `HAVE_OPENSSL_MD5`, does.

Behaviour that no text of the repository speaks against, but a reader should know
of; the properties are stated so as to leave it out:

* A second reader of a port overwrites `_startMillis`, so a timed read may give up
  at once (`millis()` read before the other's stamp is subtracted from it, and the
  difference wraps) or go on for as long as others begin reads. `PatientAlone` and
  `ReturnsAlone` are therefore about reads that are alone.
* The text, the `\r` and the `\n` of `println`, and a number and its sign, are
  critical sections of their own: lines of two threads may be torn there.
* The fallback hash shifts each byte by its place in the call of `add`
  (`src/MD5Builder.h:104`), so its digests depend on how the data are cut. The test
  `MultiChunkAdd` expects a digest of MD5, which the fallback does not claim to be.
* A repeating alarm whose callback calls `Alarm.delay` is fired again from within
  it, no interval later. `Spaced` leaves such firings out. Its clock is that of the
  ticks: after a slow callback the next firing comes sooner in real time.
* A `File` whose contents were emptied or replaced, and a `String` edited while it
  is read, are read from a position that belongs to the old text.
  `ReadersGetTheText` speaks of the others.
* Renaming a file to itself erases it. `requestFrom` announces none of 256 bytes.
* `vTaskDelay(0)` does not look at `suspended`.

## 5. What is proved

Proofs are in the `...Proofs` modules, for any number of threads, tasks, timers,
items and any bound.

* **Queue.** `QueueInv` is `TypeOK`, `WithinCapacity` and "no call in a queue that
  does not exist"; it is inductive (`Invariant`), from which `TypeCorrect` and
  `CapacityRespected`. `Refinement`: under `QueueInv` a step that returns `pdTRUE`
  is an `Accept` of `BoundedQueue`, one that returns `pdFALSE` a `Refuse` (the
  code looks at the queue again after the deadline, and this is where the proof
  needs it), and everything around the waits is invisible. `SendersServed`:
  while a sender sleeps there are at least as many woken senders as free slots.
  This is inductive as it stands, together with `QueueInv`: a receive frees one
  slot and wakes one sleeper, a woken sender either takes a slot or finds the
  queue full, which makes the claim trivial. It assumes finitely many threads. `ReceiversServed` is
  the same for receivers and items, for clients that do not peek.
* **Semaphore.** `TypeCorrect`; `GivesReachTakers`, inductive with `TypeOK`, with
  and without spurious wake-ups. `TokensAreHandedOnce`: until two takers wait
  together or one is woken for no reason (`contended` of `SemaphoreContention`),
  every step of the code is one of `BinarySemaphore` or invisible. It needs
  `WokenByGive`: nobody but the taker itself is inside, and if it is awake before
  its deadline the give that woke it has left the token there. Without the
  exception the refinement is false, which is finding 1; with it a mutex has one
  holder (`LoneTakersExclude`, from `OneHolder`: while available it has none).
* **Tasks.** `TaskInv` adds to `TypeOK` and `NoLostWakeup` what makes the latter
  inductive: `ArmedTake` (what is known of a task that has tested its predicate
  and not yet gone to sleep), `Deletion` (a deleter has its task for itself,
  cancelled and not yet freed) and `Parking` (a task some `vTaskSuspend` has
  returned for stays suspended and is not past its test). From it `WakeupsArrive`
  and, as an action property, `StopsAreEffective`.
* **Timers.** `TypeCorrect`, which includes that the vector holds no timer twice.
  `DispatchersSettleTheirOwn`: `FramesPointHome` says that each suspended
  `mockProcessTimers` finds the timer whose callback it called at the index it
  will use; it is inductive if callbacks do not call `xTimerDelete`, the
  assumption that finding 3 shows to be needed; under it fired one-shots are
  inactive (`FiredOneShotsAreInactive`). `PassesServeAll` adds
  `OwedAhead`: what the outermost pass still owes is active, has a callback and
  lies beyond its index, and nothing owed belongs to a timer whose callback runs;
  so a nested dispatcher, which settles only what it fired, takes nothing away.

* **Alarms.** `IInv` adds `Owed` to `TypeOK` and `FreshSlots`: what a tick still
  owes is due for it and lies ahead of the slot it has come to, and no delay
  below owes the slot whose callback runs above it. So whatever the tick does to
  the alarm when its callback has returned concerns nobody, and a tick that has
  passed the last slot owes nothing: `TicksServe`. A new alarm takes nothing from
  a tick because its slot had no callback: `Freshness`. That `Scan` finds the
  first due slot rests on every non-empty set of naturals having a least element
  (`LeastNatural`), from the library's theorem on well-founded relations.
  `FiringsKeepTheirDistance` is `Spaced`, from `Paced`: a slot whose callback runs
  was fired at the clock reading its tick goes by, and a repeating slot at rest is
  due no earlier than its interval after its last firing. It excepts a firing from
  within the alarm's own callback (`fired` forgets it): when a callback calls
  `Alarm.delay` its alarm is still due, and fires again at once.
  `free` of a slot whose callback runs, and `reset` from a callback, are outside
  of the model and of the theorems: they would destroy a function that runs.
* **ESP-NOW.** `IInv` says that exactly the call inside of the lock's scope owns
  the mutex (`Exclusion`), that a silent slot is empty with no registration on
  any stack (`Quiet`), that what a call has emptied stays empty until it lets the
  mutex go (`StaysEmpty`), and that a delivery begun in silence copies nothing
  (`LateCopiesNothing`). `Silencing` and `Reentrancy` follow, and `TypeCorrect`,
  which includes that no empty `std::function` is called.
* **Serial port.** `TypeCorrect`. `BytesArriveOnce` and `TextsInOnePiece` are
  inductive with it; their work is in lemmas about concatenation and cutting of
  sequences. `LoneReadsArePatient` is `PatientAlone`, from `LoneReads`: while a
  lone read runs no other thread reads, the age of `_startMillis` is at most the
  time the read has waited, and no clock reading is older than what was stored
  before it, so the subtraction does not wrap. It needs that a timeout and the
  greatest age of a clock reading together fit into `unsigned long`, which
  `SerialAssumption` states.
* **Peripherals.** Each part has an invariant of its own in `PeripheralsProofs`;
  `OneMoves` says that a step of `AllNext` is a step of one part and leaves the
  others alone, so each is proved for its own steps only. `TypesAreKept` is
  `AllTypesOK`, from all of them together (`AllSound`).
  * GPIO. `EdgesAreToldOnce` is `EdgesAlternate`, from `Remembered`: the level of
    a pin is among those it has had since its routine was called last. Only
    `mockSetPinState` makes the stack of routines longer (`Grows`), so the stack
    itself tells which call a step is.
  * Wire. `RequestsAreServed` is `PromisesKept`, inductive with `TypeOK`.
  * MD5Builder. `DigestsAreOfMessages`, for the native builders, from `Absorbs`:
    until `calculate` or `toString` is called, the context is the message, nothing
    was shown and `finalized` is off; afterwards it is on and the kept `digest` is
    the message, whatever the context has become. Without the test of `finalized`
    the second call would store the digest of a context that was used up.
  * SPIFFS. `FilesSound`: a `File` that points at an entry finds one there, and
    what it has read since it was opened is the entry up to its position. Every
    operation keeps it for three kinds of bystanders: `File`s of other paths, of a
    path that only grows, and of one that is cut or erased, which must have
    forgotten what they read.
  * String's stream is `TextSound`, the same for one reader and one text. The two
    together are `TextsAreReadInOrder`.
  * Preferences. `GetsGiveWhatWasPut`, from `StoreIsPut`; its work is to find the
    final 0 in a buffer that `getString` has written, behind a first part of what
    was put.
  * String. `ReplaceSubstitutesOnce` and `SearchesFindWhatCutsGive` are facts about
    every text, whatever its length. A search answers with an occurrence
    (`CutsOccur`, `OccurrencesOccur`), the first or the last one (`IndexIsFirst`,
    `LastIndexIsLast`), or with -1 when there is none; what `trim` leaves has no
    blank at either end (`TrimLeavesNoBlank`). The loop of `replace` and the reference
    `Rewritten` are both recursive functions; the proof says what each computes in
    one turn (`IsTurn`, `IsLoop`, `IsRewriting`), that a turn leaves less of the
    text behind it (even when what is put in contains what is looked for), and
    that from any position on the loop rewrites what is left (`LoopsOver`).
  * Numbers. `NumeralsAreRight` is about the three conversions the code has: by
    division, by bits from the lowest, and String's own. `IsNumeral` (digits that
    denote the number, without a leading 0) is what each gives and determines the
    digits, so they agree; the negative decimals go by their magnitude, the
    smallest one included. `IntsArePassedOn` needs `LineSound`: the line can be cut
    so that the numerals of the ints due follow one another, each ended by a `\r`,
    with none but characters that `parseInt` skips before and between them. Then
    `parseInt` stops where the first of them ends (`ParsesFirst`), takes one
    character with it, which is the `\r`, and leaves a line of the same kind.

**Recursion and induction.** The induction theorems of the library take an operator
as a parameter, which the provers cannot instantiate. `SizeInduction` in
`SerialPortProofs` takes a set instead: if a set has a value whenever it has all
smaller ones, it has all. It follows from the library's theorem on well-founded
relations. `Recursion` derives from it that a recursive function whose argument
gets smaller exists and satisfies its equation, so theorems about the recursive
functions of the models (not about RECURSIVE operators, of which there are none
left) can be proved for every input.

**Assumptions.** The theorems rest on the assumptions that the modules name, which
TLC evaluates in every run: what stands for nothing is not a value
(`PeripheralsAssumption`, and likewise in the other modules), sizes and bounds are
natural numbers, some sets of threads are finite. `PeripheralsAssumption` also
says that `long` is wider than `int`, as it is on 64-bit Linux and macOS, and
states what the proofs use of powers of two, `2^w = 2 * 2^(w-1)`:
the provers know nothing of `^`. In `PrintAndParse` the value that `parseInt`
accumulates is wrapped once at the end instead of after each digit; both give the
same, as multiplication and addition modulo `2^w` do.

Only model-checked: all liveness (fairness is beyond the prover), and the
findings, which are counterexamples. Every invariant and every other action
property that a passing run checks is the statement of a theorem.

## 6. What is not modelled

* WiFi, HTTP, TCP clients and the updater return what a test has put in; no
  protocol is implemented. Logging, heap and chip information are output and
  constants. SPI and `esp_wifi.h` return constants. `StreamGMock` forwards to
  expectations.
* EEPROM is a byte array whose addresses are not tested. Configuration and hooks
  hold no state.
* The scheduler flag is read by nobody. `millis` and the tick count read a steady
  clock, which the other modules model as time that passes; `TimeLib.h` converts
  the host's wall clock.
* Floating point (`print(double)`, `parseFloat`, `toFloat`), and the comparison
  operators, `reserve` and the constructors of `String` other than those of
  integers: no state, or one library call.
* `vTaskDelayUntil` and `xTaskNotifyWait` are wrappers in `task.h` around calls
  that are modelled.
* Data races proper. In the modelled code the unsynchronised shared data are
  atomics, but for `Stream::_startMillis` and `_timeout`, plain `unsigned long`s
  that readers of one port write: they are modelled as accesses of whole words, in
  the order of the source.
* Uses of objects that were destroyed, as said in section 2.

## 7. Plan

What is left, in this order:

1. Compositions: a task that is notified, or fed through a queue, from an interrupt
   routine or an ESP-NOW callback.
2. `HostClock`: `millis`, the tick count, `g_scheduler_start` and the offset of
   `TimeLib.h`; `freertos.md` says the tick count starts with the scheduler, the
   code that it starts with the first call of `millis`.
3. The next results worth proving: what the compositions promise; a condition on
   callbacks under which `OneShotFiresOnce` holds although others wait with
   `Alarm.delay`; the calls that a cancelled task can still make.
