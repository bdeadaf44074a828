# libsoc in TLA+

libsoc drives the GPIO lines, PWM channels and I2C and SPI devices of Linux
boards through sysfs and `/dev`. It is a small C library with Python bindings,
and nearly everything that is hard about it is outside any one function: its
only shared state is the kernel's, which every process on the board changes
too; its calls are sequences of system calls that others run between; and a GPIO
handle with a callback is shared by a poll thread and the application.

This directory holds TLA+ modules of those parts, TLC configurations that check
them on small instances, and TLAPS proofs of what holds for every number of
clients, threads, callbacks, values, files and list elements.

    tlc -config <run>.cfg <module>     # the table below pairs them
    tlapm <module>Proofs.tla

## Inventory

| component | source | state | operations | hard part |
|---|---|---|---|---|
| GPIO life cycle | `lib/gpio.c:52-200` | the export in sysfs, `value_fd`, `shared` | `libsoc_gpio_request`, `libsoc_gpio_free` | check, export, check and open of one client interleave with those of others; failures and deaths after the export |
| GPIO callback | `lib/gpio.c:407-430, 460-550` | `gpio->callback`, the mutex `ready`, the poll thread, POLLPRI | register, cancel, free, the thread's loop | start handshake, cancellation in the middle of a poll or a callback function, free under the thread |
| GPIO attributes | `lib/gpio.c:202-458` | level, direction, edge, the offset of `value_fd` | set and get of each, `libsoc_gpio_wait_interrupt` | seek and read are two calls on an offset that all threads of a handle share; a read clears what another thread polls for |
| PWM life cycle | `lib/pwm.c:41-178` | the export, three files, `shared` | `libsoc_pwm_request`, `libsoc_pwm_free` | as GPIO, with three opens and an ignored result |
| PWM attributes | `lib/pwm.c:180-364` | enable, polarity, period, duty cycle | set and get of each | half by open file and half by path; unsigned written as `%d` and read as `int` |
| file helpers | `lib/file.c` | none | open, read, write, close and compositions | early returns, which the callers' models contain |
| configuration | `lib/conffile.c` | list of sections of settings | load, get, get_int | reversed lists, shadowing, long to int |
| board | `lib/board.c`, `lib/file.c:190` | a configuration | init (named or probed), free, gpio_id | what a probe loads and rejects has to be freed, whatever fails; -1 as failure |
| I2C | `lib/i2c.c` | fd, `messages[0]`; the adapter's timeout | init, free, read, write, set_timeout | one message per handle, filled in steps; a close that fails and is repeated |
| SPI | `lib/spi.c` | fd; settings of the device | init, free, set and get of mode, speed and word size, transfers | settings are shared by all handles and processes; the driver rounds and refuses; values the library has no name for |
| debug | `lib/debug.c` | a flag and an environment variable | set, get | none |
| Python GPIO | `bindings/python/gpio.py` | `_gpio`, handler threads | open, close, `request_gpios`, handlers | threads that poll a handle the main thread frees |
| Python I2C, SPI | `bindings/python/{i2c,spi}.py` | a native handle | open, close, one call each | `SPI.open` ignores its setters' results, relies on getters, and may raise with the handle open |
| board files, docs, build, tests | `contrib`, `static-docs`, `test`, ... | data | | |

Components meet in four ways: clients meet in sysfs, and nowhere else; free
calls cancel, and both touch `gpio->callback`; the poll thread, the application
and the bindings' threads share a handle's open file or its message; and board
wraps conffile.

What makes each correct: an export is undone exactly by the client that made it
and never under a sharer (life cycles); no thread or callback outlives its
registration or its handle, every call comes back, no interrupt is lost
(callback); a level or a trigger that is returned happened during the call
(attributes); a lookup means one line of the file (configuration); a probe ends
with the right configuration and no other (board); what is sent, and what a
setting is told to be, is what the caller gave and what the device has (buses); a
thread of the bindings never polls a freed handle (Python).

## Modules

| module | models | how |
|---|---|---|
| `LineExport` | what an export promises | abstract: owner and users of an export |
| `GpioLifecycle` | request and free of any number of clients on one line | one action per sysfs access of `gpio.c`; `pc[c]` is the access to come, `shared[c]` and `mode[c]` the locals, `attached` the clients whose `value_fd` reaches the present export |
| `PwmLifecycle` | the same for a PWM channel | the three opens are three steps; `fds` and `attached` tell the files a handle has from those that reach the present export |
| `HandlerContract` | what a handler promises | abstract: registered, running |
| `GpioCallback` | register, cancel, the part of free that stops the thread, the thread and its poll | a slot is a callback struct with its thread; the application's and the threads' places are separate |
| `GpioValueFile` | the other calls on a handle, by several threads | one step per system call on the value file, whose offset, content and POLLPRI are state; accesses by path are one step |
| `PwmAttributes` | set and get of the PWM attributes, by several threads of a handle | one step per system call on the three open files and their offsets; calls by path are one step; numbers have the widths of `unsigned` and `int` |
| `Dictionary` | what a configuration file says | abstract: a value or none for each key of each name |
| `ConfFile` | load and lookups | a line per step, as what the parser makes of it |
| `Board` | `libsoc_board_init`, named and probing, and free | extends `ConfFile`: its variables are the load under way or the latest one; `lists` counts the conffiles whose sections and settings are loaded and not freed, `probed` is what the device tree gave |
| `BusHandles` | I2C and SPI handles of C programs and Python objects | the descriptor table of the process; per handle its struct, `fd`, message and what setters and getters last told, which is voided when others set it; the settings of the device; a transfer is its stores into the message one by one, then the ioctl; `SPI.open` is a step per call it makes |
| `PyGpio` | `request_gpios`, open, close, handlers | the main thread in a `with` block, one handler thread per GPIO; `handle` is the attribute `_gpio`, `native` what became of the native handle, which a `libsoc_gpio_free` that fails keeps though `close` forgets it |
| `MC...` | | values and symmetry for TLC |
| `...Proofs` | | theorems about the module of that name |

`GpioLifecycle` and `PwmLifecycle` implement `LineExport` with *the clients that
owe an unexport* as its owner; `GpioCallback` implements `HandlerContract`; and
`ConfFile`, with what the lookups find in its two lists as the table, implements
`Dictionary`, also under `Board`, which loads one file after another. The
definitions named `Bug...` are faulty versions of a piece of the code, kept
beside the right one, that the properties were seen to reject.

### The kernel

Everything outside `src/` is modelled from how the code uses it and is marked
external in `PROJECT.json`. A write to `export` is refused for an exported line,
a write to `unexport` for one that is not; an unexport cuts off open files. A
read of `value` from its start shows the level and clears what is pending; a
read from elsewhere continues what was shown or shows it anew. POLLPRI stays
until cleared. A value file may have POLLPRI pending when it is opened.
Cancellation of a thread is deferred to its reads, its poll and the cancellation
points of the callback function. `ready` is locked by the registering thread and
unlocked by the poll thread, or by the canceller, which POSIX leaves undefined
for this kind of mutex; the model takes it as Linux does it, as a flag.
An `open` gives the lowest free descriptor, and a `close` gives it back even when it
fails. A SPI device takes any value of a setting or fails, lowers a speed that is too
high, and is set by other processes at any time.

### Abstractions

Paths, line numbers, log messages and the text of values are left out; one line,
one channel and one handle stand for each of many, which share nothing. A file
helper that opens, accesses and closes an attribute is one step, because no
other client can change what it does in between except to make it fail, and it
may fail anyway. A client of the life
cycles whose free failed drops the handle. One that frees it again closes a number
that is no longer its own and comes no further, so that the unexport is never made
up for; `BusHandles`, which has descriptors, models the repeated free of a bus
handle, whose code is the same. What happens after undefined behaviour is not
modelled: a property excludes it, or its violation is reported as a finding. So a
cancel or a free through a pointer to a freed callback struct is no step of
`GpioCallback` (`PointerIsValid`); `callback_dangling` shows how the pointer comes
about. The reads of the value file in `libsoc_gpio_poll`, whose results are ignored,
fail in `GpioValueFile` only.

## Runs

`PROJECT.json` lists each run with its properties. Bounds and what they are for:

| run | module | bounds | shows |
|---|---|---|---|
| `lifecycle_faults` | `MCGpioLifecycle` | 3 clients, no GREEDY; failing calls and deaths | one exporter; its line stays and its unexport is accepted; an export of others is kept; implements `LineExport` |
| `lifecycle_greedy` | `MCGpioLifecycle` | 3 clients, every mode, no faults | no export left over even so |
| `callback_safety` | `GpioCallback` | 2 structs, all faults, fair | threads serve their handle; nothing leaked; implements `HandlerContract`; every call comes back |
| `callback_dangling` | `GpioCallback` | failing thread creation | violated: a pointer to a freed struct |
| `callback_queue` | `GpioCallback` | fair, no faults | violated: an interrupt lost during the callback function |
| `value_shared` | `MCGpioValueFile` | a callback thread and an application thread on one handle, all faults | levels are true; triggers are fresh; reads fail and waits time out over an edge only for cause |
| `value_robbed` | `MCGpioValueFile` | a callback and a reader, fair | violated: an interrupt cleared by `get_level` |
| `pwm_faults` | `PwmLifecycle` | 2 clients, all faults | an exporter's three files are of one export; implements `LineExport` |
| `pwm_attributes` | `MCPwmAttributes` | 2 threads on one handle, all faults; unsigned of 2 bits | getters return what was there; setters that succeed set their argument |
| `board` | `MCBoard` | 2 names, 2 keys, 7 values, 4 lines, 2 files, all faults; ints of 2 bits, longs of 4 | a lookup is the last setting of the last block; the lists implement `Dictionary`; the number or the default; a probed board is ours; no section or setting left over |
| `bus_handles` | `MCBusHandles` | a C handle and a Python object in one process, 2 threads, 2 descriptors, all faults | descriptors are not mixed up unless a failed free is repeated; a message is one call's unless two transfers met on the handle; what setters and getters told is true until others set it; `SPI.open` gives what was asked but for what others have set since |
| `py_gpio` | `MCPyGpio` | 2 GPIOs, requests, edges, frees and polls that fail, callbacks that raise | no poll on a freed handle; no lost stop; callbacks mean edges; every handle given to free; every call returns |

Why they are enough. A race for an export needs the one that wins, the one whose
write is refused, and one that comes while the winner is about to leave: three
clients. `lifecycle_faults` leaves out one fault, a write that fails though the
kernel would have accepted it, because with it `UnexportNeverRefused` is plainly
false; the theorems about the other properties include it, as `pwm_faults` does. For
the PWM channel, with its longer calls, two clients show every pair of places, and a
client that died after its export stands for the third. Two callback structs are one
more than a handle should ever have. On the value file two threads show every pair
of places; each makes calls of several kinds one after the other, so that earlier
calls leave the offset and POLLPRI as they may be. On the PWM files one thread makes
every call and the other gets and sets one attribute, which stands for each of the
two that calls of two threads can meet on; 0 to 3 hold INT_MAX, which is 1, and two
numbers beyond it. Four lines hold two blocks of one name with a setting each, or a
block with two settings of one key and a line more, so either shadowing happens;
longer files are the theorem's. Two files hold one that is rejected, or fails,
before one that is taken. On the buses, two handles are what it takes for a
descriptor to be closed by one and reused by the other, and two threads on one of
them for their messages to mix; the arguments of setters hold one that the library
knows, one it does not, and a speed that the kernel lowers. The widths of the
integers keep INT_MAX, LONG_MAX and their lower counterparts apart from their
neighbours, and numbers outside a long stand for what `strtol` reports with ERANGE.
The only bounds on a state space are `MaxLines`, on the length of a file, and
`MaxFiles`, on a directory; everything else is finite as it is. Symmetry is used in
runs of safety properties over interchangeable clients only.

Deadlock is checked everywhere but in `Board`, where the program may crash.

Fairness, where a run has it: weak fairness of each thread's own steps (the
scheduler runs a thread that can run, and a callback function returns, reaches
a cancellation point or, in Python, raises) and of the steps of a call that has begun (the calling
thread, too, is run). In `GpioCallback` the threads share one condition
(`PollThread`), as there is one at a time unless the application registers over a
callback. Nothing is assumed of what the application decides to call
nor of interrupts.

## Findings

Three runs show where the code departs from what it or its documentation says;
`PROJECT.json` quotes the lines.

- A failed registration leaves `gpio->callback` at freed memory (`gpio.c:512-517`).
- An interrupt during the callback function is not queued (`gpio.c:413-415`).
- `libsoc_gpio_get_level` clears the interrupt the callback thread is about to
  report (`gpio.c:304-306`).

More were met on the way and have no run of their own. A free that meets another
client's new export reports failure and keeps the memory of the handle
(`gpio.c:191-195`). Numbers below `INT_MIN` pass the tests of `conffile_get_int` and
are cut to an int (`conffile.c:173`), which `IntOrDefault` excepts.
`libsoc_board_gpio_id` returns negative numbers of the file as ids, though the header
promises one of 0 or more, or -1 for failure (`board.c:130`).
`libsoc_pwm_set_polarity` returns 1 on failure where `static-docs/docs/c/pwm.md:220`
says -1, and `libsoc_pwm_get_polarity` of no handle returns 1, which is INVERSED
(`pwm.c:330`). A second registration without a cancel loses the first thread, which
nothing can stop any more (`gpio.c:497`). A GPIO free that fails after its close can
never be made up for (`gpio.c:167`).

In the board code, `conffile_free` frees the sections and their settings and never
the `conffile` itself (`conffile.c:112-136`): each load leaves one behind, those of a
probe's other files, those that did not load and, after `libsoc_board_free`, the one
of the board_config, though `libsoc_board.h` has that call free "up memory created
from call to libsoc_board_init". `lists` of `Board` counts sections and settings
only, and `ListsAccounted` says nothing of these structs. `conffile_load` of a file
that cannot be opened gives an empty configuration, so a `LIBSOC_CONF` that exists
and cannot be read finds no GPIO and no error; `file_read_contents` never closes its
file (`file.c:190`); and no `calloc` of `board.c` or `conffile.c` is tested.

In the bindings, `I2C.read` and `SPI.read` compare with -1 what is `EXIT_FAILURE`, 1,
when the transfer fails, and so never raise (`i2c.py:54`, `spi.py:106`); `I2C.read`
returns `buff.value`, which stops at the first zero byte (`i2c.py:56`),
where `spi.py` returns `buff.raw`; a `SPI.open` that raises keeps the native handle
open until `close` is called; `GPIO.close` does not look at the result of
`libsoc_gpio_free`, so a handle that it keeps, perhaps with its export, is out of
reach (`gpio.py:63`); a callback that raises ends its handler's thread and leaves
`running` at True (`gpio.py:22-24`). The word size of a SPI device is written from an
enumeration of which the driver reads the first byte, which on a big-endian machine
is 0 (`spi.c:106`).

## Proofs

**Life cycle** (`GpioLifecycleProofs`), for any set of clients and any faults.
Type correctness holds in every mode. Without GREEDY, `LineInv` is inductive. That
there is one exporter at a time is not inductive alone: a client that is about to
unexport must be one that exported, so `SharedInv` says where `shared` may be 1;
the line must be exported under it, or the kernel would accept a second export;
and attached clients hold a handle, or the exporter's would not be known good.
From `LineInv` follow `SingleExporter` and `ExporterReachesLine`
(`ExporterIsSafe`, `ExportersReachTheirLine`), `UnownedExportKept`, that `LineExport`
is implemented, and, if writes fail only when the kernel refuses them,
`UnexportNeverRefused`. `NoStrandedExport` needs only `SharedInv` and the absence of
faults, and holds with GREEDY too.

**Callback** (`GpioCallbackProofs`), for any structs and faults, assuming that the
application does not register over a callback. `HandlerInv` ties the place of the
application to the places of threads: a thread that has not unlocked `ready` has its
registration waiting, cancelled threads have somebody joining them, nothing is
allocated once the file is to be closed. From it: `ThreadServesHandle`,
`NothingLeaked`, and `HandlerContract` is implemented. `CallsDoReturn` goes down the
places of a call and of the thread it waits for: register waits for a thread that
has yet to unlock, cancel and free for one that dies at the next place where it can
be cancelled. Two theorems say how far the findings reach. `PointerIsGood`: as long
as `pthread_create` does not fail, `gpio->callback` is NULL or a callback, for an
application that registers over a callback too. `PolledInterruptIsServed`: an
interrupt that finds the thread in its poll, rather than in the callback function,
gets the function called unless the callback is cancelled first or poll fails.

**Value file** (`GpioValueFileProofs`), for any threads, calls and faults.
`LevelInv` is about `get_level`: a read that returns two characters began at the
start of the file, so its digit is the present level, which every call under way has
in its history (`LevelIsTrue`); and after the seek only another thread moves the
offset (`LevelFailsOnlyIfDisturbed`). `PollInv` is about `poll`: between its seek and
its clearing read the offset leaves the start only by a read that itself clears or
by a write, which the history records (`TriggeredIsFresh`); and an edge stays
pending until somebody reads (`TimeoutMeansNone`). `UndisturbedInterruptIsReported`
is the promise that `value_robbed` breaks, for a handle whose file no other thread
reads: whatever the others set, get by path and write, and whatever fails, an
interrupt that a poll finds is reported or the poll fails.

**PWM life cycle** (`PwmLifecycleProofs`), for any clients and faults. Without
GREEDY, `ChannelInv` adds to what `LineInv` says that every file the exporter has
open, at every point of its three opens, reaches the present export, and that a
channel that is gone has nobody attached; so a handle that is complete is whole
(`ExporterHandleWhole`), and the exporter's steps are those of `LineExport`'s owner.
`UnownedExportIsKept` needs no more of the code than that: no step of `LineExport`
ends or takes over an export without an owner. With GREEDY other clients may take
the channel away from under a request, which then misses one of its files and ends
without unexporting; `NothingIsStranded` says that, when nothing fails by itself, no
export is left over all the same. Its `BalanceInv` is that, while the export is
there and its unexport is owed, one client that owes it has missed none of its
files.

**PWM attributes** (`PwmAttributesProofs`), for any threads, values and widths.
`Switches` says that enable and polarity hold 0 or 1, without which a number returned
for one need not fit an int. `GetInv` is about a getter that nothing excuses: its
history holds the value the attribute has now, and between its seek and its read the
file's offset is at the start (`GetIsTrue`). `Placed` ties the system call a thread
makes next to its call; `SetTakesEffect` follows from it with `PrintedIsSame`: a
number that the kernel accepts as printed with `%d` is the argument, at every width.

**Buses** (`BusHandlesProofs`), for any handles, descriptors, threads and values.
`OwnFile` is inductive together with the types; so is its converse, that an open file
has a live handle with its number (`NoFileIsLost`), even where a repeated free has
closed the file of another handle. `MessageInv` follows the stores of a
transfer without company: what it has stored is its own, and two on one handle both
have company. `TruthInv` is `ToldIsTrue` for every handle, live or not. `OpenInv`
says, for each stage of `SPI.open`, which settings it has read back and that they are
as asked unless others set them since, which takes that an object that opens or is
open has a live handle (`HeldInv`).

**Python GPIO** (`PyGpioProofs`), for any objects, any list of them, with repetitions
too, and any faults. `BlockInv` joins three parts. `HandlerInv`: handlers live only in
the body of the block, on native handles, and their flag is up exactly when they have
set it, ended by an exception or not, until a stop, and down from the stop to the end
of its join; a handler that has not set it is waited for, so that no stop can come
before it. `EdgeInv`: what a poll finds
pending is an edge since its clearing read. `ListInv`: the native handles that were
not given to free are those of the objects, and each is in the part of the list that is still to be closed, which is why `finally` must start at
the end of the list and not where opening failed. `HandlerCallsReturn` is that
starting, stopping and joining a handler end, whatever the polls return: they time
out, and a flag that is down ends the loop, if an exception has not ended it before. `ListCallsAdvance` is that opening and
closing go from each place of the list to the next.

**Board** (`BoardProofs`), for any names, keys, values, widths, lines and files.
`ConfInv` relates the lists to the lines they came from, name by name: the last
header of a name and the first section of that name exist together, agree on every
key (`KeyInv`: the last line that sets it is the first setting that has it), and the
block is the last of the file exactly if the section is the first of the list, which
is what says where the next setting goes. Each kind of line preserves it, so
`LookupIsLast` needs no induction over files; it also bounds what a lookup returns,
which `IntOrDefault` needs, along with that the conversion to an int leaves what
fits in one (`ToIntKeeps`). That `Dictionary` is implemented is shown line by line:
what lookups find before and after a line is by `ConfInv` what the lines say, so a
header forgets one name, a setting changes one key of the name last opened, and a
bad line or another file forgets everything. `HoldInv` counts the conffiles whose
sections and settings are allocated, at most one, and keeps what the last lookup of
the probe found (`ListsAccounted`, `ProbedBoardIsOurs`).

**Liveness.** The prover has no rule for `WF_` and ENABLED, so the theorems about
what must happen state their fairness in full: of a condition and an action, that
the condition fails again and again, or the action is taken again and again
(`CallsProceed`, `ThreadsRun`, `ThreadRuns`, `CanStep`). The condition is the guard
of the action, written out, and is what ENABLED gives in the states that the
invariants allow; TLC was used to compare the two. That WF implies this form is
the one step that is not proved. The arguments are chains of places, each of
which is left only for a later one and only by a step that is fair.

Every property of the runs that pass is the subject of a theorem, with two
provisos. `CallsReturn` of `GpioCallback` is proved from the fairness written out,
and of `PyGpio` in two parts: for each handler, and from place to place of the list;
to put the places together takes an induction over temporal formulas, which is out
of the prover's reach, so that the whole stays with TLC. So do the three violations.

## What the properties except

Where the code does nothing against a hazard and no document promises anything, the
model has the steps and the property excepts their outcome; `PROJECT.json` says so
at the hazard, and no property is named for it.

- `GetIsTrue`: a getter whose file another thread accessed between its seek and its
  read (`file.c:37`).
- `MessageIsOwn`: two transfers at a time on one I2C handle (`i2c.c:153`).
- `ToldIsTrue`, `OpenedAsAsked`: a setting that another handle or process has set
  since (`spi.c:145`).
- `OwnFile`: a free that is repeated after it failed (`i2c.c:103`).
- `ExporterHandleWhole` covers exporters; a PWM sharer may hold files of two exports
  (`pwm.c:108`).
- `IntOrDefault`: numbers below `INT_MIN` (`conffile.c:173`).
- `TypeOK` of `ConfFile` admits the crash on a setting before the first section
  (`conffile.c:79`).
- `PollUsesOpenHandle`: a program leaves a `with` block only when it has stopped and
  joined its handlers, as `test/gpio_test.py` does.

## Not modelled

- `GpioSystem`, a composition of `GpioLifecycle` and `GpioCallback`. The two meet in
  free, which cancels and then closes, and `GpioCallback` has that part; what sysfs
  does to the line in between changes nothing for the thread, as a value file stays
  open until it is closed.
- A value file that another client's unexport has cut off, under a poll: it reports
  POLLPRI at once and for ever (`gpio.c:424`), which the hazards list.
- The transfers of SPI, which give the kernel a structure of their own and change no
  state, and the setters of `spi.py` after open, which pass one call on.
- The splitting of lines longer than 255 characters (`conffile.c:57`) and the trimming
  of names and values: a line is what the parser makes of it.
- `debug.c` (a flag), the build and its data, and the tests.
