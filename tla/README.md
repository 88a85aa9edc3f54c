# mojitOS, specified in TLA+

MojitO/S samples the counters of a machine (performance counters, network,
disks, energy, ...) at a fixed frequency and either prints one row per sample
or serves the samples to Prometheus over HTTP. This directory holds a TLA+
model of its control: which state each part keeps, in which order it changes,
and what threads, signals, wrapping counters and failing sensors can do to it.
TLC checks the models on small instances; TLAPS proves the main results for
every value of the constants.

Source paths below are relative to the root of the repository.

## 1. Inventory

| Part | Source | State | Operations |
|---|---|---|---|
| main program | `src/mojitos.c` | `total_time`, `frequency`, `delta`, `stat_mode`, `stat_data`, `output`, signal handlers, atexit list, the forked command | parse options, `moj_init`, `init_manager`, fork, sampling loop, `flush`, `flushexit` |
| registry | `src/libmojitos.c` | `nb_sources`, `nb_sensors` and the parallel arrays `states`, `getter`, `cleaner`, `labels`, `values` | `moj_init`/`add_source`, `moj_labels`, `moj_get_values`, `moj_clean` |
| Prometheus manager | `src/prometheus_manager.c` | `prometeus_buffer`, `delta`, `current_size`, `mutex`, the libmicrohttpd daemon and its thread | `init_manager`, `use_manager`, `internal_server`, `end_mutex`, `clean_manager` |
| display manager | `src/display_manager.c` | the output file | `init_manager` (header), `use_manager` (row) |
| util | `src/util.c` | none | `modulo_substraction`, `modulo_substraction_bound`, `read_int` |
| increment sensors | `src/counters.c`, `network.c`, `infiniband.c`, `disk.c`, `load.c`, `rapl.c`, `amd_rapl.c` | descriptors, last values read | `init_*`, `get_*`, `label_*`, `clean_*` |
| absolute sensors | `src/memory.c`, `memory_counters.c`, `temperature.c`, `nvidia_gpu.c`, `likwid.c` | descriptors or library handles | the same four |
| line parser | `lib/info_reader.c` | a `Parser`: file, keys, storage, `nb_stored` | `parse`, `match`, `set_value`, `move_to_next` |
| option parser | `lib/optparse.h` (vendored) | index in argv, offset in a cluster, argv itself (permuted) | `optparse_init`, `optparse_long` |
| generators | `configure`, `counters_option.sh`, `memory_option.sh` | none | write the tables `sensors[]`, `perf_static_info[]`, `memory_counters[]` |

Interaction. `main` calls the registry, which calls every sensor through
function pointers; the managers are called by `main` and read the registry's
`values` and `labels`. The only other thread is libmicrohttpd's, which shares
`prometeus_buffer` and `delta` with `main` under `mutex`. SIGTERM, SIGINT and,
when a command was given, SIGCHLD run `flush()`, that is `exit(0)`, on top of
whatever the main thread was doing; `exit()` runs the atexit functions, last
registered first: `end_mutex`, `clean_manager`, `flushexit` (which calls
`moj_clean`). Sensors call `exit()` too, from their init and their getter.

What is hard in this code, and what makes it correct:

- *two threads and a mutex*: each line is handed to exactly one scrape, in
  order; a scrape never sees part of a sample; the buffer always has room for
  the next line;
- *exit from a signal handler*: the process ends, the atexit functions of both
  managers work on whatever state they find, each resource is closed once;
- *parallel arrays grown one after the other*, with inits that may find
  nothing or exit in between: column k of the labels and column k of the
  values belong to the same source;
- *counters that wrap*: an interval reports what the counter gained in it;
- *two passes over one command line*, each of which moves the words that are
  options of the other: the settings, the sensors and the command are those
  that were written;
- *devices that come in numbered directories and go away*: what there is when
  the program starts is measured, and no value is printed under the label of
  another device;
- *a parser that stops early*: every column holds the value of its own line,
  of the current file.

`PROJECT.json` lists each hazard with its line and the properties that cover
it, those that no property covers yet included.

## 2. Modules

| Module | Models | Checked by | Proved in |
|---|---|---|---|
| `ScrapeQueue` | what the Prometheus exporter promises its clients (abstract) | `PromExporter` (as `RefinesQueue`) | `PromExporterProofs` |
| `PromExporter` | `prometheus_manager.c`, with the sampling loop, the fork and the exit of `mojitos.c` | `PromExporter`, `PromCommand` through `MCPromExporter` | `PromExporterProofs` |
| `Options` | `lib/optparse.h`, and the passes of `main` and `moj_init` over the command line | `Options` through `MCOptions` | `InfoReaderProofs` |
| `Registry` | `libmojitos.c` and its callers | `Registry` through `MCRegistry` | `RegistryProofs` |
| `CyclicSensors` | the increment sensors and `util.c` | `CyclicSensors`, `AmdWrap` | `CyclicSensorsProofs` |
| `InfoReader` | `lib/info_reader.c` under `memory_counters.c` and `amd_rapl.c` | `InfoReader` through `MCInfoReader` | `InfoReaderProofs` |
| `NetRoute` | the detection of interfaces in `network.c` | `NetRoute` through `MCNetRoute` | `FileSensorsProofs` |
| `Sampler` | the timing of the loop of `mojitos.c`, the columns of `display_manager.c` | `Sampler` | `SamplerProofs` |
| `FileSensors` | init, reads, labels and clean-up of `rapl.c`, `temperature.c`, `disk.c`, `infiniband.c`, `network.c`, `load.c`, `counters.c`, `memory_counters.c` | `FileSensors` through `MCFileSensors` | `FileSensorsProofs` |
| `AmdTopology` | the choice of processors in `amd_rapl.c` | `AmdTopology` through `MCAmdTopology` | `AmdTopologyProofs` |
| `NvidiaGpu` | `nvidia_gpu.c` | `NvidiaGpu` through `MCNvidiaGpu` | `NvidiaGpuProofs` |

Definitions named after a C function or variable stand for it. A definition
whose comment begins with "Fault:" is not part of a specification: it is a
plausible mistake in the definition that follows it, and serves to confirm that
the properties notice it (section 6).

### PromExporter

`pc` is the next statement of the main thread, `spc` that of the libmicrohttpd
thread. The statement is the grain of atomicity wherever the other thread or a
signal can tell: `delta += sprintf(...)` is two steps (the characters, then the
addition), and `lock`, copy, `delta = 0`, `unlock` are four. The buffer is the
sequence `mem` of lines stored from its start, of which the first `nlines` lie
below `delta`; a `sprintf` writes at `delta`, so it truncates `mem` there. A
line is its sample and column, and takes any number of bytes up to `MaxLine`.

| Action | Code |
|---|---|
| `CopyLabels`, `InitMutex`, `StartDaemon` | `init_manager`, including a daemon that cannot start |
| `Fork` | `mojitos.c:218`, including a `fork()` that fails |
| `Sample`, `Sleep` | the loop test, `moj_get_values` and the overhead; the end of the loop body |
| `Lock`, `WriteLine`, `AddLine`, `Grow`, `WriteOverhead`, `AddOverhead`, `Unlock` | `use_manager` |
| `FirstCall`, `SecondCall`, `ServerLock`, `CopyBuffer`, `ResetBuffer`, `ServerUnlock`, `QueueResponse` | `internal_server` |
| `NextHandler`, `DestroyMutex`, `StopDaemon`, `JoinDaemon`, `FreeAndClose` | `exit()` and the three atexit functions |
| `Signal` | `flush()`: control goes from any `pc` to `exit`; the handler does not return, so each signal is taken once |
| `Connect`, `ChildExits`, `EndThread`, `HandlerEntry` | the environment: clients, the command, libmicrohttpd and libc (external) |

What is assumed of the libraries, from how the code uses them: libmicrohttpd
calls the handler twice per request from one internal thread and ends that
thread between two requests; `pthread_mutex_destroy` on a held mutex leaves it
as it is (the implementation returns EBUSY), and locking a destroyed mutex
does not block; libc takes an exit function off its list before it calls it, so
that a nested `exit()` goes on with the next one. The behaviour of the mutex
after its destruction is undefined by POSIX; the model takes what glibc does.

Seen from its clients the exporter is `ScrapeQueue`: a sample is published as
one row, a scrape takes every row. The refinement maps the queue to the lines
below `delta`, without those of a sample that is being written (`base` records
where it began), the published row number to `rows`, and a scrape to the step
that sets `delta` to 0.

### Options

An argument is the kind the tests of `optparse.h` give it and its text: the
characters of a cluster, the name and the value of a long option. `Items` are
what a user may write, each with what it means to `main` and to the sensors, so
that the properties compare what the program does with what was written. That
the meanings are those of the two tables is `ItemsAssumption`: `Means` says which
options, with which arguments, the words of a cluster, a long option or a stray
word stand for. `Endings` are what follows the items: nothing, `--` and a command,
or a last option that is not known or lacks its argument (`Lacks`).

| Definition | Code |
|---|---|
| `NextOption`, `Permute` | the recursion over the words that are no options, and `optparse_permute` on the way back |
| `Parse`, `LongOption` | `optparse_long` |
| `ShortOption`, `FlagOption`, `ArgOption`, `UnknownOption` | `optparse`, called by `optparse_long_fallback` |
| `Rest`, `Behind` | `option += options->subopt + 1`: an offset that an unknown option left behind may point past the end of the next cluster, where whatever follows in memory is read: nothing, a flag alone, or an option with more behind it, an argument or further flags |
| `MainOption`, `Set` | `mojitos.c:164-186` |
| `FindCommand` | `mojitos.c:188-194`: a position of the saved array, used in the permuted one |
| `SensorOption` | `libmojitos.c:81-99`; `Registry` takes it from there |
| `Start` | `mojitos.c:199-207` |

`CommandRight`, `SettingsRight` and `SensorsRight` assume that no option takes an
argument that begins with a dash (`PlainArguments`) and that no cluster mixes the
options of the two passes (`Unmixed`); `ParserTypeOK` and `Stops` assume neither. A
flag with something behind it leaves `optind` where it is and moves the offset on:
behind a cluster the pass ends only because the memory does. The arguments and the
environment stand in one block, made when the program is started, that ends at most
`Memory` characters behind a cluster; what it holds is chosen at each call. A read
beyond it is undefined, and the model has none.

### FileSensors

One module for the sensors that keep files open, since they differ only in how
they find them. A file is a pair of numbers, a value the files and fields it
was made of: `ColumnsMatch` compares it with what the label promises.

| Action | Code |
|---|---|
| `WalkFound`, `WalkOpen`, `WalkNext`, `WalkEnd`, `HwmonName` | the loops of `init_rapl` and `init_temperature`, until a number is missing; a zone that goes away between its name and its maximum is a crash (`rapl.c:124`) |
| `ListName`, `ListEnd` | `perf_event_list`, `memory_list` |
| `PerfFiles`, `NbCores` | `_init_counters`: the first processors, as many as are on line |
| `GlobDisks`, `GlobPorts`, `FindDevices`, `FindStat` | the inits of disk, infiniband, network (with the devices of `NetRoute` or of the option) and load |
| `OpenListed` | the opens: disk and infiniband do not look at the result |
| `Read`, `With`, `EndRead` | the reads, in init and for each sample; one that fails ends the program |
| `Clean` | the clean functions |
| `Unplug` | the environment: a device goes away with its files, a processor goes off line |

### Registry

One action per statement of `add_source` that changes shared state, since a
signal may come between any two; `InitSource` may return 0 (the slot is taken
back), return a number of columns, or exit. A sensor in `Keeps` may return 0 with
something open, which `add_source` drops without cleaning it: `lost` records it, and
`ClosedOnce` says that a complete `moj_clean` leaves open this and nothing else. `GetSource` and `CleanSource` are
the bodies of the two loops. `Exit` is `exit()` as the registry sees it: control
goes to `moj_clean`. A resource is the rank of the option that opened it; the
sensors in `Static` close whatever was opened last, as `clean_load` does.
`crash` is a call through an element of `cleaner` that nothing has written.

### CyclicSensors

`hw` is the counter in the kernel or the hardware, which goes on between the
reads of one sample (`Count` may come between the sensors); `gained` and
`truth` are the true increase since the last read and over the last interval.
`Word` stands for 2^64. `Modulus` is where a counter really wraps: at `Word` for
the kernel's 64-bit counters, after `max_energy_range_uj` for an Intel zone, at
`RawRange` (2^32) *before* the conversion to micro-joules for AMD.

### InfoReader

A file is a sequence of line names (the text before the delimiter), `Begins`
the pairs of names one of which starts with the other, and the value of a line
its position and the number of the parse, so that a value left over from an
earlier parse is visible. Every line is taken to contain its delimiter, which
`/proc/meminfo` and `/proc/cpuinfo` do for the keys that are looked for, and to
be shorter than the 4096 bytes of `buffer_getline`.

### NetRoute

The route table is a sequence of characters read in blocks of `Block`, with the
lines padded to `LineLength` as the kernel pads them to 128. `Refilled` is what
`read` leaves in the buffer: the new bytes, a NUL behind them and, behind that,
whatever the previous block left. `Step` and the actions built on it
(`SkipHeader`, `FirstName`, `NextLine`, `NextName`) are the four calls of
`strchr_refill`, each with the test on its result. `OpenDev` opens the
statistics file of one device, which exists for the names in `Interfaces` only.
A name given on the command line goes to `FileSensors`. A `read` that fails is
handled like the end of the file (`ret != 1`), at any line of the table, which
the shorter tables stand for.

### Sampler

The clock is read within the second, as the code reads it, in ticks of which
`Second` are a second; `spent` and `inSecond` record what really happened. A
measure, a row and a wake-up each take any time up to a bound, and each may pass
the end of a second. With `-t 0` the loop has no end (`delta` is 0) and the
model is still finite.

### AmdTopology

`CountCpu` is one turn of `get_nb_cpu`, `ParseCpuinfo` the use made of the parser
(`InfoReader` models the parser itself), `ArchOf` and `EndArch` are `get_arch`,
`SkipCpu` and `OpenCpu` the two outcomes of `is_duplicate`. `Hotplug` takes a
processor off line or back on line between any two of them. A processor is its
number; `topology` gives its core and package. `Place` is the index into
`cpu_map[nb_core][nb_package]`, of which the model keeps the pairs that are set.

### NvidiaGpu

One action per device and per sensor of `init`, where NVML may refuse any call;
a sensor that does not answer leaves its slot to the next one, a device without
sensors leaves its own. A value is where it was read and in which sample, so
that `ColumnsMatch` compares each value with its label. Blocks of data are
numbered as they are allocated: `live` holds those not yet freed.

## 3. Runs

| Run | Expect | What it shows |
|---|---|---|
| `PromExporter` | pass | type invariant; `ExactlyOnce`, `InBuffer`, `NoTornSample`, and the refinement `RefinesQueue`, under signals and scrapes at every statement; `TimerStops`: scrapes do not keep the program from stopping with its timer; `ExitLeads`: an exit that interrupted no sample, or that has left `end_mutex` behind, ends the process |
| `PromCommand` | violation | `CommandEndStops`: a command that ends during `use_manager` leaves mojitos hanging |
| `Registry` | pass | `Aligned`, `ColumnsMatch`, `StableColumns`, `CrashOnlyInInit`, `ClosedOnce` |
| `CyclicSensors` | pass | `ExactIncrements` for a full word and for an Intel zone |
| `AmdWrap` | violation | `AmdIncrements`: the AMD counter wraps below the word |
| `Options` | pass | `CommandRight`, `SettingsRight`, `SensorsRight`: the two passes read what was written; `ParserTypeOK`, `Stops`: the parser stays in the array and ends, on any command line, also where it reads behind a cluster |
| `FileSensors` | pass | `ColumnsMatch`, `LabelsDistinct`, `AllMeasured`, `ListFits`, `NothingLeftOpen` |
| `InfoReader` | pass | `RecordsRight`, `InStorage` |
| `NetRoute` | pass | `FindsInterfaces`, `DevicesDistinct` over all tables of up to five lines |
| `Sampler` | pass | `AtMostFrequency`, `OnTheGrid`, `OverheadReported` |
| `AmdTopology` | pass | `InMap`, `OnePerCore`, `EveryCoreMeasured` |
| `NvidiaGpu` | pass | `ColumnsMatch`, `AllReleased` |

The two runs that expect a violation are disagreements between the code and
its own documentation; `PROJECT.json` quotes both sides under "findings", and
section 5 lists smaller ones.

Bounds, and why they are enough:

- *PromExporter*: two connections (one scrape inside a sample and one behind
  it), two sensors and two samples (a line after another one, a sample after a
  scrape), lines of 1 byte, a first buffer of 3 bytes with a margin of 2, so
  that the buffer grows in the first sample and the margin holds one sensor
  line and one overhead line exactly, as 128 does in the code. Scrapes beyond
  the second find the same four variables. `PromCommand` uses one sensor and one
  sample: it is about where the signal strikes, not about the contents. No
  run uses symmetry, which liveness does not allow.
- *Options*: up to three items of eighteen, and seven endings. Two unknown
  options in a row and a word between them are enough for every order of
  `Permute`; clusters of one to three characters for every offset, one past the
  end of the next cluster included. `Memory` is 5, three characters behind the largest
  offset that an unknown option leaves: flags in a row are read there, and an argument
  joined to an option. Four options of each pass, with and without
  argument, and one that lists and exits.
- *FileSensors*: two packages and a zone of the whole machine, a hwmon of a disk
  and of two packages, three disks, two ports, two devices, three processors:
  one before, between and behind those that are missing. Every tree of such
  files, with gaps, and every list of up to two (`perf`) or four (`memory`)
  names out of two and an unknown one. Two devices go away at any moment.
- *Registry*: three options over three sensors, enough for a source that is
  dropped between two that stay; one sensor with static state, one that may return 0
  with something open (`Keeps`) and one with an option that lists and exits; two signals, the second of which may strike in
  `moj_clean`. `sample` keeps only the parity of the sample: a value of an
  earlier sample differs from a fresh one after one more sample.
- *CyclicSensors*: a word of 6 and a zone of 4 values: every pair of old and
  new values, wrapped or not. `AmdWrap` takes a word of 16, a range of 8 and a
  unit of 3/2 micro-joules. A counter is taken to wrap at most once between
  two samples (`Count`), as the code does.
- *InfoReader*: keys that begin one another, records with their keys in
  different orders, a file that ends early, a capacity of 2 reached, exceeded and not
  reached, a second parse into the same storage.
- *NetRoute*: names one of which begins another, tables of up to five lines over
  four names, a block that ends inside a name of the last lines, and a limit of three
  devices, reached and exceeded.
- *Sampler*: a second of 12 ticks; frequencies that divide it (1, 2, 3), that do
  not (5), that are 0 and that are above the clock's resolution (13, where the
  period is 0); measures of up to 14 ticks, which is longer than every period
  and than a second; delays of up to two ticks.
- *AmdTopology*: five numberings of four processors (neighbours or halves sharing
  a core, two sockets in blocks or in turns, gaps between the numbers of the
  cores), all sixteen sets of them on line, two hotplug events.
- *NvidiaGpu*: two devices, three kinds of sensors, of which the clock has
  several columns of its own: a device or a sensor left out before, between and
  behind ones that stay.

Deadlock is checked wherever the system must not stop. The two runs of
`PromExporter` switch the check off, because the exporter really can stop for
ever (the deadlock behind `CommandEndStops`): their specification has states
without a successor that the code has too. That it cannot as long as no signal
comes is part of `TimerStops`. A process that has ended takes the stuttering
step `Terminated`.

Fairness. `FairSpec` asks for weak fairness of the main thread and of the
libmicrohttpd thread, which the scheduler of the operating system gives, and
that the kernel delivers SIGCHLD once the command has ended. Nothing obliges a
client to connect or a signal to be sent. Weak fairness is enough for the
mutex, although it is not fair: there are finitely many connections, and the
server thread releases the mutex after each. With an unbounded stream of
scrapes `TimerStops` would need a fair mutex, which neither the code nor
pthreads provides. `Options` asks for weak fairness of its only process.

## 4. Proofs

`PromExporterProofs` proves, for every number of sensors, samples and
connections, every line length and every size of buffer:

- `TypeCorrect`, `LinesExactlyOnce` and `SamplesNotTorn`, from the inductive
  invariant `IInv`. `ExactlyOnce` alone is not inductive: it needs to know who
  is inside the critical section (`MutexInv`: the server is inside only when
  `mutex` is `server` or `destroyed`, main only when it is `main`), that the
  characters of a line are stored before `delta` covers them, and that the
  response holds exactly the lines below `delta` between the copy and the reset
  (`BufferInv`). It survives the destruction of the mutex because by then the
  main thread has left `use_manager` for good.
- `BufferBound`, under `RoomForLines`: a sensor line and an overhead line fit
  together in the margin, and a sample with an overhead has a sensor line. In
  the code the margin is 128: the theorem says which line lengths it is good
  for. The invariant `RoomInv` says how much room is left at each statement.
- `ImplementsQueue` (`RefinesQueue`): the initial states map to those of
  `ScrapeQueue`, and each step maps to a step of it or to a stutter. `Unlock` publishes
  the row, `ResetBuffer` is the scrape, and every other step leaves the queue as
  it is (`MainStutters`, `ServerStutters`). What this needs
  beyond `IInv` is `QInv`: the number of the row under way (`CountInv`), that the
  lines stored since `base` are the first ones of that row and as many as the
  statement says (`RowInv`), and that the server serves a connection that was
  seen (`ConnInv`).

`RegistryProofs` proves, for every table of options, every number of options on
the command line, every outcome of the inits and every moment at which a sensor
or a signal calls `exit()`, all the properties of the run: `TypeCorrect`,
`ArraysAligned` (`Aligned`), `ValuesMatchLabels` (`ColumnsMatch`),
`CleanersInPlace` (`CrashOnlyInInit`), `EveryResourceClosedOnce` (`ClosedOnce`)
and `LabelsStable` (`StableColumns`). `exit()` leaves the tables as they are, so
`TableInv` speaks of the statement at which they stopped (`at`): how long each of
the parallel arrays is there, and that slot k of each belongs to source k. The ids
of the sources increase with the slots (`IdInv`), so that the cleaner of one
source cannot close the resource of another (`ClosedInv`), nor that
of one that was dropped (`LostInv`). The labels are one block
per source: `BlockInv` says that there are offsets `off` between which the labels
are those of source j, and that `moj_get_values` is at the beginning of a block
when it calls a getter; `ValueInv` says that the values behind it are fresh.

`FileSensorsProofs` proves all the properties of its run, for every machine that
`MachinesAssumption` and `NamesAssumption` describe, any number of fields and
counters, and devices that go away at any moment: `ListsFit`, `LabelsToldApart`,
`ValuesMatchLabels`, `EverythingMeasured` and `EveryFileClosed`. The two kinds of
sensors have invariants of their own:

- those that walk have a column for each file behind them, in the order of the
  walk, the last of which may still have to be opened (`WalkInv`), and, where the
  numbers have no gap, have left nothing behind (`CoverInv`). That `key` is the
  number of coretemp hwmon behind the walk keeps the labels of temperatures apart;
- the others have decided on a sequence of files (`PlanInv`: there is a `plan` of
  the form that the sensor gives it), of which a prefix is open or was missing
  and the rest is `todo`. The labels are stated relative to the plan.

`RowInv` cuts a row into the blocks of the files read: one value, `NbFields`, one
for each name, or, for `perf`, whole parts and one under way. The element j of block k
stands at `Place(k, b, j)`; the lemmas `Cell` and `SameCell` say that each position is
one such place only, and `FlattenUniform` what `FlattenSeq` makes of blocks of the
same length. `FlattenSeq` is a recursive function: instead of an induction, the lemma
`FlattenUnique` takes the least argument at which two functions that satisfy its
equation would differ.

It also proves the properties of `NetRoute`, which finds the devices that
`FileSensors` is given, for every route table, every length of a line, every size of
block and every limit of devices: `RouteTypes`, `DetectedOnce` (`DevicesDistinct`) and
`InterfacesFound` (`FindsInterfaces`). `RouteInv` keeps the cursors in the buffer
and says that a name is stored only when it was not before; it holds for tables
that are read in several blocks too. `FoundInv` says, for a table in one block
and without a hidden name, where the cursors are: in the name of a line, or at the tab
behind it, and that the devices stored are the names of the lines before
(`Seen`). Where a line begins in the file is `Place` again. `DetectedOnce` is
what `MachinesAssumption` takes for granted of the devices of `init_network`.

`NvidiaGpuProofs` proves, for any number of devices, any list of kinds and any
answers of NVML, `TypeCorrect`, `ValuesMatchLabels` (`ColumnsMatch`) and
`EverythingReleased` (`AllReleased`). Devices and kinds increase along the table
(`TableInv`), the columns of a sensor are different items of its device and kind
(`ColumnsInv`), and there are offsets `off` at which the columns of each sensor
begin (`Layout`), by which the four walks over the table agree: what a walk has
left behind is labelled, or read for this sample (`WalkInv`). `LiveInv` says that what
is allocated belongs to a sensor that the clean-up has still before it.

`CyclicSensorsProofs` proves `IncrementsExact`: for every word size and every
RAPL maximum, every sensor but `amd_rapl` reports exact increments. The lemmas
`FullWordDifference` and `BoundDifference` say that each subtraction of
`util.c` undoes a cyclic increment; the invariant adds that the counter stands
where the last read left it plus what it gained since.

`InfoReaderProofs` proves, for every file, key list and capacity, all the
properties of the run: `TypeCorrect`, `StoredInBounds` (`InStorage`) and
`LinesInTheirColumns` (`RecordsRight`). A parse that goes on has room for the
record under way (`RoomInv`), because the step that completes the last record also
ends the parse. What is stored follows from `StoredInv`: the records ended are the
empty lines read (`PlaceInv`), `key_assigned` counts the keys that the record under way
has shown so far (`MetInv`), so that a line that is skipped can be that of no key, and
each line read that a key names has its value in place (`KeptInv`).

It also proves the invariants of `Options`, the other parser of `lib/`, for every
set of items with its meaning, command lines of any length, every command and
every two tables of options:

- `ArgumentsKept` (`ParserTypeOK`), on any command line, mixed clusters and offsets
  that point behind a cluster included. What `optparse_permute` returns is given
  cell by cell (`Source`: where the argument now at a position was before), from which
  `PermuteSet` follows.
- `SettingsRead`, `SensorsRead` and `CommandFound`, from `ArgsReadInv`: where a
  pass is tells what it has read. Between two items (`AtItem`) it has skipped nothing
  but words, everything ahead is as it was written, at the position at which it was
  written (`Reached`), and what was read is what the items behind mean; inside a
  cluster (`InCluster`) it has read as many options more as the offset says; at the
  end (`AtEnd`) everything. The lemma `ReadStep` is about one call of
  `optparse_long`: it ends the pass, or passes over an option of the other table,
  or reads one option more and is where this says again. That the words ahead
  keep their positions, whatever was moved behind, is also why the position of `--`
  in the saved array is good for the permuted one.

What items mean is joined by `FlattenSeq`, whose prefixes the lemmas on `Joined`
describe, again by a least argument instead of an induction.

`AmdTopologyProofs` proves, for every number of processors, every numbering of
cores and packages and every sequence of hotplug events, `TypeCorrect`,
`MapBound` (`InMap`), `CoresOnce` (`OnePerCore`) and `CoresCovered`
(`EveryCoreMeasured`). `InMap` needs to know that
the largest numbers found so far bound every processor already looked at
(`ArchInv`), which the last step of `get_arch` turns into a bound on all of
them; `OnePerCore` needs every opened processor to be marked in the map
(`MarkedInv`). `CoverInv` adds, for a machine that stays as it is and has no gap in
its numbers, that the count of processors is right, and that the core of
each processor already looked at has one that is open. The parser reads no more
records than were counted: the lemma `AllListed` says that these are all of them,
because numbers that increase from 0 leave nobody behind (`Increasing`).

`SamplerProofs` proves, for every length of the second, every frequency, every
cost of a sample and every delay, `TypeCorrect`, `OverheadCorrect`
(`OverheadReported`), `SamplesOnTheGrid` (`OnTheGrid`) and `SamplesBounded`
(`AtMostFrequency`). The first two follow
from `IInv`: the readings of the clock differ by the duration modulo a second
(`MeasureInv`, with the lemma `Difference`), and the loop body runs only while
samples are left to take, so that the period is never divided by 0
(`CountInv`). `GridInv` adds that the clock is never further behind a multiple
of the period than the process was late; the lemma `NextMultiple` says that
this survives the end of a second, because the period divides it. `RateInv` bounds
the samples of the second under way by the periods that have begun in it, for every
period that is not 0, since a sample is followed by a sleep to the next period. A second
has `(Second - 1) \div Period + 1` of them, which is `frequency` when that divides it.

The proofs rest on the named assumptions of the modules only, which every run
evaluates. Most of them give a constant its type and the bounds that the code relies on
(`CountsAssumption`, `ConnsAssumption`, `SignalsAssumption`, `OptsAssumption`,
`OutcomesAssumption`, `SensorsAssumption`, `WordAssumption`, `CapacityAssumption`,
`FilesAssumption`, `TicksAssumption`, `TopologyAssumption`, `BoundsAssumption`,
`SizesAssumption`, `MaxItemsAssumption`, `KeepsAssumption`, `MemoryAssumption`, and the `TablesAssumption` of `Options` and
of `NetRoute`). Five say something of the environment: `MachinesAssumption`, what the kernel
shows of each kind of device (a network interface and an infiniband port have
all the counters of the table, a memory sensor has `/proc/meminfo`), and that
`init_network` was given different devices; `NamesAssumption`, that the zones
of RAPL, the subzones of one zone and the temperatures of one hwmon have
different names, which `LabelsDistinct` could not do without; `KindsAssumption`,
that no kind of GPU statistics is listed twice, as in the table of `nvidia_gpu.c`;
and `ItemsAssumption` and `EndingsAssumption`, what a user may write and mean by it:
it constrains the meaning only of items that do not mix the options of the passes.

Every invariant and every action property of the passing runs is proved, and the
refinement. Only model-checked are `TimerStops`, `ExitLeads` and `Stops`, liveness under
fairness, which TLAPS does not do; the two runs that expect a violation are
counterexamples, of which TLC shows the trace.

## 5. Not modelled

Formatting of labels and values, the content of `/proc` and `/sys` files other
than what the parsers look at, malloc failures (the code does not check them),
the async-signal-safety of what `exit()` runs, a signal delivered to the
libmicrohttpd thread, the child of `fork()`, and the parts whose status is
`not_modelled` in `PROJECT.json`, each with its reason there.

Disagreements with the documentation that no run is about:

- `doc/network.md:1` says that `-d X` "can autodetect interfaces in use". A route
  table longer than one read of 999 bytes (seven routes of 128 bytes and the
  header) is read in blocks, and the end of the block before stays behind a
  shorter one (`network.c:77`): a name is made of what is left there, its files
  do not exist, and `init_network` exits. `FindsInterfaces` assumes `OneBlock`.
- A cluster that mixes options of `main` and of the sensors (`-su`, `-us`) is given
  up by each pass at the first option of the other, and the offset reached is
  kept for the next cluster (`optparse.h:223`): options are lost, and the offset
  may be past the end of that cluster. The command is lost too: after `-su` the
  offset makes `-of` the option f, which takes `--` for its argument. `README.md:11`
  shows the two kinds apart, but nothing says that they must be. `CommandRight`,
  `SettingsRight` and `SensorsRight` assume `Unmixed`.
- An option of one pass whose argument begins with a dash is an option to the
  other pass, and `-o --` makes `mojitos.c:189` take the argument for the start of
  the command, of which the position is then wrong in the permuted array.
  `CommandRight` assumes `PlainArguments`.
- The walk over RAPL zones and hwmon directories ends at the first number that
  is missing, without a message (`rapl.c:150`, `temperature.c:127`); `AllMeasured`
  assumes `NoGap`. The number in the labels of temperatures counts the coretemp
  hwmon met so far, and is not the number of the directory (`temperature.c:73`).
- `memory_list` stores the index of one duplicate too many behind its array before
  it exits (`memory_counters.c:52`); `ListFits` says that it is no more than one.
- `add_source` drops a sensor whose init returned 0 without cleaning it
  (`libmojitos.c:55`), and what the init holds is never released: `/proc/meminfo` with
  `-M ,`, which names no counter (`NothingLeftOpen` leaves this case aside); the state
  and NVML itself where no GPU answers (`nvidia_gpu.c:532-549`; `AllReleased` speaks of
  a sensor that was taken down). In `ClosedOnce` these are `lost`. `clean_rapl` does not free `modulo`.
- `README.md:31` and `:47` give `--amd-rapl` and `--intel-rapl` the same short
  name `r`; `moj_init` goes by the short name (`libmojitos.c:87`), so that in a build
  with both either option starts whichever comes first in `sensors[]`.
- With the memory list `README.md:56` gives as an example, `Zswap,Zswapped`,
  `match()` stores the line Zswapped in the column Zswap (`info_reader.c:15`).
  `RecordsRight` assumes that no key begins another.
- An interface whose name begins that of one listed above it is not detected
  (`network.c:162`), while `doc/network.md:1` says that interfaces in use are.
  `FindsInterfaces` assumes `NoHidden`.
- A frequency that does not divide 10^6 gives more samples in some seconds than
  `README.md:14-15` says (`mojitos.c:244`): 600 Hz has a period of 1666 us and
  a sample of its own for the last 400 us. `AtMostFrequency` bounds the samples by the
  multiples of the period, and by the frequency under `Divides` only.
- A RAPL zone that goes away between the read of its name and that of its maximum
  makes `strtoull` read NULL (`rapl.c:124`), where a missing name ends the walk.
- An overhead of a second or more loses its whole seconds (`mojitos.c:234`), and one
  of 0 has no column (`display_manager.c:43`).
- `doc/nvidia_gpu.md:5` announces messages on stderr; power and temperature
  print theirs on stdout (`nvidia_gpu.c:333`, `:392`), before the rows.
- When processor 1 is off line `get_nb_cpu` counts one processor
  (`amd_rapl.c:207`), and the cores behind the gap are silently not measured;
  `EveryCoreMeasured` assumes `Contiguous`.

## 6. Sensitivity

Each property of a passing run is paired in `PROJECT.json` ("mutants") with a
definition marked "Fault:" that TLC must see break it: a missing reset, a lock
that is not waited for, a bound off by one, a counter not taken back.

## 7. Plan

In this order, the most exposed behaviour first:

1. `ForkChild`: the child of `fork()` when `execvp` fails, with the atexit
   functions and without the threads of its parent.
2. `Lifecycle`: `Registry` and `PromExporter` composed over one `exit()`, with a
   signal that the kernel delivers to the thread of libmicrohttpd.
3. `Registry` fed by the calls that `Options` makes, instead of a constant.

Their invariants would be the ones to prove next. Of what there is, only the
liveness properties are left without a proof (section 4).
