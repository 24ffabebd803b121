# weft-driver-vz in TLA+

Models, model-checking configurations and machine-checked proofs for the Apple
Virtualization driver of this repository. Paths below are relative to `src/`.

## 1. The system

One binary, three modes (`cmd/weft-driver-vz/main_darwin.go`):

* no arguments: the **driver process**. It serves the hypervisor, network,
  volume and image services to weft over a plugin connection, until weft
  disconnects. Calls arrive concurrently; the driver takes no lock.
* `vz-vm-run`: a **runner**, one process per running VM, forked by `StartVM`.
  It owns the framework's machine object and, unless the VM is a microVM, the
  window.
* `provision`: a one-shot command that lays out a VM directory.

The parts share nothing but **the VM directory** (`disk.img`, `data-N.img`,
`cloud-init.iso`, `nvram.bin`, `machine-id.bin`, `mac.txt`, `config.json`,
`vm.pid`, `console.log`, `timings.jsonl`), process ids and signals.

### Components

| component | source | state it keeps | operations | talks to |
|---|---|---|---|---|
| VM lifecycle | `builtin/hypervisor.go` | `vm.pid`; one goroutine per started runner | `StartVM` (fork, write `vm.pid`, leave a goroutine), the goroutine (`cmd.Wait`, remove `vm.pid`, `OnVMExit`), `StopVM` (read `vm.pid`, SIGTERM), `DeleteVM` (`os.RemoveAll`) | runners by fork, wait, signal; weft by calls and `OnVMExit` |
| Identity | `builtin/hypervisor.go` `CreateVM` | `nvram.bin`, `machine-id.bin`, `mac.txt` | stat each, create what is missing | the runner reads them |
| Disks | `builtin/hypervisor.go` `AttachDisk`, `DetachDisk` | backing files | stat and create; remove | the runner opens what `config.json` lists |
| Runner | `builtin/vmrun.go` `RunVMGraphic` | machine, `stoppedCh`, `sigCh`, `stateCh` | configure, create, start; then wait for a stop or a signal (headless) or run AppKit's loop (window) | the framework; SIGTERM from `StopVM`; `timings.jsonl` |
| Reboot button | `builtin/consoletab.go` `goVMReboot` | `gVMInstance`, a deadline per press | request a stop, poll for 30 s, hard stop, poll, start | the runner's machine |
| Console mark watcher | `builtin/vmrun.go` `watchConsoleForMarks`, `parseNCLMark` | offset, carried-over line | poll `console.log` every 20 ms, record marks, give up after 30 s without growth | `timings.jsonl` |
| Configuration builder | `builtin/vmrun.go` `buildVZConfigFromDir` | none | directory to machine configuration | the runner |
| Provision | `cmd/weft-driver-vz/provision_darwin.go` | the directory | place artefacts, wipe identity, `CreateVM`, write `config.json` | as `CreateVM` |
| Console tab | `builtin/consoletab.m` | read offset, timers | poll, decode, strip escapes, append | `console.log`, Reboot button |
| Plugin entry, timing events | `cmd/weft-driver-vz/main_darwin.go` | `timings.jsonl` (append only) | serve; append one line per event | all |
| Bundle, host info, network, volume, image | `builtin/*.go` | none | constants or `ErrUnsupported` | weft |

### What is hard, and what correctness means

* *Lifecycle.* `vm.pid` is written by one handler, removed by another one's
  goroutine, read by a third and taken for "is it running?" by the callers.
  No lock, writes in two system calls, a driver process that may exit first,
  pids that the host may use again. Correct: at most one runner per VM; a
  started VM can be stopped as long as it lives; an exit is reported, once
  and truly; a signal goes to its own VM for as long as that VM's run holds its
  pid.
* *Identity and directory.* stat-then-create on single files without a lock,
  calls that overlap, fail or crash half way. Correct: identity and data survive
  everything but a provision and calls in the middle of making them, and a
  provision that returned nil left a whole VM.
* *Runner.* Four goroutines, three of which record into one log, buffered channels,
  signals that may come before they are caught, a guest that ignores requests.
  Correct: a stop is never lost, a caught signal ends the process, after the closing
  event there is nothing but what the guest itself had printed.
* *Reboot.* Each press polls the state of a machine that other presses stop and
  start, with calls that may fail. Correct: one press leads to one restart; a hard
  stop hits only a machine that did not answer.
* *Disks.* By default a VM's disk is a link to an image that other VMs link to or
  copy, provisions overlap with running guests, and an attached disk may be
  removed under its runner. Correct: nothing but a guest writes to a disk that is
  in place; a copy is whole and private.
* *Console watcher.* Lines and the mark's prefix are cut by reads. Correct: the
  marks recorded are those of the console, whatever the cuts.
* *Console tab.* Timers add up, text is decoded read by read and shown later by the
  main queue. Correct: nothing is lost, doubled or out of order, and everything is
  shown sooner or later.

`PROJECT.json` lists each hazard with its line and the properties that face it.

## 2. The modules

| module | models | kind |
|---|---|---|
| `VmSlot` | what the driver promises its callers about runs: start, end, report | abstract specification |
| `Hypervisor` | `StartVM` and its goroutine, `StopVM`, `DeleteVM`, `vm.pid`, runners, pids, driver exit | detailed specification; implements `VmSlot` |
| `HypervisorProofs` | invariants and refinement of `Hypervisor` | theorems |
| `RunVM` | `RunVMGraphic`, its goroutines and signals, `goVMReboot`, the machine | state machine |
| `RunVMProofs` | types, closing bracket and hard stop of `RunVM` | theorems |
| `VmLife` | one VM: `Hypervisor` and `RunVM` by INSTANCE, the signal between them, `timings.jsonl` | composition |
| `VmLifeProofs` | the timeline of `VmLife`, and that it implements `Hypervisor` and `VmSlot` | theorems |
| `VzConfig` | `readMicroVMFlag` and `buildVZConfigFromDir` as operators on a directory | pure |
| `VmDir` | `CreateVM`, `provision`, `AttachDisk`, `DetachDisk`, `DeleteVM` as scripts of steps on files, and boots (EXTENDS `VzConfig`) | state machine |
| `VmDirProofs` | identity, data, boots and provisions of `VmDir` | theorems |
| `MCVmDir` | a symmetry set, arguments and overlaps for `VmDir` | model-checking |
| `Disks` | `placeArtefact`, `AttachDisk`, `DetachDisk` on the disks of several VMs: names, links, files, runners that have them open | state machine |
| `DisksProofs` | copies and files in use of `Disks` | theorems |
| `MCDisks` | a symmetry set and a view for `Disks` | model-checking |
| `ConsoleWatch` | `watchConsoleForMarks`, `parseNCLMark` | state machine |
| `ConsoleTab` | the view controller of the Console tab | state machine |
| `NatRecursion` | induction on natural numbers and definition by recursion, in a form the provers can use | theorems |
| `ConsoleWatchProofs`, `ConsoleTabProofs` | what both consoles make of a text read piece by piece | theorems |

Operators commented `Mutant:` are wrong variants of the definition that follows
them. No specification uses them; substituting one for that definition breaks
the property named in `PROJECT.json`.

### Hypervisor

A run `<<v, i>>` is the i-th `StartVM` of VM `v`, with the subprocess it forks.
`stage[r]` is where the handler and then its goroutine has got to: `forked`,
`opened` (the file is truncated), `wait` (the handler returned), `remove`
(`cmd.Wait` returned), `notify` (`vm.pid` removed), `done` (`OnVMExit` called).
`unlinked` is `opened` after someone unlinked the open file, so that the pid is
written into a file that has no name. `lost` is a run whose driver process
exited. `life[r]` is the subprocess: a zombie keeps its pid until waited for.

| action | code |
|---|---|
| `ForkRunner` | `StartVM` up to `cmd.Start` |
| `OpenPidFile`, `WritePid`, `PidFileFails` | the two halves of `os.WriteFile`, whose error is ignored |
| `Reap`, `RemovePidFile`, `Notify` | the goroutine |
| `ReadPidFile`, `Signal` | `StopVM` before and after its read; the returns before `Signal` change nothing |
| `BeginDelete`, `FinishDelete` | `os.RemoveAll`: the unlinks, then the rmdir, which may fail |
| `CreateVM` | `MkdirAll` only; the rest is in `VmDir` |
| `Exit`, `ForeignStart`, `ForeignExit`, `DriverExit` | the environment |

`Disciplined` is the protocol `StartVM`'s comment leaves to "higher layers":
a call starts or deletes a VM only when it sees no `vm.pid` and has no call of
its own in flight on it, and `DeleteVM` comes "after stop". With
`Disciplined = FALSE` anything may overlap with anything.

Abstractions: a `vm.pid` is absent, truncated or the complete pid of one
process; pids have equally many digits, so a write over a longer pid leaves no
mixture. The calls that fail before the fork change nothing and are left out.
`Starts` numbers the `StartVM`s of all VMs in their order; they may still overlap.

### RunVM

`pc` is the main goroutine, `tap` the goroutine that ranges over `stateCh`,
`click[i]` the goroutine of the i-th press. The machine `vm` is external: its
transitions are those the calls on it, the guest and failures can cause, each
sent to the unbounded `stateCh`. A signal before `CatchSignals` kills the
process, as Go's default does; after it, it fills `sigCh` if there is room. In
the window a signal or a click ends AppKit's loop (`AppCloses`). A deadline may
pass at any poll that found the machine not stopped. The window controller's own
start, stop and pause buttons, a feature of the framework, are left out.
`answered` is a history variable: the presses since which the machine stopped.
`returning` is `RunVMGraphic` from the record of its exit to the end of the
process; its other goroutines, and signals, may still come in there. One of them is
`watchConsoleForMarks`, whose inside is `ConsoleWatch`'s: here `WatchRecords` records
a `guest` event at any time between `Create` and the end of the process. `RebootHardStop`
is `vm.Stop()`, which stops a running machine or, with `MayFail`, fails and leaves it
running. `Guests` says which guests there are: those that power off when asked
(`TRUE`) and those that do not. `Skipped` are events a composition leaves out of
`log`.

### VmLife

`Hypervisor` says what the driver does with a runner it sees only as a process,
`RunVM` what goes on in that process. `VmLife` puts them together for one VM:

* `Fork` is `ForkRunner` and a fresh runner; a step of the runner that leads to
  one of its ends is at the same time the `Exit` that `cmd.Wait` waits for.
* `Send` is `StopVM`'s `Signal`; if its pid is the live runner's it is delivered
  by `Deliver`, at any later time, to whatever stage the runner has reached.
* `timeline` is `timings.jsonl`. `recordTimingEvent` opens the file for each
  event, and creates it: a record after `DeleteVM`'s unlink makes it again if the
  directory is still there, and then the rmdir fails; without a directory it is
  lost. Only the events that the properties name, and the guest's marks, are kept.
* `term` and `killed` are history variables: the runs a SIGTERM was sent to, and those
  that a signal ended before they could catch it.

The callers are disciplined and the driver reliable, so that at most one runner
lives at a time (`NeverTwoRunners`) and one set of `RunVM`'s variables will do.
The Reboot button (`Clicks = {}`) and other processes of the host (no foreign
pids) stay in the two modules. Opening the file and writing the line are one step:
an append to a file unlinked in between is lost as if it had come before the unlink.

### VzConfig and VmDir

A directory is a function from file names to contents: absent, partial (the
writing was cut short), or named by the call that wrote it, so different
generations differ. A call is a script of steps on one file each: `ensure` (stat,
then create), `place` (remove, then link, clone or copy), `remove`, `write`, or on all
of them: `removeAll`, which cut short leaves any of them. A
step may fail (the call returns) or its process may crash (the files stay). The
directory may have been a microVM's, with a kernel or a `boot.iso` and a
`config.json` of weft-microvm, which this repository only reads. A boot is one
step: it builds a configuration, creates `nvram.bin` if EFI needs one, and
remembers the machine identifier it saw; a VM may be booted whatever the calls
before returned. There are one data disk and one seed.
`os.Remove` succeeds, except that `DetachDisk` may fail.

The code takes no lock, and the steps of two calls interleave, as boots do with both.
`Joins` says which calls may overlap, as pairs of kinds: a call of the first kind may
begin while one of the second runs. `open[f]` are the calls that have file `f` open:
what is written to a file that lost its name is lost; of two that write the identity
files the later one's content stays, as both write equally many bytes; of larger
files a mixture may. History variables: `met[c]`, the calls that ran while `c` did
(and `New`, for a boot that made a file then); `good`, the last provision that
returned nil and met no other call; `detached`, that a `DetachDisk` took its data disk;
`booted`, the machine identifier of the first boot at which no call ran.

What `config.json` says is a record: the microVM flag, whether it lists the data
disk, `mem_gib`, and whether it has shares with or without their tags. `MemBytes`
is the multiplication by 2^30 in `uint64`, with both numbers scaled down (`GiB`,
`Word`). The framework is taken to refuse a machine without memory; the limits it
has beyond that are not known to the code. `initrd`, command line and CPU count are
left out: they are handed on as they are.

### Disks

`VmDir` names whole files and has one VM. `Disks` tells paths from files: `image[i]`
is the file at a path outside the VM directories, `disk[v]` is a file or a link to
such a path, `open[v]` the file that `v`'s runner has open, which may have lost its
name since. A file's content is what it was made from and the guests that wrote
to it.

| action | code |
|---|---|
| `Begin`, `RemoveOld`, `Link`, `Clone`, `OpenCopy`, `FillCopy` | `placeArtefact`, one system call each; a byte copy is one step after the opening of both files |
| `GiveUp` | each of its error returns, and a crash |
| `Attach`, `Detach` | `AttachDisk` where stat finds nothing, `DetachDisk` |
| `Start`, `GuestWrites`, `RunnerEnds`, `RemoveImage` | the environment |

`stat`, `open` and the framework's creation of a disk follow links; `remove`,
`symlink` and `clonefile` do not. So an `AttachDisk` on a link to an image that is
gone brings back the image, as an empty disk. Calls for one VM come one after
another and no VM is started during a call for it; calls for different VMs, and
running guests, overlap. `placed[v]` is a history variable. The sources of
`placeArtefact` are images, never a VM's own disk.

### ConsoleWatch

The console is a sequence of words. The prefix `WEFT_MARK ` is two words, so that
a read can cut it; the end of a line is a word; the buffer holds `BufLen` words.
One `Poll` is one turn of the loop. `Cut` takes a chunk word by word: the marks of
the lines that are complete, and the line that has begun. `\r` and malformed
`key=val` fields are left out.

### ConsoleTab

Bytes are of five classes, enough for a UTF-8 character of two bytes that a read can
cut, and for control sequences `ESC [ final` that it can cut at two places. `Decode`
is UTF-8 if all of a read is, else Latin-1 byte by byte; `StripAnsiEscapes` is the
regular expression on these classes. Polls and blocks of the main queue are steps of
one thread. `timers` counts the appearances of the tab: each adds a timer. History
variables: `raw`, each read so far reads byte by byte, as Latin-1 or ASCII do; `clean`,
no read has ended inside a character or an escape sequence, and what was read is
decoded by its reads as it would be at once: it is UTF-8, or all of it is `raw`.

## 3. The runs

| run | instance | shows |
|---|---|---|
| `hyp_disciplined` | 1 VM, 3 starts, 2 pids, pids used again | `SingleRunner`, `StartedIsStoppable`, `LiveRunnerKeepsDirectory`, `ImplementsSlot` with liveness, and `TruncationIsTransient`, for disciplined callers of a driver that stays up |
| `hyp_open` | 2 VMs, 2 starts of either, 2 pids used again, other processes, failing writes, driver exits, no discipline | `PidFileNamesRun`, `SignalsGoHome`, `ExitReported` hold whatever the callers do |
| `hyp_stale` | 1 VM, 1 start, driver exit | finding: `vm.pid` outlives its runner when the driver exits first |
| `runner` | both modes, 2 signals, 1 press, 2 marks, obedient and stubborn guests, failures | `ClosingBracket`, `StopEndsRunner`, `SignalEndsRunner`, `RebootRestarts`, `HardStopOnlyUnanswered` |
| `runner_early_signal` | 1 signal | finding: an early SIGTERM kills a running guest |
| `runner_two_clicks` | 2 presses | finding: a reboot hard-stops the boot of another reboot |
| `dir` | 3 calls of any kind, some of which overlap, a classic or a microVM directory, a memory size that fits and one that wraps to nothing, failures, crashes, boots at any time | `ProvisionIsWhole`, `IdentityNeverReplaced`, `DataNeverReplaced`, `SameMachineAcrossBoots` |
| `dir_torn` | 2 `CreateVM`s, failures | finding: a retried `CreateVM` returns nil over a truncated identity |
| `life` | one VM, 2 starts, 1 pid used again, 1 signal, 1 mark, failures, an obedient guest | `ExitIsLastWord`, `BracketCloses`, and the liveness of a stop through both processes, `StopIsReported` |
| `console` | every console of up to 6 words, buffer of 3 | `ReadsLikeOneChunk`, `MarksRecorded` |
| `disks` | 2 VMs, 1 image, 3 more files, failures | `OnlyGuestsWrite`, `CopyIsPrivate`, `PlacedIsWhole` |
| `tab` | every console of up to 4 bytes, 2 timers | `ReadsLikeOneRead`, `CatchesUp` |

### Why these bounds

* Three starts of one VM: a run that is ending, one that lives and one that
  is starting; a fourth only repeats one of these roles. Two pids with three
  runs force a pid to be used again. In `hyp_open` two VMs are needed to tell
  a signal to the right runner from one to another VM's, two starts for a
  double start of one VM or one start of each; the handlers of different VMs meet only
  in the pids, which go to other processes, too.
* Two signals: the one main takes and one that is left in, or dropped from,
  `sigCh`. One press for what the button promises; a second one breaks it. Two marks:
  one before, one after the runner's exit is recorded.
* Three calls: one that leaves something, one that is cut short and one that
  repairs or relies on it; or two that overlap and a third before or after them.
  `SomeJoins` are the overlaps in which a call makes a file that another makes or
  removes: two `CreateVM`s, `CreateVM` with `DeleteVM`, `AttachDisk` with `DetachDisk`
  or a provision. A `CreateVM` that overlaps with a provision, and two provisions, have
  millions of states; they are covered by the proofs, which are for any `Joins`.
* In `disks` one VM may write to the image while the other copies it, and three
  files are one that a runner holds without a name, one that replaces it and the
  other VM's; freed files are used again, and the view forgets what they held.
* In `tab` four bytes hold an escape sequence or a wide character with something
  before or after it, so that there are clean and unclean cuts; two timers suffice as
  all do the same.
* In `life` two starts with one pid: the second run has the pid of the first, and
  their lines meet in one file. A second signal to one run is `runner`'s subject.
* Six words and reads of up to three: a complete mark takes four (two halves of
  the prefix, stage, end of line), so that a mark can be cut at each of its places,
  can have its line begun in one read and be followed by another end of line.

### Fairness

* `Hypervisor`: weak fairness of each run's handler and goroutine, since the Go
  runtime runs a goroutine that can go on. None for the end of a subprocess, for
  callers, other processes or the driver's exit.
* `RunVM`: weak fairness of the main goroutine, of the tap and of each reboot
  goroutine; of the framework, which completes a start or a stop; and of a
  guest that obeys and was asked to power off. None for signals,
  presses, failures, a guest that was not asked, or the watcher. `SignalEndsRunner` and
  `RebootRestarts` except the machine's Error state, as nothing in the code
  leaves it. `RebootRestarts` also excepts a hard stop that failed on a running
  machine: then it says that the machine is restarted once it has stopped.
* `VmLife`: as in the two modules, for each run; and of `Deliver`, as the host
  delivers a signal it accepted. None for the callers, the end of a guest nobody
  asked, or failures.
* `ConsoleWatch`: weak fairness of `Poll`. `ConsoleTab`: weak fairness of the
  timers, which repeat, and of the main queue. None for the guest or the tab's
  appearance. `VmDir` and `Disks` have no liveness property.

No liveness run uses symmetry. `CHECK_DEADLOCK FALSE` in every run: processes
end, and every bound ends the environment.

## 4. What is proved

`HypervisorProofs`, for all sets of VMs, starts and pids. Assumed is only
`ConstantsAssumption` (the starts are numbers, the special values of `vm.pid`
are no pids and differ, the switches are Boolean).

* **`WorldInv`** holds of every behaviour of `Hypervisor`, whatever fails and
  whoever calls. Besides `TypeOK` and `PidFileNamesRun` it needs two facts about the
  stages: a run that was forked has a pid, and while a handler is in stage `opened`
  there is a `vm.pid`. From it: `TypeCorrect`, `PidFilesName`.
* **`IInv`** is inductive where `Reliable` holds: disciplined callers, a
  `vm.pid` that can be written, a driver that stays up. `SingleRunner` alone is
  not inductive, as the discipline looks at `vm.pid` and not at processes. `IInv`
  ties them: at most one run of a VM is active (from the fork to the removal of
  `vm.pid`), every live runner is active, the file's content is the one its stage
  says, and the directory is there. From it: `NeverTwoRunners`,
  `AlwaysStoppable`, `DirectoryKept`.
* **`SignalInv`** adds to `WorldInv` that no two processes hold one pid at a time and
  that the pid a `StopVM` has read is that of a run of its own VM, which needs
  `PidFileNamesRun`. From it `SignalsAreOwn`, without any assumption on pids: the
  number names a run of the right VM, and nobody else has it until that run is
  reaped. After that the signal may go astray; nothing in the code prevents it.
* **`ImplementsSlotSafely`**: under `Reliable`, `Hypervisor` implements the
  safety part of `VmSlot` with the mapping `Phase`. The step that needs `IInv`
  is `ForkRunner`: no other run of that VM is up.

`RunVMProofs`, for any number of signals and presses, guests that obey or not,
machines that fail or not. Assumed is only `RunVMAssumption`.

* **`RunnerTypeCorrect`**: the type invariant.
* **`BracketInv`** strengthens `ClosingBracket`. That the log has the runner's exit
  after a stop of its machine, and then nothing but the guest's marks, rests on a chain through three goroutines: the
  value in `stoppedCh`, or on its way there (`tap = "send"`), means that the stop is
  recorded and the machine has stopped (`RecordedBeforeSent`); a stop is the last
  transition a headless machine makes (`StopIsLast`), so that nobody records
  anything after it; and none is recorded before the machine was started
  (`QuietBefore`). `Headless` says that only a headless runner waits for
  `stoppedCh`. From it: `BracketAlwaysCloses`.

* **`HardStopIsLastResort`** assumes `OnePress`, at most one press of Reboot, since
  with two the property is false (`runner_two_clicks`). The press polls a state that
  others change; `AnswerLasts` says why that does no harm: a machine that has
  stopped since the press stays stopped until that press starts it again.

`VmLifeProofs`, for any number of starts, pids and signals. Assumed is
`VmLifeAssumption`, which is that of the two modules; disciplined callers and a
reliable driver are part of `VmLife`.

* Each step of `VmLife` is a step of `Hypervisor` or none (**`LifeImplementsDriver`**),
  and one of `RunVM`, a fresh start of a runner, or none. So `IInv` and `BracketInv`
  are invariants here, too, and with the first of them **`OneRunnerAtATime`**, on
  which it rests that one set of `RunVM`'s variables stands for all runs, and with the
  step lemma of `ImplementsSlotSafely` also **`LifeImplementsSlot`**: the composition
  implements the safety part of `VmSlot`.
* **`LifeInv`** adds how the file goes with the two. A line is of a run that was
  forked, and an `exited` of one that is done (`LinesFitStage`); what a live runner
  has recorded is in the file, as `DeleteVM` waits for its end (`LiveIsTold`); the
  bracket of a run is closed from the end of its process on (`EndedIsTold`), which is
  what lasts when the next run is forked before the driver has reported this one,
  and `RunVM`'s variables are the next run's. Only runs that a signal killed uncaught,
  whose machine was not made or whose start failed are excepted: a stop by
  SIGTERM closes the bracket like any other. From it: **`ExitComesLast`**,
  **`BracketClosesInFile`**, **`LifeTypeCorrect`**.

`VmDirProofs`, for any number of calls, any of which overlap, any sizes, any of their
steps failing or crashing. Assumed is `VmDirAssumption`, which says nothing of `Joins`.

* **`BaseInv`**: types; calls that run at the same time have met each other
  (`MetInv`); and what a call has found or opened (`HoldInv`): a file it is about to
  make, or is writing under its name, holds something complete only if that was made
  by a call it has met, and what it writes is partial if it met none. From it and
  what each kind of script may contain follows `FileSteps`: who can change which
  file, and from that **`IdentityIsKept`** and **`DataIsKept`**. An identity file is
  replaced by a `CreateVM` only if the call that made it, or a boot, ran while
  that `CreateVM` did.
* **`RebootsSeeOneMachine`** needs `BootedIsThere`: the machine identifier of the first
  boot at which no call ran is still the complete one in the directory, and no call
  that runs has met the call that made it.
* **`ProvisionsAreWhole`** rests on `Progress`, what the steps that a provision has
  done have made while it met no other call, whatever overlap, call or crash left what
  was there before. That no later step undoes it is a fact about the script, proved
  for each of the optional artefacts given or not (`ShapeOrder`): two steps on one file
  are the wipe and then the making. `GoodIsThere` carries it on through the calls and
  boots after the provision, which may overlap, the data disk until a `DetachDisk`
  takes it; `MemBytesExact` is the arithmetic of sizes that fit.
* **`UncutCreatesIdentity`** assumes `Uncut`, that no call fails or crashes half way,
  and `OneByOne`, that none overlap. Then `CreatedMeansIdentity`, which the run
  `dir_torn` refutes, holds: of calls one after another, one cut short is the only
  cause of what that run finds.

`DisksProofs`, for any VMs, images and files, whichever steps fail. `TypeCorrect`
needs no more than `DisksAssumption`. The others assume `RemoveWorks`, that
`os.Remove` in `placeArtefact` does what it is asked to. The code ignores its error,
and where it fails the properties are false (section 5).

* **`IInv`**: at which stage a call holds what (`CallFitsStage`); after the remove its
  place is free, and what it then fills is a file that is its VM's and in nobody's
  use (`CallHasPlace`); a file is the disk of one VM and has no other name
  (`DiskHasOneName`); and what is copied is whole (`SourceIsWhole`). From it:
  **`CopiesAreWhole`**, **`NothingInUseOverwritten`**, **`CopiesArePrivate`**.

`ConsoleWatchProofs` and `ConsoleTabProofs`, for every size of the buffer, any number
of timers and consoles of any length. Assumed are `ConsoleAssumption` and
`TabAssumption`.

* What a recursive definition computes is proved by induction, and the library's
  induction theorems take an operator as a parameter, which the provers cannot
  instantiate. **`NatRecursion`** states induction on natural numbers with a set in
  the predicate's place, and recursion with a function in the operator's. Both
  follow from the library's theorem that inclusion of finite sets is well-founded.
* **`ChunkingIsInvisible`** (`ReadsLikeOneChunk`): what has been recorded is the marks
  of all that has been read. The lemma is `CutCarries`: to cut the line that has
  begun and then the next chunk gives what is missing of the cut of the whole.
* **`PollingIsInvisible`** (`ReadsLikeOneRead`): what is shown and waiting is the
  display of all that has been read, as long as no read has ended inside a
  character or an escape sequence and the reads are decoded as the whole is. The
  lemmas are `DisplayOfConcat` and `DisplayOfRawConcat`: decoding and stripping
  distribute over a text that ends in neither `ESC` nor `ESC [` and whatever follows
  it, if both together are valid UTF-8, or none of the three is decoded as such. The
  invariant adds that the last read ended so, and that reads that were `raw` give
  a text that is (`CutIsClean`).
* With them **`WatchTypeCorrect`** and **`TabTypeCorrect`**.

So every safety property of a passing run is a theorem, under the assumptions named
above. Only model-checked is liveness, which is out of the prover's reach:
`ExitReported`, the reporting half of `ImplementsSlot`, `StopEndsRunner`, `SignalEndsRunner`, `RebootRestarts`,
`StopIsReported`, `TruncationIsTransient`, `MarksRecorded`, `CatchesUp`.

## 5. Disagreements between the code and its comments

1. `hyp_stale`: "removes vm.pid on exit" (`builtin/hypervisor.go:144`), but not
   after the driver process, which runners are to survive, has gone.
2. `runner_early_signal`: "SIGTERM/SIGINT-driven shutdown"
   (`builtin/vmrun.go:161`), but only once `signal.Notify` has been called.
3. `runner_two_clicks`: "waits up to 30 s for the machine to reach the stopped
   state (falling back to a hard stop)" (`builtin/consoletab.go:50`), but polling
   misses a stop that another press turned into a restart.
4. `dir_torn`: the three files "together encode the VM's persistent host
   identity" (`builtin/hypervisor.go:65`), but existence is taken for
   completeness.

Lesser ones, seen while modelling and without a run of their own:

* A malformed `vm.pid` is called "not a transient condition"
  (`builtin/hypervisor.go:197`), but `os.WriteFile` truncates before it writes.
  `TruncationIsTransient` shows that the file at least does not stay so.
* `CreateVM` is "a no-op for any file that already exists"
  (`builtin/hypervisor.go:69`), but of two overlapping ones the slower replaces the
  identity the other wrote. `IdentityNeverReplaced` says so: it allows a `CreateVM` to
  replace what was made while it ran, and nothing older. So does an `AttachDisk` that
  overlaps with a provision, to the data disk (`DataNeverReplaced`).
* "Lines that don't start with the prefix are ignored" (`builtin/vmrun.go:272`), but
  the code looks for the prefix anywhere in the line (`indexSubstr`, line 282), and the
  comment where the watcher is started says "every line containing `WEFT_MARK
  <stage>`" (line 139). The two comments disagree; `ParseMark` is the code, and
  `MarksRecorded` follows the second comment.
* `microvm_exited` is not always the last event of a runner: the watcher records marks
  until the process ends. `ClosingBracket` and `BracketCloses` allow for them.
* `--copy` is to copy "instead of symlinking"
  (`cmd/weft-driver-vz/provision_darwin.go:100`). If the ignored `os.Remove` fails
  on a link and `clonefile` is not supported, the image the link leads to is
  truncated: with `RemoveMayFail = TRUE`, `Disks` violates `OnlyGuestsWrite`.
* "Classic VMs always have disk.img" (`builtin/vmrun.go:512`), but a provision cut
  short after its `os.Remove` leaves one that boots without. `ProvisionIsWhole`
  speaks of provisions that returned nil and met no other call.

## 6. Not modelled

* The window: fonts, scrolling, layout, the toolbar and how the tab gets there.
* Timestamps: an event is stamped before its line is written, so that the order of
  stamps of two processes need not be that of their lines.
* The size of an attached disk and its overflow: whatever file there is counts as the
  disk, and its size is left "to the reconciler".
* `config.json` is read twice by a runner; a boot of the model is one step, which a call
  may be in the middle of but not in between.
* The devices every VM gets, `initrd`, command line and CPU count.
* VMs whose image is another VM's disk, or their own.
* Network, volume, image, NIC and PCI calls and the host record: stateless.

## 7. Plan

Done, in this order: `VmSlot` and `Hypervisor` with runs and proofs; `RunVM`;
`VzConfig` and `VmDir`; `ConsoleWatch`; `VmLife`; the proofs of `RunVM`; `Disks`;
`ConsoleTab`; memory, shares, graphics and microVM directories in `VzConfig` and
`VmDir`; the proofs of `VmDir`, `Disks`, `VmLife`, `ConsoleWatch` and `ConsoleTab`.

Next, most important first:

1. The findings as theorems with the assumption that each of them breaks, as
   `HardStopIsLastResort` and `UncutCreatesIdentity` are: `vm.pid` is the pid of a
   live runner of a driver that stays up, once its goroutine is done; a runner that
   gets no signal before it catches them ends by its own return.
2. `Disks` where `os.Remove` may fail: what still holds, at least for clones and links.
3. Operator lemmas of `VzConfig`: which files of a directory a boot depends on.
