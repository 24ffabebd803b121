----------------------------- MODULE Hypervisor -----------------------------
(***************************************************************************)
(* The lifecycle half of builtin/hypervisor.go: StartVM and the goroutine  *)
(* it leaves behind, StopVM, DeleteVM and the directory CreateVM makes,    *)
(* over the one file they share, <vmDir>/vm.pid.  There is no lock in the  *)
(* driver, so the handlers interleave at every system call.  The runner    *)
(* processes, the pids the host hands out and a restart of the driver      *)
(* process are part of the state.                                          *)
(*                                                                         *)
(* The file's contents are abstracted to: no file, a truncated file, or    *)
(* the complete pid of one process.  Runner pids are taken to have equally *)
(* many digits, so that one WriteFile over another leaves no mixture.      *)
(***************************************************************************)
EXTENDS Naturals

CONSTANTS
  VMs,           \* the VMs; a VM's UUID is the path of its directory
  Starts,        \* bound: the StartVM calls, numbered in their order
  Pids,          \* bound: the process ids of the host
  Absent,        \* vm.pid does not exist
  Empty,         \* vm.pid exists and is truncated
  NoPid,         \* the pid of a run that was not forked yet
  Disciplined,   \* the callers check vm.pid before they start or delete
  WriteMayFail,  \* os.WriteFile of vm.pid can fail (full disk, permissions)
  MayExit,       \* the driver process can exit and be started again
  ReusePids      \* the host hands out a pid again after its process is reaped

ASSUME ConstantsAssumption ==
  /\ Starts \subseteq Nat
  /\ Absent \notin Pids /\ Empty \notin Pids /\ NoPid \notin Pids
  /\ Absent # Empty
  /\ {Disciplined, WriteMayFail, MayExit, ReusePids} \subseteq BOOLEAN

Run == VMs \X Starts     \* <<v, i>>: the i-th StartVM, of v, and its subprocess

VARIABLES
  dir,        \* the VMs whose directory exists
  file,       \* file[v]: <<v>>/vm.pid
  stage,      \* stage[r]: where StartVM, then its goroutine, has got to
  life,       \* life[r]: the runner subprocess
  pid,        \* pid[r]: cmd.Process.Pid
  foreign,    \* the pids of processes that are not runners
  pending,    \* <<v, p>>: a StopVM of v read p and has not sent its signal
  deleting    \* the VMs whose DeleteVM is between its unlinks and its rmdir

vars == <<dir, file, stage, life, pid, foreign, pending, deleting>>

Stages == {"unborn",    \* StartVM was not called
           "forked",    \* cmd.Start returned
           "opened",    \* WriteFile opened and truncated vm.pid
           "unlinked",  \* the same, and the open file was unlinked since
           "wait",      \* StartVM returned; the goroutine is in cmd.Wait
           "remove",    \* cmd.Wait returned
           "notify",    \* vm.pid was removed
           "done",      \* OnVMExit was called
           "lost"}      \* the driver exited before "done"

Lives == {"none", "alive", "zombie", "reaped"}

TypeOK ==
  /\ dir \subseteq VMs
  /\ file \in [VMs -> Pids \cup {Absent, Empty}]
  /\ stage \in [Run -> Stages]
  /\ life \in [Run -> Lives]
  /\ pid \in [Run -> Pids \cup {NoPid}]
  /\ foreign \subseteq Pids
  /\ pending \subseteq VMs \X Pids
  /\ deleting \subseteq VMs

(* A run StartVM or its goroutine still has to clean up after.             *)
ActiveStages == {"forked", "opened", "unlinked", "wait", "remove"}
Active(r) == stage[r] \in ActiveStages

Alive(r) == life[r] = "alive"

(* The processes that hold a pid: a zombie does until it is waited for.    *)
Holds(r) == life[r] \in {"alive", "zombie"}
InUse == foreign \cup {pid[r] : r \in {q \in Run : Holds(q)}}
Used == foreign \cup {pid[r] : r \in Run}
FreePids == Pids \ (IF ReusePids THEN InUse ELSE Used)

(* Unlinking v's vm.pid takes it from under a WriteFile that opened it.    *)
StageAfterUnlink(v) ==
  [r \in Run |-> IF r[1] = v /\ stage[r] = "opened" THEN "unlinked" ELSE stage[r]]

Init ==
  /\ dir = {}
  /\ file = [v \in VMs |-> Absent]
  /\ stage = [r \in Run |-> "unborn"]
  /\ life = [r \in Run |-> "none"]
  /\ pid = [r \in Run |-> NoPid]
  /\ foreign = {}
  /\ pending = {}
  /\ deleting = {}

(* CreateVM as far as this module sees it: os.MkdirAll (see VmDir).        *)
CreateVM(v) ==
  /\ dir' = dir \cup {v}
  /\ UNCHANGED <<file, stage, life, pid, foreign, pending, deleting>>

(* What a caller checks before StartVM or DeleteVM: no vm.pid, and no call *)
(* of its own still in flight on that VM.                                  *)
Idle(v) ==
  /\ file[v] = Absent
  /\ v \notin deleting
  /\ \A q \in Run : q[1] = v => stage[q] \notin {"forked", "opened", "unlinked"}

(* Mutant: StartVM does not keep cmd.Process.Pid.                          *)
ForkRunnerForgetsPid(r, p) ==
  /\ stage[r] = "unborn"
  /\ Disciplined => r[1] \in dir /\ Idle(r[1])
  /\ p \in FreePids
  /\ stage' = [stage EXCEPT ![r] = "forked"]
  /\ life' = [life EXCEPT ![r] = "alive"]
  /\ UNCHANGED <<dir, file, pid, foreign, pending, deleting>>

(* StartVM up to cmd.Start; the error returns before the fork change       *)
(* nothing.                                                                *)
ForkRunner(r, p) ==
  /\ stage[r] = "unborn"
  /\ \A v \in VMs : stage[<<v, r[2]>>] = "unborn"
  /\ \A i \in Starts : i < r[2] => \E v \in VMs : stage[<<v, i>>] # "unborn"
  /\ Disciplined => r[1] \in dir /\ Idle(r[1])
  /\ p \in FreePids
  /\ stage' = [stage EXCEPT ![r] = "forked"]
  /\ life' = [life EXCEPT ![r] = "alive"]
  /\ pid' = [pid EXCEPT ![r] = p]
  /\ UNCHANGED <<dir, file, foreign, pending, deleting>>

(* Mutant: StartVM returns before the pid is written.                      *)
OpenPidFileAndReturn(r) ==
  /\ stage[r] = "forked"
  /\ r[1] \in dir
  /\ file' = [file EXCEPT ![r[1]] = Empty]
  /\ stage' = [stage EXCEPT ![r] = "wait"]
  /\ UNCHANGED <<dir, life, pid, foreign, pending, deleting>>

(* os.WriteFile opens vm.pid with O_CREATE|O_TRUNC ...                      *)
OpenPidFile(r) ==
  /\ stage[r] = "forked"
  /\ r[1] \in dir
  /\ file' = [file EXCEPT ![r[1]] = Empty]
  /\ stage' = [stage EXCEPT ![r] = "opened"]
  /\ UNCHANGED <<dir, life, pid, foreign, pending, deleting>>

(* ... and writes the pid; StartVM then spawns the goroutine and returns.  *)
WritePid(r) ==
  /\ stage[r] \in {"opened", "unlinked"}
  /\ file' = IF stage[r] = "opened" THEN [file EXCEPT ![r[1]] = pid[r]] ELSE file
  /\ stage' = [stage EXCEPT ![r] = "wait"]
  /\ UNCHANGED <<dir, life, pid, foreign, pending, deleting>>

(* A failure of either half is ignored.                                    *)
PidFileFails(r) ==
  /\ \/ stage[r] = "forked" /\ (r[1] \notin dir \/ WriteMayFail)
     \/ stage[r] \in {"opened", "unlinked"} /\ WriteMayFail
  /\ stage' = [stage EXCEPT ![r] = "wait"]
  /\ UNCHANGED <<dir, file, life, pid, foreign, pending, deleting>>

(* The subprocess ends: the guest powered off, it was stopped, it crashed. *)
(* Without its parent it is init's to reap.                                *)
Exit(r) ==
  /\ Alive(r)
  /\ life' = [life EXCEPT ![r] = IF stage[r] = "lost" THEN "reaped" ELSE "zombie"]
  /\ UNCHANGED <<dir, file, stage, pid, foreign, pending, deleting>>

(* Mutant: the goroutine does not wait for the subprocess.                 *)
ReapWithoutWait(r) ==
  /\ stage[r] = "wait"
  /\ stage' = [stage EXCEPT ![r] = "remove"]
  /\ UNCHANGED <<dir, file, life, pid, foreign, pending, deleting>>

(* The goroutine: cmd.Wait, ...                                            *)
Reap(r) ==
  /\ stage[r] = "wait"
  /\ life[r] = "zombie"
  /\ life' = [life EXCEPT ![r] = "reaped"]
  /\ stage' = [stage EXCEPT ![r] = "remove"]
  /\ UNCHANGED <<dir, file, pid, foreign, pending, deleting>>

(* Mutant: the goroutine leaves vm.pid behind.                             *)
KeepPidFile(r) ==
  /\ stage[r] = "remove"
  /\ stage' = [stage EXCEPT ![r] = "notify"]
  /\ UNCHANGED <<dir, file, life, pid, foreign, pending, deleting>>

(* Mutant: the goroutine gives up when there is no vm.pid to remove.       *)
RemovePidFileOrGiveUp(r) ==
  /\ stage[r] = "remove"
  /\ file[r[1]] # Absent
  /\ file' = [file EXCEPT ![r[1]] = Absent]
  /\ stage' = [StageAfterUnlink(r[1]) EXCEPT ![r] = "notify"]
  /\ UNCHANGED <<dir, life, pid, foreign, pending, deleting>>

(* ... os.Remove(vm.pid), whoever wrote it, ...                            *)
RemovePidFile(r) ==
  /\ stage[r] = "remove"
  /\ file' = [file EXCEPT ![r[1]] = Absent]
  /\ stage' = [StageAfterUnlink(r[1]) EXCEPT ![r] = "notify"]
  /\ UNCHANGED <<dir, life, pid, foreign, pending, deleting>>

(* ... OnVMExit.                                                           *)
Notify(r) ==
  /\ stage[r] = "notify"
  /\ stage' = [stage EXCEPT ![r] = "done"]
  /\ UNCHANGED <<dir, file, life, pid, foreign, pending, deleting>>

(* Mutant: the path of vm.pid does not depend on the VM.                   *)
ReadAnyPidFile(v) ==
  /\ \E w \in VMs : /\ file[w] \in Pids
                    /\ pending' = pending \cup {<<v, file[w]>>}
  /\ UNCHANGED <<dir, file, stage, life, pid, foreign, deleting>>

(* StopVM reads vm.pid.  With no file, or one that does not parse, it      *)
(* returns and changes nothing.                                            *)
ReadPidFile(v) ==
  /\ file[v] \in Pids
  /\ pending' = pending \cup {<<v, file[v]>>}
  /\ UNCHANGED <<dir, file, stage, life, pid, foreign, deleting>>

(* Later it sends SIGTERM to whatever process has that pid by then, and    *)
(* ignores a failure.  What a runner does on it is VmLife's; here it may   *)
(* end at any time.  Other StopVMs may hold the same pair.                 *)
Signal(v, p) ==
  /\ <<v, p>> \in pending
  /\ pending' \in {pending, pending \ {<<v, p>>}}
  /\ UNCHANGED <<dir, file, stage, life, pid, foreign, deleting>>

(* DeleteVM is os.RemoveAll: it unlinks what it finds in the directory ... *)
BeginDelete(v) ==
  /\ v \in dir
  /\ Disciplined => Idle(v) /\ \A q \in Run : q[1] = v => ~Active(q)
  /\ file' = [file EXCEPT ![v] = Absent]
  /\ stage' = StageAfterUnlink(v)
  /\ deleting' = deleting \cup {v}
  /\ UNCHANGED <<dir, life, pid, foreign, pending>>

(* ... then removes the directory, which fails when vm.pid, or a file of   *)
(* CreateVM or of the runner, was made in it meanwhile.                    *)
FinishDelete(v) ==
  /\ v \in deleting
  /\ deleting' = deleting \ {v}
  /\ dir' \in (IF file[v] = Absent THEN {dir \ {v}, dir} ELSE {dir})
  /\ UNCHANGED <<file, stage, life, pid, foreign, pending>>

(* Other processes of the host come and go.                                *)
ForeignStart(p) ==
  /\ p \in FreePids
  /\ foreign' = foreign \cup {p}
  /\ UNCHANGED <<dir, file, stage, life, pid, pending, deleting>>

ForeignExit(p) ==
  /\ ReusePids
  /\ p \in foreign
  /\ foreign' = foreign \ {p}
  /\ UNCHANGED <<dir, file, stage, life, pid, pending, deleting>>

(* The driver process exits: its handlers and goroutines are gone, its     *)
(* runners live on, its zombies go to init.  The files stay as they are,   *)
(* and the driver that takes its place does not look at them.              *)
DriverExit ==
  /\ MayExit
  /\ stage' = [r \in Run |-> IF stage[r] \in {"unborn", "done"} THEN stage[r] ELSE "lost"]
  /\ life' = [r \in Run |-> IF life[r] = "zombie" THEN "reaped" ELSE life[r]]
  /\ pending' = {}
  /\ deleting' = {}
  /\ UNCHANGED <<dir, file, pid, foreign>>

(* The steps of one StartVM and of its goroutine.                          *)
Handler(r) == \/ OpenPidFile(r)
              \/ WritePid(r)
              \/ PidFileFails(r)
              \/ Reap(r)
              \/ RemovePidFile(r)
              \/ Notify(r)

Next ==
  \/ \E v \in VMs : CreateVM(v) \/ ReadPidFile(v) \/ BeginDelete(v) \/ FinishDelete(v)
  \/ \E r \in Run : \E p \in Pids : ForkRunner(r, p)
  \/ \E r \in Run : Handler(r) \/ Exit(r)
  \/ \E v \in VMs, p \in Pids : Signal(v, p)
  \/ \E p \in Pids : ForeignStart(p) \/ ForeignExit(p)
  \/ DriverExit

(* The Go runtime runs a handler and a goroutine that can go on; nothing   *)
(* makes a subprocess end or a caller call.                                *)
Fairness == \A r \in Run : WF_vars(Handler(r))

Safe == Init /\ [][Next]_vars
Spec == Safe /\ Fairness
-----------------------------------------------------------------------------
(* At most one runner process of a VM is alive (StartVM's comment: "Higher *)
(* layers own the 'is this VM already running?' check via the vm.pid       *)
(* presence"): holds for disciplined callers while vm.pid can be trusted.  *)
SingleRunner ==
  \A q, r \in Run : q[1] = r[1] /\ Alive(q) /\ Alive(r) => q = r

(* Once StartVM returned, and for as long as its runner lives, vm.pid      *)
(* names that runner: "StopVM works immediately", and keeps working.       *)
StartedIsStoppable ==
  \A r \in Run : Alive(r) /\ stage[r] = "wait" => file[r[1]] = pid[r]

(* A complete vm.pid names a run of its own VM whose goroutine has still   *)
(* to remove it; the only one nobody will remove is that of a run the      *)
(* driver lost by exiting.  True however the calls overlap.                *)
PidFileNamesRun ==
  \A v \in VMs : file[v] \in Pids =>
    \E r \in Run : /\ r[1] = v
                   /\ pid[r] = file[v]
                   /\ stage[r] \in {"wait", "remove", "lost"}

(* DeleteVM takes no directory from under a live runner (it is called      *)
(* "after stop").                                                          *)
LiveRunnerKeepsDirectory == \A r \in Run : Alive(r) => r[1] \in dir

(* StopVM "signals graceful shutdown" to its own VM: the number it has     *)
(* read is that of a run of that VM, and only once the driver or init has  *)
(* reaped that run can another process have it, be it a stranger or the    *)
(* runner of another VM.  Then the signal goes astray, and nothing in the  *)
(* code prevents it: neither between StopVM's read and its kill, nor when  *)
(* vm.pid is read between cmd.Wait and os.Remove or after a driver exit.   *)
SignalsGoHome ==
  \A v \in VMs, p \in Pids : <<v, p>> \in pending =>
    /\ \E r \in Run : r[1] = v /\ pid[r] = p
    /\ (p \in foreign \/ \E q \in Run : q[1] # v /\ Holds(q) /\ pid[q] = p) =>
         \A r \in Run : r[1] = v /\ pid[r] = p => life[r] = "reaped"

(* Every subprocess that ends while StartVM's goroutine waits for it is    *)
(* reaped and reported through OnVMExit, unless the driver exits first.    *)
ExitReported ==
  \A r \in Run : (stage[r] = "wait" /\ life[r] = "zombie") ~> (stage[r] \in {"done", "lost"})

(* "Malformed PID content -> error (operator-visible bug, not a transient  *)
(* condition)": a StopVM can meet a vm.pid that StartVM has truncated and  *)
(* not written yet, and reject it; but where the write cannot fail and the *)
(* driver stays up, the file does not stay that way.                       *)
TruncationIsTransient == \A v \in VMs : (file[v] = Empty) ~> (file[v] # Empty)

(* "A goroutine cmd.Wait()'s the subprocess, removes vm.pid on exit": a    *)
(* pid left behind by a process that is gone is removed sooner or later.   *)
(* Fails when the driver exits before its runners, as they are meant to    *)
(* survive it.                                                             *)
ExitClearsPidFile ==
  \A r \in Run :
    (life[r] = "reaped" /\ file[r[1]] = pid[r]) ~> (file[r[1]] # pid[r])

(* The refinement: a run is up while its process lives, down until its     *)
(* goroutine has called OnVMExit.                                          *)
Phase(r) == IF stage[r] = "unborn" THEN "none"
            ELSE IF Alive(r) THEN "up"
            ELSE IF stage[r] = "done" THEN "reported"
            ELSE "down"

Slot == INSTANCE VmSlot WITH phase <- [r \in Run |-> Phase(r)]

(* The driver, called with discipline, implements VmSlot: starts, ends and *)
(* reports of its runs are VmSlot's, and every end is reported.            *)
ImplementsSlot == Slot!Spec
=============================================================================
