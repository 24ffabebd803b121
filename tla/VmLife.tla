------------------------------- MODULE VmLife -------------------------------
(***************************************************************************)
(* One VM from end to end: the driver process (Hypervisor), the runner it  *)
(* forks (RunVM), the SIGTERM between them and the file they both write,   *)
(* <vmDir>/timings.jsonl.  The callers are disciplined and the driver is   *)
(* reliable, so that at most one runner is alive at a time                 *)
(* (HypervisorProofs!NeverTwoRunners) and one set of RunVM's variables     *)
(* does for all of them: those of the run that was forked last.            *)
(*                                                                         *)
(* A line of timings.jsonl is one write to a file opened with O_APPEND; it *)
(* is a step of its writer.                                                *)
(***************************************************************************)
EXTENDS Naturals, Sequences, FiniteSets, SequencesExt

CONSTANTS
  VM,                    \* the VM
  Starts, Pids, Absent, Empty, NoPid, ReusePids,  \* as in Hypervisor
  MaxSignals, MaxMarks,  \* as in RunVM, and for all runs together
  Guests, MayFail        \* as in RunVM

VARIABLES
  dir, file, stage, life, pid, foreign, pending, deleting,
  micro, obeys, pc, vm, requested, stateCh, tap, stoppedCh, sigCh, signals, log, click, answered,
  sent,      \* a SIGTERM was sent to the runner and not delivered yet
  term,      \* history: the runs that were sent a SIGTERM
  killed,    \* history: the runs that a signal ended uncaught
  timeline   \* timings.jsonl: pairs of a run's label and an event

D == INSTANCE Hypervisor WITH VMs <- {VM}, Disciplined <- TRUE, WriteMayFail <- FALSE, MayExit <- FALSE

(* The events of a runner that the properties tell apart; the others are   *)
(* not kept in the timeline.                                               *)
Kept == {"vm_instantiated", "start_failed", "stopped", "microvm_exited", "guest"}
Skipped == {"config_failed", "vm_configured", "new_vm_failed", "start_returned",
            "none", "starting", "running", "stopping", "error"}

R == INSTANCE RunVM WITH Clicks <- {}

(* What the two modules assume of these constants.                         *)
ASSUME VmLifeAssumption == D!ConstantsAssumption /\ R!RunVMAssumption

driverVars == <<dir, file, stage, life, pid, foreign, pending, deleting>>
runnerVars == <<micro, obeys, pc, vm, requested, stateCh, tap, stoppedCh, sigCh, signals, log, click, answered>>
vars == <<driverVars, runnerVars, sent, term, killed, timeline>>

TypeOK ==
  /\ D!TypeOK
  /\ R!TypeOK
  /\ sent \in BOOLEAN
  /\ term \subseteq D!Run
  /\ killed \subseteq D!Run
  /\ timeline \in Seq(Starts \X (Kept \cup {"exited"}))

Init == D!Init /\ R!Init /\ sent = FALSE /\ term = {} /\ killed = {} /\ timeline = <<>>

(* recordTimingEvent: without its directory the file cannot be created,    *)
(* and the event is lost.                                                  *)
Appended(r, event) == IF VM \in dir THEN Append(timeline, <<r[2], event>>) ELSE timeline

-----------------------------------------------------------------------------
(* StartVM's fork: a new process.  Whether it is headless is the VM's.     *)
Fork(r, p) ==
  /\ D!ForkRunner(r, p)
  /\ pc' = "config" /\ tap' = "receive" /\ log' = <<>>
  /\ vm' = "none" /\ requested' = FALSE /\ stateCh' = <<>>
  /\ stoppedCh' = FALSE /\ sigCh' = FALSE /\ signals' = 0 /\ sent' = FALSE
  /\ UNCHANGED <<micro, obeys, click, answered, term, killed, timeline>>

(* StartVM's other steps and its goroutine's; OnVMExit records the exit.   *)
DriverGoroutine(r) ==
  /\ D!Handler(r)
  /\ timeline' = IF stage'[r] = "done" THEN Appended(r, "exited") ELSE timeline
  /\ UNCHANGED <<runnerVars, sent, term, killed>>

(* CreateVM, and StopVM up to its read.                                    *)
Call ==
  /\ D!CreateVM(VM) \/ D!ReadPidFile(VM)
  /\ UNCHANGED <<runnerVars, sent, term, killed, timeline>>

(* StopVM sends; two signals that are not delivered yet are one.  Bound:   *)
(* MaxSignals is for all runs together, too.                               *)
Send(p) ==
  /\ D!Signal(VM, p)
  /\ LET reached == {r \in D!Run : D!Alive(r) /\ pid[r] = p}
     IN  /\ reached # {} => signals < MaxSignals /\ Cardinality(term) < MaxSignals
         /\ sent' = (sent \/ reached # {})
         /\ term' = term \cup reached
  /\ UNCHANGED <<runnerVars, killed, timeline>>

(* DeleteVM unlinks timings.jsonl too, and cannot remove the directory if  *)
(* the file was made again.                                                *)
Delete ==
  /\ \/ D!BeginDelete(VM) /\ timeline' = <<>>
     \/ D!FinishDelete(VM) /\ (timeline # <<>> => dir' = dir) /\ timeline' = timeline
  /\ UNCHANGED <<runnerVars, sent, term, killed>>

-----------------------------------------------------------------------------
(* A step of the live runner, which records at most one event; if it is    *)
(* its last one the driver's child ends with it.                           *)
InRunner(r, Step) ==
  /\ D!Alive(r)
  /\ Step
  /\ IF pc' \notin R!Ends THEN UNCHANGED driverVars ELSE D!Exit(r)
  /\ term' = term
  /\ killed' = IF pc' = "killed" THEN killed \cup {r} ELSE killed
  /\ timeline' = IF log' # log THEN Appended(r, Last(log')) ELSE timeline

RunnerMain(r) == InRunner(r, R!Main) /\ UNCHANGED sent
RunnerTap(r) == InRunner(r, R!Tap) /\ UNCHANGED sent
(* Bound: MaxMarks is for all runs in the timeline together.               *)
RunnerWatch(r) ==
  /\ Len(SelectSeq(timeline, LAMBDA line : line[2] = "guest")) < MaxMarks
  /\ InRunner(r, R!WatchRecords)
  /\ UNCHANGED sent

RunnerFramework(r) == InRunner(r, R!Framework) /\ UNCHANGED sent
RunnerGuest(r) == InRunner(r, R!GuestStops) /\ UNCHANGED sent
RunnerWorld(r) == InRunner(r, R!MachineFails \/ R!AppCloses) /\ UNCHANGED sent

(* The signal is delivered; a process with a window ends on it, too.       *)
Deliver(r) ==
  /\ sent
  /\ sent' = FALSE
  /\ InRunner(r, R!SignalArrives \/ R!AppCloses)

RunnerStep(r) ==
  \/ RunnerMain(r) \/ RunnerTap(r) \/ RunnerWatch(r) \/ RunnerFramework(r) \/ RunnerGuest(r)
  \/ RunnerWorld(r) \/ Deliver(r)

Next ==
  \/ \E r \in D!Run, p \in Pids : Fork(r, p)
  \/ \E r \in D!Run : DriverGoroutine(r) \/ RunnerStep(r)
  \/ \E p \in Pids : Send(p)
  \/ Call \/ Delete

(* As in the two modules; and the host delivers a signal.  One runner is   *)
(* alive at a time.                                                        *)
Fairness ==
  /\ \A r \in D!Run : WF_vars(DriverGoroutine(r))
  /\ WF_vars(\E r \in D!Run : RunnerMain(r))
  /\ WF_vars(\E r \in D!Run : RunnerTap(r))
  /\ WF_vars(\E r \in D!Run : RunnerFramework(r))
  /\ WF_vars(\E r \in D!Run : obeys /\ requested /\ RunnerGuest(r))
  /\ WF_vars(\E r \in D!Run : Deliver(r))

Spec == Init /\ [][Next]_vars /\ Fairness
-----------------------------------------------------------------------------
(* Whether event e of run i is among the first n lines.                    *)
Told(i, e, n) == \E k \in 1..n : timeline[k] = <<i, e>>

(* Whether, by then, run i has told of its machine and of no failed start. *)
Booted(i, n) == Told(i, "vm_instantiated", n) /\ ~Told(i, "start_failed", n)

(* "The timings.jsonl gets the closing bracket": the "exited" that the     *)
(* driver records for a run comes once, after all that the run recorded    *)
(* itself, although two processes append to the file.                      *)
ExitIsLastWord ==
  \A j, k \in DOMAIN timeline : j < k /\ timeline[j][2] = "exited" => timeline[k][1] # timeline[j][1]

(* "The subprocess exits cleanly so the parent's wait goroutine fires":    *)
(* unless a signal killed it before it could catch one (ShutdownIsClean),  *)
(* the timeline of a headless run whose machine was made and whose start   *)
(* did not fail has, before its "exited", the machine's stop and then the  *)
(* runner's own exit, whether the guest stopped by itself or StopVM asked. *)
BracketCloses ==
  \A r \in D!Run, k \in DOMAIN timeline :
    micro /\ r \notin killed /\ timeline[k] = <<r[2], "exited">> /\ Booted(r[2], k) =>
      \E j \in 1..(k - 1) : timeline[j] = <<r[2], "microvm_exited">> /\ Told(r[2], "stopped", j)

(* A StopVM that reached a runner is followed by OnVMExit for that run, at *)
(* whatever point of its boot or its life the signal met the runner, if    *)
(* the guest obeys; nothing ends a runner whose machine failed.            *)
StopIsReported == \A r \in D!Run : (obeys /\ r \in term) ~> (stage[r] = "done" \/ vm = "error")
=============================================================================
