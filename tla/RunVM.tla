-------------------------------- MODULE RunVM --------------------------------
(***************************************************************************)
(* builtin/vmrun.go RunVMGraphic, the subprocess StartVM forks, with       *)
(* goVMReboot of builtin/consoletab.go: the main goroutine, the goroutine  *)
(* that follows the machine's state changes, the one that records what the *)
(* guest prints, the signals the host sends and the goroutines of the      *)
(* window's Reboot button.  The machine itself is the Virtualization       *)
(* framework's: external, modelled from the calls made on it and the       *)
(* states the code compares.  Time is abstract: a deadline may pass at any *)
(* poll that has not seen the machine stopped.                             *)
(***************************************************************************)
EXTENDS Naturals, Sequences, FiniteSets, SequencesExt

CONSTANTS
  Clicks,      \* bound: the presses of the Reboot button
  MaxSignals,  \* bound: the SIGTERMs and SIGINTs sent to the process
  MaxMarks,    \* bound: the marks the guest prints on its console
  Skipped,     \* the events that log leaves out
  Guests,      \* whether a guest powers off when requested to: TRUE, FALSE
  MayFail      \* configuring, creating, starting or stopping can fail

ASSUME RunVMAssumption ==
  /\ MaxSignals \in Nat /\ MaxMarks \in Nat
  /\ Guests \subseteq BOOLEAN /\ MayFail \in BOOLEAN
  /\ {"stopped", "microvm_exited"} \cap Skipped = {}

VARIABLES
  micro,      \* readMicroVMFlag: headless, or a window
  obeys,      \* the guest powers off when it is requested to
  pc,         \* the main goroutine
  vm,         \* machine.State()
  requested,  \* the guest was asked to power off and has not stopped since
  stateCh,    \* StateChangedNotify: transitions nobody received yet
  tap,        \* the goroutine that receives them
  stoppedCh,  \* stoppedCh holds its one value
  sigCh,      \* sigCh holds its one signal
  signals,    \* how many signals were sent
  log,        \* what was recorded in timings.jsonl since "entered"
  click,      \* click[i]: the goroutine of the i-th goVMReboot
  answered    \* history: the clicks since which the machine has stopped

vars == <<micro, obeys, pc, vm, requested, stateCh, tap, stoppedCh, sigCh, signals, log, click, answered>>

MainStages == {"config", "create", "launch", "starting", "returned", "refused", "started",
               "select", "awaiting", "returning", "appkit"}
Ends == {"finished", "failed", "killed", "closed"}
VMStates == {"none", "stopped", "starting", "running", "stopping", "error"}
ClickStages == {"none", "pressed", "polling", "late", "ensure", "restart", "done", "failed"}
Events == {"config_failed", "vm_configured", "new_vm_failed", "vm_instantiated",
           "start_failed", "start_returned", "microvm_exited", "guest"} \cup VMStates

TypeOK ==
  /\ micro \in BOOLEAN
  /\ obeys \in Guests
  /\ pc \in MainStages \cup Ends
  /\ vm \in VMStates
  /\ requested \in BOOLEAN
  /\ stateCh \in Seq(VMStates)
  /\ tap \in {"receive", "send"}
  /\ stoppedCh \in BOOLEAN
  /\ sigCh \in BOOLEAN
  /\ signals \in 0..MaxSignals
  /\ log \in Seq(Events)
  /\ click \in [Clicks -> ClickStages]
  /\ answered \subseteq Clicks

(* The end of the process is the end of its goroutines and of its machine. *)
Up == pc \notin Ends

Init ==
  /\ micro \in BOOLEAN
  /\ obeys \in Guests
  /\ pc = "config"
  /\ vm = "none"
  /\ requested = FALSE
  /\ stateCh = <<>>
  /\ tap = "receive"
  /\ stoppedCh = FALSE
  /\ sigCh = FALSE
  /\ signals = 0
  /\ log = <<>>
  /\ click = [i \in Clicks |-> "none"]
  /\ answered = {}

Record(event) == log' = IF event \in Skipped THEN log ELSE Append(log, event)

-----------------------------------------------------------------------------
(* The machine (external).  Each transition is sent to stateCh, which is   *)
(* unbounded.                                                              *)
Become(s) ==
  /\ vm' = s
  /\ stateCh' = Append(stateCh, s)
  /\ requested' = (requested /\ s \notin {"stopped", "error"})
  /\ answered' = IF s = "stopped" THEN answered \cup {i \in Clicks : click[i] # "none"} ELSE answered

VMUnchanged == UNCHANGED <<vm, stateCh, requested, answered>>

(* RequestStop asks a running guest to power off; otherwise it is an error *)
(* that its callers ignore.                                                *)
RequestStop ==
  /\ requested' = (requested \/ vm = "running")
  /\ UNCHANGED <<vm, stateCh, answered>>

(* machine.Start completes; main learns how its own call went.             *)
StartCompletes(ok) ==
  /\ Up
  /\ vm = "starting"
  /\ ~ok => MayFail
  /\ IF ok THEN Become("running") ELSE Become("stopped") \/ Become("error")
  /\ pc' = IF pc # "starting" THEN pc ELSE IF ok THEN "returned" ELSE "refused"
  /\ UNCHANGED <<micro, obeys, tap, stoppedCh, sigCh, signals, log, click>>

StopCompletes ==
  /\ Up
  /\ vm = "stopping"
  /\ Become("stopped")
  /\ UNCHANGED <<micro, obeys, pc, tap, stoppedCh, sigCh, signals, log, click>>

(* The guest powers off, of its own accord or because it was requested to. *)
GuestStops ==
  /\ Up
  /\ vm = "running"
  /\ Become("stopped")
  /\ UNCHANGED <<micro, obeys, pc, tap, stoppedCh, sigCh, signals, log, click>>

MachineFails ==
  /\ Up
  /\ MayFail
  /\ vm = "running"
  /\ Become("error")
  /\ UNCHANGED <<micro, obeys, pc, tap, stoppedCh, sigCh, signals, log, click>>

-----------------------------------------------------------------------------
(* Mutant: an event is recorded under a name no reader of the log knows.   *)
ConfigureRecordsStage ==
  /\ pc = "config"
  /\ \/ pc' = "create" /\ Record("vm_configured")
     \/ MayFail /\ pc' = "failed" /\ Record("failed")
  /\ VMUnchanged
  /\ UNCHANGED <<micro, obeys, tap, stoppedCh, sigCh, signals, click>>

(* RunVMGraphic.                                                           *)
Configure ==
  /\ pc = "config"
  /\ \/ pc' = "create" /\ Record("vm_configured")
     \/ MayFail /\ pc' = "failed" /\ Record("config_failed")
  /\ VMUnchanged
  /\ UNCHANGED <<micro, obeys, tap, stoppedCh, sigCh, signals, click>>

(* NewVirtualMachine, gVMInstance, and the goroutines.                     *)
Create ==
  /\ pc = "create"
  /\ \/ pc' = "launch" /\ vm' = "stopped" /\ Record("vm_instantiated")
     \/ MayFail /\ pc' = "failed" /\ vm' = vm /\ Record("new_vm_failed")
  /\ UNCHANGED <<micro, obeys, stateCh, requested, answered, tap, stoppedCh, sigCh, signals, click>>

CallStart ==
  /\ pc = "launch"
  /\ pc' = "starting"
  /\ Become("starting")
  /\ UNCHANGED <<micro, obeys, tap, stoppedCh, sigCh, signals, log, click>>

StartReturned ==
  /\ \/ pc = "returned" /\ pc' = (IF micro THEN "started" ELSE "appkit") /\ Record("start_returned")
     \/ pc = "refused" /\ pc' = "failed" /\ Record("start_failed")
  /\ VMUnchanged
  /\ UNCHANGED <<micro, obeys, tap, stoppedCh, sigCh, signals, click>>

(* signal.Notify: only from here on is a signal caught.                    *)
CatchSignals ==
  /\ pc = "started"
  /\ pc' = "select"
  /\ VMUnchanged
  /\ UNCHANGED <<micro, obeys, tap, stoppedCh, sigCh, signals, log, click>>

(* Mutant: the runner returns without recording its exit.                  *)
ReceiveStoppedUnrecorded ==
  /\ pc \in {"select", "awaiting"}
  /\ stoppedCh
  /\ stoppedCh' = FALSE
  /\ pc' = "returning"
  /\ VMUnchanged
  /\ UNCHANGED <<micro, obeys, tap, sigCh, signals, log, click>>

(* The select, and the receive that follows a signal.                      *)
ReceiveStopped ==
  /\ pc \in {"select", "awaiting"}
  /\ stoppedCh
  /\ stoppedCh' = FALSE
  /\ pc' = "returning"
  /\ Record("microvm_exited")
  /\ VMUnchanged
  /\ UNCHANGED <<micro, obeys, tap, sigCh, signals, click>>

(* The process ends; its other goroutines have run until now.              *)
Return ==
  /\ pc = "returning"
  /\ pc' = "finished"
  /\ VMUnchanged
  /\ UNCHANGED <<micro, obeys, tap, stoppedCh, sigCh, signals, log, click>>

(* Mutant: the runner returns on a signal without awaiting the stop.       *)
ReceiveSignalAndReturn ==
  /\ pc = "select"
  /\ sigCh
  /\ sigCh' = FALSE
  /\ RequestStop
  /\ pc' = "returning"
  /\ Record("microvm_exited")
  /\ UNCHANGED <<micro, obeys, tap, stoppedCh, signals, click>>

(* Mutant: the signal does not reach the guest.                            *)
ReceiveSignalOnly ==
  /\ pc = "select"
  /\ sigCh
  /\ sigCh' = FALSE
  /\ pc' = "awaiting"
  /\ VMUnchanged
  /\ UNCHANGED <<micro, obeys, tap, stoppedCh, signals, log, click>>

ReceiveSignal ==
  /\ pc = "select"
  /\ sigCh
  /\ sigCh' = FALSE
  /\ RequestStop
  /\ pc' = "awaiting"
  /\ UNCHANGED <<micro, obeys, tap, stoppedCh, signals, log, click>>

(* AppKit's loop ends: the window is closed or AppKit handles a signal.    *)
AppCloses ==
  /\ pc = "appkit"
  /\ pc' = "closed"
  /\ VMUnchanged
  /\ UNCHANGED <<micro, obeys, tap, stoppedCh, sigCh, signals, log, click>>

-----------------------------------------------------------------------------
(* The goroutine that ranges over stateCh: it records the transition, ...  *)
TapReceive ==
  /\ Up
  /\ tap = "receive"
  /\ stateCh # <<>>
  /\ Record(Head(stateCh))
  /\ stateCh' = Tail(stateCh)
  /\ tap' = IF Head(stateCh) = "stopped" THEN "send" ELSE "receive"
  /\ UNCHANGED <<micro, obeys, pc, vm, requested, answered, stoppedCh, sigCh, signals, click>>

(* Mutant: stoppedCh has no buffer, so the send needs a receiver waiting.  *)
TapSendUnbuffered ==
  /\ Up
  /\ tap = "send"
  /\ tap' = "receive"
  /\ stoppedCh' = (pc \in {"select", "awaiting"})
  /\ VMUnchanged
  /\ UNCHANGED <<micro, obeys, pc, sigCh, signals, log, click>>

(* ... then, after a stop, sends to stoppedCh unless that is full.         *)
TapSend ==
  /\ Up
  /\ tap = "send"
  /\ tap' = "receive"
  /\ stoppedCh' = TRUE
  /\ VMUnchanged
  /\ UNCHANGED <<micro, obeys, pc, sigCh, signals, log, click>>

-----------------------------------------------------------------------------
(* watchConsoleForMarks (see ConsoleWatch), a goroutine of its own, may    *)
(* have a mark to record at any time: its last poll before the process     *)
(* ends can come after the main goroutine's last event.                    *)
WatchRecords ==
  /\ Up
  /\ pc \notin {"config", "create"}
  /\ Cardinality({k \in DOMAIN log : log[k] = "guest"}) < MaxMarks
  /\ Record("guest")
  /\ VMUnchanged
  /\ UNCHANGED <<micro, obeys, pc, tap, stoppedCh, sigCh, signals, click>>

-----------------------------------------------------------------------------
(* SIGTERM or SIGINT.  Uncaught it ends the process; caught it is kept if  *)
(* sigCh has room; in the window it is AppKit's (AppCloses).               *)
SignalArrives ==
  /\ Up
  /\ pc # "appkit"
  /\ signals < MaxSignals
  /\ signals' = signals + 1
  /\ IF pc \in {"select", "awaiting", "returning"}
       THEN sigCh' = TRUE /\ pc' = pc
       ELSE pc' = "killed" /\ sigCh' = sigCh
  /\ VMUnchanged
  /\ UNCHANGED <<micro, obeys, tap, stoppedCh, log, click>>

-----------------------------------------------------------------------------
(* goVMReboot: the button of a window that is open.                        *)
GoTo(i, s) == click' = [click EXCEPT ![i] = s]
MainUnchanged == UNCHANGED <<micro, obeys, pc, tap, stoppedCh, sigCh, signals, log>>

Press(i) ==
  /\ pc = "appkit"
  /\ click[i] = "none"
  /\ GoTo(i, "pressed")
  /\ VMUnchanged /\ MainUnchanged

RebootRequest(i) ==
  /\ Up
  /\ click[i] = "pressed"
  /\ RequestStop
  /\ GoTo(i, "polling")
  /\ MainUnchanged

(* Either loop ends when it sees the machine stopped.                      *)
RebootSeesStopped(i) ==
  /\ Up
  /\ click[i] \in {"polling", "ensure"}
  /\ vm = "stopped"
  /\ GoTo(i, "restart")
  /\ VMUnchanged /\ MainUnchanged

(* The first loop reads a state that is not stopped, after the deadline.   *)
RebootDeadline(i) ==
  /\ Up
  /\ click[i] = "polling"
  /\ vm # "stopped"
  /\ GoTo(i, "late")
  /\ VMUnchanged /\ MainUnchanged

(* Mutant: the machine is started again without a second wait.             *)
RebootHardStopAndRestart(i) ==
  /\ Up
  /\ click[i] = "late"
  /\ IF vm = "running" THEN Become("stopping") ELSE VMUnchanged
  /\ GoTo(i, "restart")
  /\ MainUnchanged

(* vm.Stop() stops a running machine at once, or fails; its error is       *)
(* ignored.                                                                *)
RebootHardStop(i) ==
  /\ Up
  /\ click[i] = "late"
  /\ \/ vm = "running" /\ Become("stopping")
     \/ (vm = "running" => MayFail) /\ VMUnchanged
  /\ GoTo(i, "ensure")
  /\ MainUnchanged

(* Mutant: after the restart the wait with its deadline begins again.      *)
RebootStartAndPoll(i) ==
  /\ Up
  /\ click[i] = "restart"
  /\ IF vm = "stopped" THEN Become("starting") ELSE VMUnchanged
  /\ GoTo(i, "polling")
  /\ MainUnchanged

(* vm.Start() starts a stopped machine; its error is ignored.              *)
RebootStart(i) ==
  /\ Up
  /\ click[i] = "restart"
  /\ IF vm = "stopped" THEN Become("starting") /\ GoTo(i, "done")
                       ELSE VMUnchanged /\ GoTo(i, "failed")
  /\ MainUnchanged

Main == Configure \/ Create \/ CallStart \/ StartReturned \/ CatchSignals
          \/ ReceiveStopped \/ ReceiveSignal \/ Return
Tap == TapReceive \/ TapSend
Reboot(i) == \/ RebootRequest(i)
             \/ RebootSeesStopped(i)
             \/ RebootDeadline(i)
             \/ RebootHardStop(i)
             \/ RebootStart(i)
Framework == StartCompletes(TRUE) \/ StartCompletes(FALSE) \/ StopCompletes

Next ==
  \/ Main
  \/ Tap
  \/ WatchRecords
  \/ Framework \/ GuestStops \/ MachineFails
  \/ AppCloses
  \/ SignalArrives
  \/ \E i \in Clicks : Press(i) \/ Reboot(i)

(* Goroutines that can run do; the framework completes the calls made on   *)
(* it; a guest that obeys stops once requested.                            *)
Fairness ==
  /\ WF_vars(Main)
  /\ WF_vars(Tap)
  /\ WF_vars(Framework)
  /\ WF_vars(obeys /\ requested /\ GuestStops)
  /\ \A i \in Clicks : WF_vars(Reboot(i))

Spec == Init /\ [][Next]_vars /\ Fairness
-----------------------------------------------------------------------------
(* A headless runner that returned has recorded the machine's stop and     *)
(* then its own exit, its side of the "closing bracket"; nothing but marks *)
(* of the guest, which another goroutine records, comes after that.        *)
ClosingBracket ==
  pc \in {"returning", "finished"} =>
    /\ vm = "stopped"
    /\ \E i, j \in DOMAIN log : /\ i < j
                               /\ log[i] = "stopped" /\ log[j] = "microvm_exited"
                               /\ \A k \in DOMAIN log : k > j => log[k] = "guest"

(* A headless runner returns after its machine stopped, however early the  *)
(* stop came: stoppedCh keeps it until main listens.                       *)
StopEndsRunner ==
  (micro /\ vm = "stopped" /\ pc \in {"started", "select", "awaiting"}) ~> (pc \in {"finished", "killed"})

(* A caught signal ends a headless runner whose guest obeys, unless the    *)
(* machine fails: nothing but "stopped" ends the wait.                     *)
SignalEndsRunner == (obeys /\ sigCh /\ pc = "select") ~> (pc = "finished" \/ vm = "error")

(* A press of Reboot starts the machine again whether the guest obeys or   *)
(* not, unless the process ends, the machine fails, or the hard stop fails *)
(* and leaves it running; and then, too, once the machine has stopped.     *)
RebootRestarts ==
  \A i \in Clicks :
    /\ (click[i] = "pressed") ~>
         (click[i] = "done" \/ ~Up \/ vm = "error" \/ (click[i] = "ensure" /\ vm = "running"))
    /\ (click[i] = "ensure" /\ vm = "stopped") ~> (click[i] = "done" \/ ~Up)

(* "waits up to 30 s for the machine to reach the stopped state (falling   *)
(* back to a hard stop)": a hard stop hits no machine that has stopped     *)
(* since the press.                                                        *)
HardStopOnlyUnanswered ==
  [][\A i \in Clicks : (RebootHardStop(i) /\ vm' # vm) => i \notin answered]_vars

(* "SIGTERM/SIGINT-driven shutdown", "the subprocess exits cleanly": a     *)
(* signal takes no running guest down with the process.  Fails before      *)
(* CatchSignals.                                                           *)
ShutdownIsClean == (micro /\ pc = "killed") => vm # "running"
=============================================================================
