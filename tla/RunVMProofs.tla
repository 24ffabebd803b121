---------------------------- MODULE RunVMProofs -----------------------------
(***************************************************************************)
(* Proofs about RunVM for any number of signals, obedient guests or not,   *)
(* failures or not: its types, the closing bracket of a headless runner,   *)
(* for any number of presses of Reboot, and that a single press hard-stops *)
(* nothing but a machine that has not answered (OnePress).                 *)
(***************************************************************************)
EXTENDS RunVM, SequenceTheorems, TLAPS

LEMMA BecomeType ==
  ASSUME TypeOK, NEW s \in VMStates, Become(s)
  PROVE  /\ vm' \in VMStates /\ stateCh' \in Seq(VMStates)
         /\ requested' \in BOOLEAN /\ answered' \subseteq Clicks
<1>1. answered' \subseteq Clicks
  BY DEF Become, TypeOK
<1>2. requested' \in BOOLEAN
  BY DEF Become, TypeOK
<1> QED
  BY <1>1, <1>2 DEF Become, TypeOK

LEMMA RecordType ==
  ASSUME TypeOK, NEW e \in Events, Record(e)
  PROVE  log' \in Seq(Events)
BY DEF Record, TypeOK

LEMMA NextType == TypeOK /\ [Next]_vars => TypeOK'
<1> SUFFICES ASSUME TypeOK, [Next]_vars PROVE TypeOK'
  OBVIOUS
<1> USE RunVMAssumption DEF TypeOK, MainStages, Ends, VMStates, ClickStages
<1>1. CASE Main
  <2>1. CASE Configure
    <3>1. log' \in Seq(Events)
      BY <2>1, RecordType DEF Configure, Events
    <3> QED
      BY <2>1, <3>1 DEF Configure, VMUnchanged
  <2>2. CASE Create
    <3>1. log' \in Seq(Events)
      BY <2>2, RecordType DEF Create, Events
    <3> QED
      BY <2>2, <3>1 DEF Create
  <2>3. CASE CallStart
    BY <2>3, BecomeType DEF CallStart
  <2>4. CASE StartReturned
    <3>1. log' \in Seq(Events)
      BY <2>4, RecordType DEF StartReturned, Events
    <3> QED
      BY <2>4, <3>1 DEF StartReturned, VMUnchanged
  <2>5. CASE CatchSignals \/ Return
    BY <2>5 DEF CatchSignals, Return, VMUnchanged
  <2>6. CASE ReceiveStopped
    <3>1. log' \in Seq(Events)
      BY <2>6, RecordType DEF ReceiveStopped, Events
    <3> QED
      BY <2>6, <3>1 DEF ReceiveStopped, VMUnchanged
  <2>7. CASE ReceiveSignal
    BY <2>7 DEF ReceiveSignal, RequestStop
  <2> QED
    BY <1>1, <2>1, <2>2, <2>3, <2>4, <2>5, <2>6, <2>7 DEF Main
<1>2. CASE Tap
  <2>1. CASE TapReceive
    <3>1. Head(stateCh) \in VMStates /\ stateCh' \in Seq(VMStates)
      BY <2>1 DEF TapReceive
    <3>2. log' \in Seq(Events)
      BY <2>1, <3>1, RecordType DEF TapReceive, Events
    <3> QED
      BY <2>1, <3>1, <3>2 DEF TapReceive
  <2>2. CASE TapSend
    BY <2>2 DEF TapSend, VMUnchanged
  <2> QED
    BY <1>2, <2>1, <2>2 DEF Tap
<1>7. CASE WatchRecords
  <2>1. log' \in Seq(Events)
    BY <1>7, RecordType DEF WatchRecords, Events
  <2> QED
    BY <1>7, <2>1 DEF WatchRecords, VMUnchanged
<1>3. CASE Framework \/ GuestStops \/ MachineFails
  BY <1>3, BecomeType DEF Framework, StartCompletes, StopCompletes, GuestStops, MachineFails
<1>4. CASE AppCloses \/ SignalArrives
  <2>1. sigCh' \in BOOLEAN /\ pc' \in MainStages \cup Ends
    BY <1>4 DEF AppCloses, SignalArrives
  <2>2. signals' \in 0..MaxSignals
    BY <1>4 DEF AppCloses, SignalArrives
  <2> QED
    BY <1>4, <2>1, <2>2 DEF AppCloses, SignalArrives, VMUnchanged
<1>5. ASSUME NEW i \in Clicks, Press(i) \/ Reboot(i) PROVE TypeOK'
  <2>1. vm' \in VMStates /\ stateCh' \in Seq(VMStates) /\ requested' \in BOOLEAN /\ answered' \subseteq Clicks
    BY <1>5, BecomeType DEF Press, Reboot, RebootRequest, RebootSeesStopped, RebootDeadline, RebootHardStop,
       RebootStart, RequestStop, VMUnchanged
  <2>2. click' \in [Clicks -> ClickStages] /\ MainUnchanged
    BY <1>5 DEF Press, Reboot, RebootRequest, RebootSeesStopped, RebootDeadline, RebootHardStop,
       RebootStart, GoTo
  <2> QED
    BY <2>1, <2>2 DEF MainUnchanged
<1>6. CASE UNCHANGED vars
  BY <1>6 DEF vars
<1> QED
  BY <1>1, <1>2, <1>3, <1>4, <1>5, <1>6, <1>7 DEF Next

LEMMA InitType == Init => TypeOK
<1>1. <<>> \in Seq(Events) /\ <<>> \in Seq(VMStates)
  OBVIOUS
<1>2. 0 \in 0..MaxSignals
  BY RunVMAssumption
<1> QED
  BY <1>1, <1>2 DEF Init, TypeOK, MainStages, VMStates, ClickStages

(* Every reachable state of a runner is well typed: in particular nothing  *)
(* is recorded but the events its readers know.                            *)
THEOREM RunnerTypeCorrect == Spec => []TypeOK
BY InitType, NextType, PTL DEF Spec

-----------------------------------------------------------------------------
(* Why the bracket closes.  Only a headless runner awaits the stop, and    *)
(* nobody can press Reboot in it, so its machine stops once and for all.   *)
Early == {"config", "create", "launch"}

Waits == {"started", "select", "awaiting", "returning", "finished"}

Headless ==
  /\ pc \in Waits => micro
  /\ micro => pc # "appkit"
  /\ micro \/ pc \in Early => \A i \in Clicks : click[i] = "none"

(* Until the machine is started there is nothing to receive, ...           *)
QuietBefore ==
  pc \in Early => vm \in {"none", "stopped"} /\ stateCh = <<>> /\ tap = "receive" /\ ~stoppedCh

(* ... the stop is the last transition on its way, ...                     *)
StopIsLast ==
  micro => \A k \in 1..Len(stateCh) :
    stateCh[k] = "stopped" => k = Len(stateCh) /\ vm = "stopped" /\ pc \notin Early

(* ... and once the tap received it, it is recorded and nothing follows.   *)
StopReceived == tap = "send" \/ stoppedCh \/ pc \in {"returning", "finished"}

RecordedBeforeSent ==
  micro /\ StopReceived =>
    /\ vm = "stopped" /\ stateCh = <<>>
    /\ \E k \in DOMAIN log : log[k] = "stopped"

(* The closing bracket: nothing but the guest's marks comes after it.      *)
Closed(l) ==
  \E i, j \in DOMAIN l : /\ i < j
                         /\ l[i] = "stopped" /\ l[j] = "microvm_exited"
                         /\ \A k \in DOMAIN l : k > j => l[k] = "guest"

ExitRecorded == pc \in {"returning", "finished"} => Closed(log)

BracketInv == /\ TypeOK
              /\ Headless
              /\ QuietBefore
              /\ StopIsLast
              /\ RecordedBeforeSent
              /\ ExitRecorded

LEMMA InitBracketInv == Init => BracketInv
<1>1. Init => TypeOK
  BY InitType
<1> QED
  BY <1>1 DEF Init, BracketInv, Headless, QuietBefore, StopIsLast, StopReceived,
     RecordedBeforeSent, ExitRecorded, Early, Waits

(* Recording keeps what was recorded.                                      *)
LEMMA RecordKeeps ==
  ASSUME TypeOK, NEW e \in Events, Record(e)
  PROVE  /\ (\E k \in DOMAIN log : log[k] = "stopped") => (\E k \in DOMAIN log' : log'[k] = "stopped")
         /\ e = "stopped" => (\E k \in DOMAIN log' : log'[k] = "stopped")
         /\ (\E k \in DOMAIN log : log[k] = "stopped") /\ e = "microvm_exited" => Closed(log')
         /\ Closed(log) /\ e = "guest" => Closed(log')
<1>1. CASE e \in Skipped
  BY <1>1, RunVMAssumption DEF Record
<1>2. CASE e \notin Skipped
  <2>1. log \in Seq(Events) /\ log' = Append(log, e)
    BY <1>2 DEF TypeOK, Record
  <2>2. /\ DOMAIN log = 1..Len(log) /\ Len(log) \in Nat /\ DOMAIN log' = 1..(Len(log) + 1)
        /\ log'[Len(log) + 1] = e
        /\ \A k \in DOMAIN log : log'[k] = log[k]
    BY <2>1
  <2>3. ASSUME \E k \in DOMAIN log : log[k] = "stopped", e = "microvm_exited" PROVE Closed(log')
    BY <2>2, <2>3 DEF Closed
  <2>4. ASSUME Closed(log), e = "guest" PROVE Closed(log')
    <3>1. PICK i \in DOMAIN log, j \in DOMAIN log :
            /\ i < j
            /\ log[i] = "stopped" /\ log[j] = "microvm_exited"
            /\ \A k \in DOMAIN log : k > j => log[k] = "guest"
      BY <2>4 DEF Closed
    <3>2. i \in DOMAIN log' /\ j \in DOMAIN log' /\ log'[i] = "stopped" /\ log'[j] = "microvm_exited"
      BY <2>2, <3>1
    <3>3. \A k \in DOMAIN log' : k > j => log'[k] = "guest"
      BY <2>2, <2>4, <3>1
    <3> QED
      BY <3>1, <3>2, <3>3 DEF Closed
  <2> QED
    BY <2>2, <2>3, <2>4
<1> QED
  BY <1>1, <1>2

(* A transition of a machine that has not stopped keeps the stop last.     *)
LEMMA BecomeKeeps ==
  ASSUME TypeOK, StopIsLast, NEW s \in VMStates, Become(s), pc' \notin Early, micro' = micro,
         vm # "stopped" \/ stateCh = <<>>
  PROVE  StopIsLast'
<1>1. /\ stateCh \in Seq(VMStates) /\ stateCh' = Append(stateCh, s) /\ vm' = s
  BY DEF TypeOK, Become
<1>2. Len(stateCh') = Len(stateCh) + 1 /\ stateCh'[Len(stateCh')] = s
      /\ \A k \in 1..Len(stateCh) : stateCh'[k] = stateCh[k]
  BY <1>1
<1>3. ASSUME micro, NEW k \in 1..Len(stateCh'), stateCh'[k] = "stopped"
      PROVE  k = Len(stateCh') /\ vm' = "stopped"
  <2>1. k \notin 1..Len(stateCh)
    BY <1>1, <1>2, <1>3 DEF StopIsLast
  <2>2. k = Len(stateCh')
    BY <1>1, <1>2, <1>3, <2>1
  <2> QED
    BY <1>1, <1>2, <1>3, <2>2
<1> QED
  BY <1>3 DEF StopIsLast

LEMMA NextBracketInv == BracketInv /\ [Next]_vars => BracketInv'
<1> SUFFICES ASSUME BracketInv, [Next]_vars PROVE BracketInv'
  OBVIOUS
<1> USE DEF BracketInv, Headless, QuietBefore, StopReceived, RecordedBeforeSent, ExitRecorded, Early, Waits
<1>0. TypeOK'
  BY NextType
(* The main goroutine.                                                     *)
<1>1. CASE Configure \/ Create
  <2>1. pc \in {"config", "create"} /\ pc' \in {"create", "launch", "failed"}
        /\ vm' \in {"none", "stopped"} /\ stateCh' = <<>>
        /\ UNCHANGED <<micro, tap, stoppedCh, click>>
    BY <1>1 DEF Configure, Create, VMUnchanged
  <2> QED
    BY <1>0, <2>1 DEF StopIsLast
<1>2. CASE CallStart
  <2>1. StopIsLast'
    BY <1>2, BecomeKeeps DEF CallStart, VMStates
  <2> QED
    BY <1>0, <1>2, <2>1 DEF CallStart
<1>3. CASE StartReturned \/ CatchSignals
  <2>1. /\ pc \in {"returned", "refused", "started"}
        /\ pc' \in {"started", "appkit", "failed", "select"}
        /\ pc' \in {"started", "select"} => micro
        /\ pc' = "appkit" => ~micro
        /\ UNCHANGED <<micro, vm, stateCh, tap, stoppedCh, click>>
    BY <1>3 DEF StartReturned, CatchSignals, VMUnchanged
  <2>2. (\E k \in DOMAIN log : log[k] = "stopped") => (\E k \in DOMAIN log' : log'[k] = "stopped")
    BY <1>3, RecordKeeps DEF StartReturned, CatchSignals, Events
  <2> QED
    BY <1>0, <2>1, <2>2 DEF StopIsLast
<1>4. CASE ReceiveStopped
  <2>1. /\ (\E k \in DOMAIN log' : log'[k] = "stopped")
        /\ Closed(log')
    BY <1>4, RecordKeeps DEF ReceiveStopped, Events
  <2> QED
    BY <1>0, <1>4, <2>1 DEF ReceiveStopped, VMUnchanged, StopIsLast
<1>5. CASE ReceiveSignal \/ Return
  BY <1>0, <1>5 DEF ReceiveSignal, Return, RequestStop, VMUnchanged, StopIsLast
(* The tap.                                                                *)
<1>6. CASE TapReceive
  <2> DEFINE s == Head(stateCh)
  <2>1. /\ stateCh \in Seq(VMStates) /\ stateCh # <<>>
        /\ s \in VMStates /\ s = stateCh[1]
        /\ Len(Tail(stateCh)) = Len(stateCh) - 1
        /\ \A k \in 1..Len(Tail(stateCh)) : Tail(stateCh)[k] = stateCh[k + 1]
    BY <1>6 DEF TapReceive, TypeOK
  <2>2. /\ (\E k \in DOMAIN log : log[k] = "stopped") => (\E k \in DOMAIN log' : log'[k] = "stopped")
        /\ s = "stopped" => (\E k \in DOMAIN log' : log'[k] = "stopped")
    BY <1>6, <2>1, RecordKeeps DEF TapReceive, Events
  <2>3. ASSUME micro, s = "stopped" PROVE Tail(stateCh) = <<>> /\ vm = "stopped"
    <3>1. 1 \in 1..Len(stateCh)
      BY <2>1
    <3>2. Len(stateCh) = 1 /\ vm = "stopped"
      BY <2>1, <2>3, <3>1 DEF StopIsLast
    <3>3. Tail(stateCh) \in Seq(VMStates) /\ Len(Tail(stateCh)) = 0
      BY <2>1, <3>2
    <3> QED
      BY <3>2, <3>3, EmptySeq
  <2>4. StopIsLast'
    <3> SUFFICES ASSUME micro', NEW k \in 1..Len(stateCh'), stateCh'[k] = "stopped"
                 PROVE  k = Len(stateCh') /\ vm' = "stopped" /\ pc' \notin Early
      BY DEF StopIsLast
    <3>1. stateCh' = Tail(stateCh) /\ UNCHANGED <<micro, pc, vm>>
      BY <1>6 DEF TapReceive
    <3>2. k + 1 \in 1..Len(stateCh) /\ stateCh[k + 1] = "stopped"
      BY <2>1, <3>1
    <3>3. k + 1 = Len(stateCh) /\ vm = "stopped" /\ pc \notin Early
      BY <3>1, <3>2 DEF StopIsLast
    <3>4. k \in Nat /\ Len(stateCh) \in Nat /\ Len(stateCh') = Len(stateCh) - 1
      BY <2>1, <3>1
    <3> QED
      BY <3>1, <3>3, <3>4
  <2>5. pc \notin {"config", "create", "launch"} /\ ~(micro /\ pc \in {"returning", "finished"})
    BY <2>1
  <2> QED
    BY <1>0, <1>6, <2>1, <2>2, <2>3, <2>4, <2>5 DEF TapReceive
<1>7. CASE TapSend
  BY <1>0, <1>7 DEF TapSend, VMUnchanged, StopIsLast
(* The watcher.                                                            *)
<1>12. CASE WatchRecords
  <2>1. /\ (\E k \in DOMAIN log : log[k] = "stopped") => (\E k \in DOMAIN log' : log'[k] = "stopped")
        /\ Closed(log) => Closed(log')
    BY <1>12, RecordKeeps DEF WatchRecords, Events
  <2>2. UNCHANGED <<micro, pc, vm, stateCh, tap, stoppedCh, click>>
    BY <1>12 DEF WatchRecords, VMUnchanged
  <2> QED
    BY <1>0, <2>1, <2>2 DEF StopIsLast
(* The machine.                                                            *)
<1>8. CASE Framework \/ GuestStops \/ MachineFails
  <2>1. \E s \in VMStates : Become(s)
    <3>1. CASE Framework
      BY <1>8, <3>1 DEF Framework, StartCompletes, StopCompletes, VMStates
    <3>2. CASE GuestStops \/ MachineFails
      BY <3>2 DEF GuestStops, MachineFails, VMStates
    <3> QED
      BY <1>8, <3>1, <3>2
  <2>2. /\ vm \in {"starting", "running", "stopping"}
        /\ pc \notin Early /\ pc' \notin Early
        /\ UNCHANGED <<micro, tap, stoppedCh, click, log>>
        /\ pc' = pc \/ (pc = "starting" /\ pc' \in {"returned", "refused"})
    BY <1>8 DEF Framework, StartCompletes, StopCompletes, GuestStops, MachineFails
  <2>3. StopIsLast'
    BY <2>1, <2>2, BecomeKeeps
  <2> QED
    BY <1>0, <2>2, <2>3
<1>9. CASE AppCloses \/ SignalArrives
  BY <1>0, <1>9 DEF AppCloses, SignalArrives, VMUnchanged, StopIsLast
(* No press in a headless runner, so the buttons disturb nothing.          *)
<1>10. ASSUME NEW i \in Clicks, Press(i) \/ Reboot(i) PROVE BracketInv'
  <2>1. pc = "appkit" \/ click[i] # "none"
    BY <1>10 DEF Press, Reboot, RebootRequest, RebootSeesStopped, RebootDeadline, RebootHardStop, RebootStart
  <2>2. ~micro /\ pc \notin Early
    BY <2>1
  <2>3. UNCHANGED <<micro, pc>>
    BY <1>10 DEF Press, Reboot, RebootRequest, RebootSeesStopped, RebootDeadline, RebootHardStop,
       RebootStart, MainUnchanged
  <2> QED
    BY <1>0, <2>2, <2>3 DEF StopIsLast
<1>11. CASE UNCHANGED vars
  BY <1>0, <1>11 DEF vars, StopIsLast
<1> QED
  BY <1>1, <1>2, <1>3, <1>4, <1>5, <1>6, <1>7, <1>8, <1>9, <1>10, <1>11, <1>12 DEF Next, Main, Tap

(* A headless runner that returns has recorded the stop of its machine and *)
(* then its own exit, with nothing but marks of the guest after that,      *)
(* however many signals it got, whatever the guest does or prints, and     *)
(* whatever fails.                                                         *)
THEOREM BracketAlwaysCloses == Spec => []ClosingBracket
<1>1. BracketInv => ClosingBracket
  BY DEF BracketInv, Headless, Waits, StopReceived, RecordedBeforeSent, ExitRecorded, Closed, ClosingBracket
<1> QED
  BY <1>1, InitBracketInv, NextBracketInv, PTL DEF Spec

-----------------------------------------------------------------------------
(* The hard stop.  With one press of Reboot nobody but that press starts   *)
(* the machine again, so that between a stop that answers it and its own   *)
(* restart the machine stays stopped, and vm.Stop() finds nothing to do.   *)
(* (With two presses the other one restarts it: RunnerTwoClicks.)          *)
OnePress == \A i, j \in Clicks : i = j

Unfinished == {"pressed", "polling", "late", "ensure", "restart"}

AnswerLasts ==
  \A i \in Clicks : /\ i \in answered => click[i] # "none"
                    /\ i \in answered /\ click[i] \in Unfinished => vm = "stopped"

LEMMA NextAnswerLasts == OnePress /\ BracketInv /\ AnswerLasts /\ [Next]_vars => AnswerLasts'
<1> SUFFICES ASSUME OnePress, BracketInv, AnswerLasts, [Next]_vars PROVE AnswerLasts'
  OBVIOUS
<1>0. click \in [Clicks -> ClickStages] /\ answered \subseteq Clicks
  BY DEF BracketInv, TypeOK
(* A transition that is a stop, or of a machine that was not stopped.      *)
<1>1. ASSUME NEW s \in VMStates, Become(s), click' = click, s = "stopped" \/ vm # "stopped"
      PROVE  AnswerLasts'
  BY <1>0, <1>1 DEF Become, AnswerLasts
<1>2. ASSUME UNCHANGED <<vm, answered, click>> PROVE AnswerLasts'
  BY <1>2 DEF AnswerLasts
<1>3. CASE Configure \/ StartReturned \/ CatchSignals \/ ReceiveStopped \/ ReceiveSignal \/ Return
  BY <1>2, <1>3 DEF Configure, StartReturned, CatchSignals, ReceiveStopped, ReceiveSignal, Return,
                    VMUnchanged, RequestStop
<1>4. CASE Create \/ CallStart
  <2>1. \A i \in Clicks : click[i] = "none"
    BY <1>4 DEF Create, CallStart, BracketInv, Headless, Early
  <2> QED
    BY <1>0, <1>4, <2>1 DEF Create, CallStart, Become, AnswerLasts, Unfinished
<1>5. CASE Tap \/ WatchRecords \/ AppCloses \/ SignalArrives
  BY <1>2, <1>5 DEF Tap, TapReceive, TapSend, WatchRecords, AppCloses, SignalArrives, VMUnchanged
<1>6. CASE Framework \/ GuestStops \/ MachineFails
  <2>1. vm # "stopped" /\ click' = click /\ \E s \in VMStates : Become(s)
    BY <1>6 DEF Framework, StartCompletes, StopCompletes, GuestStops, MachineFails, VMStates
  <2> QED
    BY <1>1, <2>1
<1>7. ASSUME NEW i \in Clicks, Press(i) PROVE AnswerLasts'
  BY <1>0, <1>7 DEF Press, GoTo, VMUnchanged, AnswerLasts
<1>8. ASSUME NEW i \in Clicks, RebootRequest(i) \/ RebootSeesStopped(i) \/ RebootDeadline(i)
      PROVE  AnswerLasts'
  BY <1>0, <1>8 DEF RebootRequest, RebootSeesStopped, RebootDeadline, GoTo, VMUnchanged, RequestStop,
                    AnswerLasts, Unfinished
<1>9. ASSUME NEW i \in Clicks, RebootHardStop(i) PROVE AnswerLasts'
  <2>1. vm = "running" => i \notin answered
    BY <1>9 DEF RebootHardStop, AnswerLasts, Unfinished
  <2> QED
    BY <1>0, <1>9, <2>1 DEF RebootHardStop, GoTo, VMUnchanged, Become, AnswerLasts, Unfinished, OnePress
<1>10. ASSUME NEW i \in Clicks, RebootStart(i) PROVE AnswerLasts'
  BY <1>0, <1>10 DEF RebootStart, GoTo, VMUnchanged, Become, AnswerLasts, Unfinished, OnePress
<1>11. CASE UNCHANGED vars
  BY <1>2, <1>11 DEF vars
<1> QED
  BY <1>3, <1>4, <1>5, <1>6, <1>7, <1>8, <1>9, <1>10, <1>11 DEF Next, Main, Reboot

(* One press of Reboot hard-stops no machine that has stopped since: the   *)
(* loop that waits reads the state again and again and only its deadline   *)
(* ends it, but a machine that has stopped stays so until the press itself *)
(* restarts it.                                                            *)
THEOREM HardStopIsLastResort == OnePress => (Spec => HardStopOnlyUnanswered)
<1>1. CASE OnePress
  <2>1. BracketInv /\ AnswerLasts /\ [Next]_vars => AnswerLasts'
    BY <1>1, NextAnswerLasts
  <2>2. Init => AnswerLasts
    BY DEF Init, AnswerLasts
  <2>3. AnswerLasts /\ [Next]_vars => [\A i \in Clicks : (RebootHardStop(i) /\ vm' # vm) => i \notin answered]_vars
    BY DEF AnswerLasts, RebootHardStop, VMUnchanged, Unfinished
  <2> QED
    BY <2>1, <2>2, <2>3, InitBracketInv, NextBracketInv, PTL DEF Spec, HardStopOnlyUnanswered
<1>2. CASE ~OnePress
  BY <1>2
<1> QED
  BY <1>1, <1>2
=============================================================================
