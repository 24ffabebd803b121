---------------------------- MODULE VmLifeProofs ----------------------------
(***************************************************************************)
(* What is proved of one VM from end to end (VmLife), for any number of    *)
(* starts, pids and signals, pids used again or not, failures or not, and  *)
(* guests that obey or not. Assumed is VmLifeAssumption; that the callers  *)
(* are disciplined and the driver reliable is VmLife's instantiation of    *)
(* Hypervisor.                                                             *)
(*                                                                         *)
(* The driver's part of a step is a step of Hypervisor, and the runner's   *)
(* one of RunVM or none, or the fresh start of a runner; so both inductive *)
(* invariants, HypervisorProofs!IInv and RunVMProofs!BracketInv, hold      *)
(* here. The rest of LifeInv ties the file to the two: what each stage of  *)
(* a run has written, as long as the runner lives (LiveIsTold), after it   *)
(* has ended and before the driver reports it (EndedIsTold), and once it   *)
(* is reported.                                                            *)
(***************************************************************************)
EXTENDS VmLife, SequenceTheorems, TLAPS

(* The two components again, with what is proved of them.                  *)
HP == INSTANCE HypervisorProofs
        WITH VMs <- {VM}, Disciplined <- TRUE, WriteMayFail <- FALSE, MayExit <- FALSE

RP == INSTANCE RunVMProofs WITH Clicks <- {}

Line == Starts \X (Kept \cup {"exited"})

(* Run r has a line with event e.                                          *)
Tells(r, e) == \E k \in DOMAIN timeline : timeline[k] = <<r[2], e>>

(* Run r has a "microvm_exited", and a "stopped" before it.                *)
BracketTold(r) ==
  \E j \in DOMAIN timeline : /\ timeline[j] = <<r[2], "microvm_exited">>
                             /\ \E i \in 1..j : timeline[i] = <<r[2], "stopped">>

(* Where the main goroutine has no machine yet.                            *)
NoMachine == {"config", "create"}

(* A line is of a run that was forked, and an "exited" of one that is done.*)
LinesFitStage ==
  \A r \in D!Run : /\ \A e \in Kept \cup {"exited"} : Tells(r, e) => stage[r] # "unborn"
                   /\ Tells(r, "exited") => stage[r] = "done"

(* What this module adds to the state, but for the timeline.               *)
SentIsBoolean == sent \in BOOLEAN /\ term \subseteq D!Run /\ killed \subseteq D!Run

(* What the live runner recorded is in the timeline.                       *)
LiveIsTold ==
  \A r \in D!Run : D!Alive(r) =>
    /\ (\E k \in DOMAIN log : log[k] = "stopped") => Tells(r, "stopped")
    /\ Tells(r, "vm_instantiated") => pc \notin NoMachine
    /\ pc = "returning" => BracketTold(r)

(* What BracketCloses says of the lines after "exited" holds from the end  *)
(* of the process on.                                                      *)
EndedIsTold ==
  \A r \in D!Run :
    /\ micro /\ r \notin killed /\ life[r] \in {"zombie", "reaped"}
    /\ Tells(r, "vm_instantiated") /\ ~Tells(r, "start_failed")
    => BracketTold(r)

LifeInv == /\ HP!IInv
           /\ RP!BracketInv
           /\ timeline \in Seq(Line)
           /\ LinesFitStage
           /\ SentIsBoolean
           /\ LiveIsTold
           /\ EndedIsTold
           /\ ExitIsLastWord
           /\ BracketCloses
-----------------------------------------------------------------------------
(* D and HP, R and RP are the same definitions under two names.            *)
LEMMA SameDriver ==
  /\ D!Next => HP!Next
  /\ D!Init => HP!Init
  /\ \A r \in D!Run : D!Alive(r) <=> HP!Alive(r)
BY DEF HP!vars, driverVars, D!Init, HP!Init, D!Run, HP!Run, D!Alive, HP!Alive,
       D!Next, D!Handler, D!CreateVM, D!ReadPidFile, D!BeginDelete, D!FinishDelete, D!ForkRunner,
       D!OpenPidFile, D!WritePid, D!PidFileFails, D!Reap, D!RemovePidFile, D!Notify, D!Exit,
       D!Signal, D!ForeignStart, D!ForeignExit, D!DriverExit, D!Idle, D!Active, D!ActiveStages,
       D!StageAfterUnlink, D!FreePids, D!Used, D!InUse, D!Holds,
       HP!Next, HP!Handler, HP!CreateVM, HP!ReadPidFile, HP!BeginDelete, HP!FinishDelete, HP!ForkRunner,
       HP!OpenPidFile, HP!WritePid, HP!PidFileFails, HP!Reap, HP!RemovePidFile, HP!Notify, HP!Exit,
       HP!Signal, HP!ForeignStart, HP!ForeignExit, HP!DriverExit, HP!Idle, HP!Active, HP!ActiveStages,
       HP!StageAfterUnlink, HP!FreePids, HP!Used, HP!InUse, HP!Holds

RunnerNext == \/ R!Main \/ R!Tap \/ R!WatchRecords \/ R!Framework \/ R!GuestStops
              \/ R!MachineFails \/ R!AppCloses \/ R!SignalArrives

LEMMA SameRunner ==
  /\ RunnerNext => RP!Next
  /\ R!Init => RP!Init
<1>1. R!WatchRecords <=> RP!WatchRecords
  <2>1. \A S : R!Cardinality(S) = RP!Cardinality(S)
    BY DEF R!Cardinality, RP!Cardinality
  <2> QED
    BY <2>1 DEF R!WatchRecords, R!Up, R!Ends, R!Record, R!VMUnchanged,
                RP!WatchRecords, RP!Up, RP!Ends, RP!Record, RP!VMUnchanged
<1> QED
  BY <1>1
     DEF RP!vars, runnerVars, R!Init, RP!Init, RunnerNext, RP!Next,
         R!Main, R!Configure, R!Create, R!CallStart, R!StartReturned, R!CatchSignals, R!ReceiveStopped,
         R!ReceiveSignal, R!Return, R!Tap, R!TapReceive, R!TapSend, R!Framework,
         R!StartCompletes, R!StopCompletes, R!GuestStops, R!MachineFails, R!AppCloses, R!SignalArrives,
         R!Record, R!Become, R!VMUnchanged, R!RequestStop, R!Up, R!Ends,
         RP!Main, RP!Configure, RP!Create, RP!CallStart, RP!StartReturned, RP!CatchSignals, RP!ReceiveStopped,
         RP!ReceiveSignal, RP!Return, RP!Tap, RP!TapReceive, RP!TapSend, RP!Framework,
         RP!StartCompletes, RP!StopCompletes, RP!GuestStops, RP!MachineFails, RP!AppCloses, RP!SignalArrives,
         RP!Record, RP!Become, RP!VMUnchanged, RP!RequestStop, RP!Up, RP!Ends

LEMMA DriverInvariant == HP!IInv /\ [D!Next]_driverVars => HP!IInv'
<1>1. HP!Reliable
  BY DEF HP!Reliable
<1>2. HP!ConstantsAssumption
  BY VmLifeAssumption DEF HP!ConstantsAssumption, D!ConstantsAssumption
<1> QED
  BY <1>1, <1>2, SameDriver, HP!NextIInv DEF driverVars, HP!vars

LEMMA RunnerInvariant == RP!BracketInv /\ (RunnerNext \/ UNCHANGED runnerVars) => RP!BracketInv'
<1>1. RP!RunVMAssumption
  BY VmLifeAssumption DEF RP!RunVMAssumption, R!RunVMAssumption
<1> QED
  BY <1>1, SameRunner, RP!NextBracketInv DEF runnerVars, RP!vars
-----------------------------------------------------------------------------
(* What one step of a runner does to its log and its main goroutine.       *)
RecordsNew == log' # log

LEMMA RunnerRecords ==
  ASSUME RP!BracketInv, RunnerNext
  PROVE  /\ micro' = micro
         /\ log \in Seq(R!Events)
         /\ RecordsNew => \E e \in Kept : log' = Append(log, e)
         /\ RecordsNew /\ Last(log') = "vm_instantiated" => pc' \notin NoMachine /\ pc' # "failed"
         /\ pc' \in NoMachine => pc \in NoMachine
         /\ pc' = "returning" => \/ pc = "returning"
                                 \/ /\ RecordsNew /\ Last(log') = "microvm_exited"
                                    /\ \E k \in DOMAIN log : log[k] = "stopped"
         /\ pc' \in R!Ends => \/ pc' = "finished" /\ pc = "returning"
                              \/ pc' = "failed" /\ pc \in NoMachine
                              \/ pc' = "failed" /\ RecordsNew /\ Last(log') = "start_failed"
                              \/ pc' = "killed"
                              \/ pc' = "closed" /\ ~micro
<1> USE DEF RP!BracketInv, RP!TypeOK, RP!Headless, RP!Waits, RP!StopReceived, RP!RecordedBeforeSent,
            RP!Events, RP!VMStates, R!Events, R!VMStates, NoMachine, R!Ends, RecordsNew
<1>1. log \in Seq(R!Events)
  OBVIOUS
<1>2. ASSUME NEW e \in R!Events, R!Record(e)
      PROVE  \/ e \in Kept /\ log' = Append(log, e) /\ Last(log') = e /\ log' # log
             \/ e \in Skipped /\ log' = log
  <2>1. e \in Kept \/ e \in Skipped
    BY DEF Kept, Skipped
  <2>2. CASE e \in Skipped
    BY <1>2, <2>2 DEF R!Record
  <2>3. CASE e \notin Skipped
    <3>1. log' = Append(log, e)
      BY <1>2, <2>3 DEF R!Record
    <3>2. Len(log) \in Nat /\ Len(log') = Len(log) + 1 /\ log'[Len(log) + 1] = e
      BY <1>1, <3>1
    <3> QED
      BY <2>1, <2>3, <3>1, <3>2 DEF Last
  <2> QED
    BY <2>2, <2>3
<1>3. CASE R!Configure
  <2>1. \E e \in {"vm_configured", "config_failed"} : R!Record(e)
    BY <1>3 DEF R!Configure
  <2>2. log' = log
    BY <1>2, <2>1 DEF Kept
  <2> QED
    BY <1>1, <1>3, <2>2 DEF R!Configure
<1>10. CASE R!Create
  <2>1. CASE pc' = "failed"
    <3>1. log' = log
      BY <1>2, <1>10, <2>1 DEF R!Create, Kept
    <3> QED
      BY <1>1, <1>10, <2>1, <3>1 DEF R!Create
  <2>2. CASE pc' # "failed"
    BY <1>1, <1>2, <1>10, <2>2 DEF R!Create
  <2> QED
    BY <2>1, <2>2
<1>11. CASE R!WatchRecords
  <2>1. "guest" \in Kept /\ "guest" \notin Skipped
    BY DEF Kept, Skipped
  <2> QED
    BY <1>1, <1>2, <1>11, <2>1 DEF R!WatchRecords, R!Up
<1>4. CASE R!StartReturned
  <2>1. CASE pc = "returned"
    <3>1. log' = log
      BY <1>2, <1>4, <2>1 DEF R!StartReturned, Kept
    <3> QED
      BY <1>1, <1>4, <2>1, <3>1 DEF R!StartReturned
  <2>2. CASE pc = "refused"
    <3>1. "start_failed" \notin Skipped
      BY DEF Skipped
    <3> QED
      BY <1>1, <1>2, <1>4, <2>2, <3>1 DEF R!StartReturned
  <2> QED
    BY <1>4, <2>1, <2>2 DEF R!StartReturned
<1>5. CASE R!ReceiveStopped
  <2>1. \E k \in DOMAIN log : log[k] = "stopped"
    BY <1>5 DEF R!ReceiveStopped
  <2>2. "microvm_exited" \notin Skipped
    BY DEF Skipped
  <2> QED
    BY <1>1, <1>2, <1>5, <2>1, <2>2 DEF R!ReceiveStopped
<1>6. CASE R!TapReceive
  <2>1. Head(stateCh) \in R!VMStates
    BY <1>6 DEF R!TapReceive
  <2>2. \/ /\ Head(stateCh) \in Kept /\ log' = Append(log, Head(stateCh))
           /\ Last(log') = Head(stateCh) /\ log' # log
        \/ log' = log
    BY <1>2, <1>6, <2>1 DEF R!TapReceive
  <2> QED
    BY <1>1, <1>6, <2>1, <2>2 DEF R!TapReceive, R!Up
<1>7. CASE R!CallStart \/ R!CatchSignals \/ R!ReceiveSignal \/ R!Return \/ R!TapSend \/ R!AppCloses
  BY <1>1, <1>7 DEF R!CallStart, R!CatchSignals, R!ReceiveSignal, R!Return, R!TapSend, R!AppCloses, R!Up
<1>8. CASE R!Framework \/ R!GuestStops \/ R!MachineFails
  BY <1>1, <1>8 DEF R!Framework, R!StartCompletes, R!StopCompletes, R!GuestStops, R!MachineFails, R!Up
<1>9. CASE R!SignalArrives
  BY <1>1, <1>9 DEF R!SignalArrives, R!Up
<1> QED
  BY <1>3, <1>4, <1>5, <1>6, <1>7, <1>8, <1>9, <1>10, <1>11 DEF RunnerNext, R!Main, R!Tap

(* What the timeline keeps when a line is appended.                        *)
LEMMA AppendKeeps ==
  ASSUME timeline \in Seq(Line), NEW l \in Line, timeline' = Append(timeline, l)
  PROVE  /\ timeline' \in Seq(Line)
         /\ DOMAIN timeline = 1..Len(timeline) /\ Len(timeline) \in Nat
         /\ DOMAIN timeline' = 1..(Len(timeline) + 1)
         /\ timeline'[Len(timeline) + 1] = l
         /\ \A k \in DOMAIN timeline : k \in DOMAIN timeline' /\ timeline'[k] = timeline[k]
OBVIOUS
LEMMA TellsAppended ==
  ASSUME timeline \in Seq(Line), NEW q \in D!Run, NEW e \in Kept \cup {"exited"},
         timeline' = Append(timeline, <<q[2], e>>)
  PROVE  /\ \A r \in D!Run, x \in Kept \cup {"exited"} :
               Tells(r, x)' <=> Tells(r, x) \/ (r = q /\ x = e)
         /\ \A r \in D!Run : BracketTold(r) => BracketTold(r)'
         /\ e = "microvm_exited" /\ Tells(q, "stopped") => BracketTold(q)'
<1>1. <<q[2], e>> \in Line
  BY DEF D!Run, Line
<1>2. /\ DOMAIN timeline = 1..Len(timeline) /\ Len(timeline) \in Nat
      /\ DOMAIN timeline' = 1..(Len(timeline) + 1)
      /\ timeline'[Len(timeline) + 1] = <<q[2], e>>
      /\ \A k \in DOMAIN timeline : k \in DOMAIN timeline' /\ timeline'[k] = timeline[k]
  BY <1>1, AppendKeeps
<1>3. ASSUME NEW r \in D!Run, NEW x \in Kept \cup {"exited"}
      PROVE  Tells(r, x)' <=> Tells(r, x) \/ (r = q /\ x = e)
  <2>1. r = q <=> r[2] = q[2]
    BY DEF D!Run
  <2>2. ASSUME Tells(r, x)' PROVE Tells(r, x) \/ (r = q /\ x = e)
    <3>1. PICK k \in DOMAIN timeline' : timeline'[k] = <<r[2], x>>
      BY <2>2 DEF Tells
    <3>2. k \in DOMAIN timeline \/ k = Len(timeline) + 1
      BY <1>2
    <3> QED
      BY <1>2, <2>1, <3>1, <3>2 DEF Tells
  <2>3. Tells(r, x) => Tells(r, x)'
    BY <1>2 DEF Tells
  <2>4. r = q /\ x = e => Tells(r, x)'
    <3>1. Len(timeline) + 1 \in DOMAIN timeline'
      BY <1>2
    <3> QED
      BY <1>2, <3>1 DEF Tells
  <2> QED
    BY <2>2, <2>3, <2>4
<1>4. ASSUME NEW r \in D!Run, BracketTold(r) PROVE BracketTold(r)'
  <2>1. PICK j \in DOMAIN timeline : /\ timeline[j] = <<r[2], "microvm_exited">>
                                     /\ \E i \in 1..j : timeline[i] = <<r[2], "stopped">>
    BY <1>4 DEF BracketTold
  <2>2. PICK i \in 1..j : timeline[i] = <<r[2], "stopped">>
    BY <2>1
  <2>3. i \in DOMAIN timeline
    BY <1>2, <2>1
  <2>4. j \in DOMAIN timeline' /\ timeline'[j] = timeline[j] /\ timeline'[i] = timeline[i]
    BY <1>2, <2>3
  <2> QED
    BY <2>1, <2>2, <2>4 DEF BracketTold
<1>5. ASSUME e = "microvm_exited", Tells(q, "stopped") PROVE BracketTold(q)'
  <2>1. PICK i \in DOMAIN timeline : timeline[i] = <<q[2], "stopped">>
    BY <1>5 DEF Tells
  <2>2. timeline'[i] = <<q[2], "stopped">> /\ i \in 1..(Len(timeline) + 1)
    BY <1>2, <2>1
  <2>3. Len(timeline) + 1 \in DOMAIN timeline' /\ timeline'[Len(timeline) + 1] = <<q[2], "microvm_exited">>
    BY <1>2, <1>5
  <2> QED
    BY <2>2, <2>3 DEF BracketTold
<1> QED
  BY <1>3, <1>4, <1>5

(* A line of a run that is not done, and in the case of its "exited" of    *)
(* one whose process ended, leaves the two properties true.                *)
LEMMA OrderAppended ==
  ASSUME LifeInv, NEW q \in D!Run, NEW e \in Kept \cup {"exited"},
         timeline' = Append(timeline, <<q[2], e>>), micro' = micro, killed \subseteq killed',
         stage[q] # "done", e = "exited" => life[q] = "reaped"
  PROVE  ExitIsLastWord' /\ BracketCloses'
<1>1. <<q[2], e>> \in Line /\ timeline \in Seq(Line)
  BY DEF D!Run, Line, LifeInv
<1>2. /\ DOMAIN timeline = 1..Len(timeline) /\ Len(timeline) \in Nat
      /\ DOMAIN timeline' = 1..(Len(timeline) + 1)
      /\ timeline'[Len(timeline) + 1] = <<q[2], e>>
      /\ \A k \in DOMAIN timeline : k \in DOMAIN timeline' /\ timeline'[k] = timeline[k]
  BY <1>1, AppendKeeps
<1>3. ASSUME NEW j \in DOMAIN timeline', NEW k \in DOMAIN timeline', j < k, timeline'[j][2] = "exited"
      PROVE  timeline'[k][1] # timeline'[j][1]
  <2>1. j \in DOMAIN timeline /\ timeline'[j] = timeline[j] /\ timeline[j] \in Line
    BY <1>1, <1>2, <1>3
  <2>2. CASE k \in DOMAIN timeline
    BY <1>2, <1>3, <2>1, <2>2 DEF LifeInv, ExitIsLastWord
  <2>3. CASE k \notin DOMAIN timeline
    <3>1. timeline'[k] = <<q[2], e>>
      BY <1>2, <2>3
    <3>2. timeline[j] = <<timeline[j][1], "exited">>
      BY <1>3, <2>1 DEF Line
    <3>3. ~Tells(q, "exited")
      BY DEF LifeInv, LinesFitStage
    <3> QED
      BY <2>1, <3>1, <3>2, <3>3 DEF Tells
  <2> QED
    BY <2>2, <2>3
<1>4. ASSUME NEW r \in D!Run, NEW k \in DOMAIN timeline', micro', r \notin killed',
             timeline'[k] = <<r[2], "exited">>, Booted(r[2], k)'
      PROVE  \E j \in 1..(k - 1) : timeline'[j] = <<r[2], "microvm_exited">> /\ Told(r[2], "stopped", j)'
  <2>1. r \notin killed /\ micro
    BY <1>4
  <2>2. PICK s \in 1..k : timeline'[s] = <<r[2], "vm_instantiated">>
    BY <1>4 DEF Booted, Told
  <2>5. \A i \in 1..k : timeline'[i] # <<r[2], "start_failed">>
    BY <1>4 DEF Booted, Told
  <2>3. CASE k \in DOMAIN timeline
    <3>1. s \in DOMAIN timeline /\ timeline[s] = timeline'[s] /\ timeline[k] = timeline'[k]
      BY <1>2, <2>3
    <3>5. \A i \in 1..k : timeline[i] = timeline'[i]
      BY <1>2, <2>3
    <3>6. Booted(r[2], k)
      BY <2>2, <2>5, <3>5 DEF Booted, Told
    <3>2. PICK j \in 1..(k - 1) : timeline[j] = <<r[2], "microvm_exited">> /\ Told(r[2], "stopped", j)
      BY <1>4, <2>1, <2>3, <3>1, <3>6 DEF LifeInv, BracketCloses
    <3>3. PICK i \in 1..j : timeline[i] = <<r[2], "stopped">>
      BY <3>2 DEF Told
    <3>4. i \in DOMAIN timeline /\ j \in DOMAIN timeline
      BY <1>2, <2>3
    <3> QED
      BY <1>2, <3>2, <3>3, <3>4 DEF Told
  <2>4. CASE k \notin DOMAIN timeline
    <3>1. k = Len(timeline) + 1 /\ timeline'[k] = <<q[2], e>>
      BY <1>2, <2>4
    <3>2. r = q /\ e = "exited"
      BY <1>4, <3>1 DEF D!Run
    <3>3. s \in DOMAIN timeline /\ timeline[s] = <<r[2], "vm_instantiated">>
      BY <1>2, <1>4, <2>2, <3>1, <3>2
    <3>8. \A i \in DOMAIN timeline : timeline[i] # <<r[2], "start_failed">>
      BY <1>2, <2>5, <3>1
    <3>4. BracketTold(r)
      BY <2>1, <3>2, <3>3, <3>8 DEF LifeInv, EndedIsTold, Tells
    <3>5. PICK j \in DOMAIN timeline : /\ timeline[j] = <<r[2], "microvm_exited">>
                                       /\ \E i \in 1..j : timeline[i] = <<r[2], "stopped">>
      BY <3>4 DEF BracketTold
    <3>6. PICK i \in 1..j : timeline[i] = <<r[2], "stopped">>
      BY <3>5
    <3>7. i \in DOMAIN timeline /\ j \in 1..(k - 1)
      BY <1>2, <3>1
    <3> QED
      BY <1>2, <3>5, <3>6, <3>7 DEF Told
  <2> QED
    BY <2>3, <2>4
<1>5. ExitIsLastWord'
  BY <1>3 DEF ExitIsLastWord
<1> QED
  BY <1>4, <1>5 DEF BracketCloses
-----------------------------------------------------------------------------
(* The parts about the timeline.                                           *)
TimelineInv == /\ timeline \in Seq(Line)
               /\ LinesFitStage
               /\ LiveIsTold
               /\ EndedIsTold
               /\ ExitIsLastWord
               /\ BracketCloses

(* A step that writes no line and ends or forks no runner.                 *)
LEMMA QuietKeeps ==
  ASSUME LifeInv, timeline' = timeline, UNCHANGED <<micro, log, pc>>, killed \subseteq killed',
         \A r \in D!Run : /\ stage'[r] = "unborn" => stage[r] = "unborn"
                          /\ stage[r] = "done" => stage'[r] = "done"
                          /\ life'[r] = "alive" => life[r] = "alive"
                          /\ life'[r] \in {"zombie", "reaped"} => life[r] \in {"zombie", "reaped"}
  PROVE  TimelineInv'
<1>1. /\ \A r \in D!Run, e \in Kept \cup {"exited"} : Tells(r, e)' <=> Tells(r, e)
      /\ \A r \in D!Run : BracketTold(r)' <=> BracketTold(r)
  BY DEF Tells, BracketTold
<1>2. timeline' \in Seq(Line) /\ ExitIsLastWord'
  BY DEF LifeInv, ExitIsLastWord
<1>3. BracketCloses'
  <2>1. BracketCloses
    BY DEF LifeInv
  <2>2. \A i, e, n : Told(i, e, n)' <=> Told(i, e, n)
    BY DEF Told
  <2> SUFFICES ASSUME NEW r \in D!Run, NEW k \in DOMAIN timeline,
                      micro, r \notin killed, timeline[k] = <<r[2], "exited">>, Booted(r[2], k)
               PROVE  \E j \in 1..(k - 1) : timeline[j] = <<r[2], "microvm_exited">> /\ Told(r[2], "stopped", j)
    BY <2>2 DEF BracketCloses, Booted
  <2> QED
    BY <2>1 DEF BracketCloses
<1>4. LinesFitStage'
  BY <1>1 DEF LifeInv, LinesFitStage
<1>5. LiveIsTold'
  BY <1>1 DEF LifeInv, LiveIsTold, D!Alive, Kept
<1>6. EndedIsTold'
  BY <1>1 DEF LifeInv, EndedIsTold, Kept
<1> QED
  BY <1>2, <1>3, <1>4, <1>5, <1>6 DEF TimelineInv

(* The stages of StartVM and its goroutine, in order.                      *)
LEMMA HandlerStages ==
  ASSUME HP!IInv, NEW r \in D!Run, D!Handler(r)
  PROVE  /\ \A q \in D!Run : /\ stage'[q] = "unborn" => stage[q] = "unborn"
                             /\ stage[q] = "done" => stage'[q] = "done"
                             /\ life'[q] = "alive" <=> life[q] = "alive"
                             /\ life'[q] \in {"zombie", "reaped"} <=> life[q] \in {"zombie", "reaped"}
         /\ stage'[r] = "done" => stage[r] = "notify" /\ life[r] = "reaped"
         /\ dir' = dir
<1> USE DEF HP!IInv, HP!TypeOK, HP!Run, D!Run, HP!Stages, HP!Lives, HP!LifeFitsStage
<1>1. CASE D!OpenPidFile(r) \/ D!WritePid(r) \/ D!PidFileFails(r)
  BY <1>1 DEF D!OpenPidFile, D!WritePid, D!PidFileFails
<1>2. CASE D!Reap(r)
  BY <1>2 DEF D!Reap
<1>3. CASE D!RemovePidFile(r)
  BY <1>3 DEF D!RemovePidFile, D!StageAfterUnlink
<1>4. CASE D!Notify(r)
  BY <1>4 DEF D!Notify
<1> QED
  BY <1>1, <1>2, <1>3, <1>4 DEF D!Handler

LEMMA GoroutineKeeps == ASSUME LifeInv, NEW r \in D!Run, DriverGoroutine(r) PROVE TimelineInv'
<1>1. /\ HP!IInv /\ D!Handler(r) /\ UNCHANGED <<micro, log, pc, killed>>
      /\ timeline' = IF stage'[r] = "done" THEN Appended(r, "exited") ELSE timeline
  BY DEF LifeInv, DriverGoroutine, runnerVars
<1>2. /\ \A q \in D!Run : /\ stage'[q] = "unborn" => stage[q] = "unborn"
                          /\ stage[q] = "done" => stage'[q] = "done"
                          /\ life'[q] = "alive" <=> life[q] = "alive"
                          /\ life'[q] \in {"zombie", "reaped"} <=> life[q] \in {"zombie", "reaped"}
      /\ stage'[r] = "done" => stage[r] = "notify" /\ life[r] = "reaped"
      /\ dir' = dir
  BY <1>1, HandlerStages
<1>3. CASE timeline' = timeline
  BY <1>1, <1>2, <1>3, QuietKeeps
<1>4. CASE timeline' # timeline
  <2>1. /\ timeline' = Append(timeline, <<r[2], "exited">>)
        /\ stage'[r] = "done" /\ stage[r] = "notify" /\ life[r] = "reaped"
    BY <1>1, <1>2, <1>4 DEF Appended
  <2>2. ExitIsLastWord' /\ BracketCloses'
    BY <1>1, <1>2, <2>1, OrderAppended
  <2>3. timeline \in Seq(Line)
    BY DEF LifeInv
  <2>4. /\ \A q \in D!Run, x \in Kept \cup {"exited"} :
              Tells(q, x)' <=> Tells(q, x) \/ (q = r /\ x = "exited")
        /\ \A q \in D!Run : BracketTold(q) => BracketTold(q)'
    BY <2>1, <2>3, TellsAppended
  <2>5. timeline' \in Seq(Line)
    BY <2>1, <2>3 DEF Line, D!Run
  <2>6. LinesFitStage'
    BY <1>2, <2>1, <2>4 DEF LifeInv, LinesFitStage
  <2>7. LiveIsTold'
    BY <1>1, <1>2, <2>4 DEF LifeInv, LiveIsTold, D!Alive, Kept
  <2>8. EndedIsTold'
    BY <1>1, <1>2, <2>4 DEF LifeInv, EndedIsTold, Kept
  <2> QED
    BY <2>2, <2>5, <2>6, <2>7, <2>8 DEF TimelineInv
<1> QED
  BY <1>3, <1>4

LEMMA ForkKeeps ==
  ASSUME LifeInv, NEW r \in D!Run, NEW p \in Pids, Fork(r, p)
  PROVE  TimelineInv' /\ SentIsBoolean' /\ RP!BracketInv'
<1>1. /\ stage[r] = "unborn" /\ stage' = [stage EXCEPT ![r] = "forked"]
      /\ life' = [life EXCEPT ![r] = "alive"]
      /\ HP!Idle(r[1])
      /\ UNCHANGED <<dir, killed>>
  BY DEF Fork, D!ForkRunner, D!Idle, HP!Idle, D!Run, HP!Run
<1>2. \A q \in D!Run : life[q] # "alive"
  <2>1. HP!ConstantsAssumption
    BY VmLifeAssumption DEF HP!ConstantsAssumption, D!ConstantsAssumption
  <2>2. HP!IInv /\ D!Run = HP!Run /\ \A q \in D!Run : q[1] = r[1]
    BY DEF LifeInv, D!Run, HP!Run
  <2>3. \A q \in D!Run : ~HP!Active(q)
    BY <1>1, <2>1, <2>2, HP!IdleHasNoActive
  <2> QED
    BY <2>1, <2>2, <2>3, HP!AliveIsActive DEF HP!Alive
<1>3. /\ stage \in [D!Run -> HP!Stages] /\ life \in [D!Run -> HP!Lives]
  BY DEF LifeInv, HP!IInv, HP!TypeOK, HP!Run, D!Run
<1>4. /\ pc' = "config" /\ tap' = "receive" /\ log' = <<>>
      /\ vm' = "none" /\ requested' = FALSE /\ stateCh' = <<>>
      /\ stoppedCh' = FALSE /\ sigCh' = FALSE /\ signals' = 0 /\ sent' = FALSE
      /\ UNCHANGED <<micro, obeys, click, answered, term, killed, timeline>>
  BY DEF Fork
<1>5. /\ \A q \in D!Run, e \in Kept \cup {"exited"} : Tells(q, e)' <=> Tells(q, e)
      /\ \A q \in D!Run : BracketTold(q)' <=> BracketTold(q)
  BY <1>4 DEF Tells, BracketTold
<1>6. \A e \in Kept \cup {"exited"} : ~Tells(r, e)
  BY <1>1 DEF LifeInv, LinesFitStage
<1>7. timeline' \in Seq(Line) /\ ExitIsLastWord'
  BY <1>4 DEF LifeInv, ExitIsLastWord
<1>8. BracketCloses'
  BY <1>1, <1>4 DEF LifeInv, BracketCloses, Booted, Told
<1>9. LinesFitStage'
  BY <1>1, <1>3, <1>5, <1>6 DEF LifeInv, LinesFitStage
<1>10. LiveIsTold'
  <2>1. \A k \in DOMAIN log' : log'[k] # "stopped"
    BY <1>4
  <2> QED
    BY <1>1, <1>2, <1>3, <1>4, <1>5, <1>6, <2>1 DEF LiveIsTold, D!Alive, Kept
<1>11. EndedIsTold'
  BY <1>1, <1>3, <1>4, <1>5 DEF LifeInv, EndedIsTold, Kept
<1>12. SentIsBoolean'
  BY <1>4 DEF LifeInv, SentIsBoolean
<1>13. RP!BracketInv'
  <2>1. log' \in Seq(RP!Events) /\ stateCh' \in Seq(RP!VMStates) /\ signals' \in 0..MaxSignals
    BY <1>4, VmLifeAssumption DEF R!RunVMAssumption, RP!Events
  <2>2. RP!TypeOK'
    BY <1>4, <2>1 DEF LifeInv, RP!BracketInv, RP!TypeOK, RP!MainStages, RP!VMStates
  <2>3. RP!Headless' /\ RP!ExitRecorded'
    BY <1>4 DEF RP!Headless, RP!ExitRecorded, RP!Waits
  <2>4. RP!StopIsLast'
    <3>1. 1..Len(stateCh') = {}
      BY <1>4
    <3> QED
      BY <3>1 DEF RP!StopIsLast
  <2>5. RP!QuietBefore' /\ RP!RecordedBeforeSent'
    BY <1>4 DEF RP!QuietBefore, RP!RecordedBeforeSent, RP!StopReceived
  <2> QED
    BY <2>2, <2>3, <2>4, <2>5 DEF RP!BracketInv
<1> QED
  BY <1>7, <1>8, <1>9, <1>10, <1>11, <1>12, <1>13 DEF TimelineInv

(* A step of the live runner, seen from the driver.                        *)
LEMMA RunnerStepFacts ==
  ASSUME LifeInv, NEW r \in D!Run, RunnerStep(r)
  PROVE  /\ D!Alive(r) /\ RunnerNext
         /\ VM \in dir /\ stage[r] \notin {"unborn", "done"}
         /\ \A q \in D!Run : D!Alive(q) => q = r
         /\ UNCHANGED <<dir, stage>> /\ SentIsBoolean'
         /\ pc' \notin R!Ends => life' = life
         /\ life' = life \/ (pc' \in R!Ends /\ life' = [life EXCEPT ![r] = "zombie"])
         /\ killed \subseteq killed' /\ (pc' = "killed" => r \in killed')
         /\ timeline' = IF log' # log THEN Append(timeline, <<r[2], Last(log')>>) ELSE timeline
<1>1. /\ D!Alive(r) /\ RunnerNext
      /\ IF pc' \notin R!Ends THEN UNCHANGED driverVars ELSE D!Exit(r)
      /\ term' = term
      /\ killed' = IF pc' = "killed" THEN killed \cup {r} ELSE killed
      /\ timeline' = IF log' # log THEN Appended(r, Last(log')) ELSE timeline
  BY DEF RunnerStep, RunnerMain, RunnerTap, RunnerWatch, RunnerFramework, RunnerGuest, RunnerWorld, Deliver,
         InRunner, RunnerNext
<1>2. SentIsBoolean'
  <2>1. sent' = sent \/ sent' = FALSE
    BY DEF RunnerStep, RunnerMain, RunnerTap, RunnerWatch, RunnerFramework, RunnerGuest, RunnerWorld, Deliver,
           InRunner
  <2> QED
    BY <1>1, <2>1 DEF LifeInv, SentIsBoolean
<1>4. /\ stage[r] \notin {"unborn", "done", "lost"} /\ VM \in dir
      /\ \A q \in D!Run : D!Alive(q) => q = r
  <2>1. HP!ConstantsAssumption
    BY VmLifeAssumption DEF HP!ConstantsAssumption, D!ConstantsAssumption
  <2>2. HP!IInv /\ D!Run = HP!Run /\ \A q \in D!Run : q[1] = VM
    BY DEF LifeInv, D!Run, HP!Run
  <2>3. \A q \in D!Run : D!Alive(q) => HP!Active(q) /\ stage[q] \in {"forked", "opened", "wait"}
    BY <2>1, <2>2, SameDriver, HP!AliveIsActive
  <2> QED
    BY <1>1, <2>2, <2>3 DEF HP!IInv, HP!OneActive, HP!ActiveHasDirectory
<1>5. /\ UNCHANGED <<dir, stage>>
      /\ pc' \notin R!Ends => life' = life
      /\ life' = life \/ (pc' \in R!Ends /\ life' = [life EXCEPT ![r] = "zombie"])
  BY <1>1, <1>4 DEF driverVars, D!Exit
<1> QED
  BY <1>1, <1>2, <1>4, <1>5 DEF Appended

LEMMA RunnerKeeps ==
  ASSUME LifeInv, NEW r \in D!Run, RunnerStep(r)
  PROVE  TimelineInv' /\ SentIsBoolean'
<1> DEFINE e == Last(log')
<1>1. /\ D!Alive(r) /\ RunnerNext
      /\ VM \in dir /\ stage[r] \notin {"unborn", "done"}
      /\ \A q \in D!Run : D!Alive(q) => q = r
      /\ UNCHANGED <<dir, stage>> /\ SentIsBoolean'
      /\ pc' \notin R!Ends => life' = life
      /\ life' = life \/ (pc' \in R!Ends /\ life' = [life EXCEPT ![r] = "zombie"])
      /\ killed \subseteq killed' /\ (pc' = "killed" => r \in killed')
      /\ timeline' = IF RecordsNew THEN Append(timeline, <<r[2], e>>) ELSE timeline
  BY RunnerStepFacts DEF RecordsNew
<1>2. /\ micro' = micro
      /\ log \in Seq(R!Events)
      /\ RecordsNew => \E x \in Kept : log' = Append(log, x)
      /\ RecordsNew /\ e = "vm_instantiated" => pc' \notin NoMachine /\ pc' # "failed"
      /\ pc' \in NoMachine => pc \in NoMachine
      /\ pc' = "returning" => \/ pc = "returning"
                              \/ /\ RecordsNew /\ e = "microvm_exited"
                                 /\ \E k \in DOMAIN log : log[k] = "stopped"
      /\ pc' \in R!Ends => \/ pc' = "finished" /\ pc = "returning"
                           \/ pc' = "failed" /\ pc \in NoMachine
                           \/ pc' = "failed" /\ RecordsNew /\ e = "start_failed"
                           \/ pc' = "killed"
                           \/ pc' = "closed" /\ ~micro
  BY <1>1, RunnerRecords DEF LifeInv
<1>13. RecordsNew => e \in Kept
  <2>1. ASSUME NEW x \in Kept, log' = Append(log, x) PROVE e = x
    <3>1. Len(log) \in Nat /\ Len(log') = Len(log) + 1 /\ log'[Len(log) + 1] = x
      BY <1>2, <2>1 DEF Kept
    <3> QED
      BY <3>1 DEF Last
  <2> QED
    BY <1>2, <2>1
<1>3. life \in [D!Run -> HP!Lives] /\ timeline \in Seq(Line)
  BY DEF LifeInv, HP!IInv, HP!TypeOK, HP!Run, D!Run
<1> HIDE DEF e
(* What is told after the step, whether it wrote a line or not.            *)
<1>4. /\ timeline' \in Seq(Line) /\ ExitIsLastWord' /\ BracketCloses'
      /\ \A q \in D!Run, x \in Kept \cup {"exited"} :
            Tells(q, x)' <=> Tells(q, x) \/ (q = r /\ RecordsNew /\ x = e /\ e \in Kept)
      /\ \A q \in D!Run : BracketTold(q) => BracketTold(q)'
      /\ RecordsNew /\ e = "microvm_exited" /\ Tells(r, "stopped") => BracketTold(r)'
  <2>1. CASE RecordsNew /\ e \in Kept
    <3>1. timeline' = Append(timeline, <<r[2], e>>) /\ e \in Kept \cup {"exited"} /\ e # "exited"
      BY <1>1, <2>1 DEF Kept
    <3>2. /\ \A q \in D!Run, x \in Kept \cup {"exited"} :
                Tells(q, x)' <=> Tells(q, x) \/ (q = r /\ x = e)
          /\ \A q \in D!Run : BracketTold(q) => BracketTold(q)'
          /\ e = "microvm_exited" /\ Tells(r, "stopped") => BracketTold(r)'
      BY <1>3, <3>1, TellsAppended
    <3>3. ExitIsLastWord' /\ BracketCloses'
      BY <1>1, <1>2, <3>1, OrderAppended
    <3>4. timeline' \in Seq(Line)
      BY <1>3, <3>1 DEF Line, D!Run
    <3> QED
      BY <2>1, <3>2, <3>3, <3>4
  <2>2. CASE ~(RecordsNew /\ e \in Kept)
    <3>1. timeline' = timeline
      BY <1>1, <1>13, <2>2
    <3>2. /\ \A q \in D!Run, x \in Kept \cup {"exited"} : Tells(q, x)' <=> Tells(q, x)
          /\ \A q \in D!Run : BracketTold(q)' <=> BracketTold(q)
      BY <3>1 DEF Tells, BracketTold
    <3>3. ExitIsLastWord'
      BY <3>1 DEF LifeInv, ExitIsLastWord
    <3>4. BracketCloses'
      BY <1>1, <1>2, <3>1 DEF LifeInv, BracketCloses, Booted, Told
    <3> QED
      BY <1>3, <2>2, <3>1, <3>2, <3>3, <3>4 DEF Kept
  <2> QED
    BY <2>1, <2>2
<1>5. LinesFitStage'
  BY <1>1, <1>4 DEF LifeInv, LinesFitStage, Kept
<1>6. Tells(r, "vm_instantiated")' => pc' \notin NoMachine
  BY <1>1, <1>2, <1>4 DEF LifeInv, LiveIsTold, Kept
<1>7. (\E k \in DOMAIN log' : log'[k] = "stopped") => Tells(r, "stopped")'
  <2>1. ASSUME NEW k \in DOMAIN log', log'[k] = "stopped" PROVE Tells(r, "stopped")'
    <3>1. CASE log' = log
      BY <1>1, <1>4, <2>1, <3>1 DEF LifeInv, LiveIsTold, Kept
    <3>2. CASE RecordsNew
      <4>1. PICK x \in Kept : log' = Append(log, x)
        BY <1>2, <3>2
      <4>2. /\ DOMAIN log = 1..Len(log) /\ Len(log) \in Nat /\ Len(log') = Len(log) + 1
            /\ DOMAIN log' = 1..(Len(log) + 1) /\ log'[Len(log) + 1] = x
            /\ \A i \in 1..Len(log) : log'[i] = log[i]
        BY <1>2, <4>1
      <4>3. e = x
        BY <4>2 DEF e, Last
      <4>4. CASE k \in DOMAIN log
        BY <1>1, <1>4, <2>1, <4>2, <4>4 DEF LifeInv, LiveIsTold, Kept
      <4>5. CASE k \notin DOMAIN log
        <5>1. e = "stopped"
          BY <2>1, <4>2, <4>3, <4>5
        <5> QED
          BY <1>4, <3>2, <5>1 DEF Kept
      <4> QED
        BY <4>4, <4>5
    <3> QED
      BY <3>1, <3>2 DEF RecordsNew
  <2> QED
    BY <2>1
<1>8. pc' = "returning" \/ pc' = "finished" => BracketTold(r)'
  BY <1>1, <1>2, <1>4 DEF LifeInv, LiveIsTold, R!Ends
<1>9. LiveIsTold'
  <2>1. \A q \in D!Run : D!Alive(q)' => q = r
    BY <1>1, <1>3 DEF D!Alive
  <2> QED
    BY <1>6, <1>7, <1>8, <2>1 DEF LiveIsTold
<1>10. EndedIsTold'
  <2> SUFFICES ASSUME NEW q \in D!Run, micro', q \notin killed', life'[q] \in {"zombie", "reaped"},
                      Tells(q, "vm_instantiated")', ~Tells(q, "start_failed")'
               PROVE  BracketTold(q)'
    BY DEF EndedIsTold
  <2>1. CASE q # r
    <3>1. life'[q] = life[q] /\ q \notin killed /\ micro
      BY <1>1, <1>2, <1>3, <2>1
    <3>2. Tells(q, "vm_instantiated") /\ ~Tells(q, "start_failed")
      BY <1>4, <2>1 DEF Kept
    <3> QED
      BY <1>4, <3>1, <3>2 DEF LifeInv, EndedIsTold
  <2>2. CASE q = r
    <3>1. pc' \in R!Ends
      BY <1>1, <2>2 DEF D!Alive
    <3>2. ~(RecordsNew /\ e = "start_failed") /\ pc' # "killed"
      BY <1>1, <1>4, <1>13, <2>2 DEF Kept
    <3>3. ~(pc' = "failed" /\ pc \in NoMachine)
      <4>1. Tells(r, "vm_instantiated") \/ (RecordsNew /\ e = "vm_instantiated")
        BY <1>4, <2>2 DEF Kept
      <4>2. Tells(r, "vm_instantiated") => pc \notin NoMachine
        BY <1>1 DEF LifeInv, LiveIsTold
      <4> QED
        BY <1>2, <4>1, <4>2
    <3>4. pc' = "finished"
      BY <1>2, <3>1, <3>2, <3>3
    <3> QED
      BY <1>8, <2>2, <3>4
  <2> QED
    BY <2>1, <2>2
<1> QED
  BY <1>1, <1>4, <1>5, <1>9, <1>10 DEF TimelineInv
-----------------------------------------------------------------------------
LEMMA InitLifeInv == Init => LifeInv
<1> SUFFICES ASSUME Init PROVE LifeInv
  OBVIOUS
<1>1. HP!IInv
  <2>1. HP!ConstantsAssumption
    BY VmLifeAssumption DEF HP!ConstantsAssumption, D!ConstantsAssumption
  <2> QED
    BY <2>1, SameDriver, HP!InitIInv DEF Init
<1>2. RP!BracketInv
  <2>1. RP!RunVMAssumption
    BY VmLifeAssumption DEF RP!RunVMAssumption, R!RunVMAssumption
  <2> QED
    BY <2>1, SameRunner, RP!InitBracketInv DEF Init
<1>3. timeline = <<>> /\ sent = FALSE /\ term = {} /\ killed = {} /\ DOMAIN timeline = {}
  BY DEF Init
<1>4. \A r \in D!Run : ~D!Alive(r)
  BY DEF Init, D!Init, D!Alive
<1>5. timeline \in Seq(Line) /\ SentIsBoolean
  <2>1. <<>> \in Seq(Line)
    OBVIOUS
  <2>2. SentIsBoolean
    BY <1>3 DEF SentIsBoolean
  <2> QED
    BY <1>3, <2>1, <2>2
<1>6. LinesFitStage /\ LiveIsTold /\ EndedIsTold
  BY <1>3, <1>4 DEF LinesFitStage, LiveIsTold, EndedIsTold, Tells
<1>7. ExitIsLastWord /\ BracketCloses
  BY <1>3 DEF ExitIsLastWord, BracketCloses
<1> QED
  BY <1>1, <1>2, <1>5, <1>6, <1>7 DEF LifeInv

(* Each step of the system is a step of the driver and its host, ...       *)
LEMMA NextIsDriver == [Next]_vars => [D!Next]_driverVars
<1>1. ASSUME NEW r \in D!Run, NEW p \in Pids, Fork(r, p) PROVE D!Next
  BY <1>1 DEF Fork, D!Next
<1>2. ASSUME NEW r \in D!Run, DriverGoroutine(r) PROVE D!Next
  BY <1>2 DEF DriverGoroutine, D!Next
<1>3. ASSUME NEW r \in D!Run, RunnerStep(r) PROVE [D!Next]_driverVars
  <2>1. UNCHANGED driverVars \/ D!Exit(r)
    BY <1>3 DEF RunnerStep, RunnerMain, RunnerTap, RunnerWatch, RunnerFramework, RunnerGuest,
                RunnerWorld, Deliver, InRunner
  <2> QED
    BY <2>1 DEF D!Next
<1>4. ASSUME NEW p \in Pids, Send(p) PROVE D!Next
  BY <1>4 DEF Send, D!Next
<1>5. CASE Call \/ Delete
  BY <1>5 DEF Call, Delete, D!Next
<1>6. CASE UNCHANGED vars
  BY <1>6 DEF vars
<1> QED
  BY <1>1, <1>2, <1>3, <1>4, <1>5, <1>6 DEF Next

LEMMA NextLifeInv == LifeInv /\ [Next]_vars => LifeInv'
<1> SUFFICES ASSUME LifeInv, [Next]_vars PROVE LifeInv'
  OBVIOUS
<1>0. HP!IInv'
  BY NextIsDriver, DriverInvariant DEF LifeInv
<1> DEFINE Rest == RP!BracketInv /\ TimelineInv /\ SentIsBoolean
<1>1. ASSUME NEW r \in D!Run, NEW p \in Pids, Fork(r, p) PROVE Rest'
  BY <1>1, ForkKeeps
<1>2. ASSUME NEW r \in D!Run, DriverGoroutine(r) PROVE Rest'
  <2>1. TimelineInv'
    BY <1>2, GoroutineKeeps
  <2>2. UNCHANGED <<runnerVars, sent, term, killed>>
    BY <1>2 DEF DriverGoroutine
  <2>3. SentIsBoolean'
    BY <2>2 DEF LifeInv, SentIsBoolean
  <2> QED
    BY <2>1, <2>2, <2>3, RunnerInvariant DEF LifeInv
<1>3. ASSUME NEW r \in D!Run, RunnerStep(r) PROVE Rest'
  <2>1. RunnerNext
    BY <1>3, RunnerStepFacts
  <2>2. RP!BracketInv'
    BY <2>1, RunnerInvariant DEF LifeInv
  <2> QED
    BY <1>3, <2>2, RunnerKeeps
<1>4. ASSUME NEW p \in Pids, Send(p) PROVE Rest'
  <2>1. /\ term' = term \cup {r \in D!Run : D!Alive(r) /\ pid[r] = p}
        /\ sent' \in BOOLEAN
        /\ UNCHANGED <<stage, life, killed, timeline>> /\ UNCHANGED runnerVars
    BY <1>4 DEF Send, D!Signal, LifeInv, SentIsBoolean
  <2>2. SentIsBoolean'
    BY <2>1 DEF LifeInv, SentIsBoolean
  <2>3. TimelineInv'
    BY <2>1, QuietKeeps DEF runnerVars
  <2> QED
    BY <2>1, <2>2, <2>3, RunnerInvariant DEF LifeInv
<1>5. ASSUME Call \/ UNCHANGED vars PROVE Rest'
  <2>1. UNCHANGED <<stage, life, term, killed, sent, timeline>> /\ UNCHANGED runnerVars
    BY <1>5 DEF Call, D!CreateVM, D!ReadPidFile, vars, driverVars
  <2>2. TimelineInv'
    BY <2>1, QuietKeeps DEF runnerVars
  <2>3. SentIsBoolean'
    BY <2>1 DEF LifeInv, SentIsBoolean
  <2> QED
    BY <2>1, <2>2, <2>3, RunnerInvariant DEF LifeInv
<1>6. ASSUME Delete, D!BeginDelete(VM), timeline' = <<>> PROVE Rest'
  <2>1. /\ UNCHANGED <<life, term, killed, sent>> /\ UNCHANGED runnerVars
        /\ \A r \in D!Run : ~D!Active(r)
    BY <1>6 DEF Delete, D!BeginDelete, D!Run
  <2>2. \A r \in D!Run : ~D!Alive(r)
    <3>1. HP!ConstantsAssumption
      BY VmLifeAssumption DEF HP!ConstantsAssumption, D!ConstantsAssumption
    <3>2. HP!IInv /\ D!Run = HP!Run
      BY DEF LifeInv, D!Run, HP!Run
    <3> QED
      BY <2>1, <3>1, <3>2, SameDriver, HP!AliveIsActive
         DEF D!Active, D!ActiveStages, HP!Active, HP!ActiveStages
  <2>3. timeline' = <<>> /\ DOMAIN timeline' = {}
    BY <1>6
  <2>4. TimelineInv'
    BY <2>1, <2>2, <2>3 DEF TimelineInv, LinesFitStage, LiveIsTold, EndedIsTold, ExitIsLastWord,
                            BracketCloses, Tells, D!Alive
  <2>5. SentIsBoolean'
    BY <2>1 DEF LifeInv, SentIsBoolean
  <2> QED
    BY <2>1, <2>4, <2>5, RunnerInvariant DEF LifeInv
<1>7. ASSUME Delete, D!FinishDelete(VM), timeline' = timeline PROVE Rest'
  <2>1. UNCHANGED <<stage, life, term, killed, sent, timeline>> /\ UNCHANGED runnerVars
    BY <1>7 DEF Delete, D!FinishDelete
  <2>2. TimelineInv'
    BY <2>1, QuietKeeps DEF runnerVars
  <2>3. SentIsBoolean'
    BY <2>1 DEF LifeInv, SentIsBoolean
  <2> QED
    BY <2>1, <2>2, <2>3, RunnerInvariant DEF LifeInv
<1>8. Rest'
  <2> HIDE DEF Rest
  <2>1. CASE Delete
    BY <1>6, <1>7, <2>1 DEF Delete
  <2>2. CASE Next /\ ~Delete
    BY <1>1, <1>2, <1>3, <1>4, <1>5, <2>2 DEF Next
  <2> QED
    BY <1>5, <2>1, <2>2
<1> QED
  BY <1>0, <1>8 DEF LifeInv, TimelineInv

LEMMA LifeInvariant == Spec => []LifeInv
BY InitLifeInv, NextLifeInv, PTL DEF Spec

(* Every reachable state of the two processes, the signal between them and *)
(* the file they share is well typed: in timings.jsonl there is nothing    *)
(* but the events its readers know.                                        *)
THEOREM LifeTypeCorrect == Spec => []TypeOK
<1>1. LifeInv => TypeOK
  <2> SUFFICES ASSUME LifeInv PROVE TypeOK
    OBVIOUS
  <2>1. D!TypeOK
    BY DEF LifeInv, HP!IInv, HP!TypeOK, HP!Run, HP!Stages, HP!Lives, D!TypeOK, D!Run, D!Stages, D!Lives
  <2>2. R!TypeOK
    BY DEF LifeInv, RP!BracketInv, RP!TypeOK, RP!MainStages, RP!Ends, RP!VMStates, RP!ClickStages,
           RP!Events, R!TypeOK, R!MainStages, R!Ends, R!VMStates, R!ClickStages, R!Events
  <2> QED
    BY <2>1, <2>2 DEF LifeInv, SentIsBoolean, Line, TypeOK
<1> QED
  BY <1>1, LifeInvariant, PTL

(* recordTimingEvent and OnVMExit append to one file from two processes,   *)
(* and yet nothing of a run follows its "exited", which comes once: a run  *)
(* is reported when its process is reaped, and is never forked again.      *)
THEOREM ExitComesLast == Spec => []ExitIsLastWord
<1>1. LifeInv => ExitIsLastWord
  BY DEF LifeInv
<1> QED
  BY <1>1, LifeInvariant, PTL

(* The bracket of a headless run is closed in the file, whether the guest  *)
(* stopped by itself or a caught signal asked it to, although the file may *)
(* be deleted and made again between runs, and a new run may be forked     *)
(* before the old one is reported: from the fork of a runner to its end    *)
(* the directory stays, so none of its lines is lost. Runs whose machine   *)
(* was not made or whose start failed have no bracket, and neither has one *)
(* that a signal killed before it could catch it (RunVM!ShutdownIsClean).  *)
THEOREM BracketClosesInFile == Spec => []BracketCloses
<1>1. LifeInv => BracketCloses
  BY DEF LifeInv
<1> QED
  BY <1>1, LifeInvariant, PTL

(* The driver in this composition does what Hypervisor says a reliable     *)
(* driver does: adding the runner's inside and the file to it allows no    *)
(* behaviour of StartVM, StopVM and DeleteVM that Hypervisor does not.     *)
THEOREM LifeImplementsDriver == Spec => D!Safe
<1>1. Init => D!Init
  BY DEF Init
<1> QED
  BY <1>1, NextIsDriver, PTL DEF Spec, D!Safe, driverVars, D!vars

(* What one set of RunVM's variables for all runs rests on: no two runners *)
(* are alive at once.                                                      *)
THEOREM OneRunnerAtATime == Spec => []D!SingleRunner
<1>1. LifeInv => D!SingleRunner
  <2> SUFFICES ASSUME LifeInv PROVE D!SingleRunner
    OBVIOUS
  <2>1. HP!ConstantsAssumption
    BY VmLifeAssumption DEF HP!ConstantsAssumption, D!ConstantsAssumption
  <2>2. HP!IInv /\ D!Run = HP!Run
    BY DEF LifeInv, D!Run, HP!Run
  <2> QED
    BY <2>1, <2>2, SameDriver, HP!AliveIsActive DEF HP!IInv, HP!OneActive, D!SingleRunner
<1> QED
  BY <1>1, LifeInvariant, PTL

PhaseOf == [r \in D!Run |-> D!Phase(r)]

(* Its steps, seen from outside, are starts, ends and reports of runs.     *)
LEMMA NextIsSlot == LifeInv /\ LifeInv' /\ [Next]_vars => [D!Slot!Next]_PhaseOf
<1> SUFFICES ASSUME LifeInv, LifeInv', [Next]_vars
             PROVE  [D!Slot!Next]_PhaseOf
  OBVIOUS
<1>1. HP!IInv /\ HP!IInv' /\ HP!Reliable
  BY DEF LifeInv, HP!Reliable
<1>2. [HP!Next]_HP!vars
  BY NextIsDriver, SameDriver DEF driverVars, HP!vars
<1>3. HP!ConstantsAssumption
  BY VmLifeAssumption DEF HP!ConstantsAssumption, D!ConstantsAssumption
<1>4. [HP!Slot!Next]_HP!PhaseOf
  BY <1>1, <1>2, <1>3, HP!NextImplements
<1> QED
  BY <1>4 DEF PhaseOf, HP!PhaseOf, HP!Phase, HP!Alive, HP!Run, D!Phase, D!Alive, D!Run,
              HP!Slot!Next, HP!Slot!Start, HP!Slot!End, HP!Slot!Report, HP!Slot!Run,
              D!Slot!Next, D!Slot!Start, D!Slot!End, D!Slot!Report, D!Slot!Run

(* From end to end: of what goes on in the runner, between the processes   *)
(* and in their file, the callers see what VmSlot promises them.           *)
THEOREM LifeImplementsSlot == Spec => D!Slot!Safe
<1>1. Init => D!Slot!Init
  BY DEF Init, D!Init, D!Slot!Init, D!Slot!Run, D!Run, D!Phase, D!Alive
<1> QED
  BY <1>1, LifeInvariant, NextIsSlot, PTL DEF Spec, D!Slot!Safe, PhaseOf
=============================================================================
