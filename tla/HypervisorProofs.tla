-------------------------- MODULE HypervisorProofs --------------------------
(***************************************************************************)
(* Proofs about Hypervisor for any set of VMs, starts and pids.  The first *)
(* three theorems hold however the driver is called, whatever fails and    *)
(* whatever pids the host hands out again; the others assume Reliable:     *)
(* disciplined callers, a vm.pid that can be written, and a driver process *)
(* that stays up.                                                          *)
(***************************************************************************)
EXTENDS Hypervisor, TLAPS

Reliable == Disciplined /\ ~WriteMayFail /\ ~MayExit

(* The conjuncts of the inductive invariant of a reliable driver.          *)
OneActive ==
  \A q, r \in Run : q[1] = r[1] /\ Active(q) /\ Active(r) => q = r

LifeFitsStage ==
  \A r \in Run : /\ stage[r] = "unborn" <=> life[r] = "none"
                 /\ stage[r] \in {"forked", "opened", "wait"} => Holds(r)
                 /\ stage[r] \in {"remove", "notify", "done"} => life[r] = "reaped"
                 /\ stage[r] \notin {"unlinked", "lost"}

FileFitsStage ==
  \A r \in Run : /\ stage[r] = "forked" => file[r[1]] = Absent
                 /\ stage[r] = "opened" => file[r[1]] = Empty
                 /\ stage[r] \in {"wait", "remove"} => file[r[1]] = pid[r]
                 /\ stage[r] # "unborn" => pid[r] \in Pids

ActiveHasDirectory ==
  \A r \in Run : Active(r) => r[1] \in dir /\ r[1] \notin deleting

IInv == TypeOK /\ OneActive /\ LifeFitsStage /\ FileFitsStage /\ ActiveHasDirectory
-----------------------------------------------------------------------------
(* What removing vm.pid does to the stages: "opened" becomes "unlinked".   *)
LEMMA StageAfterUnlinkFacts ==
  ASSUME NEW v \in VMs, stage \in [Run -> Stages]
  PROVE  /\ StageAfterUnlink(v) \in [Run -> Stages]
         /\ \A r \in Run : \/ StageAfterUnlink(v)[r] = stage[r] /\ (r[1] = v => stage[r] # "opened")
                           \/ /\ stage[r] = "opened"
                              /\ r[1] = v
                              /\ StageAfterUnlink(v)[r] = "unlinked"
BY DEF StageAfterUnlink, Stages

LEMMA FreePidIsPid == FreePids \subseteq Pids
BY DEF FreePids

LEMMA RunHasVM == \A r \in Run : r[1] \in VMs
BY DEF Run

(* The part that no caller and no failure can break.                       *)
ForkedHasPid == \A r \in Run : stage[r] # "unborn" => pid[r] \in Pids

OpenFileExists == \A r \in Run : stage[r] = "opened" => file[r[1]] # Absent

WorldInv == /\ TypeOK
            /\ ForkedHasPid
            /\ OpenFileExists
            /\ PidFileNamesRun

LEMMA InitWorldInv == Init => WorldInv
BY ConstantsAssumption DEF Init, WorldInv, TypeOK, Stages, Lives, ForkedHasPid, OpenFileExists,
  PidFileNamesRun

LEMMA NextWorldInv == WorldInv /\ [Next]_vars => WorldInv'
<1> SUFFICES ASSUME WorldInv, [Next]_vars PROVE WorldInv'
  OBVIOUS
<1> USE RunHasVM, ConstantsAssumption
    DEF WorldInv, TypeOK, Stages, Lives, ForkedHasPid, OpenFileExists,
        PidFileNamesRun
<1>1. ASSUME NEW v \in VMs, CreateVM(v) PROVE WorldInv'
  BY <1>1 DEF CreateVM
<1>2. ASSUME NEW v \in VMs, ReadPidFile(v) PROVE WorldInv'
  BY <1>2 DEF ReadPidFile
<1>3. ASSUME NEW v \in VMs, BeginDelete(v) PROVE WorldInv'
  BY <1>3, StageAfterUnlinkFacts DEF BeginDelete
<1>4. ASSUME NEW v \in VMs, FinishDelete(v) PROVE WorldInv'
  BY <1>4 DEF FinishDelete
<1>5. ASSUME NEW r \in Run, NEW p \in Pids, ForkRunner(r, p) PROVE WorldInv'
  BY <1>5 DEF ForkRunner
<1>6. ASSUME NEW r \in Run, OpenPidFile(r) PROVE WorldInv'
  BY <1>6 DEF OpenPidFile
<1>7. ASSUME NEW r \in Run, WritePid(r) PROVE WorldInv'
  BY <1>7 DEF WritePid
<1>8. ASSUME NEW r \in Run, PidFileFails(r) PROVE WorldInv'
  BY <1>8 DEF PidFileFails
<1>9. ASSUME NEW r \in Run, Exit(r) PROVE WorldInv'
  BY <1>9 DEF Exit, Alive
<1>10. ASSUME NEW r \in Run, Reap(r) PROVE WorldInv'
  BY <1>10 DEF Reap
<1>11. ASSUME NEW r \in Run, RemovePidFile(r) PROVE WorldInv'
  BY <1>11, StageAfterUnlinkFacts DEF RemovePidFile
<1>12. ASSUME NEW r \in Run, Notify(r) PROVE WorldInv'
  BY <1>12 DEF Notify
<1>13. ASSUME NEW v \in VMs, NEW p \in Pids, Signal(v, p) PROVE WorldInv'
  BY <1>13 DEF Signal
<1>14. ASSUME NEW p \in Pids, ForeignStart(p) \/ ForeignExit(p) PROVE WorldInv'
  BY <1>14 DEF ForeignStart, ForeignExit
<1>15. ASSUME DriverExit PROVE WorldInv'
  BY <1>15 DEF DriverExit
<1>16. ASSUME UNCHANGED vars PROVE WorldInv'
  BY <1>16 DEF vars
<1> QED
  BY <1>1, <1>2, <1>3, <1>4, <1>5, <1>6, <1>7, <1>8, <1>9, <1>10, <1>11, <1>12, <1>13, <1>14,
     <1>15, <1>16 DEF Next, Handler
LEMMA WorldInvariant == Spec => []WorldInv
<1>1. Safe => []WorldInv
  BY InitWorldInv, NextWorldInv, PTL DEF Safe
<1> QED
  BY <1>1, PTL DEF Spec

(* Every reachable state of the driver and its host is well typed.         *)
THEOREM TypeCorrect == Spec => []TypeOK
<1>1. WorldInv => TypeOK
  BY DEF WorldInv
<1> QED
  BY <1>1, WorldInvariant, PTL

(* A complete vm.pid always names a run of its own VM whose goroutine has  *)
(* still to remove it, or that an exit of the driver lost.                 *)
THEOREM PidFilesName == Spec => []PidFileNamesRun
<1>1. WorldInv => PidFileNamesRun
  BY DEF WorldInv
<1> QED
  BY <1>1, WorldInvariant, PTL

-----------------------------------------------------------------------------
(* Signals.  The host gives a pid to one process at a time, and takes it   *)
(* back from a runner when the driver, or init, has waited for it.         *)
UnbornHasNoPid ==
  \A r \in Run : /\ stage[r] = "unborn" => pid[r] = NoPid
                 /\ stage[r] # "unborn" => life[r] # "none"

HoldersDiffer ==
  /\ \A q, r \in Run : Holds(q) /\ Holds(r) /\ pid[q] = pid[r] => q = r
  /\ \A r \in Run : Holds(r) => pid[r] \notin foreign

PendingIsOwn ==
  \A v \in VMs, p \in Pids : <<v, p>> \in pending => \E r \in Run : r[1] = v /\ pid[r] = p

SignalInv == UnbornHasNoPid /\ HoldersDiffer /\ PendingIsOwn

LEMMA InitSignalInv == Init => SignalInv
BY ConstantsAssumption DEF Init, SignalInv, UnbornHasNoPid, HoldersDiffer, PendingIsOwn, Holds

LEMMA NextSignalInv == WorldInv /\ SignalInv /\ [Next]_vars => SignalInv'
<1> SUFFICES ASSUME WorldInv, SignalInv, [Next]_vars PROVE SignalInv'
  OBVIOUS
<1> USE RunHasVM, ConstantsAssumption
    DEF WorldInv, TypeOK, Stages, Lives, SignalInv, UnbornHasNoPid, HoldersDiffer, PendingIsOwn, Holds
(* The steps that give nobody a pid and read no vm.pid.                    *)
<1>1. ASSUME pid' = pid, foreign' \subseteq foreign, pending' \subseteq pending,
             \A r \in Run : /\ stage'[r] = "unborn" <=> stage[r] = "unborn"
                            /\ life'[r] = "none" <=> life[r] = "none"
                            /\ Holds(r)' => Holds(r)
      PROVE  SignalInv'
  BY <1>1
<1>2. ASSUME NEW v \in VMs, CreateVM(v) \/ FinishDelete(v) PROVE SignalInv'
  BY <1>1, <1>2 DEF CreateVM, FinishDelete
<1>3. ASSUME NEW v \in VMs, ReadPidFile(v) PROVE SignalInv'
  <2>1. \E r \in Run : r[1] = v /\ pid[r] = file[v]
    BY <1>3 DEF ReadPidFile, PidFileNamesRun
  <2> QED
    BY <1>3, <2>1 DEF ReadPidFile
<1>4. ASSUME NEW v \in VMs, BeginDelete(v) PROVE SignalInv'
  BY <1>1, <1>4, StageAfterUnlinkFacts DEF BeginDelete
<1>5. ASSUME NEW r \in Run, NEW p \in Pids, ForkRunner(r, p) PROVE SignalInv'
  <2>1. p \notin foreign /\ \A q \in Run : Holds(q) => pid[q] # p
    BY <1>5 DEF ForkRunner, FreePids, Used, InUse
  <2> QED
    BY <1>5, <2>1 DEF ForkRunner
<1>6. ASSUME NEW r \in Run, OpenPidFile(r) \/ WritePid(r) \/ PidFileFails(r) PROVE SignalInv'
  BY <1>1, <1>6 DEF OpenPidFile, WritePid, PidFileFails
<1>7. ASSUME NEW r \in Run, Reap(r) \/ Notify(r) \/ Exit(r) PROVE SignalInv'
  BY <1>1, <1>7 DEF Reap, Notify, Exit, Alive
<1>8. ASSUME NEW r \in Run, RemovePidFile(r) PROVE SignalInv'
  BY <1>1, <1>8, StageAfterUnlinkFacts DEF RemovePidFile
<1>9. ASSUME NEW v \in VMs, NEW p \in Pids, Signal(v, p) PROVE SignalInv'
  BY <1>1, <1>9 DEF Signal
<1>10. ASSUME NEW p \in Pids, ForeignStart(p) \/ ForeignExit(p) PROVE SignalInv'
  <2>1. ForeignStart(p) => \A q \in Run : Holds(q) => pid[q] # p
    BY DEF ForeignStart, FreePids, Used, InUse
  <2> QED
    BY <1>10, <2>1 DEF ForeignStart, ForeignExit
<1>11. ASSUME DriverExit PROVE SignalInv'
  BY <1>1, <1>11 DEF DriverExit
<1>12. ASSUME UNCHANGED vars PROVE SignalInv'
  BY <1>1, <1>12 DEF vars
<1> QED
  BY <1>2, <1>3, <1>4, <1>5, <1>6, <1>7, <1>8, <1>9, <1>10, <1>11, <1>12 DEF Next, Handler

(* What a StopVM has read is the pid of a run of its own VM, and nobody    *)
(* else's before that run was reaped: whoever calls, whatever fails, and   *)
(* however soon the host hands a pid out again.                            *)
THEOREM SignalsAreOwn == Spec => []SignalsGoHome
<1>1. WorldInv /\ SignalInv => SignalsGoHome
  <2> SUFFICES ASSUME WorldInv, SignalInv, NEW v \in VMs, NEW p \in Pids, <<v, p>> \in pending
               PROVE  /\ \E r \in Run : r[1] = v /\ pid[r] = p
                      /\ (p \in foreign \/ \E q \in Run : q[1] # v /\ Holds(q) /\ pid[q] = p) =>
                           \A r \in Run : r[1] = v /\ pid[r] = p => life[r] = "reaped"
    BY DEF SignalsGoHome
  <2>1. \E r \in Run : r[1] = v /\ pid[r] = p
    BY DEF SignalInv, PendingIsOwn
  <2>2. ASSUME p \in foreign \/ \E q \in Run : q[1] # v /\ Holds(q) /\ pid[q] = p,
               NEW r \in Run, r[1] = v, pid[r] = p
        PROVE  life[r] = "reaped"
    <3>1. ~Holds(r)
      BY <2>2 DEF SignalInv, HoldersDiffer
    <3>2. stage[r] # "unborn"
      BY <2>2, ConstantsAssumption DEF SignalInv, UnbornHasNoPid
    <3> QED
      BY <3>1, <3>2 DEF SignalInv, UnbornHasNoPid, Holds, WorldInv, TypeOK, Lives
  <2> QED
    BY <2>1, <2>2
<1>2. Spec => []SignalInv
  BY InitSignalInv, NextSignalInv, WorldInvariant, PTL DEF Spec, Safe
<1> QED
  BY <1>1, <1>2, WorldInvariant, PTL

-----------------------------------------------------------------------------
(* The reliable driver.                                                    *)
LEMMA InitIInv == Init => IInv
BY ConstantsAssumption, InitWorldInv
   DEF Init, WorldInv, IInv, OneActive, LifeFitsStage, FileFitsStage, ActiveHasDirectory,
       Active, ActiveStages, Holds

(* A VM whose callers may start it has no active run.                      *)
LEMMA IdleHasNoActive ==
  ASSUME IInv, NEW r \in Run, Idle(r[1])
  PROVE  \A q \in Run : q[1] = r[1] => ~Active(q)
BY ConstantsAssumption
   DEF IInv, TypeOK, Stages, Idle, FileFitsStage, LifeFitsStage, Active, ActiveStages

LEMMA NextIInv == Reliable /\ IInv /\ [Next]_vars => IInv'
<1> SUFFICES ASSUME Reliable, IInv, [Next]_vars PROVE IInv'
  OBVIOUS
<1> USE RunHasVM, ConstantsAssumption
    DEF IInv, TypeOK, Stages, Lives, OneActive, LifeFitsStage, FileFitsStage, ActiveHasDirectory,
        Active, ActiveStages, Holds
<1>1. ASSUME NEW v \in VMs, CreateVM(v) PROVE IInv'
  BY <1>1 DEF CreateVM
<1>2. ASSUME NEW v \in VMs, ReadPidFile(v) PROVE IInv'
  BY <1>2 DEF ReadPidFile
<1>3. ASSUME NEW v \in VMs, BeginDelete(v) PROVE IInv'
  <2>1. stage' = stage
    BY <1>3, StageAfterUnlinkFacts DEF BeginDelete, Reliable
  <2> QED
    BY <1>3, <2>1 DEF BeginDelete, Reliable, Idle
<1>4. ASSUME NEW v \in VMs, FinishDelete(v) PROVE IInv'
  BY <1>4 DEF FinishDelete
<1>5. ASSUME NEW r \in Run, NEW p \in Pids, ForkRunner(r, p) PROVE IInv'
  <2>1. Idle(r[1]) /\ r[1] \in dir
    BY <1>5 DEF ForkRunner, Reliable
  <2>2. \A q \in Run : q[1] = r[1] => ~Active(q)
    BY <2>1, IdleHasNoActive
  <2> QED
    BY <1>5, <2>1, <2>2 DEF ForkRunner, Idle
<1>6. ASSUME NEW r \in Run, OpenPidFile(r) PROVE IInv'
  BY <1>6 DEF OpenPidFile
<1>7. ASSUME NEW r \in Run, WritePid(r) PROVE IInv'
  BY <1>7 DEF WritePid
<1>8. ASSUME NEW r \in Run, PidFileFails(r) PROVE IInv'
  BY <1>8 DEF PidFileFails, Reliable
<1>9. ASSUME NEW r \in Run, Exit(r) PROVE IInv'
  BY <1>9 DEF Exit, Alive
<1>10. ASSUME NEW r \in Run, Reap(r) PROVE IInv'
  BY <1>10 DEF Reap
<1>11. ASSUME NEW r \in Run, RemovePidFile(r) PROVE IInv'
  <2>1. \A q \in Run : q[1] = r[1] => stage[q] # "opened"
    BY <1>11 DEF RemovePidFile
  <2>2. StageAfterUnlink(r[1]) = stage
    BY <2>1 DEF StageAfterUnlink
  <2>3. stage' = [stage EXCEPT ![r] = "notify"]
    BY <1>11, <2>2 DEF RemovePidFile
  <2>4. \A q \in Run : q[1] = r[1] => ~Active(q)'
    BY <1>11, <2>3 DEF RemovePidFile
  <2>5. TypeOK'
    BY <1>11, <2>3 DEF RemovePidFile
  <2>6. LifeFitsStage'
    BY <1>11, <2>3 DEF RemovePidFile
  <2>7. FileFitsStage'
    <3>1. ASSUME NEW q \in Run, q[1] = r[1], stage'[q] \in ActiveStages PROVE FALSE
      BY <2>4, <3>1
    <3>2. ASSUME NEW q \in Run, q[1] # r[1] PROVE file'[q[1]] = file[q[1]] /\ stage'[q] = stage[q]
      BY <1>11, <2>3, <3>2 DEF RemovePidFile
    <3> QED
      BY <1>11, <2>3, <3>1, <3>2 DEF RemovePidFile
  <2>8. OneActive' /\ ActiveHasDirectory'
    BY <1>11, <2>3, <2>4 DEF RemovePidFile
  <2> QED
    BY <2>5, <2>6, <2>7, <2>8
<1>12. ASSUME NEW r \in Run, Notify(r) PROVE IInv'
  BY <1>12 DEF Notify
<1>13. ASSUME NEW v \in VMs, NEW p \in Pids, Signal(v, p) PROVE IInv'
  BY <1>13 DEF Signal
<1>14. ASSUME NEW p \in Pids, ForeignStart(p) \/ ForeignExit(p) PROVE IInv'
  BY <1>14 DEF ForeignStart, ForeignExit
<1>15. ASSUME DriverExit PROVE IInv'
  BY <1>15 DEF DriverExit, Reliable
<1>16. ASSUME UNCHANGED vars PROVE IInv'
  BY <1>16 DEF vars
<1> QED
  BY <1>1, <1>2, <1>3, <1>4, <1>5, <1>6, <1>7, <1>8, <1>9, <1>10, <1>11, <1>12, <1>13, <1>14,
     <1>15, <1>16 DEF Next, Handler
LEMMA ReliableInvariant == Reliable /\ Safe => []IInv
<1>1. CASE Reliable
  <2>1. IInv /\ [Next]_vars => IInv'
    BY <1>1, NextIInv
  <2> QED
    BY <2>1, InitIInv, PTL DEF Safe
<1>2. CASE ~Reliable
  BY <1>2
<1> QED
  BY <1>1, <1>2

(* A live runner is at a stage its StartVM or its goroutine still acts on. *)
LEMMA AliveIsActive ==
  ASSUME IInv, NEW r \in Run, Alive(r)
  PROVE  Active(r) /\ stage[r] \in {"forked", "opened", "wait"}
BY DEF IInv, TypeOK, Stages, LifeFitsStage, Alive, Active, ActiveStages

(* Disciplined callers of a reliable driver never run a VM twice at once.  *)
THEOREM NeverTwoRunners == Reliable => (Spec => []SingleRunner)
<1>1. IInv => SingleRunner
  BY AliveIsActive DEF SingleRunner, IInv, OneActive
<1> QED
  BY <1>1, ReliableInvariant, PTL DEF Spec

(* From the return of StartVM on, StopVM finds the runner.                 *)
THEOREM AlwaysStoppable == Reliable => (Spec => []StartedIsStoppable)
<1>1. IInv => StartedIsStoppable
  BY DEF StartedIsStoppable, IInv, FileFitsStage
<1> QED
  BY <1>1, ReliableInvariant, PTL DEF Spec

(* No DeleteVM that checks vm.pid takes the directory of a live runner.    *)
THEOREM DirectoryKept == Reliable => (Spec => []LiveRunnerKeepsDirectory)
<1>1. IInv => LiveRunnerKeepsDirectory
  BY AliveIsActive DEF LiveRunnerKeepsDirectory, IInv, ActiveHasDirectory
<1> QED
  BY <1>1, ReliableInvariant, PTL DEF Spec

-----------------------------------------------------------------------------
(* The refinement of VmSlot.                                               *)
PhaseOf == [r \in Run |-> Phase(r)]

LEMMA InitImplements == Init => Slot!Init
BY DEF Init, Slot!Init, Slot!Run, Run, Phase, Alive

(* A step that leaves every run's phase alone is a stutter of VmSlot.      *)
LEMMA NextImplements == Reliable /\ IInv /\ IInv' /\ [Next]_vars => [Slot!Next]_PhaseOf
<1> SUFFICES ASSUME Reliable, IInv, IInv', [Next]_vars PROVE [Slot!Next]_PhaseOf
  OBVIOUS
<1> USE DEF PhaseOf
<1>1. ASSUME stage' = stage, life' = life PROVE UNCHANGED PhaseOf
  BY <1>1 DEF Phase, Alive
<1>2. ASSUME NEW r \in Run, NEW p \in Pids, ForkRunner(r, p) PROVE Slot!Start(r)
  <2>1. Idle(r[1])
    BY <1>2 DEF ForkRunner, Reliable
  <2>2. \A q \in Run : q[1] = r[1] => ~Alive(q)
    BY <2>1, IdleHasNoActive, AliveIsActive
  <2>3. PhaseOf' = [PhaseOf EXCEPT ![r] = "up"]
    BY <1>2 DEF ForkRunner, Phase, Alive, IInv, TypeOK
  <2> QED
    BY <1>2, <2>2, <2>3 DEF ForkRunner, Slot!Start, Slot!Run, Run, Phase
<1>3. ASSUME NEW r \in Run, OpenPidFile(r) \/ WritePid(r) \/ PidFileFails(r)
      PROVE  UNCHANGED PhaseOf
  <2>1. life' = life /\ stage[r] # "unborn" /\ stage[r] # "done"
    BY <1>3 DEF OpenPidFile, WritePid, PidFileFails
  <2>2. \E s \in Stages \ {"unborn", "done"} : stage' = [stage EXCEPT ![r] = s]
    BY <1>3 DEF OpenPidFile, WritePid, PidFileFails, Stages
  <2> QED
    BY <2>1, <2>2 DEF Phase, Alive, IInv, TypeOK
<1>4. ASSUME NEW r \in Run, Exit(r) PROVE Slot!End(r)
  <2>1. stage[r] \notin {"unborn", "done"}
    BY <1>4, AliveIsActive DEF Exit
  <2>2. PhaseOf' = [PhaseOf EXCEPT ![r] = "down"]
    BY <1>4, <2>1 DEF Exit, Phase, Alive, IInv, TypeOK
  <2> QED
    BY <1>4, <2>1, <2>2 DEF Exit, Slot!End, Phase
<1>5. ASSUME NEW r \in Run, Reap(r) PROVE UNCHANGED PhaseOf
  BY <1>5 DEF Reap, Phase, Alive, IInv, TypeOK
<1>6. ASSUME NEW r \in Run, RemovePidFile(r) PROVE UNCHANGED PhaseOf
  <2>1. \A q \in Run : q # r => stage'[q] = stage[q] \/ {stage[q], stage'[q]} = {"opened", "unlinked"}
    BY <1>6, RunHasVM, StageAfterUnlinkFacts DEF RemovePidFile, IInv, TypeOK
  <2>2. stage[r] = "remove" /\ stage'[r] = "notify" /\ life' = life
    BY <1>6, RunHasVM, StageAfterUnlinkFacts DEF RemovePidFile, IInv, TypeOK
  <2> QED
    BY <2>1, <2>2 DEF Phase, Alive
<1>7. ASSUME NEW r \in Run, Notify(r) PROVE Slot!Report(r)
  <2>1. life[r] = "reaped" /\ life' = life
    BY <1>7 DEF Notify, IInv, LifeFitsStage
  <2>2. PhaseOf' = [PhaseOf EXCEPT ![r] = "reported"]
    BY <1>7, <2>1 DEF Notify, Phase, Alive, IInv, TypeOK
  <2> QED
    BY <1>7, <2>1, <2>2 DEF Notify, Slot!Report, Phase, Alive
<1>8. ASSUME NEW v \in VMs, BeginDelete(v) PROVE UNCHANGED PhaseOf
  <2>1. stage' = stage /\ life' = life
    BY <1>8, StageAfterUnlinkFacts
       DEF BeginDelete, Reliable, IInv, TypeOK, Active, ActiveStages, StageAfterUnlink
  <2> QED
    BY <1>1, <2>1
<1>9. ASSUME NEW v \in VMs, CreateVM(v) \/ ReadPidFile(v) \/ FinishDelete(v)
      PROVE  UNCHANGED PhaseOf
  BY <1>1, <1>9 DEF CreateVM, ReadPidFile, FinishDelete
<1>10. ASSUME NEW v \in VMs, NEW p \in Pids, Signal(v, p) PROVE UNCHANGED PhaseOf
  BY <1>1, <1>10 DEF Signal
<1>11. ASSUME NEW p \in Pids, ForeignStart(p) \/ ForeignExit(p) PROVE UNCHANGED PhaseOf
  BY <1>1, <1>11 DEF ForeignStart, ForeignExit
<1>12. ~DriverExit
  BY DEF DriverExit, Reliable
<1>13. ASSUME UNCHANGED vars PROVE UNCHANGED PhaseOf
  BY <1>1, <1>13 DEF vars
<1> QED
  BY <1>2, <1>3, <1>4, <1>5, <1>6, <1>7, <1>8, <1>9, <1>10, <1>11, <1>12, <1>13
     DEF Next, Handler, Slot!Next, Slot!Run, Run

(* The safety half of ImplementsSlot, for any VMs and any number of runs;  *)
(* that every end is reported stays with the model checker.                *)
THEOREM ImplementsSlotSafely == Reliable => (Spec => Slot!Safe)
<1>1. CASE Reliable
  <2>1. IInv /\ IInv' /\ [Next]_vars => [Slot!Next]_PhaseOf
    BY <1>1, NextImplements
  <2>2. Safe => []IInv
    BY <1>1, ReliableInvariant
  <2>3. Safe => Slot!Safe
    BY <2>1, <2>2, InitImplements, PTL DEF Safe, Slot!Safe, PhaseOf
  <2> QED
    BY <2>3, PTL DEF Spec
<1>2. CASE ~Reliable
  BY <1>2
<1> QED
  BY <1>1, <1>2
=============================================================================
