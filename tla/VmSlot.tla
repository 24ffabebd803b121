------------------------------- MODULE VmSlot -------------------------------
(***************************************************************************)
(* What the driver promises the scheduler about the runs of its VMs, with  *)
(* no files, pids or goroutines: a run is started when its VM has no live  *)
(* run, it ends at some point of its own, and its end is reported, once,   *)
(* after it happened.  Hypervisor implements this specification when the   *)
(* callers keep the protocol StartVM's comment asks of them.               *)
(***************************************************************************)
EXTENDS Naturals

CONSTANTS VMs,     \* the VMs, named by their directories
          Starts   \* how many times each is started: the labels of its runs

Run == VMs \X Starts

VARIABLE phase     \* of each run: "none", "up", "down" or "reported"

Phases == {"none", "up", "down", "reported"}

TypeOK == phase \in [Run -> Phases]

Init == phase = [r \in Run |-> "none"]

Start(r) ==
  /\ phase[r] = "none"
  /\ \A q \in Run : q[1] = r[1] => phase[q] # "up"
  /\ phase' = [phase EXCEPT ![r] = "up"]

End(r) ==
  /\ phase[r] = "up"
  /\ phase' = [phase EXCEPT ![r] = "down"]

Report(r) ==
  /\ phase[r] = "down"
  /\ phase' = [phase EXCEPT ![r] = "reported"]

Next == \E r \in Run : Start(r) \/ End(r) \/ Report(r)

Safe == Init /\ [][Next]_phase

Spec == Safe /\ \A r \in Run : WF_phase(Report(r))
=============================================================================
