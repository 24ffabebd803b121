-------------------------------- MODULE VmDir --------------------------------
(***************************************************************************)
(* One VM directory and the calls that fill and empty it: CreateVM,        *)
(* AttachDisk, DetachDisk and DeleteVM of builtin/hypervisor.go, the       *)
(* provision command of cmd/weft-driver-vz/provision_darwin.go, and the    *)
(* boots that read it (VzConfig).  Every call is a script of steps on      *)
(* single files; no lock is taken, so that the steps of two calls          *)
(* interleave; a step can fail, and the process of a call can crash        *)
(* between any two, in which case the files stay as they are.  What one    *)
(* call writes is named by that call, so contents of different generations *)
(* differ.                                                                 *)
(***************************************************************************)
EXTENDS VzConfig

CONSTANTS
  Calls,    \* bound: the calls made on the directory
  Kinds,    \* the kinds of call made: a subset of AllKinds
  Asked,    \* bound: the optional artefacts and the --mem-gib of a provision
  New,      \* written by weft-microvm or by a boot
  Tagless,  \* a config.json of weft-microvm with a share that has no tag
  Joins,    \* bound: pairs of kinds: a call of the first begins while the second runs
  MayFail,  \* a step can fail
  MayCrash  \* the process of a call can crash

AllKinds == {"create", "provision", "attach", "detach", "delete"}

ASSUME VmDirAssumption ==
  /\ Kinds \subseteq AllKinds
  /\ Asked \subseteq (SUBSET {"data", "cidata"}) \X Nat
  /\ {Absent, Partial, New, Tagless} \cap Calls = {}
  /\ Absent # Partial /\ {New, Tagless} \cap {Absent, Partial} = {} /\ New # Tagless
  /\ {MayFail, MayCrash} \subseteq BOOLEAN

VARIABLES
  file,      \* the directory
  kind,      \* kind[c]: which call c is, chosen when it begins
  wants,     \* wants[c]: the optional artefacts given to a provision
  mem,       \* mem[c]: the --mem-gib given to a provision
  pc,        \* pc[c]: the step of its script c is at
  sub,       \* sub[c]: where in that step
  result,    \* result[c]: how c has ended
  open,      \* open[f]: the calls that have the file f open for writing
  met,       \* history: met[c], the calls (and boots that made a file) during c
  good,      \* history: the last provision, if it returned nil, met no other
             \* call, and no provision or DeleteVM began since
  detached,  \* history: a DetachDisk has removed the data disk of good
  booted     \* history: the machine identifier of the last boot, if no call
             \* ran then, or since the first such boot since a provision began

callVars == <<kind, wants, mem, pc, sub, result, open, met, good, detached>>
vars == <<file, callVars, booted>>

Contents == Calls \cup {Absent, Partial, New, Tagless}
NoCall == Absent
NotBooted == Absent

-----------------------------------------------------------------------------
(* The scripts.                                                            *)
Step(op, f) == [op |-> op, file |-> f]

(* CreateVM: each identity file is made unless a stat finds it.            *)
CreateSteps == <<Step("ensure", "nvram"), Step("ensure", "machine-id"), Step("ensure", "mac")>>

Wipe == <<Step("remove", "nvram"), Step("remove", "machine-id"), Step("remove", "mac")>>

(* Mutant: the identity of an earlier provision is not wiped.              *)
ProvisionStepsNoWipe(w) ==
  <<Step("place", "disk")>>
    \o (IF "data" \in w THEN <<Step("place", "data")>> ELSE <<>>)
    \o (IF "cidata" \in w THEN <<Step("place", "cidata")>> ELSE <<>>)
    \o CreateSteps
    \o <<Step("write", "config")>>

ProvisionSteps(w) ==
  <<Step("place", "disk")>>
    \o (IF "data" \in w THEN <<Step("place", "data")>> ELSE <<>>)
    \o (IF "cidata" \in w THEN <<Step("place", "cidata")>> ELSE <<>>)
    \o Wipe
    \o CreateSteps
    \o <<Step("write", "config")>>

(* Mutant: the disk is made anew.                                          *)
AttachStepsAnew == <<Step("place", "data")>>

(* AttachDisk with a positive size makes a disk that is not there; without *)
(* one it can only find the disk or fail (Fail).                           *)
AttachSteps == <<Step("ensure", "data")>>

DetachSteps == <<Step("remove", "data")>>

(* DeleteVM is os.RemoveAll, on no file in particular.                     *)
DeleteSteps == <<Step("removeAll", "config")>>

Script(c) ==
  CASE kind[c] = "create"    -> CreateSteps
    [] kind[c] = "provision" -> ProvisionSteps(wants[c])
    [] kind[c] = "attach"    -> AttachSteps
    [] kind[c] = "detach"    -> DetachSteps
    [] kind[c] = "delete"    -> DeleteSteps

Running(c) == result[c] = "running"
At(c, op, s) == Running(c) /\ sub[c] = s /\ Script(c)[pc[c]].op = op
File(c) == Script(c)[pc[c]].file

(* An artefact is linked or cloned, whole or not at all, where that is     *)
(* possible; nvram.bin always is made so, by the framework (external).     *)
MayBeWhole(c) == File(c) \in {"nvram", "disk", "data", "cidata"}
MustBeWhole(c) == File(c) = "nvram"

(* Link, clone and the framework's creation of a disk refuse a path that   *)
(* exists; its EFI store is overwritten.                                   *)
NeedsAbsent(c) == File(c) # "nvram"

(* No other call has run while c did.                                      *)
Alone(c) == met[c] \subseteq {New}

TypeOK ==
  /\ file \in [Names -> Contents]
  /\ kind \in [Calls -> AllKinds]
  /\ wants \in [Calls -> SUBSET {"data", "cidata"}]
  /\ mem \in [Calls -> Nat]
  /\ \A c \in Calls : Running(c) => pc[c] \in 1..Len(Script(c))
  /\ sub \in [Calls -> {"begin", "open", "write"}]
  /\ result \in [Calls -> {"none", "running", "ok", "failed"}]
  /\ open \in [Names -> SUBSET Calls]
  /\ met \in [Calls -> SUBSET (Calls \cup {New})]
  /\ detached \in BOOLEAN
  /\ good \in Calls \cup {NoCall}
  /\ booted \in Contents

(* A classic directory, perhaps with a kernel to try, or a microVM's.      *)
Befores == ({{}, {"kernel"}} \X {Absent}) \cup {<<{"kernel"}, New>>, <<{"boot.iso"}, Tagless>>}

Init ==
  /\ \E b \in Befores :
       file = [f \in Names |-> IF f = "config" THEN b[2]
                              ELSE IF f \in b[1] THEN New ELSE Absent]
  /\ kind = [c \in Calls |-> "create"]
  /\ wants = [c \in Calls |-> {}]
  /\ mem = [c \in Calls |-> 0]
  /\ pc = [c \in Calls |-> 1]
  /\ sub = [c \in Calls |-> "begin"]
  /\ result = [c \in Calls |-> "none"]
  /\ open = [f \in Names |-> {}]
  /\ met = [c \in Calls |-> {}]
  /\ good = NoCall
  /\ detached = FALSE
  /\ booted = NotBooted

(* Those that run meet what comes.                                         *)
MetBy(what) == [c \in Calls |-> IF Running(c) THEN met[c] \cup {what} ELSE met[c]]

Nothing == <<{}, 0>>

Begin(c, k, a) ==
  /\ result[c] = "none"
  /\ \A d \in Calls : Running(d) => <<k, kind[d]>> \in Joins
  /\ IF k = "provision" THEN a \in Asked ELSE a = Nothing
  /\ kind' = [kind EXCEPT ![c] = k]
  /\ wants' = [wants EXCEPT ![c] = a[1]]
  /\ mem' = [mem EXCEPT ![c] = a[2]]
  /\ result' = [result EXCEPT ![c] = "running"]
  /\ met' = [MetBy(c) EXCEPT ![c] = {d \in Calls : Running(d)}]
  /\ IF k \in {"provision", "delete"}
       THEN good' = NoCall /\ detached' = FALSE /\ booted' = NotBooted
       ELSE UNCHANGED <<good, detached, booted>>
  /\ UNCHANGED <<file, pc, sub, open>>

Args == <<kind, wants, mem>>

(* The call is over, and its files are closed; its place in the script is  *)
(* of no further use, nor is what it was asked for unless it is a          *)
(* provision that succeeded (forgotten to save states).                    *)
End(c, how) ==
  /\ result' = [result EXCEPT ![c] = how]
  /\ good' = IF how = "ok" /\ kind[c] = "provision" /\ met[c] = {} THEN c ELSE good
  /\ pc' = [pc EXCEPT ![c] = 1]
  /\ sub' = [sub EXCEPT ![c] = "begin"]
  /\ met' = [met EXCEPT ![c] = {}]
  /\ IF how = "ok" /\ kind[c] = "provision"
       THEN UNCHANGED Args
       ELSE /\ kind' = [kind EXCEPT ![c] = "create"]
            /\ wants' = [wants EXCEPT ![c] = {}]
            /\ mem' = [mem EXCEPT ![c] = 0]

(* Mutant: one step too many.                                              *)
AdvancePastEnd(c) ==
  IF pc[c] <= Len(Script(c))
    THEN /\ pc' = [pc EXCEPT ![c] = @ + 1]
         /\ sub' = [sub EXCEPT ![c] = "begin"]
         /\ UNCHANGED <<result, met, good, Args>>
    ELSE End(c, "ok")

(* The step is done: on to the next one, or the call returns nil.          *)
Advance(c) ==
  IF pc[c] < Len(Script(c))
    THEN /\ pc' = [pc EXCEPT ![c] = @ + 1]
         /\ sub' = [sub EXCEPT ![c] = "begin"]
         /\ UNCHANGED <<result, met, good, Args>>
    ELSE End(c, "ok")

Enter(c, s) == sub' = [sub EXCEPT ![c] = s] /\ UNCHANGED <<pc, result, met, good, Args>>

Put(c, content) == file' = [file EXCEPT ![File(c)] = content]

(* The file loses its name; who has it open goes on writing to it.         *)
Unlink(f) ==
  /\ file' = [file EXCEPT ![f] = Absent]
  /\ open' = [open EXCEPT ![f] = {}]

(* Mutant: the file is made whether or not it exists.                      *)
StatMissing(c) ==
  /\ At(c, "ensure", "begin")
  /\ Enter(c, "open")
  /\ UNCHANGED <<file, open, detached, booted>>

(* os.Stat: a file that exists is left alone, whatever is in it.           *)
Stat(c) ==
  /\ At(c, "ensure", "begin")
  /\ IF file[File(c)] # Absent THEN Advance(c) ELSE Enter(c, "open")
  /\ UNCHANGED <<file, open, detached, booted>>

(* os.Remove, of a wipe, of DetachDisk, or of what is in placeArtefact's   *)
(* way.                                                                    *)
Remove(c) ==
  /\ \/ At(c, "remove", "begin") /\ Advance(c)
     \/ At(c, "place", "begin") /\ Enter(c, "open")
  /\ Unlink(File(c))
  /\ detached' = (detached \/ (kind[c] = "detach" /\ good # NoCall))
  /\ UNCHANGED booted

(* os.RemoveAll: the files in no particular order, until there are none.   *)
RemoveAll(c) ==
  /\ At(c, "removeAll", "begin")
  /\ \/ \E f \in Names : /\ Exists(file, f)
                         /\ Unlink(f)
                         /\ UNCHANGED <<pc, sub, result, met, good, Args>>
     \/ (\A f \in Names : ~Exists(file, f)) /\ Advance(c) /\ UNCHANGED <<file, open>>
  /\ UNCHANGED <<detached, booted>>

(* A file that has to be written is opened with O_TRUNC, whatever is there *)
(* by now (but AttachDisk's, with O_EXCL), ...                             *)
Open(c) ==
  /\ \/ At(c, "write", "begin")
     \/ At(c, "ensure", "open") /\ (File(c) = "data" => ~Exists(file, "data"))
     \/ At(c, "place", "open")
  /\ ~MustBeWhole(c)
  /\ Put(c, Partial)
  /\ open' = [open EXCEPT ![File(c)] = @ \cup {c}]
  /\ Enter(c, "write")
  /\ UNCHANGED <<detached, booted>>

(* ... and filled, if it has kept its name.  What two calls write to one   *)
(* file is the last one's where both write equally much, as to the         *)
(* identity files; otherwise it may be a mixture.                          *)
Write(c) ==
  /\ Running(c) /\ sub[c] = "write"
  /\ IF c \in open[File(c)]
       THEN \/ Put(c, c)
            \/ ~Alone(c) /\ File(c) \notin Identity /\ Put(c, Partial)
       ELSE UNCHANGED file
  /\ open' = [open EXCEPT ![File(c)] = @ \ {c}]
  /\ Advance(c)
  /\ UNCHANGED <<detached, booted>>

(* Made in one call of the host.                                           *)
MakeWhole(c) ==
  /\ At(c, "ensure", "open") \/ At(c, "place", "open")
  /\ MayBeWhole(c)
  /\ NeedsAbsent(c) => ~Exists(file, File(c))
  /\ Put(c, c)
  /\ Advance(c)
  /\ UNCHANGED <<open, detached, booted>>

Close(c) == open' = [f \in Names |-> open[f] \ {c}]

(* A step fails and the call returns the error; nothing is undone.  Of     *)
(* the removals, only DetachDisk looks at the error.                       *)
Fail(c) ==
  /\ Running(c)
  /\ MayFail \/ (At(c, "ensure", "open") /\ File(c) = "data" /\ Exists(file, "data"))
  /\ Script(c)[pc[c]].op = "remove" => kind[c] = "detach"
  /\ End(c, "failed")
  /\ Close(c)
  /\ UNCHANGED <<file, detached, booted>>

Crash(c) ==
  /\ MayCrash
  /\ Running(c)
  /\ End(c, "failed")
  /\ Close(c)
  /\ UNCHANGED <<file, detached, booted>>

(* What the config.json of the directory says: that of a provision, or     *)
(* that of weft-microvm.                                                   *)
Config ==
  LET c == file["config"]
  IN  IF c \in Calls
        THEN [EmptyConfig EXCEPT !.data = "data" \in wants[c], !.mem = mem[c]]
        ELSE [EmptyConfig EXCEPT !.micro = TRUE,
                                 !.shares = IF c = Tagless THEN "broken" ELSE "whole"]

(* The VM is started, whatever the calls before have returned or are just  *)
(* doing.  An EFI variable store is created where there is none, even if   *)
(* the rest cannot be built.                                               *)
Boot ==
  /\ IF Loader(file) = "efi" /\ ~Exists(file, "nvram")
       THEN file' = [file EXCEPT !["nvram"] = New] /\ met' = MetBy(New)
       ELSE UNCHANGED <<file, met>>
  /\ booted' = IF Builds(file, Config) /\ (booted # NotBooted \/ \A c \in Calls : ~Running(c))
                 THEN file["machine-id"] ELSE booted
  /\ UNCHANGED <<kind, wants, mem, pc, sub, result, open, good, detached>>

Next ==
  \/ \E c \in Calls, k \in Kinds, a \in Asked \cup {Nothing} : Begin(c, k, a)
  \/ \E c \in Calls : Stat(c) \/ Remove(c) \/ RemoveAll(c) \/ Open(c) \/ Write(c) \/ MakeWhole(c)
                        \/ Fail(c) \/ Crash(c)
  \/ Boot

Spec == Init /\ [][Next]_vars
-----------------------------------------------------------------------------
Steps(c) == Running(c) /\ (pc'[c] # pc[c] \/ sub'[c] # sub[c] \/ result'[c] # result[c])

(* A step of a call of this kind.                                          *)
StepOf(k) == \E c \in Calls : kind[c] = k /\ Steps(c)

(* A step of a call of this kind that replaces what another call (or a     *)
(* boot) has made in the meantime: stat and write are two steps.           *)
LateStepOf(k, f) == \E c \in Calls : kind[c] = k /\ Steps(c) /\ file[f] \in met[c]

(* "Re-running with the same UUID is a no-op for any file that already     *)
(* exists", "a re-creation after a restart doesn't change the MAC": a      *)
(* complete identity file is removed only by a provision or DeleteVM, and  *)
(* replaced only by a provision or by a CreateVM that ran at the same time *)
(* as the call that made it.                                               *)
IdentityNeverReplaced ==
  [][\A f \in Identity : Complete(file, f) /\ file'[f] # file[f] =>
       \/ StepOf("provision")
       \/ \E c \in Calls : RemoveAll(c)
       \/ LateStepOf("create", f)]_vars

(* A complete data disk is removed only by a provision, DetachDisk or      *)
(* DeleteVM, and replaced only by a provision or by an AttachDisk that ran *)
(* at the same time as the provision that placed it.                       *)
DataNeverReplaced ==
  [][Complete(file, "data") /\ file'["data"] # file["data"] =>
       \/ StepOf("provision")
       \/ StepOf("detach") /\ file'["data"] = Absent
       \/ \E c \in Calls : RemoveAll(c)
       \/ LateStepOf("attach", "data")]_vars

(* "The same machine-id + nvram is what makes a guest recognise itself as  *)
(* the same machine across reboots": from a boot at which no call ran, up  *)
(* to the next provision or DeleteVM, every boot sees the same machine     *)
(* identifier, whatever CreateVMs run at the same time, and even if the    *)
(* first boot was of a directory that failed or overlapping CreateVMs      *)
(* left.                                                                   *)
SameMachineAcrossBoots ==
  [][booted # NotBooted /\ booted' # NotBooted => booted' = booted]_vars

(* A size that does not wrap in uint64.                                    *)
Fits(m) == m * GiB < Word

(* A provision that returned nil, and ran while no other call did, left a  *)
(* VM of its own, whatever calls overlapped, failed or crashed before it,  *)
(* a DeleteVM cut short among them, and even if the directory was a        *)
(* microVM's: the disk it was given as first block device ("Classic VMs    *)
(* always have disk.img"), its data disk until that is detached, its seed, *)
(* its config.json, a fresh identity, a window, and the memory asked for   *)
(* where that fits.  The VM boots, unless the memory wraps or the listed   *)
(* data disk is gone; and all of this lasts, with boots and other calls    *)
(* that may overlap and fail after it, until the next provision or         *)
(* DeleteVM.                                                               *)
ProvisionIsWhole ==
  good # NoCall =>
    /\ \A f \in {"disk", "config"} \cup Identity \cup wants[good] :
         file[f] = good \/ (f = "data" /\ detached)
    /\ Head(Storage(file, Config)) = Device("disk", FALSE)
    /\ DataListed(file, Config) <=> "data" \in wants[good]
    /\ Graphics(file, Config)
    /\ Fits(mem[good]) => /\ mem[good] > 0 => Memory(file, Config) = mem[good] * GiB
                          /\ ~detached \/ StorageBuilds(file, Config) => Builds(file, Config)

(* "These three files together encode the VM's persistent host identity":  *)
(* a CreateVM that returns nil leaves all three of them complete.  Fails   *)
(* when an earlier CreateVM was cut short in one of its writes, or another *)
(* is in the middle of one.                                                *)
CreatedMeansIdentity ==
  [][\A c \in Calls : kind[c] = "create" /\ Running(c) /\ result'[c] = "ok"
       => \A f \in Identity : Complete(file', f)]_vars
=============================================================================
