------------------------------- MODULE Disks --------------------------------
(***************************************************************************)
(* The disk images of several VMs and the images of the host they are made *)
(* from: placeArtefact of cmd/weft-driver-vz/provision_darwin.go,          *)
(* AttachDisk and DetachDisk of builtin/hypervisor.go, and the runners     *)
(* that open what is there (builtin/vmrun.go).  VmDir looks at one         *)
(* directory and names whole files; this module tells names from files, as *)
(* by default a VM's disk is a symbolic link to the image itself.          *)
(*                                                                         *)
(* Each VM has one disk, which stands for its disk.img or a data-N.img.    *)
(* Calls for different VMs overlap, also with running guests; those for    *)
(* one VM come one after another, and no VM starts during a call for it.   *)
(***************************************************************************)
CONSTANTS
  VMs,           \* the VMs
  Images,        \* paths outside the VM directories, given to --image
  Files,         \* bound: files that can exist besides the first images
  Absent,        \* no file, no name
  Blank,         \* made by AttachDisk
  Partial,       \* opened, but not written to its end
  MayFail,       \* a call can fail, or its process crash, between two steps
  RemoveMayFail  \* os.Remove in placeArtefact, whose error is ignored, can fail

ASSUME DisksAssumption ==
  /\ Images \cap Files = {}
  /\ Absent \notin Images \cup Files
  /\ Blank # Partial /\ {Blank, Partial} \cap Images = {}
  /\ {MayFail, RemoveMayFail} \subseteq BOOLEAN

Inodes == Images \cup Files    \* an image is the name of its first file

VARIABLES
  image,    \* image[i]: the file at path i
  disk,     \* disk[v]: what v's disk is: a file, or a link to the path i
  content,  \* content[f]: what f was made from, and the guests that wrote to it
  call,     \* call[v]: the placeArtefact under way for v
  placed,   \* placed[v]: how the last provision to return nil has placed v's disk
  open      \* open[v]: the file v's runner has open

vars == <<image, disk, content, call, placed, open>>

Idle == [at |-> "idle", how |-> "link", src |-> Absent, from |-> Absent, into |-> Absent]

TypeOK ==
  /\ image \in [Images -> Inodes \cup {Absent}]
  /\ disk \in [VMs -> Inodes \cup {Absent}]
  /\ content \in [Inodes -> [base : Images \cup {Blank, Partial}, by : SUBSET VMs]]
  /\ call \in [VMs -> [at : {"idle", "remove", "place", "fill"}, how : {"link", "copy"},
                       src : Images \cup {Absent}, from : Inodes \cup {Absent},
                       into : Inodes \cup {Absent}]]
  /\ placed \in [VMs -> {"none", "link", "copy"}]
  /\ open \in [VMs -> Inodes \cup {Absent}]

(* What stat and open find at the path of v's disk: they follow a link.    *)
Resolve(v) == IF disk[v] \in Images THEN image[disk[v]] ELSE disk[v]

(* The files that have a name or that somebody has open.                   *)
Live(f) == \/ \E i \in Images : image[i] = f
           \/ \E v \in VMs : f \in {disk[v], open[v], call[v].from, call[v].into}

Free == {f \in Files : ~Live(f)}

(* Opening v's disk to create it: the file that is there, or a fresh one,  *)
(* which takes the name a dangling link leads to.                          *)
CreateAt(v, f) ==
  /\ IF Resolve(v) = Absent THEN f \in Free ELSE f = Resolve(v)
  /\ disk' = IF disk[v] = Absent THEN [disk EXCEPT ![v] = f] ELSE disk
  /\ image' = IF disk[v] \in Images THEN [image EXCEPT ![disk[v]] = f] ELSE image

Init ==
  /\ image = [i \in Images |-> i]
  /\ disk = [v \in VMs |-> Absent]
  /\ content = [f \in Inodes |-> [base |-> IF f \in Images THEN f ELSE Blank, by |-> {}]]
  /\ call = [v \in VMs |-> Idle]
  /\ placed = [v \in VMs |-> "none"]
  /\ open = [v \in VMs |-> Absent]

(* placeArtefact: the source has to be there.                              *)
Begin(v, i, how) ==
  /\ call[v] = Idle
  /\ image[i] # Absent
  /\ call' = [call EXCEPT ![v] = [Idle EXCEPT !.at = "remove", !.how = how, !.src = i]]
  /\ placed' = [placed EXCEPT ![v] = "none"]
  /\ UNCHANGED <<image, disk, content, open>>

At(v, where) == call[v].at = where

(* Mutant: what is in the way is written over, not removed.                *)
RemoveNothing(v) ==
  /\ At(v, "remove")
  /\ call' = [call EXCEPT ![v].at = "place"]
  /\ UNCHANGED <<image, disk, content, placed, open>>

(* os.Remove(dst): the name goes, a link is not followed.                  *)
RemoveOld(v) ==
  /\ At(v, "remove")
  /\ \E left \in {Absent} \cup (IF RemoveMayFail THEN {disk[v]} ELSE {}) :
       disk' = [disk EXCEPT ![v] = left]
  /\ call' = [call EXCEPT ![v].at = "place"]
  /\ UNCHANGED <<image, content, placed, open>>

Return(v, how) ==
  /\ call' = [call EXCEPT ![v] = Idle]
  /\ placed' = [placed EXCEPT ![v] = how]

(* Without --copy: os.Symlink, which fails (GiveUp) on a name that is      *)
(* there but does not look at the source again.                            *)
Link(v) ==
  /\ At(v, "place") /\ call[v].how = "link"
  /\ disk[v] = Absent
  /\ disk' = [disk EXCEPT ![v] = call[v].src]
  /\ Return(v, "link")
  /\ UNCHANGED <<image, content, open>>

(* Mutant: where clonefile is not supported a link does.                   *)
CloneOrLink(v, f) ==
  /\ At(v, "place") /\ call[v].how = "copy"
  /\ disk[v] = Absent
  /\ disk' = [disk EXCEPT ![v] = call[v].src]
  /\ Return(v, "copy")
  /\ UNCHANGED <<image, content, open>>

(* With --copy: clonefile, whole or not at all, ...                        *)
Clone(v, f) ==
  /\ At(v, "place") /\ call[v].how = "copy"
  /\ disk[v] = Absent
  /\ image[call[v].src] # Absent
  /\ f \in Free
  /\ disk' = [disk EXCEPT ![v] = f]
  /\ content' = [content EXCEPT ![f] = content[image[call[v].src]]]
  /\ Return(v, "copy")
  /\ UNCHANGED <<image, open>>

(* ... or, where it is not supported, open both, truncating dst, ...       *)
OpenCopy(v, f) ==
  /\ At(v, "place") /\ call[v].how = "copy"
  /\ image[call[v].src] # Absent
  /\ CreateAt(v, f)
  /\ content' = [content EXCEPT ![f] = [base |-> Partial, by |-> {}]]
  /\ call' = [call EXCEPT ![v].at = "fill", ![v].from = image[call[v].src], ![v].into = f]
  /\ UNCHANGED <<placed, open>>

(* Mutant: the copy is of the file, not of what is in it.                  *)
FillCopyByName(v) ==
  /\ At(v, "fill")
  /\ content' = [content EXCEPT ![call[v].into].base = call[v].from]
  /\ Return(v, "copy")
  /\ UNCHANGED <<image, disk, open>>

(* ... and copy.                                                           *)
FillCopy(v) ==
  /\ At(v, "fill")
  /\ content' = [content EXCEPT ![call[v].into] = content[call[v].from]]
  /\ Return(v, "copy")
  /\ UNCHANGED <<image, disk, open>>

(* Mutant: the error of io.Copy is not returned.                           *)
GiveUpAndReturnNil(v) ==
  /\ At(v, "fill")
  /\ MayFail
  /\ Return(v, "copy")
  /\ UNCHANGED <<image, disk, content, open>>

(* A step fails, as it must when the source or the destination is not as   *)
(* it has to be, or the process crashes.  Nothing is undone.               *)
GiveUp(v) ==
  /\ call[v] # Idle
  /\ \/ MayFail
     \/ At(v, "place") /\ image[call[v].src] = Absent /\ call[v].how = "copy"
     \/ At(v, "place") /\ disk[v] # Absent
  /\ Return(v, "none")
  /\ UNCHANGED <<image, disk, content, open>>

(* AttachDisk with a positive size where stat finds nothing; otherwise it  *)
(* changes nothing.  vz.CreateDiskImage creates by path, so a link to an   *)
(* image that is gone brings back the image.                               *)
Attach(v, f) ==
  /\ call[v] = Idle
  /\ Resolve(v) = Absent
  /\ CreateAt(v, f)
  /\ content' = [content EXCEPT ![f] = [base |-> Blank, by |-> {}]]
  /\ UNCHANGED <<call, placed, open>>

(* DetachDisk, whatever v's runner has open; DeleteVM does the same.       *)
Detach(v) ==
  /\ call[v] = Idle
  /\ disk[v] # Absent
  /\ disk' = [disk EXCEPT ![v] = Absent]
  /\ placed' = [placed EXCEPT ![v] = "none"]
  /\ UNCHANGED <<image, content, call, open>>

(* The runner opens the disk by its path.                                  *)
Start(v) ==
  /\ call[v] = Idle
  /\ open[v] = Absent
  /\ Resolve(v) # Absent
  /\ open' = [open EXCEPT ![v] = Resolve(v)]
  /\ UNCHANGED <<image, disk, content, call, placed>>

GuestWrites(v) ==
  /\ open[v] # Absent
  /\ content' = [content EXCEPT ![open[v]].by = @ \cup {v}]
  /\ UNCHANGED <<image, disk, call, placed, open>>

RunnerEnds(v) ==
  /\ open[v] # Absent
  /\ open' = [open EXCEPT ![v] = Absent]
  /\ UNCHANGED <<image, disk, content, call, placed>>

(* Somebody removes an image, in use or not.                               *)
RemoveImage(i) ==
  /\ image[i] # Absent
  /\ image' = [image EXCEPT ![i] = Absent]
  /\ UNCHANGED <<disk, content, call, placed, open>>

Place(v) == \/ RemoveOld(v)
            \/ Link(v)
            \/ FillCopy(v)
            \/ GiveUp(v)
            \/ \E f \in Inodes : Clone(v, f) \/ OpenCopy(v, f)

Runner(v) == Start(v) \/ GuestWrites(v) \/ RunnerEnds(v)

Next ==
  \/ \E v \in VMs : Place(v) \/ Detach(v) \/ Runner(v)
  \/ \E v \in VMs, i \in Images, how \in {"link", "copy"} : Begin(v, i, how)
  \/ \E v \in VMs, f \in Inodes : Attach(v, f)
  \/ \E i \in Images : RemoveImage(i)

Spec == Init /\ [][Next]_vars
-----------------------------------------------------------------------------
(* f's content changes, if it does, by a guest's write to the file that    *)
(* the guest's runner has open.                                            *)
OnlyWrittenBy(vms, f) ==
  content'[f] = content[f] \/
    \E v \in vms : /\ open[v] = f
                   /\ content'[f] = [content[f] EXCEPT !.by = @ \cup {v}]

(* A file in use: an image, a runner's disk, or the disk of a VM that no   *)
(* call is at work on.                                                     *)
InUse(f) == \/ \E i \in Images : image[i] = f
            \/ \E v \in VMs : open[v] = f \/ (disk[v] = f /\ call[v] = Idle)

(* Placing, attaching and detaching disks changes no byte of an image, of  *)
(* the disk of a running guest, or of another VM's disk: only guests do    *)
(* ("BackingPath exists -> idempotent no-op"; a provision unlinks what is  *)
(* in its way).  Needs that os.Remove does not fail: a copy would be       *)
(* written through the link that is still there.                           *)
OnlyGuestsWrite == [][\A f \in Inodes : InUse(f) => OnlyWrittenBy(VMs, f)]_vars

(* "Copy artefacts into vmDir instead of symlinking": once a provision     *)
(* with --copy has returned, and until the next provision or DetachDisk,   *)
(* the VM's disk is one file, and nobody but the VM's own guest writes it. *)
CopyIsPrivate ==
  [][\A v \in VMs : placed[v] = "copy" /\ placed'[v] = "copy" =>
       /\ disk'[v] = disk[v]
       /\ OnlyWrittenBy({v}, disk[v])]_vars

(* A provision with --copy that returned nil has left a file of its own,   *)
(* copied to its end, whatever happens to image and guests; one without,   *)
(* a link.                                                                 *)
PlacedIsWhole ==
  \A v \in VMs :
    /\ placed[v] = "copy" => disk[v] \in Files /\ content[disk[v]].base # Partial
    /\ placed[v] = "link" => disk[v] \in Images
=============================================================================
