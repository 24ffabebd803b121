----------------------------- MODULE DisksProofs ------------------------------
(***************************************************************************)
(* Proofs about Disks for any set of VMs, images and files, whatever step  *)
(* of placeArtefact fails and whenever images go.  TypeCorrect needs no    *)
(* more; the others assume RemoveWorks, without which a copy is written    *)
(* through the link that os.Remove has left.                               *)
(***************************************************************************)
EXTENDS Disks, TLAPS

RemoveWorks == ~RemoveMayFail

(* What a placeArtefact under way holds, by the stage it is at.            *)
CallFitsStage ==
  \A v \in VMs :
    /\ At(v, "idle") => call[v] = Idle
    /\ ~At(v, "idle") => call[v].src \in Images /\ placed[v] = "none"
    /\ ~At(v, "fill") => call[v].from = Absent /\ call[v].into = Absent
    /\ At(v, "fill") => call[v].from \in Inodes /\ call[v].how = "copy"

(* After its os.Remove a call finds nothing in its way, and what it then   *)
(* opens to fill is a file of the VM's own that nobody has started from.   *)
CallHasPlace ==
  \A v \in VMs :
    /\ At(v, "place") => disk[v] = Absent
    /\ At(v, "fill") => disk[v] \in Files /\ call[v].into = disk[v] /\ open[v] # disk[v]

(* A disk that is a file, not a link, is known by this name only, and      *)
(* nobody but the VM's own runner and its own call has it open.            *)
DiskHasOneName ==
  \A v \in VMs : disk[v] \in Files =>
    /\ \A i \in Images : image[i] # disk[v]
    /\ \A w \in VMs : call[w].from # disk[v]
    /\ \A w \in VMs \ {v} : disk[v] \notin {disk[w], open[w], call[w].into}

(* What is copied is whole: the images, and the open source of a copy.     *)
SourceIsWhole ==
  /\ \A i \in Images : image[i] # Absent => content[image[i]].base # Partial
  /\ \A v \in VMs : At(v, "fill") => content[call[v].from].base # Partial

TypeInv == TypeOK /\ CallFitsStage

HolderInv == CallHasPlace /\ DiskHasOneName /\ SourceIsWhole /\ PlacedIsWhole

IInv == TypeInv /\ HolderInv
-----------------------------------------------------------------------------
(* A name that nobody holds: what a call may create at.                    *)
LEMMA FreeIsUnheld ==
  ASSUME NEW f \in Free
  PROVE  /\ f \in Files
         /\ \A i \in Images : image[i] # f
         /\ \A w \in VMs : f \notin {disk[w], open[w], call[w].from, call[w].into}
BY DEF Free, Live

LEMMA InodesAreNotAbsent == Absent \notin Inodes /\ Images \cap Files = {}
BY DisksAssumption DEF Inodes

(* With nothing in the way, a file is created under the VM's own name.     *)
LEMMA CreateAtNothing ==
  ASSUME TypeOK, NEW v \in VMs, NEW f, CreateAt(v, f), disk[v] = Absent
  PROVE  f \in Free /\ disk' = [disk EXCEPT ![v] = f] /\ image' = image
BY InodesAreNotAbsent DEF CreateAt, Resolve, Inodes

(* Where stat finds nothing, either there is no name or it is a link to an *)
(* image that is gone, which comes back.                                   *)
LEMMA CreateAtMissing ==
  ASSUME TypeOK, NEW v \in VMs, NEW f, CreateAt(v, f), Resolve(v) = Absent
  PROVE  /\ f \in Free
         /\ \/ disk[v] = Absent /\ disk' = [disk EXCEPT ![v] = f] /\ image' = image
            \/ /\ disk[v] \in Images
               /\ disk' = disk
               /\ image' = [image EXCEPT ![disk[v]] = f]
BY InodesAreNotAbsent DEF CreateAt, Resolve, TypeOK, Inodes

LEMMA ContentAfterWrite ==
  ASSUME NEW c \in [base : Images \cup {Blank, Partial}, by : SUBSET VMs], NEW v \in VMs
  PROVE  [c EXCEPT !.by = @ \cup {v}] = [base |-> c.base, by |-> c.by \cup {v}]
OBVIOUS

(* A guest's write changes the one file it has open, and not its origin.   *)
LEMMA AfterGuestWrites ==
  ASSUME TypeOK, NEW v \in VMs, GuestWrites(v)
  PROVE  /\ content' \in [Inodes -> [base : Images \cup {Blank, Partial}, by : SUBSET VMs]]
         /\ \A f \in Inodes : content'[f].base = content[f].base
         /\ \A f \in Inodes \ {open[v]} : content'[f] = content[f]
         /\ content'[open[v]] = [content[open[v]] EXCEPT !.by = @ \cup {v}]
<1>1. open[v] \in Inodes
  BY DEF GuestWrites, TypeOK
<1> DEFINE old == content[open[v]]
           new == [base |-> old.base, by |-> old.by \cup {v}]
<1>2. old \in [base : Images \cup {Blank, Partial}, by : SUBSET VMs]
  BY <1>1 DEF TypeOK
<1>3. new = [old EXCEPT !.by = @ \cup {v}]
  BY <1>2, ContentAfterWrite
<1>4. content' = [content EXCEPT ![open[v]] = new]
  BY <1>3 DEF GuestWrites
<1>5. new \in [base : Images \cup {Blank, Partial}, by : SUBSET VMs] /\ new.base = old.base
  BY <1>2
<1> HIDE DEF new
<1> QED
  BY <1>1, <1>3, <1>4, <1>5 DEF TypeOK

LEMMA InitTypeInv == Init => TypeInv
BY DEF Init, TypeInv, TypeOK, CallFitsStage, At, Idle, Inodes

LEMMA NextTypeInv == TypeInv /\ [Next]_vars => TypeInv'
<1> SUFFICES ASSUME TypeInv, [Next]_vars PROVE TypeInv'
  OBVIOUS
<1> USE InodesAreNotAbsent DEF TypeInv, TypeOK, CallFitsStage, At, Idle, Return
<1>1. ASSUME NEW v \in VMs, NEW i \in Images, NEW how \in {"link", "copy"}, Begin(v, i, how)
      PROVE  TypeInv'
  BY <1>1 DEF Begin
<1>2. ASSUME NEW v \in VMs, RemoveOld(v) PROVE TypeInv'
  BY <1>2 DEF RemoveOld
<1>3. ASSUME NEW v \in VMs, Link(v) PROVE TypeInv'
  BY <1>3 DEF Link, Inodes
<1>4. ASSUME NEW v \in VMs, NEW f \in Inodes, Clone(v, f) PROVE TypeInv'
  BY <1>4 DEF Clone
<1>5. ASSUME NEW v \in VMs, NEW f \in Inodes, OpenCopy(v, f) PROVE TypeInv'
  BY <1>5, SMTT(30) DEF OpenCopy, CreateAt
<1>6. ASSUME NEW v \in VMs, FillCopy(v) PROVE TypeInv'
  BY <1>6 DEF FillCopy
<1>7. ASSUME NEW v \in VMs, GiveUp(v) PROVE TypeInv'
  BY <1>7 DEF GiveUp
<1>8. ASSUME NEW v \in VMs, NEW f \in Inodes, Attach(v, f) PROVE TypeInv'
  BY <1>8 DEF Attach, CreateAt
<1>9. ASSUME NEW v \in VMs, Detach(v) PROVE TypeInv'
  BY <1>9 DEF Detach
<1>10. ASSUME NEW v \in VMs, Start(v) PROVE TypeInv'
  BY <1>10 DEF Start, Resolve
<1>11. ASSUME NEW v \in VMs, GuestWrites(v) PROVE TypeInv'
  BY <1>11, AfterGuestWrites DEF GuestWrites
<1>12. ASSUME NEW v \in VMs, RunnerEnds(v) PROVE TypeInv'
  BY <1>12 DEF RunnerEnds
<1>13. ASSUME NEW i \in Images, RemoveImage(i) PROVE TypeInv'
  BY <1>13 DEF RemoveImage
<1>14. ASSUME UNCHANGED vars PROVE TypeInv'
  BY <1>14 DEF vars
<1> HIDE DEF TypeInv
<1> QED
  BY <1>1, <1>2, <1>3, <1>4, <1>5, <1>6, <1>7, <1>8, <1>9, <1>10, <1>11, <1>12, <1>13, <1>14
  DEF Next, Place, Runner

LEMMA TypeInvariant == Spec => []TypeInv
BY InitTypeInv, NextTypeInv, PTL DEF Spec

(* Every reachable state is well typed; a call holds files only while it   *)
(* fills a copy, and then they are files.                                  *)
THEOREM TypeCorrect == Spec => []TypeOK
<1>1. TypeInv => TypeOK
  BY DEF TypeInv
<1> QED
  BY <1>1, TypeInvariant, PTL
-----------------------------------------------------------------------------
LEMMA InitHolderInv == Init => HolderInv
BY InodesAreNotAbsent, DisksAssumption
DEF Init, HolderInv, CallHasPlace, DiskHasOneName, SourceIsWhole, PlacedIsWhole, At, Idle, Inodes

(* The opening of a copy, in a place that the remove has made free.        *)
LEMMA OpenCopyFacts ==
  ASSUME RemoveWorks, TypeInv, HolderInv, NEW v \in VMs, NEW f \in Inodes, OpenCopy(v, f)
  PROVE  /\ f \in Free /\ disk' = [disk EXCEPT ![v] = f] /\ image' = image
         /\ call[v].src \in Images /\ image[call[v].src] # Absent
         /\ content' = [content EXCEPT ![f] = [base |-> Partial, by |-> {}]]
         /\ open' = open /\ placed' = placed /\ placed[v] = "none"
         /\ \A w \in VMs \ {v} : call'[w] = call[w]
         /\ call'[v].at = "fill" /\ call'[v].into = f /\ call'[v].from = image[call[v].src]
<1>1. call[v].at = "place" /\ image[call[v].src] # Absent /\ CreateAt(v, f)
  BY DEF OpenCopy, At
<1>2. disk[v] = Absent
  BY <1>1 DEF HolderInv, CallHasPlace, At
<1>3. f \in Free /\ disk' = [disk EXCEPT ![v] = f] /\ image' = image
  BY <1>1, <1>2, CreateAtNothing DEF TypeInv
<1>4. call[v].src \in Images /\ placed[v] = "none"
  BY <1>1 DEF TypeInv, CallFitsStage, At
<1>5. /\ \A w \in VMs \ {v} : call'[w] = call[w]
      /\ call'[v].at = "fill" /\ call'[v].into = f /\ call'[v].from = image[call[v].src]
  <2>1. DOMAIN call = VMs /\ {"at", "from", "into"} \subseteq DOMAIN call[v]
    BY DEF TypeInv, TypeOK
  <2>2. call' = [call EXCEPT ![v].at = "fill", ![v].from = image[call[v].src], ![v].into = f]
    BY DEF OpenCopy
  <2> QED
    BY <2>1, <2>2
<1> QED
  BY <1>1, <1>3, <1>4, <1>5 DEF OpenCopy

LEMMA NextHolderInv == RemoveWorks /\ TypeInv /\ TypeInv' /\ HolderInv /\ [Next]_vars => HolderInv'
<1> SUFFICES ASSUME RemoveWorks, TypeInv, TypeInv', HolderInv, [Next]_vars PROVE HolderInv'
  OBVIOUS
<1> USE InodesAreNotAbsent, DisksAssumption
    DEF RemoveWorks, TypeInv, TypeOK, CallFitsStage, HolderInv, CallHasPlace, DiskHasOneName,
        SourceIsWhole, PlacedIsWhole, At, Idle, Return
<1>1. ASSUME NEW v \in VMs, NEW i \in Images, NEW how \in {"link", "copy"}, Begin(v, i, how) PROVE HolderInv'
  BY <1>1 DEF Begin
<1>2. ASSUME NEW v \in VMs, RemoveOld(v) PROVE HolderInv'
  BY <1>2 DEF RemoveOld
<1>3. ASSUME NEW v \in VMs, Link(v) PROVE HolderInv'
  BY <1>3 DEF Link
<1>4. ASSUME NEW v \in VMs, NEW f \in Inodes, Clone(v, f) PROVE HolderInv'
  BY <1>4, FreeIsUnheld, SMTT(30) DEF Clone
<1>5. ASSUME NEW v \in VMs, NEW f \in Inodes, OpenCopy(v, f) PROVE HolderInv'
  <2>1. /\ f \in Free /\ disk' = [disk EXCEPT ![v] = f] /\ image' = image
        /\ call[v].src \in Images /\ image[call[v].src] # Absent
    BY <1>5, OpenCopyFacts
  <2>2. /\ content' = [content EXCEPT ![f] = [base |-> Partial, by |-> {}]]
        /\ open' = open /\ placed' = placed /\ placed[v] = "none"
    BY <1>5, OpenCopyFacts
  <2>3. /\ \A w \in VMs \ {v} : call'[w] = call[w]
        /\ call'[v].at = "fill" /\ call'[v].into = f /\ call'[v].from = image[call[v].src]
    BY <1>5, OpenCopyFacts
  <2>4. CallHasPlace'
    BY <2>1, <2>2, <2>3, FreeIsUnheld
  <2>5. DiskHasOneName'
    <3>1. ASSUME NEW w \in VMs, disk'[w] \in Files
          PROVE  /\ \A i \in Images : image'[i] # disk'[w]
                 /\ \A x \in VMs : call'[x].from # disk'[w]
                 /\ \A x \in VMs \ {w} : disk'[w] \notin {disk'[x], open'[x], call'[x].into}
      <4>1. CASE w = v
        BY <2>1, <2>2, <2>3, <4>1, FreeIsUnheld, SMTT(30)
      <4>2. CASE w # v
        <5>1. disk'[w] = disk[w] /\ disk[w] # f /\ disk'[v] = f
          BY <2>1, <4>2, FreeIsUnheld
        <5>2. /\ \A i \in Images : image[i] # disk[w]
              /\ \A x \in VMs : call[x].from # disk[w]
              /\ \A x \in VMs \ {w} : disk[w] \notin {disk[x], open[x], call[x].into}
          BY <3>1, <5>1
        <5>3. \A x \in VMs \ {w} : disk[w] # disk'[x]
          BY <2>1, <5>1, <5>2
        <5> QED
          BY <2>1, <2>2, <2>3, <5>1, <5>2, <5>3
      <4> QED
        BY <4>1, <4>2
    <3> QED
      BY <3>1
  <2>6. SourceIsWhole'
    BY <2>1, <2>2, <2>3, FreeIsUnheld
  <2>7. PlacedIsWhole'
    BY <2>1, <2>2, FreeIsUnheld
  <2> QED
    BY <2>4, <2>5, <2>6, <2>7
<1>6. ASSUME NEW v \in VMs, FillCopy(v) PROVE HolderInv'
  BY <1>6 DEF FillCopy
<1>7. ASSUME NEW v \in VMs, GiveUp(v) PROVE HolderInv'
  BY <1>7 DEF GiveUp
<1>8. ASSUME NEW v \in VMs, NEW f \in Inodes, Attach(v, f) PROVE HolderInv'
  <2>1. /\ f \in Free
        /\ \/ disk[v] = Absent /\ disk' = [disk EXCEPT ![v] = f] /\ image' = image
           \/ disk[v] \in Images /\ disk' = disk /\ image' = [image EXCEPT ![disk[v]] = f]
    BY <1>8, CreateAtMissing DEF Attach
  <2>2. /\ content' = [content EXCEPT ![f] = [base |-> Blank, by |-> {}]]
        /\ call' = call /\ open' = open /\ placed' = placed /\ call[v] = Idle
    BY <1>8 DEF Attach
  <2>3. CallHasPlace'
    BY <2>1, <2>2, FreeIsUnheld
  <2>4. DiskHasOneName'
    <3>1. ASSUME NEW w \in VMs, disk'[w] \in Files
          PROVE  /\ \A i \in Images : image'[i] # disk'[w]
                 /\ \A x \in VMs : call'[x].from # disk'[w]
                 /\ \A x \in VMs \ {w} : disk'[w] \notin {disk'[x], open'[x], call'[x].into}
      <4>1. CASE disk'[w] = f
        BY <2>1, <2>2, <4>1, FreeIsUnheld
      <4>2. CASE disk'[w] # f
        <5>1. disk'[w] = disk[w]
          BY <2>1, <4>2
        <5>2. /\ \A i \in Images : image[i] # disk[w]
              /\ \A x \in VMs : call[x].from # disk[w]
              /\ \A x \in VMs \ {w} : disk[w] \notin {disk[x], open[x], call[x].into}
          BY <3>1, <5>1
        <5>3. \A i \in Images : image'[i] \in {image[i], f}
          BY <2>1
        <5>4. \A x \in VMs : disk'[x] \in {disk[x], f}
          BY <2>1
        <5> QED
          BY <2>2, <4>2, <5>1, <5>2, <5>3, <5>4
      <4> QED
        BY <4>1, <4>2
    <3> QED
      BY <3>1
  <2>5. SourceIsWhole'
    BY <2>1, <2>2, FreeIsUnheld
  <2>6. PlacedIsWhole'
    BY <2>1, <2>2, FreeIsUnheld
  <2> QED
    BY <2>3, <2>4, <2>5, <2>6
<1>9. ASSUME NEW v \in VMs, Detach(v) PROVE HolderInv'
  BY <1>9 DEF Detach
<1>10. ASSUME NEW v \in VMs, Start(v) PROVE HolderInv'
  BY <1>10 DEF Start, Resolve
<1>11. ASSUME NEW v \in VMs, GuestWrites(v) PROVE HolderInv'
  BY <1>11, AfterGuestWrites DEF GuestWrites
<1>12. ASSUME NEW v \in VMs, RunnerEnds(v) PROVE HolderInv'
  BY <1>12 DEF RunnerEnds
<1>13. ASSUME NEW i \in Images, RemoveImage(i) PROVE HolderInv'
  BY <1>13 DEF RemoveImage
<1>14. ASSUME UNCHANGED vars PROVE HolderInv'
  BY <1>14 DEF vars
<1> HIDE DEF HolderInv
<1> QED
  BY <1>1, <1>2, <1>3, <1>4, <1>5, <1>6, <1>7, <1>8, <1>9, <1>10, <1>11, <1>12, <1>13, <1>14
  DEF Next, Place, Runner

LEMMA WorkingRemoveInvariant == RemoveWorks => (Spec => []IInv)
<1>1. CASE RemoveWorks
  <2>1. TypeInv /\ TypeInv' /\ HolderInv /\ [Next]_vars => HolderInv'
    BY <1>1, NextHolderInv
  <2>2. Spec => []HolderInv
    BY <2>1, InitHolderInv, TypeInvariant, PTL DEF Spec
  <2>3. TypeInv /\ HolderInv => IInv
    BY DEF IInv
  <2> QED
    BY <2>2, <2>3, TypeInvariant, PTL
<1> QED
  BY <1>1

(* A provision with --copy that returned nil has left a file that is whole *)
(* and has no other name, however many copies and guests were at work and  *)
(* whichever of them failed; one without, a link.                          *)
THEOREM CopiesAreWhole == RemoveWorks => (Spec => []PlacedIsWhole)
<1>1. IInv => PlacedIsWhole
  BY DEF IInv, HolderInv
<1> QED
  BY <1>1, WorkingRemoveInvariant, PTL

(* What a step can do to the content of a file: make a file nobody holds,  *)
(* fill the copy a call is at work on, or let a guest write what it has    *)
(* open.                                                                   *)
LEMMA ContentSteps ==
  ASSUME IInv, RemoveWorks, Next, NEW f \in Inodes, content'[f] # content[f]
  PROVE  \/ f \in Free
         \/ \E v \in VMs : At(v, "fill") /\ call[v].into = f
         \/ \E v \in VMs : /\ open[v] = f
                           /\ content'[f] = [content[f] EXCEPT !.by = @ \cup {v}]
<1> USE DEF IInv, TypeInv, TypeOK
<1>1. ASSUME NEW v \in VMs, NEW g \in Inodes, Clone(v, g) PROVE f \in Free
  BY <1>1 DEF Clone
<1>2. ASSUME NEW v \in VMs, NEW g \in Inodes, OpenCopy(v, g) PROVE f \in Free
  <2>1. disk[v] = Absent /\ CreateAt(v, g)
    BY <1>2 DEF OpenCopy, HolderInv, CallHasPlace
  <2> QED
    BY <1>2, <2>1, CreateAtNothing DEF OpenCopy
<1>3. ASSUME NEW v \in VMs, NEW g \in Inodes, Attach(v, g) PROVE f \in Free
  BY <1>3, CreateAtMissing DEF Attach
<1>4. ASSUME NEW v \in VMs, FillCopy(v) PROVE At(v, "fill") /\ call[v].into = f
  BY <1>4 DEF FillCopy
<1>5. ASSUME NEW v \in VMs, GuestWrites(v)
      PROVE  open[v] = f /\ content'[f] = [content[f] EXCEPT !.by = @ \cup {v}]
  BY <1>5, AfterGuestWrites
<1> HIDE DEF IInv
<1> QED
  BY <1>1, <1>2, <1>3, <1>4, <1>5
  DEF Next, Place, Runner, Begin, RemoveOld, Link, GiveUp, Detach, Start, RunnerEnds, RemoveImage

(* Placing, attaching and detaching disks writes to nothing that is in use *)
(* anywhere on the host.                                                   *)
THEOREM NothingInUseOverwritten == RemoveWorks => (Spec => OnlyGuestsWrite)
<1>1. CASE RemoveWorks
  <2>1. ASSUME IInv, [Next]_vars, NEW f \in Inodes, InUse(f) PROVE OnlyWrittenBy(VMs, f)
    <3>1. f \notin Free
      BY <2>1 DEF InUse, Free, Live
    <3>2. ASSUME NEW v \in VMs, At(v, "fill"), call[v].into = f PROVE FALSE
      BY <2>1, <3>2 DEF IInv, TypeInv, TypeOK, HolderInv, CallHasPlace, DiskHasOneName, InUse, At, Idle
    <3> QED
      BY <1>1, <2>1, <3>1, <3>2, ContentSteps DEF OnlyWrittenBy, vars
  <2>2. IInv /\ [Next]_vars => [\A f \in Inodes : InUse(f) => OnlyWrittenBy(VMs, f)]_vars
    BY <2>1
  <2> QED
    BY <1>1, <2>2, WorkingRemoveInvariant, PTL DEF Spec, OnlyGuestsWrite
<1> QED
  BY <1>1

(* Nothing takes or changes the name of a disk that a copy has placed.     *)
LEMMA PlacedDiskStays ==
  ASSUME IInv, RemoveWorks, [Next]_vars,
         NEW v \in VMs, placed[v] = "copy", placed'[v] = "copy", disk[v] \in Files, At(v, "idle")
  PROVE  disk'[v] = disk[v]
<1> USE DEF IInv, TypeInv, TypeOK, At
<1>1. ASSUME NEW w \in VMs, RemoveOld(w) \/ Link(w) PROVE disk'[v] = disk[v]
  BY <1>1 DEF RemoveOld, Link
<1>2. ASSUME NEW w \in VMs, NEW f \in Inodes, Clone(w, f) PROVE disk'[v] = disk[v]
  BY <1>2 DEF Clone
<1>3. ASSUME NEW w \in VMs, NEW f \in Inodes, OpenCopy(w, f) PROVE disk'[v] = disk[v]
  <2>1. w # v /\ disk[w] = Absent /\ CreateAt(w, f)
    BY <1>3 DEF OpenCopy, HolderInv, CallHasPlace
  <2> QED
    BY <2>1, CreateAtNothing
<1>4. ASSUME NEW w \in VMs, NEW f \in Inodes, Attach(w, f) PROVE disk'[v] = disk[v]
  <2>1. Resolve(w) = Absent /\ CreateAt(w, f)
    BY <1>4 DEF Attach
  <2>2. disk[v] # Absent
    BY InodesAreNotAbsent DEF Inodes
  <2> QED
    BY <2>1, <2>2, CreateAtMissing
<1>5. ASSUME NEW w \in VMs, Detach(w) PROVE disk'[v] = disk[v]
  BY <1>5 DEF Detach
<1> HIDE DEF IInv
<1> QED
  BY <1>1, <1>2, <1>3, <1>4, <1>5
  DEF Next, Place, Runner, Begin, FillCopy, GiveUp, Start, GuestWrites, RunnerEnds, RemoveImage, vars

(* From the return of a provision with --copy to the next provision or     *)
(* DetachDisk the VM's disk stays the same file, and no image, no other VM *)
(* and no other guest reaches it.                                          *)
THEOREM CopiesArePrivate == RemoveWorks => (Spec => CopyIsPrivate)
<1>1. CASE RemoveWorks
  <2>1. ASSUME IInv, [Next]_vars, NEW v \in VMs, placed[v] = "copy", placed'[v] = "copy"
        PROVE  disk'[v] = disk[v] /\ OnlyWrittenBy({v}, disk[v])
    <3>1. disk[v] \in Files /\ At(v, "idle") /\ disk[v] \in Inodes /\ disk[v] \notin Free
      BY <2>1, InodesAreNotAbsent
      DEF IInv, TypeInv, TypeOK, CallFitsStage, HolderInv, PlacedIsWhole, At, Free, Live, Inodes
    <3>2. disk'[v] = disk[v]
      BY <1>1, <2>1, <3>1, PlacedDiskStays
    <3>3. ASSUME NEW w \in VMs, At(w, "fill"), call[w].into = disk[v] PROVE FALSE
      BY <2>1, <3>1, <3>3 DEF IInv, HolderInv, CallHasPlace, DiskHasOneName, At
    <3>4. ASSUME NEW w \in VMs, open[w] = disk[v] PROVE w = v
      BY <2>1, <3>1, <3>4 DEF IInv, HolderInv, DiskHasOneName
    <3>5. OnlyWrittenBy({v}, disk[v])
      BY <1>1, <2>1, <3>1, <3>3, <3>4, ContentSteps DEF OnlyWrittenBy, vars
    <3> QED
      BY <3>2, <3>5
  <2>2. IInv /\ [Next]_vars =>
          [\A v \in VMs : placed[v] = "copy" /\ placed'[v] = "copy" =>
             /\ disk'[v] = disk[v]
             /\ OnlyWrittenBy({v}, disk[v])]_vars
    BY <2>1
  <2> QED
    BY <1>1, <2>2, WorkingRemoveInvariant, PTL DEF Spec, CopyIsPrivate
<1> QED
  BY <1>1
=============================================================================
