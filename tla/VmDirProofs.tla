---------------------------- MODULE VmDirProofs -----------------------------
(***************************************************************************)
(* Proofs about VmDir for any number of calls, any that overlap (Joins),    *)
(* any sizes, and failures and crashes between any two steps. No theorem   *)
(* but the last, UncutCreatesIdentity, assumes more of the constants than  *)
(* VmDir does.                                                             *)
(*                                                                         *)
(* BaseInv says what a call may be at, that calls which run at the same    *)
(* time have met each other, and what the file a call is at then holds;    *)
(* from it follows who can change which file (FileSteps). That a provision *)
(* is whole rests on what its script has done so far (Progress): as long   *)
(* as it meets no other call, no step undoes one before it, but for the    *)
(* wipe of a file that is made afterwards (WipedThenMade).                 *)
(***************************************************************************)
EXTENDS VmDir, SequenceTheorems, TLAPS

(* The scripts, as the proofs use them: which steps a call can have, and   *)
(* how the steps of a provision are ordered.                               *)
Optional == {"data", "cidata"}

IsStepOf(k, s) ==
  CASE k = "create"    -> s.op = "ensure" /\ s.file \in Identity
    [] k = "provision" -> \/ s.op = "place" /\ s.file \in Artefacts
                          \/ s.op \in {"remove", "ensure"} /\ s.file \in Identity
                          \/ s.op = "write" /\ s.file = "config"
    [] k = "attach"    -> s.op = "ensure" /\ s.file = "data"
    [] k = "detach"    -> s.op = "remove" /\ s.file = "data"
    [] k = "delete"    -> s.op = "removeAll" /\ s.file = "config"

(* Steps of one file: the wipe before the making of an identity file.      *)
WipedThenMade(s) ==
  /\ \A i, j \in 1..Len(s) : i < j /\ s[i].file = s[j].file => s[i].op = "remove" /\ s[j].op = "ensure"
  /\ \A j \in 1..Len(s) : s[j].op = "ensure" => \E i \in 1..(j-1) : s[i] = Step("remove", s[j].file)

MakesAll(s, files) == \A f \in files : \E j \in 1..Len(s) : s[j].file = f /\ s[j].op # "remove"

(* A provision's script, with n artefacts.                                 *)
ShapedLike(s, n, w) ==
  /\ n \in 1..3 /\ Len(s) = n + 7
  /\ s[1] = Step("place", "disk")
  /\ \A f \in w : \E i \in 2..n : s[i].file = f
  /\ \A i \in 2..n : s[i].op = "place" /\ s[i].file \in w
  /\ \A i, j \in 2..n : i < j => s[i].file # s[j].file
  /\ s[n+1] = Step("remove", "nvram")
  /\ s[n+2] = Step("remove", "machine-id")
  /\ s[n+3] = Step("remove", "mac")
  /\ s[n+4] = Step("ensure", "nvram")
  /\ s[n+5] = Step("ensure", "machine-id")
  /\ s[n+6] = Step("ensure", "mac")
  /\ s[n+7] = Step("write", "config")

LEMMA ProvisionShape ==
  ASSUME NEW w \in SUBSET Optional
  PROVE  ShapedLike(ProvisionSteps(w), Len(ProvisionSteps(w)) - 7, w)
BY DEF ShapedLike, ProvisionSteps, CreateSteps, Wipe, Optional, Step

LEMMA ShapeKinds ==
  ASSUME NEW w \in SUBSET Optional, NEW n, NEW s, ShapedLike(s, n, w), NEW j \in 1..Len(s)
  PROVE  IsStepOf("provision", s[j])
<1> DEFINE Fine == \/ s[j].op = "place" /\ s[j].file \in Artefacts
                   \/ s[j].op \in {"remove", "ensure"} /\ s[j].file \in Identity
                   \/ s[j].op = "write" /\ s[j].file = "config"
<1>1. n \in 1..3 /\ j \in 1..(n+7)
  BY DEF ShapedLike
<1>2. ASSUME j \in 2..n PROVE Fine
  BY <1>2 DEF ShapedLike, Optional, Artefacts
<1>3. ASSUME j \notin 2..n PROVE Fine
  BY <1>1, <1>3, SMTT(30) DEF ShapedLike, Step, Identity, Artefacts
<1> QED
  BY <1>2, <1>3 DEF IsStepOf

LEMMA ShapeOrder ==
  ASSUME NEW w \in SUBSET Optional, NEW n, NEW s, ShapedLike(s, n, w)
  PROVE  WipedThenMade(s)
<1>1. n \in 1..3 /\ Len(s) = n + 7
  BY DEF ShapedLike
<1>2. ASSUME NEW k \in 2..n PROVE s[k].file \in Optional /\ s[k].op = "place"
  BY DEF ShapedLike
<1>3. ASSUME NEW i \in 1..(n+7), NEW j \in 1..(n+7), i < j, s[i].file = s[j].file
      PROVE  s[i].op = "remove" /\ s[j].op = "ensure"
  <2>1. CASE i \in 2..n /\ j \in 2..n
    BY <1>1, <1>3, <2>1 DEF ShapedLike
  <2>2. CASE i \notin 2..n /\ j \in 2..n
    BY <1>1, <1>2, <1>3, <2>2 DEF ShapedLike, Step, Optional
  <2>3. CASE i \in 2..n /\ j \notin 2..n
    BY <1>1, <1>2, <1>3, <2>3 DEF ShapedLike, Step, Optional
  <2>4. CASE i \notin 2..n /\ j \notin 2..n
    <3>1. /\ i \in {1, n+1, n+2, n+3, n+4, n+5, n+6, n+7}
          /\ j \in {1, n+1, n+2, n+3, n+4, n+5, n+6, n+7}
      BY <1>1, <2>4
    <3>2. /\ s[1].file = "disk" /\ s[n+7].file = "config"
          /\ s[n+1].file = "nvram" /\ s[n+2].file = "machine-id" /\ s[n+3].file = "mac"
          /\ s[n+4].file = "nvram" /\ s[n+5].file = "machine-id" /\ s[n+6].file = "mac"
          /\ s[n+1].op = "remove" /\ s[n+2].op = "remove" /\ s[n+3].op = "remove"
          /\ s[n+4].op = "ensure" /\ s[n+5].op = "ensure" /\ s[n+6].op = "ensure"
      BY DEF ShapedLike, Step
    <3>3. ASSUME NEW k \in {1, n+1, n+2, n+3, n+4, n+5, n+6, n+7}
          PROVE  /\ s[k].file = "nvram" => k \in {n+1, n+4}
                 /\ s[k].file = "machine-id" => k \in {n+2, n+5}
                 /\ s[k].file = "mac" => k \in {n+3, n+6}
                 /\ s[k].file = "disk" => k = 1
                 /\ s[k].file = "config" => k = n+7
                 /\ s[k].file \in {"nvram", "machine-id", "mac", "disk", "config"}
      BY <1>1, <3>2, <3>3
    <3>4. s[i].file \notin {"disk", "config"}
      BY <1>3, <3>1, <3>3
    <3>5. /\ s[i].file = "nvram" => i = n+1 /\ j = n+4
          /\ s[i].file = "machine-id" => i = n+2 /\ j = n+5
          /\ s[i].file = "mac" => i = n+3 /\ j = n+6
      BY <1>1, <1>3, <3>1, <3>3, SMTT(30)
    <3> QED
      BY <3>1, <3>2, <3>3, <3>4, <3>5
  <2> QED
    BY <2>1, <2>2, <2>3, <2>4
<1>4. ASSUME NEW j \in 1..(n+7), s[j].op = "ensure"
      PROVE  \E i \in 1..(j-1) : s[i] = Step("remove", s[j].file)
  <2>1. j \in {1, n+1, n+2, n+3, n+4, n+5, n+6, n+7}
    BY <1>1, <1>2, <1>4
  <2>2. /\ s[1].op = "place" /\ s[n+1].op = "remove" /\ s[n+2].op = "remove"
        /\ s[n+3].op = "remove" /\ s[n+7].op = "write"
    BY DEF ShapedLike, Step
  <2>3. CASE j = n+4
    BY <1>1, <2>3 DEF ShapedLike, Step
  <2>4. CASE j = n+5
    BY <1>1, <2>4 DEF ShapedLike, Step
  <2>5. CASE j = n+6
    BY <1>1, <2>5 DEF ShapedLike, Step
  <2> QED
    BY <1>4, <2>1, <2>2, <2>3, <2>4, <2>5
<1> QED
  BY <1>1, <1>3, <1>4 DEF WipedThenMade

LEMMA ShapeMakes ==
  ASSUME NEW w \in SUBSET Optional, NEW n, NEW s, ShapedLike(s, n, w)
  PROVE  MakesAll(s, {"disk", "config"} \cup Identity \cup w)
<1>1. n \in 1..3 /\ Len(s) = n + 7
  BY DEF ShapedLike
<1>2. ASSUME NEW f \in {"disk", "config"} \cup Identity \cup w
      PROVE  \E j \in 1..(n+7) : s[j].file = f /\ s[j].op # "remove"
  <2>1. CASE f \in w
    BY <1>1, <2>1 DEF ShapedLike
  <2>2. CASE f \notin w
    BY <1>1, <1>2, <2>2 DEF ShapedLike, Step, Identity
  <2> QED
    BY <2>1, <2>2
<1> QED
  BY <1>1, <1>2 DEF MakesAll
-----------------------------------------------------------------------------
(* Types.  A call that does not run is at the start of its script.         *)
CallInv ==
  /\ kind \in [Calls -> AllKinds]
  /\ wants \in [Calls -> SUBSET Optional]
  /\ mem \in [Calls -> Nat]
  /\ pc \in [Calls -> Nat \ {0}]
  /\ sub \in [Calls -> {"begin", "open", "write"}]
  /\ result \in [Calls -> {"none", "running", "ok", "failed"}]
  /\ met \in [Calls -> SUBSET (Calls \cup {New})]
  /\ good \in Calls \cup {NoCall}
  /\ \A c \in Calls : IF Running(c) THEN pc[c] <= Len(Script(c))
                                    ELSE pc[c] = 1 /\ sub[c] = "begin"

ScriptOf(k, w) ==
  CASE k = "create"    -> CreateSteps
    [] k = "provision" -> ProvisionSteps(w)
    [] k = "attach"    -> AttachSteps
    [] k = "detach"    -> DetachSteps
    [] k = "delete"    -> DeleteSteps

LEMMA ScriptOfType ==
  ASSUME NEW k \in AllKinds, NEW w \in SUBSET Optional
  PROVE  /\ Len(ScriptOf(k, w)) \in Nat \ {0}
         /\ \A j \in 1..Len(ScriptOf(k, w)) : IsStepOf(k, ScriptOf(k, w)[j])
<1>1. CASE k = "provision"
  <2>1. ScriptOf(k, w) = ProvisionSteps(w)
    BY <1>1 DEF ScriptOf
  <2>2. ShapedLike(ScriptOf(k, w), Len(ScriptOf(k, w)) - 7, w)
    BY <2>1, ProvisionShape
  <2>3. \A j \in 1..Len(ScriptOf(k, w)) : IsStepOf("provision", ScriptOf(k, w)[j])
    BY <2>2, ShapeKinds
  <2>4. Len(ScriptOf(k, w)) \in Nat \ {0}
    BY <2>2 DEF ShapedLike
  <2> QED
    BY <1>1, <2>3, <2>4
<1>2. CASE k = "create"
  BY <1>2 DEF ScriptOf, CreateSteps, IsStepOf, Step, Identity
<1>3. CASE k = "attach"
  BY <1>3 DEF ScriptOf, AttachSteps, IsStepOf, Step
<1>4. CASE k = "detach"
  BY <1>4 DEF ScriptOf, DetachSteps, IsStepOf, Step
<1>5. CASE k = "delete"
  BY <1>5 DEF ScriptOf, DeleteSteps, IsStepOf, Step
<1> QED
  BY <1>1, <1>2, <1>3, <1>4, <1>5 DEF AllKinds

LEMMA ScriptType ==
  ASSUME NEW c \in Calls, kind[c] \in AllKinds, wants[c] \in SUBSET Optional
  PROVE  /\ Len(Script(c)) \in Nat \ {0}
         /\ \A j \in 1..Len(Script(c)) : IsStepOf(kind[c], Script(c)[j])
<1>1. Script(c) = ScriptOf(kind[c], wants[c])
  BY DEF Script, ScriptOf
<1> QED
  BY <1>1, ScriptOfType

(* The step a running call is at is one of its kind.                       *)
LEMMA StepIsOfKind ==
  ASSUME CallInv, NEW c \in Calls, Running(c)
  PROVE  /\ IsStepOf(kind[c], Script(c)[pc[c]])
         /\ kind[c] \in AllKinds
BY ScriptType DEF CallInv

LEMMA FileIsName ==
  ASSUME CallInv, NEW c \in Calls, Running(c)
  PROVE  File(c) \in Names
BY StepIsOfKind DEF File, IsStepOf, Names, Artefacts, Identity, AllKinds

LEMMA ScriptKept ==
  ASSUME NEW c \in Calls, kind'[c] = kind[c], wants'[c] = wants[c]
  PROVE  Script(c)' = Script(c)
BY DEF Script

(* The step of a running call, whatever it is, and how the call goes on.   *)
CallStep(c) ==
  \/ Stat(c) \/ Remove(c) \/ RemoveAll(c) \/ Open(c) \/ Write(c) \/ MakeWhole(c)
  \/ Fail(c) \/ Crash(c)

Stays == UNCHANGED <<pc, sub, result, met, good, Args>>

GoesOn(c) ==
  Advance(c) \/ End(c, "failed") \/ Enter(c, "open") \/ Enter(c, "write") \/ Stays

LEMMA CallStepGoesOn ==
  ASSUME NEW c \in Calls, CallStep(c)
  PROVE  Running(c) /\ GoesOn(c)
BY DEF CallStep, Stat, Remove, RemoveAll, Open, Write, MakeWhole, Fail, Crash, At, GoesOn, Stays

(* The other calls are left alone.                                         *)
OthersKept(c) ==
  \A d \in Calls \ {c} :
    /\ kind'[d] = kind[d] /\ wants'[d] = wants[d] /\ mem'[d] = mem[d] /\ pc'[d] = pc[d]
    /\ sub'[d] = sub[d] /\ result'[d] = result[d] /\ met'[d] = met[d]

LEMMA EndFacts ==
  ASSUME CallInv, NEW c \in Calls, NEW how \in {"ok", "failed"}, End(c, how)
  PROVE  CallInv' /\ OthersKept(c) /\ ~Running(c)' /\ result'[c] = how
<1>1. OthersKept(c) /\ result'[c] = how /\ pc'[c] = 1 /\ sub'[c] = "begin"
  BY DEF End, Args, CallInv, OthersKept
<1>2. \A d \in Calls : (IF Running(d) THEN pc[d] <= Len(Script(d)) ELSE pc[d] = 1 /\ sub[d] = "begin")'
  <2>1. ASSUME NEW d \in Calls \ {c} PROVE Script(d)' = Script(d) /\ (Running(d)' <=> Running(d))
    <3>1. d \in Calls /\ kind'[d] = kind[d] /\ wants'[d] = wants[d] /\ result'[d] = result[d]
      BY <1>1 DEF OthersKept
    <3> QED
      BY <3>1, ScriptKept DEF Running
  <2>2. ~Running(c)'
    BY <1>1 DEF Running
  <2>3. \A d \in Calls \ {c} : pc'[d] = pc[d] /\ sub'[d] = sub[d]
    BY <1>1 DEF OthersKept
  <2> QED
    BY <1>1, <2>1, <2>2, <2>3 DEF CallInv
<1>3. /\ kind' \in [Calls -> AllKinds] /\ wants' \in [Calls -> SUBSET Optional]
      /\ mem' \in [Calls -> Nat]
  <2>1. CASE UNCHANGED Args
    BY <2>1 DEF CallInv, Args
  <2>2. CASE ~UNCHANGED Args
    <3>1. /\ kind' = [kind EXCEPT ![c] = "create"] /\ wants' = [wants EXCEPT ![c] = {}]
          /\ mem' = [mem EXCEPT ![c] = 0]
      BY <2>2 DEF End
    <3> QED
      BY <3>1 DEF CallInv, AllKinds
  <2> QED
    BY <2>1, <2>2
<1>4. /\ pc' \in [Calls -> Nat \ {0}] /\ sub' \in [Calls -> {"begin", "open", "write"}]
      /\ result' \in [Calls -> {"none", "running", "ok", "failed"}] /\ good' \in Calls \cup {NoCall}
      /\ met' \in [Calls -> SUBSET (Calls \cup {New})]
  BY DEF End, CallInv
<1> QED
  BY <1>1, <1>2, <1>3, <1>4 DEF CallInv, Running

(* A call that goes on without ending keeps what it is.                    *)
KeptWhatItIs(c) ==
  /\ kind'[c] = kind[c] /\ wants'[c] = wants[c] /\ mem'[c] = mem[c] /\ met'[c] = met[c]
  /\ Script(c)' = Script(c) /\ good' = good

LEMMA MoveFacts ==
  ASSUME CallInv, NEW c \in Calls, Running(c), NEW p \in Nat \ {0}, p <= Len(Script(c)),
         NEW s \in {"begin", "open", "write"},
         pc' = [pc EXCEPT ![c] = p], sub' = [sub EXCEPT ![c] = s], UNCHANGED <<result, met, good, Args>>
  PROVE  CallInv' /\ OthersKept(c) /\ Running(c)' /\ KeptWhatItIs(c) /\ pc'[c] = p /\ sub'[c] = s
<1>1. \A d \in Calls : Script(d)' = Script(d) /\ (Running(d)' <=> Running(d))
  BY ScriptKept DEF Args, Running
<1>2. OthersKept(c) /\ pc'[c] = p /\ sub'[c] = s
  BY DEF CallInv, OthersKept, Args
<1>3. pc' \in [Calls -> Nat \ {0}] /\ sub' \in [Calls -> {"begin", "open", "write"}]
  BY DEF CallInv
<1>4. \A d \in Calls : (IF Running(d) THEN pc[d] <= Len(Script(d)) ELSE pc[d] = 1 /\ sub[d] = "begin")'
  BY <1>1, <1>2 DEF CallInv, OthersKept
<1> QED
  BY <1>1, <1>2, <1>3, <1>4 DEF CallInv, Args, KeptWhatItIs

LEMMA AdvanceFacts ==
  ASSUME CallInv, NEW c \in Calls, Running(c), Advance(c)
  PROVE  /\ CallInv' /\ OthersKept(c)
         /\ IF pc[c] < Len(Script(c))
              THEN Running(c)' /\ KeptWhatItIs(c) /\ pc'[c] = pc[c] + 1 /\ sub'[c] = "begin"
              ELSE End(c, "ok") /\ ~Running(c)' /\ result'[c] = "ok"
<1>1. CASE pc[c] < Len(Script(c))
  <2>1. pc[c] \in Nat \ {0} /\ Len(Script(c)) \in Nat
    BY ScriptType DEF CallInv
  <2>2. pc[c] + 1 \in Nat \ {0} /\ pc[c] + 1 <= Len(Script(c))
    BY <1>1, <2>1
  <2>3. /\ pc' = [pc EXCEPT ![c] = pc[c] + 1] /\ sub' = [sub EXCEPT ![c] = "begin"]
        /\ UNCHANGED <<result, met, good, Args>>
    BY <1>1 DEF Advance
  <2> QED
    BY <1>1, <2>2, <2>3, MoveFacts
<1>2. CASE ~(pc[c] < Len(Script(c)))
  BY <1>2, EndFacts DEF Advance
<1> QED
  BY <1>1, <1>2

LEMMA EnterFacts ==
  ASSUME CallInv, NEW c \in Calls, Running(c), NEW s \in {"open", "write"}, Enter(c, s)
  PROVE  CallInv' /\ OthersKept(c) /\ Running(c)' /\ KeptWhatItIs(c) /\ pc'[c] = pc[c] /\ sub'[c] = s
<1>1. pc[c] \in Nat \ {0} /\ pc[c] <= Len(Script(c))
  BY DEF CallInv
<1>2. pc' = [pc EXCEPT ![c] = pc[c]]
  BY DEF CallInv, Enter
<1> QED
  BY <1>1, <1>2, MoveFacts DEF Enter

LEMMA StaysFacts ==
  ASSUME CallInv, NEW c \in Calls, Running(c), Stays
  PROVE  CallInv' /\ OthersKept(c) /\ Running(c)' /\ KeptWhatItIs(c) /\ pc'[c] = pc[c] /\ sub'[c] = sub[c]
<1>1. \A d \in Calls : Script(d)' = Script(d) /\ (Running(d)' <=> Running(d))
  BY ScriptKept DEF Stays, Args, Running
<1> QED
  BY <1>1 DEF Stays, Args, CallInv, OthersKept, KeptWhatItIs

LEMMA GoesOnFacts ==
  ASSUME CallInv, NEW c \in Calls, Running(c), GoesOn(c)
  PROVE  /\ CallInv' /\ OthersKept(c)
         /\ Running(c)' => KeptWhatItIs(c)
BY AdvanceFacts, EndFacts, EnterFacts, StaysFacts DEF GoesOn

-----------------------------------------------------------------------------
(* The files.  A boot makes no machine identifier.                         *)
FileInv ==
  /\ file \in [Names -> Contents]
  /\ open \in [Names -> SUBSET Calls]
  /\ booted \in Contents /\ detached \in BOOLEAN
  /\ file["machine-id"] # New

LEMMA TypeInvParts == CallInv /\ FileInv => TypeOK
<1>1. ASSUME CallInv, NEW c \in Calls, Running(c) PROVE pc[c] \in 1..Len(Script(c))
  <2>1. Len(Script(c)) \in Nat
    BY <1>1, ScriptType DEF CallInv
  <2> QED
    BY <1>1, <2>1 DEF CallInv
<1> QED
  BY <1>1 DEF TypeOK, CallInv, FileInv, Optional

(* What a step of c can do to the files.                                   *)
FileMoves(c) ==
  /\ file' \in [Names -> Contents] /\ open' \in [Names -> SUBSET Calls]
  /\ \A f \in Names :
       /\ file'[f] \in {file[f], Absent, Partial, c}
       /\ file'[f] = Absent => file[f] = Absent \/ open'[f] = {}
       /\ \A d \in Calls \ {c} : d \in open'[f] => d \in open[f]

LEMMA PutMoves ==
  ASSUME FileInv, NEW c \in Calls, NEW f \in Names, NEW x \in {Partial, c}, file' = [file EXCEPT ![f] = x],
         open' \in {open, [open EXCEPT ![f] = @ \cup {c}], [open EXCEPT ![f] = @ \ {c}]}
  PROVE  FileMoves(c)
<1>1. x \in Contents /\ x # Absent
  BY VmDirAssumption DEF Contents
<1>2. file' \in [Names -> Contents] /\ \A g \in Names : file'[g] = IF g = f THEN x ELSE file[g]
  BY <1>1 DEF FileInv
<1>3. open' \in [Names -> SUBSET Calls] /\ \A g \in Names : \A d \in Calls \ {c} : d \in open'[g] => d \in open[g]
  BY DEF FileInv
<1> QED
  BY <1>1, <1>2, <1>3 DEF FileMoves

LEMMA UnlinkMoves ==
  ASSUME FileInv, NEW c \in Calls, NEW f \in Names, Unlink(f)
  PROVE  /\ FileMoves(c) /\ file'[f] = Absent
         /\ file' = [file EXCEPT ![f] = Absent] /\ open' = [open EXCEPT ![f] = {}]
<1>1. file' = [file EXCEPT ![f] = Absent] /\ open' = [open EXCEPT ![f] = {}] /\ Absent \in Contents
  BY DEF Unlink, Contents
<1>2. file' \in [Names -> Contents] /\ open' \in [Names -> SUBSET Calls]
  BY <1>1 DEF FileInv
<1>3. \A g \in Names : /\ file'[g] = IF g = f THEN Absent ELSE file[g]
                       /\ open'[g] = IF g = f THEN {} ELSE open[g]
  BY <1>1 DEF FileInv
<1> QED
  BY <1>1, <1>2, <1>3 DEF FileMoves

LEMMA SameFileMoves ==
  ASSUME FileInv, NEW c \in Calls, file' = file,
         \/ open' = open \/ Close(c) \/ \E f \in Names : open' = [open EXCEPT ![f] = @ \ {c}]
  PROVE  FileMoves(c)
<1>1. \A f \in Names : open'[f] \in SUBSET open[f]
  BY DEF FileInv, Close
<1>2. open' \in [Names -> SUBSET Calls]
  BY DEF FileInv, Close
<1> QED
  BY <1>1, <1>2 DEF FileMoves, FileInv

LEMMA CallStepMoves ==
  ASSUME CallInv, FileInv, NEW c \in Calls, CallStep(c)
  PROVE  FileMoves(c) /\ booted' = booted /\ detached' \in BOOLEAN
<1>0. booted' = booted /\ detached' \in BOOLEAN
  BY DEF CallStep, Stat, Remove, RemoveAll, Open, Write, MakeWhole, Fail, Crash, FileInv
<1>1. CASE Stat(c) \/ Fail(c) \/ Crash(c)
  BY <1>0, <1>1, SameFileMoves DEF Stat, Fail, Crash
<1>2. CASE Remove(c)
  <2>1. Running(c) /\ Script(c)[pc[c]].op # "removeAll" /\ Unlink(File(c))
    BY <1>2 DEF Remove, At
  <2> QED
    BY <1>0, <2>1, FileIsName, UnlinkMoves
<1>3. CASE RemoveAll(c)
  BY <1>0, <1>3, UnlinkMoves, SameFileMoves DEF RemoveAll
<1>4. CASE Open(c) \/ MakeWhole(c)
  <2>1. Running(c) /\ Script(c)[pc[c]].op # "removeAll"
    BY <1>4 DEF Open, MakeWhole, At
  <2>2. \E x \in {Partial, c} : file' = [file EXCEPT ![File(c)] = x]
    BY <1>4 DEF Open, MakeWhole, Put
  <2>3. open' \in {open, [open EXCEPT ![File(c)] = @ \cup {c}]}
    BY <1>4 DEF Open, MakeWhole
  <2> QED
    BY <1>0, <2>1, <2>2, <2>3, FileIsName, PutMoves
<1>5. CASE Write(c)
  <2>1. Running(c) /\ open' = [open EXCEPT ![File(c)] = @ \ {c}]
    BY <1>5 DEF Write
  <2>2. file' = file \/ \E x \in {Partial, c} : file' = [file EXCEPT ![File(c)] = x]
    BY <1>5 DEF Write, Put
  <2> QED
    BY <1>0, <2>1, <2>2, FileIsName, PutMoves, SameFileMoves
<1> QED
  BY <1>0, <1>1, <1>2, <1>3, <1>4, <1>5 DEF CallStep
-----------------------------------------------------------------------------
(* Calls that run at the same time have met each other.                    *)
MetInv ==
  \A c, d \in Calls : Running(c) /\ Running(d) /\ c # d => d \in met[c]

(* What a call has written it has begun to write.                          *)
Begun == \A f \in Names : \A c \in Calls : file[f] = c => result[c] # "none"

(* A file that a call is about to make or is writing holds something       *)
(* complete only if that was made since the call began.                    *)
OpenFits(c) ==
  /\ sub[c] = "open" => /\ Script(c)[pc[c]].op \in {"ensure", "place"}
                        /\ file[File(c)] \in {Absent, Partial} \cup met[c]
  /\ sub[c] = "write" => /\ Script(c)[pc[c]].op \in {"ensure", "place", "write"}
                         /\ c \in open[File(c)] => file[File(c)] \in {Partial} \cup met[c]

(* The file that a call writes which has met no other is what it has       *)
(* opened.                                                                 *)
AloneHolds(c) ==
  sub[c] = "write" /\ Alone(c) => c \in open[File(c)] /\ file[File(c)] = Partial

HoldInv == \A c \in Calls : Running(c) => OpenFits(c) /\ AloneHolds(c)

BaseInv == CallInv /\ FileInv /\ MetInv /\ Begun /\ HoldInv

LEMMA InitBaseInv == Init => BaseInv
<1> SUFFICES ASSUME Init PROVE BaseInv
  OBVIOUS
<1>1. \A c \in Calls : ~Running(c)
  BY DEF Init, Running
<1>2. CallInv
  BY <1>1 DEF Init, CallInv, AllKinds, Optional
<1>3. PICK b \in Befores : file = [f \in Names |-> IF f = "config" THEN b[2]
                                                  ELSE IF f \in b[1] THEN New ELSE Absent]
  BY DEF Init
<1>4. b[2] \in Contents /\ b[1] \subseteq External
  BY <1>3 DEF Befores, Contents, External
<1>5. FileInv
  BY <1>3, <1>4, VmDirAssumption DEF Init, FileInv, Contents, NotBooted, Names, Identity, External
<1>6. Begun
  BY <1>3, <1>4, VmDirAssumption DEF Begun, Befores
<1> QED
  BY <1>1, <1>2, <1>5, <1>6 DEF BaseInv, MetInv, HoldInv

(* A call that begins meets those that run, and they meet it.              *)
LEMMA BeginFacts ==
  ASSUME CallInv, NEW c \in Calls, NEW k \in Kinds, NEW a \in Asked \cup {Nothing}, Begin(c, k, a)
  PROVE  /\ CallInv' /\ ~Running(c) /\ Running(c)' /\ kind'[c] = k
         /\ pc'[c] = 1 /\ sub'[c] = "begin" /\ met'[c] = {d \in Calls : Running(d)}
         /\ \A d \in Calls \ {c} :
              /\ kind'[d] = kind[d] /\ wants'[d] = wants[d] /\ mem'[d] = mem[d] /\ pc'[d] = pc[d]
              /\ sub'[d] = sub[d] /\ result'[d] = result[d] /\ Script(d)' = Script(d)
              /\ met'[d] = IF Running(d) THEN met[d] \cup {c} ELSE met[d]
<1>1. /\ kind' = [kind EXCEPT ![c] = k] /\ wants' = [wants EXCEPT ![c] = a[1]]
      /\ mem' = [mem EXCEPT ![c] = a[2]] /\ result' = [result EXCEPT ![c] = "running"]
      /\ met' = [MetBy(c) EXCEPT ![c] = {d \in Calls : Running(d)}]
      /\ pc' = pc /\ sub' = sub /\ good' \in {good, NoCall} /\ result[c] = "none"
  BY DEF Begin
<1>2. a[1] \in SUBSET Optional /\ a[2] \in Nat /\ k \in AllKinds
  BY VmDirAssumption DEF Nothing, Optional
<1>3. /\ kind' \in [Calls -> AllKinds] /\ wants' \in [Calls -> SUBSET Optional] /\ mem' \in [Calls -> Nat]
      /\ result' \in [Calls -> {"none", "running", "ok", "failed"}]
      /\ kind'[c] = k /\ wants'[c] = a[1] /\ result'[c] = "running"
  BY <1>1, <1>2 DEF CallInv
<1>4. /\ met' \in [Calls -> SUBSET (Calls \cup {New})] /\ met'[c] = {d \in Calls : Running(d)}
      /\ \A d \in Calls \ {c} : met'[d] = IF Running(d) THEN met[d] \cup {c} ELSE met[d]
  BY <1>1 DEF CallInv, MetBy
<1>5. \A d \in Calls \ {c} : /\ kind'[d] = kind[d] /\ wants'[d] = wants[d] /\ mem'[d] = mem[d]
                             /\ result'[d] = result[d] /\ Script(d)' = Script(d)
  BY <1>1, ScriptKept DEF CallInv
<1>6. ~Running(c) /\ Running(c)' /\ pc'[c] = 1 /\ sub'[c] = "begin"
  BY <1>1, <1>3 DEF Running, CallInv
<1>7. (pc[c] <= Len(Script(c)))'
  <2>1. Script(c)' = ScriptOf(kind'[c], wants'[c])
    BY DEF Script, ScriptOf
  <2>2. Len(ScriptOf(k, a[1])) \in Nat \ {0}
    BY <1>2, ScriptOfType
  <2> QED
    BY <1>3, <1>6, <2>1, <2>2
<1>8. \A d \in Calls : (IF Running(d) THEN pc[d] <= Len(Script(d)) ELSE pc[d] = 1 /\ sub[d] = "begin")'
  BY <1>1, <1>5, <1>6, <1>7 DEF CallInv, Running
<1> QED
  BY <1>1, <1>3, <1>4, <1>5, <1>6, <1>8 DEF CallInv

(* The invariants of a call that another call's step leaves running.       *)
LEMMA OthersHold ==
  ASSUME BaseInv, NEW c \in Calls, Running(c), FileMoves(c), OthersKept(c),
         NEW d \in Calls \ {c}, Running(d)
  PROVE  (OpenFits(d) /\ AloneHolds(d))'
<1>1. OpenFits(d) /\ c \in met[d] /\ File(d) \in Names
  BY FileIsName DEF BaseInv, HoldInv, MetInv
<1>2. ~Alone(d)
  BY <1>1, VmDirAssumption DEF Alone
<1>3. /\ met'[d] = met[d] /\ sub'[d] = sub[d] /\ pc'[d] = pc[d]
      /\ Script(d)' = Script(d) /\ File(d)' = File(d) /\ (Alone(d)' <=> Alone(d))
  BY ScriptKept DEF OthersKept, File, Alone
<1>4. /\ file'[File(d)] \in {file[File(d)], Absent, Partial, c}
      /\ file'[File(d)] = Absent => file[File(d)] = Absent \/ open'[File(d)] = {}
      /\ d \in open'[File(d)] => d \in open[File(d)]
  BY <1>1 DEF FileMoves
<1>5. Absent \notin {Partial} \cup met[d]
  BY VmDirAssumption DEF BaseInv, CallInv
<1> QED
  BY <1>1, <1>2, <1>3, <1>4, <1>5 DEF OpenFits, AloneHolds

(* ... and of the call whose step it is: only Stat, Remove and Open lead   *)
(* into a step.                                                            *)
LEMMA OwnHold ==
  ASSUME BaseInv, NEW c \in Calls, CallStep(c), Running(c)'
  PROVE  (OpenFits(c) /\ AloneHolds(c))'
<1>0. CallInv /\ FileInv /\ Running(c) /\ File(c) \in Names
  BY FileIsName, CallStepGoesOn DEF BaseInv
<1>1. ASSUME sub'[c] = "begin" PROVE (OpenFits(c) /\ AloneHolds(c))'
  BY <1>1 DEF OpenFits, AloneHolds
<1>2. ASSUME Advance(c) \/ End(c, "failed") PROVE sub'[c] = "begin"
  BY <1>0, <1>2, AdvanceFacts, EndFacts
<1>3. CASE (Stat(c) \/ Remove(c)) /\ Enter(c, "open")
  <2>1. KeptWhatItIs(c) /\ pc'[c] = pc[c] /\ sub'[c] = "open"
    BY <1>0, <1>3, EnterFacts
  <2>2. File(c)' = File(c) /\ Script(c)'[pc'[c]] = Script(c)[pc[c]]
    BY <2>1 DEF File, KeptWhatItIs
  <2>3. CASE Stat(c)
    <3>1. ~Advance(c)
      BY <1>0, <1>2, <2>1
    <3> QED
      BY <2>1, <2>2, <2>3, <3>1 DEF Stat, At, OpenFits, AloneHolds
  <2>4. CASE Remove(c)
    <3>1. Script(c)[pc[c]].op = "place" /\ Unlink(File(c))
      BY <1>0, <1>2, <2>1, <2>4 DEF Remove, At
    <3>2. file'[File(c)] = Absent
      BY <1>0, <3>1, UnlinkMoves
    <3> QED
      BY <2>1, <2>2, <3>1, <3>2 DEF OpenFits, AloneHolds
  <2> QED
    BY <1>3, <2>3, <2>4
<1>4. CASE Open(c)
  <2>1. KeptWhatItIs(c) /\ pc'[c] = pc[c] /\ sub'[c] = "write"
    BY <1>0, <1>4, EnterFacts DEF Open
  <2>2. File(c)' = File(c) /\ Script(c)'[pc'[c]] = Script(c)[pc[c]]
    BY <2>1 DEF File, KeptWhatItIs
  <2>3. Script(c)[pc[c]].op \in {"ensure", "place", "write"}
    BY <1>4 DEF Open, At
  <2>4. file'[File(c)] = Partial /\ c \in open'[File(c)]
    BY <1>0, <1>4 DEF Open, Put, FileInv
  <2> QED
    BY <2>1, <2>2, <2>3, <2>4 DEF OpenFits, AloneHolds
<1>5. CASE RemoveAll(c) /\ Stays
  <2>1. sub[c] = "begin" /\ sub'[c] = sub[c]
    BY <1>0, <1>5, StaysFacts DEF RemoveAll, At
  <2> QED
    BY <1>1, <2>1
<1> QED
  BY <1>1, <1>2, <1>3, <1>4, <1>5
  DEF CallStep, Stat, Remove, RemoveAll, Write, MakeWhole, Fail, Crash, Stays

LEMMA CallStepBaseInv ==
  ASSUME BaseInv, NEW c \in Calls, CallStep(c)
  PROVE  BaseInv'
<1>0. CallInv /\ FileInv /\ MetInv /\ Running(c) /\ GoesOn(c)
  BY CallStepGoesOn DEF BaseInv
<1>1. CallInv' /\ OthersKept(c) /\ (Running(c)' => met'[c] = met[c])
  BY <1>0, GoesOnFacts DEF KeptWhatItIs
<1>2. FileMoves(c) /\ booted' = booted /\ detached' \in BOOLEAN
  BY <1>0, CallStepMoves
<1>3. FileInv'
  <2>1. "machine-id" \in Names /\ New \notin {Absent, Partial, c}
    BY VmDirAssumption DEF Names, Identity
  <2> QED
    BY <1>0, <1>2, <2>1 DEF FileInv, FileMoves
<1>4. ASSUME NEW d \in Calls, Running(d)' PROVE Running(d) /\ met'[d] = met[d]
  BY <1>0, <1>1, <1>4 DEF OthersKept, Running
<1>5. MetInv'
  BY <1>0, <1>4 DEF MetInv
<1>6. ASSUME NEW d \in Calls, Running(d)' PROVE (OpenFits(d) /\ AloneHolds(d))'
  BY <1>0, <1>1, <1>2, <1>4, <1>6, OthersHold, OwnHold
<1>7. ASSUME NEW f \in Names, NEW d \in Calls, file'[f] = d PROVE result'[d] # "none"
  <2>1. CASE d = c
    <3>1. result'[c] \in {result[c], "ok", "failed"}
      BY <1>0, AdvanceFacts, EndFacts DEF GoesOn, Enter, Stays, Running
    <3> QED
      BY <1>0, <2>1, <3>1 DEF Running
  <2>2. CASE d # c
    BY <1>1, <1>2, <1>7, <2>2, VmDirAssumption DEF BaseInv, Begun, FileMoves, OthersKept
  <2> QED
    BY <2>1, <2>2
<1> QED
  BY <1>1, <1>3, <1>5, <1>6, <1>7 DEF BaseInv, HoldInv, Begun

LEMMA BeginBaseInv ==
  ASSUME BaseInv, NEW c \in Calls, NEW k \in Kinds, NEW a \in Asked \cup {Nothing}, Begin(c, k, a)
  PROVE  BaseInv'
<1>0. CallInv /\ FileInv /\ MetInv /\ HoldInv
  BY DEF BaseInv
<1>1. file' = file /\ open' = open /\ booted' \in {booted, NotBooted} /\ detached' \in {detached, FALSE}
  BY DEF Begin
<1>2. FileInv'
  BY <1>0, <1>1 DEF FileInv, Contents, NotBooted
<1>3. CallInv' /\ MetInv'
  <2>1. CallInv' /\ Running(c)' /\ met'[c] = {d \in Calls : Running(d)}
    BY <1>0, BeginFacts
  <2>2. ASSUME NEW d \in Calls \ {c}
        PROVE  (Running(d)' <=> Running(d)) /\ (Running(d) => met'[d] = met[d] \cup {c})
    <3>1. result'[d] = result[d] /\ met'[d] = IF Running(d) THEN met[d] \cup {c} ELSE met[d]
      BY <1>0, BeginFacts
    <3> QED
      BY <3>1 DEF Running
  <2> QED
    BY <1>0, <2>1, <2>2 DEF MetInv
<1>4. ASSUME NEW d \in Calls, Running(d)' PROVE (OpenFits(d) /\ AloneHolds(d))'
  <2>1. CASE d = c
    BY <1>0, <2>1, BeginFacts DEF OpenFits, AloneHolds
  <2>2. CASE d # c
    <3>1. /\ Running(d) /\ met'[d] = met[d] \cup {c} /\ sub'[d] = sub[d] /\ pc'[d] = pc[d]
          /\ Script(d)' = Script(d)
      <4>1. /\ result'[d] = result[d] /\ sub'[d] = sub[d] /\ pc'[d] = pc[d] /\ Script(d)' = Script(d)
            /\ met'[d] = IF Running(d) THEN met[d] \cup {c} ELSE met[d]
        BY <1>0, <2>2, BeginFacts
      <4>2. Running(d)
        BY <1>4, <4>1 DEF Running
      <4> QED
        BY <4>1, <4>2
    <3>2. OpenFits(d) /\ File(d)' = File(d) /\ ~Alone(d)'
      BY <1>0, <3>1, VmDirAssumption DEF HoldInv, File, Alone
    <3> QED
      BY <1>1, <3>1, <3>2 DEF OpenFits, AloneHolds
  <2> QED
    BY <2>1, <2>2
<1>5. Begun'
  <2>1. \A d \in Calls : result[d] # "none" => result'[d] # "none"
    BY <1>0, BeginFacts DEF Running
  <2> QED
    BY <1>1, <2>1 DEF BaseInv, Begun
<1> QED
  BY <1>2, <1>3, <1>4, <1>5 DEF BaseInv, HoldInv

(* What a boot changes: nvram.bin where there was none, and who met it.    *)
LEMMA BootFacts ==
  ASSUME CallInv, FileInv, Boot
  PROVE  /\ UNCHANGED <<kind, wants, mem, pc, sub, result, open, good, detached>>
         /\ file' \in [Names -> Contents] /\ met' \in [Calls -> SUBSET (Calls \cup {New})]
         /\ \A f \in Names : file'[f] = file[f] \/ (f = "nvram" /\ file[f] = Absent /\ file'[f] = New)
         /\ \A d \in Calls : met'[d] \in {met[d], met[d] \cup {New}}
         /\ file' # file => \A d \in Calls : Running(d) => met'[d] = met[d] \cup {New}
         /\ booted' \in {booted, file["machine-id"]}
<1>1. /\ UNCHANGED <<kind, wants, mem, pc, sub, result, open, good, detached>>
      /\ booted' \in {booted, file["machine-id"]}
      /\ \/ file' = file /\ met' = met
         \/ file' = [file EXCEPT !["nvram"] = New] /\ file["nvram"] = Absent /\ met' = MetBy(New)
  BY SMTT(30) DEF Boot, Exists
<1>2. CASE file' = file /\ met' = met
  BY <1>1, <1>2 DEF FileInv, CallInv
<1>3. CASE file' = [file EXCEPT !["nvram"] = New] /\ file["nvram"] = Absent /\ met' = MetBy(New)
  <2>1. New \in Contents
    BY DEF Contents
  <2>2. /\ met' \in [Calls -> SUBSET (Calls \cup {New})]
        /\ \A d \in Calls : met'[d] = IF Running(d) THEN met[d] \cup {New} ELSE met[d]
    BY <1>3 DEF MetBy, CallInv
  <2> QED
    BY <1>1, <1>3, <2>1, <2>2 DEF FileInv
<1> QED
  BY <1>1, <1>2, <1>3

LEMMA BootBaseInv == ASSUME BaseInv, Boot PROVE BaseInv'
<1>0. CallInv /\ FileInv /\ MetInv /\ HoldInv
  BY DEF BaseInv
<1>1. /\ UNCHANGED <<kind, wants, mem, pc, sub, result, open, good, detached>>
      /\ file' \in [Names -> Contents] /\ met' \in [Calls -> SUBSET (Calls \cup {New})]
      /\ booted' \in {booted, file["machine-id"]}
  BY <1>0, BootFacts
<1>2. \A d \in Calls : Script(d)' = Script(d) /\ File(d)' = File(d) /\ (Running(d)' <=> Running(d))
  BY <1>1, ScriptKept DEF File, Running
<1>3. CallInv'
  BY <1>0, <1>1, <1>2 DEF CallInv
<1>4. "machine-id" \in Names /\ file'["machine-id"] = file["machine-id"]
  BY <1>0, BootFacts DEF Names, Identity
<1>5. FileInv'
  BY <1>0, <1>1, <1>4 DEF FileInv
<1>6. \A d \in Calls : met'[d] \in {met[d], met[d] \cup {New}}
  BY <1>0, BootFacts
<1>7. MetInv'
  BY <1>0, <1>2, <1>6 DEF MetInv
<1>8. ASSUME NEW d \in Calls, Running(d) PROVE (OpenFits(d) /\ AloneHolds(d))'
  <2>1. OpenFits(d) /\ AloneHolds(d) /\ File(d) \in Names
    BY <1>0, <1>8, FileIsName DEF HoldInv
  <2>2. Alone(d)' <=> Alone(d)
    BY <1>6 DEF Alone
  <2>3. \/ file'[File(d)] = file[File(d)]
        \/ file[File(d)] = Absent /\ file'[File(d)] = New /\ met'[d] = met[d] \cup {New}
    BY <1>0, <1>8, <2>1, BootFacts
  <2>4. Absent \notin {Partial} \cup met[d]
    BY <1>0, VmDirAssumption DEF CallInv
  <2> QED
    BY <1>1, <1>2, <1>6, <2>1, <2>2, <2>3, <2>4 DEF OpenFits, AloneHolds
<1>9. Begun'
  BY <1>0, <1>1, BootFacts, VmDirAssumption DEF BaseInv, Begun
<1> QED
  BY <1>2, <1>3, <1>5, <1>7, <1>8, <1>9 DEF BaseInv, HoldInv

LEMMA NextBaseInv == BaseInv /\ [Next]_vars => BaseInv'
<1> SUFFICES ASSUME BaseInv, [Next]_vars PROVE BaseInv'
  OBVIOUS
<1>1. CASE UNCHANGED vars
  <2>1. \A c \in Calls : Script(c)' = Script(c) /\ File(c)' = File(c)
    BY <1>1, ScriptKept DEF vars, callVars, File
  <2> QED
    BY <1>1, <2>1
    DEF vars, callVars, BaseInv, CallInv, FileInv, MetInv, Begun, HoldInv, OpenFits, AloneHolds, Alone, Running
<1> QED
  BY <1>1, BeginBaseInv, CallStepBaseInv, BootBaseInv DEF Next, CallStep

LEMMA BaseInvariant == Spec => []BaseInv
BY InitBaseInv, NextBaseInv, PTL DEF Spec

(* Every reachable state is well typed; in particular no call runs past    *)
(* the end of its script.                                                  *)
THEOREM TypeCorrect == Spec => []TypeOK
<1>1. BaseInv => TypeOK
  BY TypeInvParts DEF BaseInv
<1> QED
  BY <1>1, BaseInvariant, PTL
-----------------------------------------------------------------------------
(* What a step can do to a file, by the call that takes it.                *)
LEMMA StepsOn ==
  ASSUME CallInv, NEW c \in Calls, CallStep(c)
  PROVE  Steps(c) \/ (RemoveAll(c) /\ Stays)
<1>0. Running(c)
  BY CallStepGoesOn
<1>1. ASSUME Advance(c) \/ End(c, "failed") PROVE Steps(c)
  <2>1. pc'[c] # pc[c] \/ result'[c] # result[c]
    <3>1. pc[c] \in Nat
      BY DEF CallInv
    <3>2. End(c, "failed") => result'[c] = "failed"
      BY EndFacts
    <3> QED
      BY <1>0, <1>1, <3>1, <3>2, AdvanceFacts DEF Running
  <2> QED
    BY <1>0, <2>1 DEF Steps
<1>2. ASSUME NEW s \in {"open", "write"}, Enter(c, s), sub[c] # s PROVE Steps(c)
  BY <1>0, <1>2, EnterFacts DEF Steps
<1> QED
  BY <1>1, <1>2
  DEF CallStep, Stat, Remove, RemoveAll, Open, Write, MakeWhole, Fail, Crash, At, Stays

(* A CreateVM or an AttachDisk fills a file that is not complete, or that  *)
(* was made while it ran.                                                  *)
FilledBy(c, f) ==
  /\ (kind[c] = "create" /\ f \in Identity) \/ (kind[c] = "attach" /\ f = "data")
  /\ ~Complete(file, f) \/ file[f] \in met[c]

ClearedBy(c, f) ==
  kind[c] = "detach" /\ f = "data" /\ file'[f] = Absent /\ (good # NoCall => detached')

ChangedByCall(f) ==
  \/ \E c \in Calls : Running(c) /\ kind[c] = "delete" /\ RemoveAll(c)
  \/ \E c \in Calls : Steps(c) /\ (kind[c] = "provision" \/ FilledBy(c, f) \/ ClearedBy(c, f))

(* A step on the file at hand.                                             *)
LEMMA OnFileAtHand ==
  ASSUME BaseInv, NEW c \in Calls, CallStep(c), ~RemoveAll(c), NEW f \in Names, file'[f] # file[f]
  PROVE  /\ f = File(c) /\ Script(c)[pc[c]].op # "removeAll"
         /\ Script(c)[pc[c]].op = "remove" =>
              file'[f] = Absent /\ (kind[c] = "detach" /\ good # NoCall => detached')
         /\ Script(c)[pc[c]].op = "ensure" => ~Complete(file, f) \/ file[f] \in met[c]
<1>0. CallInv /\ FileInv /\ OpenFits(c) /\ Running(c) /\ File(c) \in Names
  BY CallStepGoesOn, FileIsName DEF BaseInv, HoldInv
<1>1. CASE Remove(c)
  <2>1. /\ Script(c)[pc[c]].op \in {"remove", "place"} /\ Unlink(File(c))
        /\ detached' = (detached \/ (kind[c] = "detach" /\ good # NoCall))
    BY <1>1 DEF Remove, At
  <2> QED
    BY <1>0, <2>1, UnlinkMoves DEF FileInv
<1>2. CASE Open(c) \/ MakeWhole(c)
  <2>1. \E x : file' = [file EXCEPT ![File(c)] = x]
    BY <1>2 DEF Open, MakeWhole, Put
  <2>2. /\ Script(c)[pc[c]].op \in {"write", "ensure", "place"}
        /\ Script(c)[pc[c]].op = "ensure" => sub[c] = "open"
    BY <1>2 DEF Open, MakeWhole, At
  <2>3. f = File(c)
    BY <1>0, <2>1 DEF FileInv
  <2> QED
    BY <1>0, <2>2, <2>3 DEF OpenFits, Complete
<1>3. CASE Write(c)
  <2>1. c \in open[File(c)] /\ sub[c] = "write" /\ \E x : file' = [file EXCEPT ![File(c)] = x]
    BY <1>3 DEF Write, Put
  <2>2. f = File(c)
    BY <1>0, <2>1 DEF FileInv
  <2> QED
    BY <1>0, <2>1, <2>2 DEF OpenFits, Complete
<1> QED
  BY <1>1, <1>2, <1>3 DEF CallStep, Stat, Fail, Crash

LEMMA FileSteps ==
  ASSUME BaseInv, Next, NEW f \in Names, file'[f] # file[f]
  PROVE  \/ ChangedByCall(f)
         \/ Boot /\ f = "nvram" /\ file[f] = Absent
<1>0. CallInv /\ FileInv
  BY DEF BaseInv
<1>1. ASSUME NEW c \in Calls, CallStep(c) PROVE ChangedByCall(f)
  <2>1. Running(c) /\ IsStepOf(kind[c], Script(c)[pc[c]]) /\ kind[c] \in AllKinds
    BY <1>0, <1>1, CallStepGoesOn, StepIsOfKind
  <2>2. CASE RemoveAll(c)
    <3>1. Script(c)[pc[c]].op = "removeAll"
      BY <2>2 DEF RemoveAll, At
    <3>2. kind[c] = "delete"
      BY <2>1, <3>1 DEF IsStepOf, AllKinds
    <3> QED
      BY <2>1, <2>2, <3>2 DEF ChangedByCall
  <2>3. CASE ~RemoveAll(c)
    <3>1. Steps(c)
      BY <1>0, <1>1, <2>3, StepsOn
    <3>2. /\ f = File(c) /\ Script(c)[pc[c]].op # "removeAll"
          /\ Script(c)[pc[c]].op = "remove" =>
               file'[f] = Absent /\ (kind[c] = "detach" /\ good # NoCall => detached')
          /\ Script(c)[pc[c]].op = "ensure" => ~Complete(file, f) \/ file[f] \in met[c]
      BY <1>1, <2>3, OnFileAtHand
    <3>3. kind[c] = "provision" \/ FilledBy(c, f) \/ ClearedBy(c, f)
      BY <2>1, <3>2 DEF IsStepOf, AllKinds, FilledBy, ClearedBy, File
    <3> QED
      BY <3>1, <3>3 DEF ChangedByCall
  <2> QED
    BY <2>2, <2>3
<1>2. ASSUME Boot PROVE f = "nvram" /\ file[f] = Absent
  BY <1>0, <1>2, BootFacts
<1> QED
  BY <1>1, <1>2 DEF Next, Begin, CallStep

(* A complete identity file is removed by nothing but a provision or       *)
(* DeleteVM, and replaced by nothing but a provision or a CreateVM that    *)
(* met the call that made it, whatever overlaps, fails or crashes.         *)
THEOREM IdentityIsKept == Spec => IdentityNeverReplaced
<1>1. ASSUME BaseInv, [Next]_vars, NEW f \in Identity, Complete(file, f), file'[f] # file[f]
      PROVE  StepOf("provision") \/ (\E c \in Calls : RemoveAll(c)) \/ LateStepOf("create", f)
  <2>1. f \in Names /\ f # "data" /\ Next
    BY <1>1 DEF Names, Identity, vars
  <2>2. ~(Boot /\ f = "nvram" /\ file[f] = Absent)
    BY <1>1 DEF Complete
  <2>3. ChangedByCall(f)
    BY <1>1, <2>1, <2>2, FileSteps
  <2> QED
    BY <1>1, <2>1, <2>3 DEF ChangedByCall, FilledBy, ClearedBy, StepOf, LateStepOf
<1>2. BaseInv /\ [Next]_vars =>
        [\A f \in Identity : Complete(file, f) /\ file'[f] # file[f] =>
           \/ StepOf("provision")
           \/ \E c \in Calls : RemoveAll(c)
           \/ LateStepOf("create", f)]_vars
  BY <1>1
<1> QED
  BY <1>2, BaseInvariant, PTL DEF Spec, IdentityNeverReplaced

(* A complete data disk is removed only by a provision, DetachDisk or      *)
(* DeleteVM, and replaced only by a provision or an AttachDisk that met    *)
(* the call that made it; CreateVM leaves it alone.                        *)
THEOREM DataIsKept == Spec => DataNeverReplaced
<1>1. ASSUME BaseInv, [Next]_vars, Complete(file, "data"), file'["data"] # file["data"]
      PROVE  \/ StepOf("provision")
             \/ StepOf("detach") /\ file'["data"] = Absent
             \/ \E c \in Calls : RemoveAll(c)
             \/ LateStepOf("attach", "data")
  <2>1. "data" \in Names /\ "data" \notin Identity /\ Next
    BY <1>1 DEF Names, Artefacts, Identity, vars
  <2>2. ChangedByCall("data")
    BY <1>1, <2>1, FileSteps
  <2> QED
    BY <1>1, <2>1, <2>2 DEF ChangedByCall, FilledBy, ClearedBy, StepOf, LateStepOf
<1>2. BaseInv /\ [Next]_vars =>
        [Complete(file, "data") /\ file'["data"] # file["data"] =>
           \/ StepOf("provision")
           \/ StepOf("detach") /\ file'["data"] = Absent
           \/ \E c \in Calls : RemoveAll(c)
           \/ LateStepOf("attach", "data")]_vars
  BY <1>1
<1> QED
  BY <1>2, BaseInvariant, PTL DEF Spec, DataNeverReplaced
-----------------------------------------------------------------------------
(* From the first boot at which no call ran, up to the next provision or   *)
(* DeleteVM, the machine identifier that was booted is the one in the      *)
(* directory, and no call that runs has met the call that made it.         *)
Over(c) == result[c] \in {"ok", "failed"}

BootedIsThere ==
  booted # NotBooted =>
    /\ file["machine-id"] = booted /\ Complete(file, "machine-id")
    /\ \A c \in Calls : Running(c) => kind[c] \notin {"provision", "delete"} /\ booted \notin met[c]
    /\ \A c \in Calls : booted = c => Over(c)

LEMMA InitBootedIsThere == Init => BootedIsThere
BY DEF Init, BootedIsThere

(* Who runs after a step: who ran before, or who begins.                   *)
LEMMA RunningAfter ==
  ASSUME BaseInv, [Next]_vars, NEW d \in Calls, Running(d)'
  PROVE  \/ /\ Running(d) /\ kind'[d] = kind[d]
            /\ \/ met'[d] = met[d]
               \/ Boot /\ met'[d] = met[d] \cup {New}
               \/ \E c \in Calls, k \in Kinds, a \in Asked \cup {Nothing} :
                    Begin(c, k, a) /\ ~Running(c) /\ met'[d] = met[d] \cup {c}
         \/ \E k \in Kinds, a \in Asked \cup {Nothing} :
              Begin(d, k, a) /\ kind'[d] = k /\ met'[d] = {c \in Calls : Running(c)}
<1>0. CallInv /\ FileInv
  BY DEF BaseInv
<1>1. ASSUME NEW c \in Calls, NEW k \in Kinds, NEW a \in Asked \cup {Nothing}, Begin(c, k, a)
      PROVE  \/ Begin(d, k, a) /\ kind'[d] = k /\ met'[d] = {e \in Calls : Running(e)}
             \/ Running(d) /\ kind'[d] = kind[d] /\ ~Running(c) /\ met'[d] = met[d] \cup {c}
  <2>1. CASE d = c
    BY <1>0, <1>1, <2>1, BeginFacts
  <2>2. CASE d # c
    <3>1. d \in Calls \ {c}
      BY <2>2
    <3>2. /\ ~Running(c) /\ kind'[d] = kind[d] /\ result'[d] = result[d]
          /\ met'[d] = IF Running(d) THEN met[d] \cup {c} ELSE met[d]
      BY <1>0, <1>1, <3>1, BeginFacts
    <3> QED
      BY <3>2 DEF Running
  <2> QED
    BY <2>1, <2>2
<1>2. ASSUME NEW c \in Calls, CallStep(c) PROVE Running(d) /\ kind'[d] = kind[d] /\ met'[d] = met[d]
  <2>1. Running(c) /\ OthersKept(c) /\ (Running(c)' => KeptWhatItIs(c))
    BY <1>0, <1>2, CallStepGoesOn, GoesOnFacts
  <2> QED
    BY <2>1 DEF OthersKept, KeptWhatItIs, Running
<1>3. ASSUME Boot PROVE Running(d) /\ kind'[d] = kind[d] /\ met'[d] \in {met[d], met[d] \cup {New}}
  BY <1>0, <1>3, BootFacts DEF Running
<1>4. ASSUME UNCHANGED vars PROVE Running(d) /\ kind'[d] = kind[d] /\ met'[d] = met[d]
  BY <1>4 DEF vars, callVars, Running
<1> QED
  BY <1>1, <1>2, <1>3, <1>4 DEF Next, CallStep

LEMMA OverForGood ==
  ASSUME BaseInv, [Next]_vars, NEW g \in Calls, Over(g)
  PROVE  kind'[g] = kind[g] /\ wants'[g] = wants[g] /\ mem'[g] = mem[g] /\ result'[g] = result[g]
<1>0. CallInv /\ FileInv
  BY DEF BaseInv
<1>1. ASSUME NEW c \in Calls, CallStep(c)
      PROVE  kind'[g] = kind[g] /\ wants'[g] = wants[g] /\ mem'[g] = mem[g] /\ result'[g] = result[g]
  BY <1>0, <1>1, CallStepGoesOn, GoesOnFacts DEF OthersKept, Over, Running
<1>2. ASSUME NEW c \in Calls, NEW k \in Kinds, NEW a \in Asked \cup {Nothing}, Begin(c, k, a)
      PROVE  kind'[g] = kind[g] /\ wants'[g] = wants[g] /\ mem'[g] = mem[g] /\ result'[g] = result[g]
  <2>1. g \in Calls \ {c}
    BY <1>2 DEF Begin, Over
  <2> QED
    BY <1>0, <1>2, <2>1, BeginFacts
<1>3. ASSUME Boot \/ UNCHANGED vars
      PROVE  kind'[g] = kind[g] /\ wants'[g] = wants[g] /\ mem'[g] = mem[g] /\ result'[g] = result[g]
  BY <1>3 DEF Boot, vars, callVars
<1> QED
  BY <1>1, <1>2, <1>3 DEF Next, CallStep

LEMMA BootedStays ==
  ASSUME BaseInv, BootedIsThere, [Next]_vars, booted # NotBooted, booted' # NotBooted
  PROVE  booted' = booted /\ file'["machine-id"] = file["machine-id"]
<1>0. "machine-id" \in Names /\ CallInv /\ FileInv
  BY DEF Names, Identity, BaseInv
<1>1. CASE Boot
  BY <1>0, <1>1, BootFacts DEF BootedIsThere
<1>2. CASE ~Boot
  <2>1. booted' = booted
    BY <1>2 DEF Next, Begin, Stat, Remove, RemoveAll, Open, Write, MakeWhole, Fail, Crash, vars
  <2>2. ASSUME file'["machine-id"] # file["machine-id"] PROVE FALSE
    <3>1. Next
      BY <2>2 DEF vars
    <3>2. ChangedByCall("machine-id")
      BY <1>0, <1>2, <2>2, <3>1, FileSteps
    <3> QED
      BY <3>2 DEF ChangedByCall, BootedIsThere, FilledBy, ClearedBy, Steps
  <2> QED
    BY <2>1, <2>2
<1> QED
  BY <1>1, <1>2

LEMMA NextBootedIsThere == BaseInv /\ BootedIsThere /\ [Next]_vars => BootedIsThere'
<1> SUFFICES ASSUME BaseInv, BootedIsThere, [Next]_vars, booted' # NotBooted PROVE BootedIsThere'
  BY DEF BootedIsThere
<1>0. CallInv /\ FileInv /\ "machine-id" \in Names
  BY DEF BaseInv, Names, Identity
<1>1. CASE booted = NotBooted
  <2>1. Boot
    BY <1>1 DEF Next, Begin, Stat, Remove, RemoveAll, Open, Write, MakeWhole, Fail, Crash, vars
  <2>2. /\ booted' = file["machine-id"] /\ Complete(file, "machine-id")
        /\ \A c \in Calls : ~Running(c)
    BY <1>1, <2>1 DEF Boot, Builds, PlatformBuilds
  <2>3. /\ file'["machine-id"] = file["machine-id"] /\ result' = result
        /\ \A c \in Calls : ~Running(c)'
    BY <1>0, <2>1, <2>2, BootFacts DEF Running
  <2>4. ASSUME NEW c \in Calls, booted' = c PROVE Over(c)'
    <3>1. file["machine-id"] = c /\ ~Running(c) /\ result'[c] = result[c]
      BY <2>2, <2>3, <2>4
    <3>2. result[c] # "none"
      BY <1>0, <3>1 DEF BaseInv, Begun
    <3>3. result[c] \in {"none", "running", "ok", "failed"}
      BY <1>0 DEF CallInv
    <3> QED
      BY <3>1, <3>2, <3>3 DEF Over, Running
  <2> QED
    BY <2>2, <2>3, <2>4 DEF BootedIsThere, Complete
<1>2. CASE booted # NotBooted
  <2>1. /\ booted' = booted /\ file'["machine-id"] = booted /\ booted # New /\ Complete(file, "machine-id")
        /\ file["machine-id"] = booted /\ \A c \in Calls : booted = c => Over(c)
    BY <1>0, <1>2, BootedStays DEF BootedIsThere, FileInv
  <2>2. ASSUME NEW d \in Calls, Running(d)'
        PROVE  kind'[d] \notin {"provision", "delete"} /\ booted \notin met'[d]
    <3>1. ASSUME NEW c \in Calls, NEW k \in Kinds, NEW a \in Asked \cup {Nothing}, Begin(c, k, a)
          PROVE  k \notin {"provision", "delete"} /\ c # booted
      BY <1>2, <2>1, <3>1 DEF Begin, Over
    <3>2. booted \notin {c \in Calls : Running(c)}
      BY <2>1 DEF Over, Running
    <3>3. CASE Running(d) /\ kind'[d] = kind[d]
      <4>1. kind[d] \notin {"provision", "delete"} /\ booted \notin met[d]
        BY <1>2, <3>3 DEF BootedIsThere
      <4>2. \A k, a : ~Begin(d, k, a)
        BY <3>3 DEF Begin, Running
      <4> QED
        BY <2>1, <2>2, <3>1, <3>3, <4>1, <4>2, RunningAfter
    <3>4. CASE ~(Running(d) /\ kind'[d] = kind[d])
      BY <2>2, <3>1, <3>2, <3>4, RunningAfter
    <3> QED
      BY <3>3, <3>4
  <2>3. \A c \in Calls : booted' = c => Over(c)'
    BY <2>1, OverForGood DEF Over
  <2> QED
    BY <2>1, <2>2, <2>3 DEF BootedIsThere, Complete
<1> QED
  BY <1>1, <1>2

(* From a boot at which no call ran, up to the next provision or DeleteVM, *)
(* every boot sees one machine identifier, whatever overlaps.              *)
THEOREM RebootsSeeOneMachine == Spec => SameMachineAcrossBoots
<1>1. Spec => []BootedIsThere
  BY InitBootedIsThere, NextBootedIsThere, BaseInvariant, PTL DEF Spec
<1>2. BaseInv /\ BootedIsThere /\ [Next]_vars =>
        [booted # NotBooted /\ booted' # NotBooted => booted' = booted]_vars
  BY BootedStays
<1> QED
  BY <1>1, <1>2, BaseInvariant, PTL DEF Spec, SameMachineAcrossBoots
-----------------------------------------------------------------------------
(* What the steps of a provision before the n-th have made of directory d. *)
Done(c, n, d) ==
  \A j \in 1..n : IF Script(c)[j].op = "remove" THEN d[Script(c)[j].file] \in {Absent, c}
                                                ELSE d[Script(c)[j].file] = c

(* A provision that has met no other call has done the steps it has        *)
(* passed, up to the file that it is just writing.                         *)
Progress ==
  \A c \in Calls : Running(c) /\ kind[c] = "provision" /\ met[c] = {} =>
    Done(c, pc[c] - 1, IF sub[c] = "write" THEN [file EXCEPT ![File(c)] = c] ELSE file)

LEMMA ProvisionScript ==
  ASSUME CallInv, NEW c \in Calls, kind[c] = "provision"
  PROVE  /\ WipedThenMade(Script(c))
         /\ MakesAll(Script(c), {"disk", "config"} \cup Identity \cup wants[c])
         /\ Len(Script(c)) \in Nat \ {0}
<1>1. Script(c) = ProvisionSteps(wants[c]) /\ wants[c] \in SUBSET Optional
  BY DEF Script, CallInv
<1>2. ShapedLike(Script(c), Len(Script(c)) - 7, wants[c])
  BY <1>1, ProvisionShape
<1> QED
  BY <1>1, <1>2, ShapeOrder, ShapeMakes, ScriptType DEF CallInv

(* Of the steps passed, one on the file at hand is the wipe before its     *)
(* making.                                                                 *)
LEMMA PassedSteps ==
  ASSUME BaseInv, NEW c \in Calls, Running(c), kind[c] = "provision", NEW j \in 1..(pc[c] - 1),
         Script(c)[j].file = File(c)
  PROVE  Script(c)[j].op = "remove" /\ Script(c)[pc[c]].op = "ensure"
<1>1. pc[c] \in 1..Len(Script(c)) /\ j \in 1..Len(Script(c)) /\ j < pc[c]
  BY ProvisionScript DEF BaseInv, CallInv
<1> QED
  BY <1>1, ProvisionScript DEF WipedThenMade, File, BaseInv

LEMMA PassedFiles ==
  ASSUME BaseInv, NEW c \in Calls, Running(c), kind[c] = "provision", NEW j \in 1..(pc[c] - 1)
  PROVE  Script(c)[j].file \in Names
<1>1. j \in 1..Len(Script(c))
  BY ProvisionScript DEF BaseInv, CallInv
<1> QED
  BY <1>1, ScriptType DEF BaseInv, CallInv, IsStepOf, Names, Artefacts, Identity

(* Making the file at hand undoes no step that was passed; nor does        *)
(* removing it, which no step before has made.                             *)
LEMMA MakingKeepsDone ==
  ASSUME BaseInv, Progress, NEW c \in Calls, Running(c), kind[c] = "provision", met[c] = {}
  PROVE  Done(c, pc[c] - 1, [file EXCEPT ![File(c)] = c])
<1>1. CASE sub[c] = "write"
  BY <1>1 DEF Progress
<1>2. CASE sub[c] # "write"
  <2>1. Done(c, pc[c] - 1, file)
    BY <1>2 DEF Progress
  <2>2. ASSUME NEW j \in 1..(pc[c] - 1)
        PROVE  IF Script(c)[j].op = "remove"
                 THEN [file EXCEPT ![File(c)] = c][Script(c)[j].file] \in {Absent, c}
                 ELSE [file EXCEPT ![File(c)] = c][Script(c)[j].file] = c
    <3>1. Script(c)[j].file \in Names /\ file \in [Names -> Contents]
      BY PassedFiles DEF BaseInv, FileInv
    <3>2. [file EXCEPT ![File(c)] = c][Script(c)[j].file] \in {file[Script(c)[j].file], c}
      BY <3>1
    <3>3. [file EXCEPT ![File(c)] = c][Script(c)[j].file] = c \/ File(c) # Script(c)[j].file
      BY <3>1
    <3> QED
      BY <2>1, <3>1, <3>2, <3>3 DEF Done
  <2> QED
    BY <2>2 DEF Done
<1> QED
  BY <1>1, <1>2

LEMMA RemovingKeepsDone ==
  ASSUME BaseInv, Progress, NEW c \in Calls, Running(c), kind[c] = "provision", met[c] = {},
         sub[c] # "write", Script(c)[pc[c]].op # "ensure"
  PROVE  Done(c, pc[c] - 1, [file EXCEPT ![File(c)] = Absent])
<1>1. Done(c, pc[c] - 1, file) /\ file \in [Names -> Contents]
  BY DEF Progress, BaseInv, FileInv
<1>2. ASSUME NEW j \in 1..(pc[c] - 1)
      PROVE  [file EXCEPT ![File(c)] = Absent][Script(c)[j].file] = file[Script(c)[j].file]
  BY <1>1, PassedFiles, PassedSteps
<1> QED
  BY <1>1, <1>2 DEF Done

LEMMA DoneOneMore ==
  ASSUME NEW c, NEW n \in Nat \ {0}, NEW d, Done(c, n - 1, d),
         IF Script(c)[n].op = "remove" THEN d[Script(c)[n].file] \in {Absent, c}
                                       ELSE d[Script(c)[n].file] = c
  PROVE  Done(c, n, d)
BY DEF Done

(* A step that leads on has done what it stands for, ...                   *)
LEMMA DoneAfterAdvance ==
  ASSUME BaseInv, Progress, NEW c \in Calls, kind[c] = "provision", met[c] = {},
         Stat(c) \/ Remove(c) \/ Write(c) \/ MakeWhole(c), Advance(c)
  PROVE  Done(c, pc[c], file')
<1>0. CallInv /\ FileInv /\ Running(c) /\ pc[c] \in Nat \ {0} /\ File(c) \in Names
  BY FileIsName DEF BaseInv, CallInv, Stat, Remove, Write, MakeWhole, At
<1>a. ~Enter(c, "open")
  <2>1. sub'[c] = "begin"
    BY <1>0, AdvanceFacts DEF End, CallInv
  <2> QED
    BY <1>0, <2>1, EnterFacts
<1>1. CASE Stat(c)
  <2>1. /\ Script(c)[pc[c]].op = "ensure" /\ sub[c] = "begin" /\ file' = file
        /\ file[File(c)] # Absent
    BY <1>1, <1>a DEF Stat, At
  <2>2. Done(c, pc[c] - 1, file)
    BY <1>0, <2>1 DEF Progress
  <2>3. pc[c] \in 1..Len(Script(c))
    BY <1>0, ProvisionScript DEF CallInv
  <2>4. PICK i \in 1..(pc[c] - 1) : Script(c)[i] = Step("remove", File(c))
    BY <1>0, <2>1, <2>3, ProvisionScript DEF WipedThenMade, File
  <2>5. file[File(c)] = c
    BY <2>1, <2>2, <2>4 DEF Done, Step
  <2> QED
    BY <1>0, <2>1, <2>2, <2>5, DoneOneMore DEF File
<1>2. CASE Remove(c)
  <2>1. Script(c)[pc[c]].op \in {"remove", "place"} /\ sub[c] = "begin" /\ file' = [file EXCEPT ![File(c)] = Absent]
    BY <1>2 DEF Remove, At, Unlink
  <2>2. Script(c)[pc[c]].op = "remove"
    BY <1>2, <1>a DEF Remove, At
  <2>3. Done(c, pc[c] - 1, file')
    BY <1>0, <2>1, RemovingKeepsDone
  <2>4. file'[Script(c)[pc[c]].file] = Absent
    BY <1>0, <2>1, <2>2, FileIsName DEF FileInv, File
  <2> QED
    BY <1>0, <2>2, <2>3, <2>4, DoneOneMore
<1>3. CASE Write(c) \/ MakeWhole(c)
  <2>1. /\ Script(c)[pc[c]].op \in {"ensure", "place", "write"}
        /\ file' = [file EXCEPT ![File(c)] = c]
    <3>1. CASE Write(c)
      <4>1. sub[c] = "write" /\ Alone(c)
        BY <1>0, <3>1 DEF Write, Alone
      <4>2. OpenFits(c) /\ c \in open[File(c)]
        BY <1>0, <4>1 DEF BaseInv, HoldInv, AloneHolds
      <4> QED
        BY <3>1, <4>1, <4>2 DEF Write, OpenFits, Put
    <3>2. CASE MakeWhole(c)
      BY <3>2 DEF MakeWhole, At, Put
    <3> QED
      BY <1>3, <3>1, <3>2
  <2>2. Done(c, pc[c] - 1, file')
    BY <1>0, <2>1, MakingKeepsDone
  <2>3. file'[Script(c)[pc[c]].file] = c
    BY <1>0, <2>1, FileIsName DEF FileInv, File
  <2> QED
    BY <1>0, <2>1, <2>2, <2>3, DoneOneMore
<1> QED
  BY <1>1, <1>2, <1>3

(* ... and one that goes further into the step at hand keeps what was done.*)
LEMMA DoneAfterEnter ==
  ASSUME BaseInv, Progress, NEW c \in Calls, kind[c] = "provision", met[c] = {}, Running(c),
         \/ Stat(c) /\ Enter(c, "open")
         \/ Remove(c) /\ Enter(c, "open")
         \/ Open(c)
  PROVE  Done(c, pc[c] - 1, IF sub'[c] = "write" THEN [file' EXCEPT ![File(c)] = c] ELSE file')
<1>0. CallInv /\ FileInv /\ File(c) \in Names
  BY FileIsName DEF BaseInv
<1>1. CASE Stat(c) /\ Enter(c, "open")
  <2>1. file' = file /\ sub'[c] = "open" /\ sub[c] = "begin"
    BY <1>0, <1>1 DEF Stat, At, Enter, CallInv
  <2> QED
    BY <2>1 DEF Progress
<1>2. CASE Remove(c) /\ Enter(c, "open")
  <2>1. /\ file' = [file EXCEPT ![File(c)] = Absent] /\ sub'[c] = "open" /\ sub[c] = "begin"
        /\ Script(c)[pc[c]].op \in {"remove", "place"}
    BY <1>0, <1>2 DEF Remove, At, Enter, Unlink, CallInv
  <2> QED
    BY <2>1, RemovingKeepsDone
<1>3. CASE Open(c)
  <2>1. file' = [file EXCEPT ![File(c)] = Partial] /\ sub'[c] = "write"
    BY <1>0, <1>3 DEF Open, Enter, Put, CallInv
  <2>2. [file' EXCEPT ![File(c)] = c] = [file EXCEPT ![File(c)] = c]
    BY <1>0, <2>1 DEF FileInv
  <2> QED
    BY <2>1, <2>2, MakingKeepsDone
<1> QED
  BY <1>1, <1>2, <1>3

LEMMA NextProgress == BaseInv /\ Progress /\ [Next]_vars => Progress'
<1> SUFFICES ASSUME BaseInv, Progress, [Next]_vars,
                    NEW c \in Calls, Running(c)', kind'[c] = "provision", met'[c] = {}
             PROVE  Done(c, pc[c] - 1, IF sub[c] = "write" THEN [file EXCEPT ![File(c)] = c] ELSE file)'
  BY DEF Progress
<1>0. CallInv /\ FileInv /\ MetInv
  BY DEF BaseInv
<1>1. ASSUME NEW k \in Kinds, NEW a \in Asked \cup {Nothing}, Begin(c, k, a)
      PROVE  pc'[c] = 1
  BY <1>0, <1>1, BeginFacts
<1>2. CASE pc'[c] = 1
  BY <1>2 DEF Done
<1>3. CASE Running(c) /\ kind[c] = "provision" /\ met[c] = {} /\ (UNCHANGED vars \/ Boot)
  <2>1. pc' = pc /\ sub' = sub /\ kind' = kind /\ wants' = wants /\ file' = file
    <3>1. CASE UNCHANGED vars
      BY <3>1 DEF vars, callVars
    <3>2. CASE Boot
      BY <1>0, <1>3, <3>2, BootFacts
    <3> QED
      BY <1>3, <3>1, <3>2
  <2>2. Script(c)' = Script(c) /\ File(c)' = File(c)
    BY <2>1, ScriptKept DEF File
  <2> QED
    BY <1>3, <2>1, <2>2 DEF Progress, Done
<1>4. CASE Running(c) /\ kind[c] = "provision" /\ met[c] = {} /\ CallStep(c)
  <2>1. kind[c] # "delete" /\ Script(c)[pc[c]].op # "removeAll"
    BY <1>0, <1>4, StepIsOfKind DEF IsStepOf
  <2>2. ~RemoveAll(c) /\ ~Fail(c) /\ ~Crash(c)
    BY <1>0, <1>4, <2>1, EndFacts DEF RemoveAll, Fail, Crash, At
  <2>3. CASE (Stat(c) \/ Remove(c) \/ Write(c) \/ MakeWhole(c)) /\ Advance(c)
    <3>1. pc'[c] = pc[c] + 1 /\ sub'[c] = "begin" /\ Script(c)' = Script(c) /\ pc[c] \in Nat
      BY <1>0, <1>4, <2>3, AdvanceFacts DEF KeptWhatItIs, CallInv
    <3>2. Done(c, pc[c], file')
      BY <1>4, <2>3, DoneAfterAdvance
    <3> QED
      BY <3>1, <3>2 DEF Done
  <2>4. CASE (Stat(c) /\ Enter(c, "open")) \/ (Remove(c) /\ Enter(c, "open")) \/ Open(c)
    <3>1. pc' = pc /\ Script(c)' = Script(c) /\ File(c)' = File(c)
      BY <2>4, ScriptKept DEF Open, Enter, Args, File
    <3>2. Done(c, pc[c] - 1, IF sub'[c] = "write" THEN [file' EXCEPT ![File(c)] = c] ELSE file')
      BY <1>4, <2>4, DoneAfterEnter
    <3> QED
      BY <3>1, <3>2 DEF Done
  <2> QED
    BY <1>4, <2>2, <2>3, <2>4 DEF CallStep, Stat, Remove, Write, MakeWhole
<1>5. ASSUME Running(c), met[c] = {}, NEW d \in Calls, CallStep(d) PROVE d = c
  BY <1>0, <1>5, CallStepGoesOn DEF MetInv
<1>6. \/ Running(c) /\ kind[c] = "provision" /\ met[c] = {}
      \/ \E k \in Kinds, a \in Asked \cup {Nothing} : Begin(c, k, a)
  BY RunningAfter
<1>7. ASSUME NEW d \in Calls, NEW k \in Kinds, NEW a \in Asked \cup {Nothing}, Begin(d, k, a), Running(c)
      PROVE  FALSE
  <2>1. c \in Calls \ {d} /\ CallInv
    BY <1>0, <1>7 DEF Begin, Running
  <2> QED
    BY <1>7, <2>1, BeginFacts
<1> QED
  BY <1>1, <1>2, <1>3, <1>4, <1>5, <1>6, <1>7 DEF Next, CallStep
-----------------------------------------------------------------------------
(* What the last provision has made is still there, its data disk unless   *)
(* it was detached, and no call that runs has met it.                      *)
Made(c) == {"disk", "config"} \cup Identity \cup wants[c]

GoodIsThere ==
  good # NoCall =>
    /\ kind[good] = "provision" /\ result[good] = "ok"
    /\ \A f \in Made(good) : file[f] = good \/ (f = "data" /\ detached)
    /\ \A c \in Calls : Running(c) => kind[c] \notin {"provision", "delete"} /\ good \notin met[c]

LEMMA MadeAreNames == ASSUME CallInv, NEW c \in Calls PROVE Made(c) \subseteq Names
BY DEF Made, CallInv, Names, Artefacts, Identity, Optional

LEMMA InitGoodIsThere == Init => GoodIsThere /\ Progress
BY DEF Init, GoodIsThere, Progress, Running

(* The end of a provision.                                                 *)
LEMMA ProvisionReturns ==
  ASSUME BaseInv, Progress, Next, good' # good, good' # NoCall
  PROVE  /\ good' \in Calls /\ kind'[good'] = "provision" /\ result'[good'] = "ok"
         /\ wants'[good'] = wants[good'] /\ \A f \in Made(good') : file'[f] = good'
         /\ \A c \in Calls : ~Running(c)'
<1>0. CallInv /\ FileInv /\ MetInv
  BY DEF BaseInv
<1>1. PICK c \in Calls : Running(c) /\ CallStep(c)
  BY CallStepGoesOn DEF Next, Begin, Boot, CallStep
<1>2. /\ good' = c /\ End(c, "ok") /\ kind[c] = "provision" /\ pc[c] = Len(Script(c)) /\ Advance(c)
      /\ met[c] = {}
      /\ Stat(c) \/ Remove(c) \/ Write(c) \/ MakeWhole(c)
  <2>1. ~End(c, "failed") /\ ~Enter(c, "open") /\ ~Enter(c, "write") /\ ~Stays
    BY DEF End, Enter, Stays
  <2>2. Advance(c) /\ (Stat(c) \/ Remove(c) \/ RemoveAll(c) \/ Write(c) \/ MakeWhole(c))
    BY <1>1, <2>1
    DEF CallStep, Stat, Remove, RemoveAll, Open, Write, MakeWhole, Fail, Crash, Stays
  <2>3. ~(pc[c] < Len(Script(c))) /\ End(c, "ok")
    BY <2>2 DEF Advance
  <2>4. good' = c /\ kind[c] = "provision" /\ met[c] = {}
    BY <2>3 DEF End
  <2>5. pc[c] = Len(Script(c))
    BY <1>0, <1>1, <2>3, <2>4, ProvisionScript DEF CallInv
  <2>6. ~RemoveAll(c)
    BY <1>0, <1>1, <2>4, StepIsOfKind DEF IsStepOf, RemoveAll, At
  <2> QED
    BY <2>2, <2>3, <2>4, <2>5, <2>6
<1>3. Done(c, Len(Script(c)), file')
  BY <1>2, DoneAfterAdvance
<1>4. ASSUME NEW f \in Made(c) PROVE file'[f] = c
  <2>1. PICK j \in 1..Len(Script(c)) : Script(c)[j].file = f /\ Script(c)[j].op # "remove"
    BY <1>0, <1>2, <1>4, ProvisionScript DEF MakesAll, Made
  <2> QED
    BY <1>3, <2>1 DEF Done
<1>5. kind' = kind /\ wants' = wants /\ result' = [result EXCEPT ![c] = "ok"]
  BY <1>2 DEF End, Args
<1>6. ASSUME NEW d \in Calls PROVE ~Running(d)'
  BY <1>0, <1>1, <1>2, <1>5 DEF CallInv, MetInv, Running
<1>7. result'[c] = "ok"
  BY <1>0, <1>5 DEF CallInv
<1> QED
  BY <1>2, <1>4, <1>5, <1>6, <1>7 DEF Made

(* A file of the last provision stays as it is, unless it is the data disk *)
(* and is detached.                                                        *)
LEMMA GoodFileStays ==
  ASSUME BaseInv, GoodIsThere, [Next]_vars, good # NoCall, good' = good, NEW f \in Made(good)
  PROVE  file'[f] = good \/ (f = "data" /\ detached')
<1>1. /\ good \in Calls /\ kind[good] = "provision" /\ result[good] = "ok"
      /\ file[f] = good \/ (f = "data" /\ detached)
      /\ \A c \in Calls : Running(c) => kind[c] \notin {"provision", "delete"} /\ good \notin met[c]
  BY DEF GoodIsThere, BaseInv, CallInv
<1>2. CASE detached /\ f = "data"
  <2>1. ~(\E c \in Calls, k \in {"provision", "delete"}, a \in Asked \cup {Nothing} : Begin(c, k, a))
    BY DEF Begin
  <2>2. detached'
    BY <1>2, <2>1
    DEF Next, Begin, Stat, Remove, RemoveAll, Open, Write, MakeWhole, Fail, Crash, Boot, vars, callVars
  <2> QED
    BY <1>2, <2>2
<1>3. CASE file[f] = good
  <2>1. f \in Names /\ Complete(file, f)
    BY <1>1, <1>3, MadeAreNames, VmDirAssumption DEF BaseInv, Complete
  <2>2. ASSUME Next, file'[f] # file[f] PROVE f = "data" /\ detached'
    <3>1. ChangedByCall(f)
      BY <2>1, <2>2, FileSteps DEF Complete
    <3> QED
      BY <1>1, <1>3, <2>1, <3>1 DEF ChangedByCall, FilledBy, ClearedBy, Steps
  <2> QED
    BY <1>3, <2>2 DEF vars
<1> QED
  BY <1>1, <1>2, <1>3

LEMMA NextGoodIsThere == BaseInv /\ Progress /\ GoodIsThere /\ [Next]_vars => GoodIsThere'
<1> SUFFICES ASSUME BaseInv, Progress, GoodIsThere, [Next]_vars, good' # NoCall PROVE GoodIsThere'
  BY DEF GoodIsThere, NoCall
<1>1. CASE good' # good
  <2>1. Next
    BY <1>1 DEF vars, callVars
  <2>2. /\ good' \in Calls /\ kind'[good'] = "provision" /\ result'[good'] = "ok"
        /\ wants'[good'] = wants[good'] /\ \A f \in Made(good') : file'[f] = good'
        /\ \A c \in Calls : ~Running(c)'
    BY <1>1, <2>1, ProvisionReturns
  <2> QED
    BY <2>2 DEF GoodIsThere, Made
<1>2. CASE good' = good
  <2>1. /\ good \in Calls /\ good # NoCall /\ kind[good] = "provision" /\ result[good] = "ok"
        /\ \A c \in Calls : Running(c) => kind[c] \notin {"provision", "delete"} /\ good \notin met[c]
    BY <1>2 DEF GoodIsThere, BaseInv, CallInv
  <2>2. kind'[good] = "provision" /\ result'[good] = "ok" /\ Made(good)' = Made(good)
    BY <1>2, <2>1, OverForGood DEF Made, Over
  <2>3. \A f \in Made(good) : file'[f] = good \/ (f = "data" /\ detached')
    BY <1>2, <2>1, GoodFileStays
  <2>4. ASSUME NEW d \in Calls, Running(d)'
        PROVE  kind'[d] \notin {"provision", "delete"} /\ good \notin met'[d]
    <3>1. ASSUME NEW c \in Calls, NEW k \in Kinds, NEW a \in Asked \cup {Nothing}, Begin(c, k, a)
          PROVE  k \notin {"provision", "delete"} /\ c # good
      BY <1>2, <2>1, <3>1 DEF Begin
    <3>2. good \notin {c \in Calls : Running(c)} /\ good # New
      BY <2>1, VmDirAssumption DEF Running
    <3>3. CASE Running(d) /\ kind'[d] = kind[d]
      <4>1. kind[d] \notin {"provision", "delete"} /\ good \notin met[d]
        BY <2>1, <3>3
      <4>2. \A k, a : ~Begin(d, k, a)
        BY <3>3 DEF Begin, Running
      <4> QED
        BY <2>4, <3>1, <3>2, <3>3, <4>1, <4>2, RunningAfter
    <3>4. CASE ~(Running(d) /\ kind'[d] = kind[d])
      BY <2>4, <3>1, <3>2, <3>4, RunningAfter
    <3> QED
      BY <3>3, <3>4
  <2> QED
    BY <1>2, <2>1, <2>2, <2>3, <2>4 DEF GoodIsThere
<1> QED
  BY <1>1, <1>2

LEMMA GoodInvariant == Spec => [](BaseInv /\ GoodIsThere)
<1>1. Spec => [](BaseInv /\ Progress)
  BY InitGoodIsThere, NextProgress, BaseInvariant, PTL DEF Spec
<1> QED
  BY <1>1, InitGoodIsThere, NextGoodIsThere, PTL DEF Spec
-----------------------------------------------------------------------------
(* The configuration of a VM directory (VzConfig).                         *)

(* mem_gib is honoured exactly as long as the product fits in a uint64.    *)
LEMMA MemBytesExact ==
  ASSUME NEW m \in Nat, Fits(m)
  PROVE  MemBytes(m) > 0 /\ (m > 0 => MemBytes(m) = m * GiB)
<1>1. GiB \in Nat \ {0} /\ Word \in Nat /\ 2 * GiB < Word
  BY VzConfigAssumption
<1>2. CASE m > 0
  <2>1. m * GiB \in Nat /\ m * GiB < Word
    BY <1>1 DEF Fits
  <2>2. m * GiB > 0
    BY <1>1, <1>2
  <2>3. (m * GiB) % Word = m * GiB
    BY <1>1, <2>1
  <2> QED
    BY <1>2, <2>2, <2>3 DEF MemBytes
<1>3. CASE ~(m > 0)
  BY <1>1, <1>3 DEF MemBytes
<1> QED
  BY <1>2, <1>3

(* The disk of a directory that has one is the first block device.         *)
LEMMA DiskComesFirst ==
  ASSUME NEW d, NEW cfg, Exists(d, "disk")
  PROVE  Head(Storage(d, cfg)) = Device("disk", FALSE)
BY DEF Storage, Primary

(* What a directory with a provision's config.json is configured as.       *)
LEMMA ProvisionedConfig ==
  ASSUME NEW g \in Calls, file["config"] = g, g \notin {Absent, Partial}
  PROVE  /\ Config.data <=> "data" \in wants[g]
         /\ Config.mem = mem[g] /\ Config.micro = FALSE /\ Config.shares = "none"
         /\ Decoded(file, Config) = Config
BY DEF Config, EmptyConfig, Decoded, Complete

(* A provision that returned nil and met no other call has left a VM of    *)
(* its own, its data disk included until that is detached, which boots     *)
(* where it can, until the next provision or DeleteVM.                     *)
THEOREM ProvisionsAreWhole == Spec => []ProvisionIsWhole
<1>1. BaseInv /\ GoodIsThere => ProvisionIsWhole
  <2> SUFFICES ASSUME BaseInv, GoodIsThere, good # NoCall PROVE ProvisionIsWhole
    BY DEF ProvisionIsWhole
  <2>1. /\ good \in Calls /\ good \notin {Absent, Partial} /\ mem[good] \in Nat
        /\ \A f \in Made(good) : file[f] = good \/ (f = "data" /\ detached)
    BY VmDirAssumption DEF GoodIsThere, BaseInv, CallInv
  <2>2. /\ file["disk"] = good /\ file["config"] = good
        /\ file["nvram"] = good /\ file["machine-id"] = good
    BY <2>1 DEF Made, Identity
  <2>3. /\ Config.data <=> "data" \in wants[good]
        /\ Config.mem = mem[good] /\ Config.micro = FALSE /\ Config.shares = "none"
        /\ Decoded(file, Config) = Config
    BY <2>1, <2>2, ProvisionedConfig
  <2>4. Head(Storage(file, Config)) = Device("disk", FALSE)
    BY <2>1, <2>2, DiskComesFirst DEF Exists
  <2>5. /\ DataListed(file, Config) <=> "data" \in wants[good]
        /\ Graphics(file, Config)
        /\ Memory(file, Config) = MemBytes(mem[good])
    BY <2>3 DEF DataListed, Graphics, Micro, Memory
  <2>6. ~detached => StorageBuilds(file, Config)
    BY <2>1, <2>5 DEF StorageBuilds, Exists, Made
  <2>7. ASSUME Fits(mem[good]), ~detached \/ StorageBuilds(file, Config) PROVE Builds(file, Config)
    BY <2>1, <2>2, <2>3, <2>5, <2>6, <2>7, MemBytesExact
    DEF Builds, LoaderBuilds, PlatformBuilds, Complete, SharesBuild, Valid
  <2> QED
    BY <2>1, <2>4, <2>5, <2>7, MemBytesExact DEF ProvisionIsWhole, Made
<1> QED
  BY <1>1, GoodInvariant, PTL
-----------------------------------------------------------------------------
(* What CreateVM's "no-op for any file that already exists" rests on: that *)
(* no call is cut short and none overlaps another. Then a partial file is  *)
(* one that the running call is writing, and a CreateVM finds its own      *)
(* files or complete ones.                                                 *)
Uncut == ~MayFail /\ ~MayCrash

OneByOne == Joins = {}

AllAlone == \A c \in Calls : Running(c) => Alone(c)

LEMMA OneAtATime ==
  ASSUME BaseInv, AllAlone, NEW c \in Calls, NEW d \in Calls, Running(c), Running(d)
  PROVE  c = d
BY VmDirAssumption DEF AllAlone, Alone, BaseInv, MetInv

LEMMA NextAllAlone == OneByOne /\ BaseInv /\ AllAlone /\ [Next]_vars => AllAlone'
<1> SUFFICES ASSUME OneByOne, BaseInv, AllAlone, [Next]_vars, NEW d \in Calls, Running(d)'
             PROVE  met'[d] \subseteq {New}
  BY DEF AllAlone, Alone
<1>1. ASSUME NEW c \in Calls, NEW k, NEW a, Begin(c, k, a) PROVE \A e \in Calls : ~Running(e)
  BY <1>1 DEF Begin, OneByOne
<1>2. Running(d) => met[d] \subseteq {New}
  BY DEF AllAlone, Alone
<1> QED
  BY <1>1, <1>2, RunningAfter

OnlyOpenIsPartial ==
  \A f \in Names : file[f] = Partial => \E c \in Calls : Running(c) /\ sub[c] = "write" /\ File(c) = f

(* A CreateVM has seen to the files of the steps it has passed.            *)
SeenTo(n, d) == \A j \in 1..n : Exists(d, CreateSteps[j].file)

CreateProgress == \A c \in Calls : Running(c) /\ kind[c] = "create" => SeenTo(pc[c] - 1, file)

LEMMA NextOnlyOpenIsPartial ==
  Uncut /\ OneByOne /\ BaseInv /\ AllAlone /\ OnlyOpenIsPartial /\ [Next]_vars => OnlyOpenIsPartial'
<1> SUFFICES ASSUME Uncut, OneByOne, BaseInv, AllAlone, OnlyOpenIsPartial, [Next]_vars
             PROVE  OnlyOpenIsPartial'
  OBVIOUS
<1>0. CallInv /\ FileInv /\ Absent # Partial /\ New # Partial
  BY VmDirAssumption DEF BaseInv
<1> DEFINE NonePartial == \A f \in Names : file[f] # Partial
<1>1. (\A c \in Calls : ~Running(c)) => NonePartial
  BY DEF OnlyOpenIsPartial
<1>2. ASSUME NEW c \in Calls, Running(c), sub[c] # "write" PROVE NonePartial
  BY <1>2, OneAtATime DEF OnlyOpenIsPartial
<1>3. ASSUME NEW c \in Calls, NEW k, NEW a, Begin(c, k, a) PROVE OnlyOpenIsPartial'
  <2>1. (\A d \in Calls : ~Running(d)) /\ file' = file
    BY <1>3 DEF Begin, OneByOne
  <2> QED
    BY <1>1, <2>1 DEF OnlyOpenIsPartial
<1>4. ASSUME NEW c \in Calls, Stat(c) \/ Remove(c) \/ RemoveAll(c) \/ MakeWhole(c) PROVE OnlyOpenIsPartial'
  <2>1. Running(c) /\ sub[c] # "write"
    BY <1>4 DEF Stat, Remove, RemoveAll, MakeWhole, At
  <2>2. file' = file \/ \E g, x : x \in {Absent, c} /\ file' = [file EXCEPT ![g] = x]
    BY <1>4 DEF Stat, Remove, RemoveAll, MakeWhole, Put, Unlink
  <2>3. c # Partial
    BY VmDirAssumption
  <2> QED
    BY <1>0, <1>2, <2>1, <2>2, <2>3 DEF OnlyOpenIsPartial, FileInv
<1>5. ASSUME NEW c \in Calls, Open(c) PROVE OnlyOpenIsPartial'
  <2>1. /\ Running(c) /\ sub[c] # "write" /\ file' = [file EXCEPT ![File(c)] = Partial]
        /\ Enter(c, "write")
    BY <1>5 DEF Open, At, Put
  <2>2. sub'[c] = "write" /\ Running(c)' /\ File(c)' = File(c)
    BY <1>0, <2>1, EnterFacts DEF File, KeptWhatItIs
  <2> QED
    BY <1>0, <1>2, <2>1, <2>2 DEF OnlyOpenIsPartial, FileInv
<1>6. ASSUME NEW c \in Calls, Write(c) PROVE OnlyOpenIsPartial'
  <2>1. Running(c) /\ sub[c] = "write" /\ Alone(c) /\ c # Partial
    BY <1>6, VmDirAssumption DEF Write, AllAlone
  <2>2. c \in open[File(c)]
    BY <2>1 DEF BaseInv, HoldInv, AloneHolds
  <2>3. file' = [file EXCEPT ![File(c)] = c]
    BY <1>6, <2>1, <2>2 DEF Write, Put
  <2>4. \A f \in Names : file[f] = Partial => f = File(c)
    BY <2>1, OneAtATime DEF OnlyOpenIsPartial
  <2> QED
    BY <1>0, <2>1, <2>3, <2>4 DEF OnlyOpenIsPartial, FileInv
<1>7. CASE Boot \/ UNCHANGED vars
  <2>1. /\ pc' = pc /\ sub' = sub /\ kind' = kind /\ wants' = wants /\ result' = result
        /\ \A f \in Names : file'[f] \in {file[f], New}
    <3>1. CASE Boot
      BY <1>0, <3>1, BootFacts
    <3>2. CASE UNCHANGED vars
      BY <3>2 DEF vars, callVars
    <3> QED
      BY <1>7, <3>1, <3>2
  <2>2. \A c \in Calls : File(c)' = File(c)
    BY <2>1, ScriptKept DEF File
  <2> QED
    BY <1>0, <2>1, <2>2 DEF OnlyOpenIsPartial, Running
<1>8. ASSUME NEW c \in Calls, Fail(c) PROVE OnlyOpenIsPartial'
  <2>1. Running(c) /\ sub[c] # "write" /\ file' = file
    BY <1>8 DEF Fail, Uncut, At
  <2> QED
    BY <1>2, <2>1 DEF OnlyOpenIsPartial
<1> QED
  BY <1>3, <1>4, <1>5, <1>6, <1>7, <1>8 DEF Next, Crash, Uncut

(* The steps of a running CreateVM: one more file seen to, or none lost.   *)
LEMMA CreateStep ==
  ASSUME Uncut, BaseInv, AllAlone, CreateProgress, NEW c \in Calls, Running(c), kind[c] = "create", CallStep(c)
  PROVE  /\ pc[c] \in 1..3
         /\ \/ Advance(c) /\ SeenTo(pc[c], file')
            \/ pc' = pc /\ result' = result /\ SeenTo(pc[c] - 1, file')
<1>0. CallInv /\ FileInv
  BY DEF BaseInv
<1>1. /\ Script(c) = CreateSteps /\ Len(CreateSteps) = 3 /\ pc[c] \in 1..3
      /\ Script(c)[pc[c]].op = "ensure" /\ File(c) = CreateSteps[pc[c]].file /\ File(c) \in Names
  <2>1. Script(c) = CreateSteps
    BY DEF Script
  <2>2. Len(CreateSteps) = 3 /\ \A j \in 1..3 : CreateSteps[j].op = "ensure"
    <3>1. Len(CreateSteps) = 3
      BY DEF CreateSteps
    <3>2. /\ CreateSteps[1].op = "ensure" /\ CreateSteps[2].op = "ensure"
          /\ CreateSteps[3].op = "ensure"
      BY DEF CreateSteps, Step
    <3> QED
      BY <3>1, <3>2
  <2>3. pc[c] \in 1..3
    <3>1. pc[c] \in Nat \ {0} /\ pc[c] <= Len(Script(c))
      BY <1>0 DEF CallInv
    <3> QED
      BY <2>1, <2>2, <3>1
  <2> QED
    BY <1>0, <2>1, <2>2, <2>3, FileIsName DEF File
<1>2. SeenTo(pc[c] - 1, file) /\ \A j \in 1..3 : CreateSteps[j].file \in Names
  BY DEF CreateProgress, CreateSteps, Step, Names, Identity
<1>3. CASE Stat(c) /\ Advance(c)
  <2>1. sub'[c] = "begin"
    BY <1>0, <1>3, AdvanceFacts, EndFacts DEF CallInv
  <2>2. file' = file /\ file[File(c)] # Absent
    BY <1>0, <1>3, <2>1, EnterFacts DEF Stat
  <2> QED
    BY <1>1, <1>2, <1>3, <2>2 DEF SeenTo, Exists
<1>4. CASE Stat(c) /\ Enter(c, "open")
  BY <1>1, <1>2, <1>4 DEF Stat, Enter, SeenTo, Exists
<1>5. CASE Open(c)
  <2>1. file' = [file EXCEPT ![File(c)] = Partial] /\ Partial # Absent /\ pc' = pc /\ result' = result
    BY <1>5, VmDirAssumption DEF Open, Put, Enter
  <2> QED
    BY <1>0, <1>1, <1>2, <2>1 DEF SeenTo, Exists, FileInv
<1>6. CASE Write(c) \/ MakeWhole(c)
  <2>1. file' = [file EXCEPT ![File(c)] = c] /\ c # Absent /\ Advance(c)
    <3>1. CASE Write(c)
      <4>1. sub[c] = "write" /\ Alone(c)
        BY <3>1 DEF Write, AllAlone
      <4>2. c \in open[File(c)]
        BY <4>1 DEF BaseInv, HoldInv, AloneHolds
      <4> QED
        BY <3>1, <4>1, <4>2, VmDirAssumption DEF Write, Put
    <3>2. CASE MakeWhole(c)
      BY <3>2, VmDirAssumption DEF MakeWhole, Put
    <3> QED
      BY <1>6, <3>1, <3>2
  <2> QED
    BY <1>0, <1>1, <1>2, <2>1 DEF SeenTo, Exists, FileInv
<1>7. ~Remove(c) /\ ~RemoveAll(c) /\ ~Fail(c) /\ ~Crash(c)
  <2>1. File(c) # "data"
    BY <1>1 DEF CreateSteps, Step
  <2> QED
    BY <1>1, <2>1 DEF Remove, RemoveAll, Fail, Crash, At, Uncut
<1> QED
  BY <1>3, <1>4, <1>5, <1>6, <1>7 DEF CallStep, Stat

LEMMA NextCreateProgress ==
  Uncut /\ OneByOne /\ BaseInv /\ AllAlone /\ CreateProgress /\ [Next]_vars => CreateProgress'
<1> SUFFICES ASSUME Uncut, OneByOne, BaseInv, AllAlone, CreateProgress, [Next]_vars,
                    NEW c \in Calls, Running(c)', kind'[c] = "create"
             PROVE  SeenTo(pc'[c] - 1, file')
  BY DEF CreateProgress, SeenTo, Exists
<1>0. CallInv /\ FileInv
  BY DEF BaseInv
<1>1. ASSUME NEW d \in Calls, NEW k \in Kinds, NEW a \in Asked \cup {Nothing}, Begin(d, k, a)
      PROVE  SeenTo(pc'[c] - 1, file')
  <2>1. ~Running(c)
    BY <1>1 DEF Begin, OneByOne
  <2>2. d = c
    <3>1. d # c => result'[c] = result[c]
      <4>1. result' = [result EXCEPT ![d] = "running"] /\ DOMAIN result = Calls
        BY <1>0, <1>1 DEF Begin, CallInv
      <4> QED
        BY <4>1
    <3> QED
      BY <2>1, <3>1 DEF Running
  <2>3. pc'[c] = 1
    BY <1>0, <1>1, <2>2, BeginFacts
  <2> QED
    BY <2>3 DEF SeenTo
<1>2. ASSUME NEW d \in Calls, CallStep(d) PROVE SeenTo(pc'[c] - 1, file')
  <2>1. Running(c) /\ kind[c] = "create"
    BY <1>0, <1>2, CallStepGoesOn, GoesOnFacts DEF OthersKept, KeptWhatItIs, Running
  <2>2. d = c
    BY <1>2, <2>1, CallStepGoesOn, OneAtATime
  <2>3. \/ Advance(c) /\ SeenTo(pc[c], file')
        \/ pc' = pc /\ SeenTo(pc[c] - 1, file')
    BY <1>2, <2>1, <2>2, CreateStep
  <2>4. Advance(c) => pc'[c] = pc[c] + 1 /\ pc[c] \in Nat
    BY <1>0, <2>1, AdvanceFacts DEF CallInv
  <2> QED
    BY <2>3, <2>4
<1>3. CASE Boot \/ UNCHANGED vars
  <2>1. /\ pc' = pc /\ kind' = kind /\ result' = result
        /\ \A f \in Names : file'[f] \in {file[f], New}
    <3>1. CASE Boot
      BY <1>0, <3>1, BootFacts
    <3>2. CASE UNCHANGED vars
      BY <3>2 DEF vars, callVars
    <3> QED
      BY <1>3, <3>1, <3>2
  <2>2. pc[c] \in 1..3 /\ \A j \in 1..3 : CreateSteps[j].file \in Names
    <3>1. Running(c) /\ Script(c) = CreateSteps
      BY <2>1 DEF Running, Script
    <3>2. Len(CreateSteps) = 3
      BY DEF CreateSteps
    <3>3. pc[c] \in Nat \ {0} /\ pc[c] <= 3
      BY <1>0, <3>1, <3>2 DEF CallInv
    <3>4. \A j \in 1..3 : CreateSteps[j].file \in Names
      BY DEF CreateSteps, Step, Names, Identity
    <3> QED
      BY <3>3, <3>4
  <2>3. SeenTo(pc[c] - 1, file)
    BY <2>1 DEF CreateProgress, Running
  <2>4. ASSUME NEW f \in Names, Exists(file, f) PROVE Exists(file', f)
    BY <2>1, <2>4, VmDirAssumption DEF Exists
  <2>5. 1..(pc[c] - 1) \subseteq 1..3
    BY <2>2
  <2> QED
    BY <2>1, <2>2, <2>3, <2>4, <2>5 DEF SeenTo
<1> QED
  BY <1>1, <1>2, <1>3 DEF Next, CallStep

(* The run dir_torn finds a CreateVM that returns nil over a truncated     *)
(* identity.  An earlier call cut short is the only cause of it where none *)
(* overlaps another: where no call is cut short either, the three files    *)
(* are whole whenever CreateVM returns, whatever calls came before it.     *)
THEOREM UncutCreatesIdentity == Uncut /\ OneByOne => (Spec => CreatedMeansIdentity)
<1>1. CASE Uncut /\ OneByOne
  <2>1. Init => AllAlone /\ OnlyOpenIsPartial /\ CreateProgress
    <3> SUFFICES ASSUME Init PROVE AllAlone /\ OnlyOpenIsPartial /\ CreateProgress
      OBVIOUS
    <3>1. PICK b \in Befores : file = [f \in Names |-> IF f = "config" THEN b[2]
                                                     ELSE IF f \in b[1] THEN New ELSE Absent]
      BY DEF Init
    <3>2. b[2] \in {Absent, New, Tagless}
      BY <3>1 DEF Befores
    <3>3. \A f \in Names : file[f] # Partial
      BY <3>1, <3>2, VmDirAssumption
    <3>4. \A c \in Calls : ~Running(c)
      BY DEF Init, Running
    <3> QED
      BY <3>3, <3>4 DEF AllAlone, OnlyOpenIsPartial, CreateProgress
  <2>2. BaseInv /\ AllAlone /\ OnlyOpenIsPartial /\ CreateProgress /\ [Next]_vars
          => AllAlone' /\ OnlyOpenIsPartial' /\ CreateProgress'
    BY <1>1, NextAllAlone, NextOnlyOpenIsPartial, NextCreateProgress
  <2>3. ASSUME BaseInv, AllAlone, OnlyOpenIsPartial', CreateProgress, [Next]_vars,
               NEW c \in Calls, kind[c] = "create", Running(c), result'[c] = "ok", NEW f \in Identity
        PROVE  Complete(file', f)
    <3>0. CallInv /\ FileInv /\ result'[c] # result[c]
      BY <2>3 DEF BaseInv, Running
    <3>1. CallStep(c)
      <4>1. ~Boot /\ ~UNCHANGED vars
        BY <3>0 DEF Boot, vars, callVars
      <4>2. \A d \in Calls : \A k, a : ~Begin(d, k, a)
        BY <1>1, <2>3 DEF Begin, OneByOne
      <4>3. PICK d \in Calls : CallStep(d)
        BY <2>3, <4>1, <4>2 DEF Next, CallStep
      <4> QED
        BY <2>3, <4>3, CallStepGoesOn, OneAtATime
    <3>2. pc[c] \in 1..3 /\ Advance(c) /\ SeenTo(pc[c], file')
      <4>1. /\ pc[c] \in 1..3
            /\ \/ Advance(c) /\ SeenTo(pc[c], file')
               \/ pc' = pc /\ result' = result /\ SeenTo(pc[c] - 1, file')
        BY <1>1, <2>3, <3>1, CreateStep
      <4> QED
        BY <3>0, <4>1
    <3>3. Script(c) = CreateSteps /\ Len(CreateSteps) = 3
      BY <2>3 DEF Script, CreateSteps
    <3>4. pc[c] = 3 /\ ~Running(c)'
      <4>1. ~Running(c)'
        BY <2>3 DEF Running
      <4>2. ~(pc[c] < Len(Script(c)))
        BY <2>3, <3>0, <3>2, <4>1, AdvanceFacts
      <4> QED
        BY <3>2, <3>3, <4>1, <4>2
    <3>5. \A d \in Calls : ~Running(d)'
      BY <2>3, <3>0, <3>1, <3>4, CallStepGoesOn, GoesOnFacts, OneAtATime DEF OthersKept, Running
    <3>6. Exists(file', f) /\ f \in Names
      BY <3>2, <3>4 DEF SeenTo, CreateSteps, Step, Identity, Names
    <3> QED
      BY <2>3, <3>5, <3>6 DEF OnlyOpenIsPartial, Complete, Exists
  <2>4. BaseInv /\ AllAlone /\ OnlyOpenIsPartial' /\ CreateProgress /\ [Next]_vars =>
          [\A c \in Calls : kind[c] = "create" /\ Running(c) /\ result'[c] = "ok"
             => \A f \in Identity : Complete(file', f)]_vars
    BY <2>3
  <2> QED
    BY <2>1, <2>2, <2>4, BaseInvariant, PTL DEF Spec, CreatedMeansIdentity
<1> QED
  BY <1>1
=============================================================================
