----------------------------- MODULE ConsoleTab -----------------------------
(***************************************************************************)
(* The Console tab of the VM's window (MockConsoleViewController of        *)
(* builtin/consoletab.m): timers that poll console.log, decode what was    *)
(* read, strip escape sequences and append the rest to the text view.      *)
(*                                                                         *)
(* The file is a sequence of bytes of five classes: a lower-case letter,   *)
(* the two bytes of a two-byte UTF-8 character, ESC and "[".  A letter and *)
(* "[" can both end a control sequence, which has no parameters here.  The *)
(* text has the character "wide" for the two bytes, or Latin-1 characters, *)
(* named like the bytes.                                                   *)
(***************************************************************************)
EXTENDS Naturals, Sequences, FiniteSets, SequencesExt

CONSTANTS
  MaxConsole,  \* bound: the bytes the guest writes
  MaxTimers    \* bound: how often the tab appears

ASSUME TabAssumption == MaxConsole \in Nat /\ MaxTimers \in Nat

Bytes == {"letter", "lead", "cont", "esc", "["}
Chars == Bytes \cup {"wide"}

VARIABLES
  console,  \* the contents of console.log
  exists,   \* whether console.log is there
  offset,   \* lastReadOffset
  timers,   \* the timers that were scheduled; nothing invalidates them
  blocks,   \* the main queue: pieces of text waiting to be appended
  shown,    \* textStorage
  raw,      \* history: every read so far reads byte by byte
  clean     \* history: no read has ended, or was decoded, so as to do harm

vars == <<console, exists, offset, timers, blocks, shown, raw, clean>>

-----------------------------------------------------------------------------
Upto(s, n) == SubSeq(s, 1, n)

(* What is left of the first n elements of s at the positions in keep.     *)
Kept(s, keep) ==
  LET kept[n \in 0..Len(s)] ==
        IF n = 0 THEN <<>>
        ELSE IF n \in keep THEN Append(kept[n - 1], s[n]) ELSE kept[n - 1]
  IN  kept

Select(s, keep) == Kept(s, keep)[Len(s)]

(* The first n pieces of text, one after the other.                        *)
Joined(pieces) ==
  LET joined[n \in 0..Len(pieces)] == IF n = 0 THEN <<>> ELSE joined[n - 1] \o pieces[n]
  IN  joined

Join(pieces) == Joined(pieces)[Len(pieces)]

Pairs(data) == {i \in 1..(Len(data) - 1) : data[i] = "lead" /\ data[i + 1] = "cont"}

ValidUTF8(data) ==
  /\ \A i \in DOMAIN data : data[i] = "lead" => i \in Pairs(data)
  /\ \A i \in DOMAIN data : data[i] = "cont" => i - 1 \in Pairs(data)

(* UTF-8 if all of the data is, else one Latin-1 character for each byte.  *)
Decode(data) ==
  IF ValidUTF8(data)
    THEN Select([i \in DOMAIN data |-> IF i \in Pairs(data) THEN "wide" ELSE data[i]],
                {i \in DOMAIN data : data[i] # "cont"})
    ELSE data

(* The escape sequences: ESC, "[", final.  (An ESC before a letter begins  *)
(* none, as only upper-case letters and some punctuation follow a lone ESC.*)
Escapes(s) == {i \in 1..(Len(s) - 2) :
                 s[i] = "esc" /\ s[i + 1] = "[" /\ s[i + 2] \in {"letter", "["}}

StripAnsiEscapes(s) ==
  Select(s, {i \in DOMAIN s : \A e \in Escapes(s) : i \notin e..(e + 2)})

Display(data) == StripAnsiEscapes(Decode(data))

(* A read up to the n-th byte ends neither inside what may be a character  *)
(* nor inside what may be an escape sequence.                              *)
CleanCut(n) ==
  /\ n > 0 => console[n] \notin {"lead", "esc"}
  /\ n > 1 => ~(console[n - 1] = "esc" /\ console[n] = "[")

-----------------------------------------------------------------------------
TypeOK ==
  /\ console \in Seq(Bytes)
  /\ exists \in BOOLEAN
  /\ offset \in 0..Len(console)
  /\ timers \in 0..MaxTimers
  /\ blocks \in Seq(Seq(Chars) \ {<<>>})
  /\ shown \in Seq(Chars)
  /\ raw \in BOOLEAN
  /\ clean \in BOOLEAN

(* The window is open; RunVMGraphic has truncated console.log.             *)
Init ==
  /\ console = <<>>
  /\ exists = TRUE
  /\ offset = 0
  /\ timers = 0
  /\ blocks = <<>>
  /\ shown = <<>>
  /\ raw = TRUE
  /\ clean = TRUE

GuestWrites(b) ==
  /\ exists
  /\ Len(console) < MaxConsole
  /\ console' = Append(console, b)
  /\ UNCHANGED <<exists, offset, timers, blocks, shown, raw, clean>>

(* Mutant: the offset counts what is shown.                                *)
PollByText ==
  LET text == Display(SubSeq(console, offset + 1, Len(console)))
  IN  IF exists
        THEN /\ offset' = offset + Len(text)
             /\ UNCHANGED <<raw, clean>>
             /\ blocks' = IF text = <<>> THEN blocks ELSE Append(blocks, text)
        ELSE UNCHANGED <<offset, raw, clean, blocks>>

(* Mutant: the offset grows by the length of the file.                     *)
PollByLength ==
  LET text == Display(SubSeq(console, offset + 1, Len(console)))
  IN  IF exists /\ offset < Len(console)
        THEN /\ offset' = offset + Len(console)
             /\ UNCHANGED <<raw, clean>>
             /\ blocks' = IF text = <<>> THEN blocks ELSE Append(blocks, text)
        ELSE UNCHANGED <<offset, raw, clean, blocks>>

(* pollConsole: all of the file from the offset on.  The text goes to the  *)
(* main queue, which the thread that polls also serves.  A read does no    *)
(* harm if it ends well, and was decoded the way the whole file would be.  *)
Poll ==
  LET data == SubSeq(console, offset + 1, Len(console))
      text == Display(data)
  IN  IF exists /\ offset < Len(console)
        THEN /\ offset' = Len(console)
             /\ raw' = (raw /\ Decode(data) = data)
             /\ clean' = (clean /\ CleanCut(Len(console)) /\ (ValidUTF8(console) \/ raw'))
             /\ blocks' = IF text = <<>> THEN blocks ELSE Append(blocks, text)
        ELSE UNCHANGED <<offset, raw, clean, blocks>>

(* viewDidAppear: one more timer, and a first poll.                        *)
Appear ==
  /\ timers < MaxTimers
  /\ timers' = timers + 1
  /\ Poll
  /\ UNCHANGED <<console, exists, shown>>

(* Any of the timers; they do the same and share the offset.               *)
TimerFires ==
  /\ timers > 0
  /\ Poll
  /\ UNCHANGED <<console, exists, timers, shown>>

(* Mutant: the newest piece of text first.                                 *)
RunLastBlock ==
  /\ blocks # <<>>
  /\ shown' = shown \o Last(blocks)
  /\ blocks' = Front(blocks)
  /\ UNCHANGED <<console, exists, offset, timers, raw, clean>>

(* The main queue runs its blocks in order.                                *)
RunBlock ==
  /\ blocks # <<>>
  /\ shown' = shown \o Head(blocks)
  /\ blocks' = Tail(blocks)
  /\ UNCHANGED <<console, exists, offset, timers, raw, clean>>

(* The directory is deleted under the window.                              *)
ConsoleRemoved ==
  /\ exists
  /\ exists' = FALSE
  /\ UNCHANGED <<console, offset, timers, blocks, shown, raw, clean>>

Next ==
  \/ \E b \in Bytes : GuestWrites(b)
  \/ Appear \/ TimerFires \/ RunBlock
  \/ ConsoleRemoved

(* Timers repeat and the main queue is served for as long as the process   *)
(* runs.                                                                   *)
Spec == Init /\ [][Next]_vars /\ WF_vars(TimerFires) /\ WF_vars(RunBlock)
-----------------------------------------------------------------------------
(* While the reads do no harm, the text shown and waiting is that of one   *)
(* read of the whole file, however many timers poll it and whenever the    *)
(* tab appears: no text is lost, doubled or out of order, be the file      *)
(* UTF-8 or bytes that read as Latin-1.  (A read that cuts a character     *)
(* turns it into two Latin-1 ones, one that cuts an escape sequence leaves *)
(* it in the text, and of a file with both wide characters and other bytes *)
(* one read falls back to Latin-1 and another does not.)                   *)
ReadsLikeOneRead ==
  clean =>
    shown \o Join(blocks) = Display(Upto(console, offset))

(* Once the tab has appeared, everything the guest has written is read and *)
(* shown, even if it never writes again, unless the file goes.             *)
CatchesUp ==
  \A n \in 1..MaxConsole :
    (timers > 0 /\ Len(console) >= n) ~> ((offset >= n /\ blocks = <<>>) \/ ~exists)
=============================================================================
