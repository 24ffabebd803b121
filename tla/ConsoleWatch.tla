---------------------------- MODULE ConsoleWatch ----------------------------
(***************************************************************************)
(* watchConsoleForMarks and parseNCLMark of builtin/vmrun.go: the goroutine*)
(* of a runner that polls console.log and records every line of the guest  *)
(* that carries a WEFT_MARK.  The console is a sequence of words; a word   *)
(* is a fragment of text that a read may end after.  The prefix            *)
(* "WEFT_MARK " is made of two of them, so that a read can split it.       *)
(***************************************************************************)
EXTENDS Naturals, Sequences

CONSTANTS
  P1, P2,     \* the two halves of the prefix
  Words,      \* other words
  NL,         \* the end of a line
  BufLen,     \* the watcher's buffer, in words
  MaxConsole  \* bound: the words the guest writes

ASSUME ConsoleAssumption ==
  BufLen \in Nat \ {0} /\ MaxConsole \in Nat /\ P1 # P2 /\ NL \notin Words \cup {P1, P2}

VARIABLES
  console,   \* the contents of console.log
  exists,    \* whether console.log is there
  off,       \* the watcher: how many words it has read
  pending,   \* the line it has begun to read
  log,       \* the marks it has recorded
  watching,  \* whether it still polls
  up         \* whether its process still runs

vars == <<console, exists, off, pending, log, watching, up>>

Text == Words \cup {P1, P2}
Mark == [stage : Text, meta : Seq(Text)]

-----------------------------------------------------------------------------
(* Where the prefix begins in a line.                                      *)
PrefixAt(line) == {i \in 1..(Len(line) - 1) : line[i] = P1 /\ line[i + 1] = P2}

(* The marks of a line, at most one: what follows the first prefix in it,  *)
(* if anything does, is its stage and then its key=val fields.  (The code  *)
(* looks for the prefix anywhere in the line, as the comment at the start  *)
(* of the goroutine says, "every line containing" it; parseNCLMark's own   *)
(* comment says "Lines that don't start with the prefix are ignored".)     *)
ParseMark(line) ==
  IF PrefixAt(line) = {} THEN <<>>
  ELSE LET i    == CHOOSE j \in PrefixAt(line) : \A k \in PrefixAt(line) : j <= k
           rest == SubSeq(line, i + 2, Len(line))
       IN  IF rest = <<>> THEN <<>> ELSE <<[stage |-> Head(rest), meta |-> Tail(rest)]>>

(* Cutting a chunk at its line ends: after each of its words, the marks of *)
(* the lines that are complete, and the line that has begun.               *)
Cut(chunk) ==
  LET cut[n \in 0..Len(chunk)] ==
        IF n = 0 THEN [marks |-> <<>>, line |-> <<>>]
        ELSE IF chunk[n] = NL
          THEN [marks |-> cut[n - 1].marks \o ParseMark(cut[n - 1].line), line |-> <<>>]
          ELSE [marks |-> cut[n - 1].marks, line |-> Append(cut[n - 1].line, chunk[n])]
  IN  cut

MarksOf(chunk) == Cut(chunk)[Len(chunk)].marks
Rest(chunk)    == Cut(chunk)[Len(chunk)].line

-----------------------------------------------------------------------------
TypeOK ==
  /\ console \in Seq(Text \cup {NL})
  /\ exists \in BOOLEAN
  /\ off \in 0..Len(console)
  /\ pending \in Seq(Text)
  /\ log \in Seq(Mark)
  /\ watching \in BOOLEAN
  /\ up \in BOOLEAN

(* RunVMGraphic has truncated console.log.                                 *)
Init ==
  /\ console = <<>>
  /\ exists = TRUE
  /\ off = 0
  /\ pending = <<>>
  /\ log = <<>>
  /\ watching = TRUE
  /\ up = TRUE

(* The framework appends the guest's output.                               *)
GuestWrites(w) ==
  /\ up /\ exists
  /\ Len(console) < MaxConsole
  /\ console' = Append(console, w)
  /\ UNCHANGED <<exists, off, pending, log, watching, up>>

ReadLen == IF Len(console) - off < BufLen THEN Len(console) - off ELSE BufLen

(* Mutant: a line that the read does not complete is dropped.              *)
PollWithoutCarry ==
  /\ up /\ watching /\ exists
  /\ ReadLen > 0
  /\ log' = log \o MarksOf(SubSeq(console, off + 1, off + ReadLen))
  /\ pending' = <<>>
  /\ off' = off + ReadLen
  /\ UNCHANGED <<console, exists, watching, up>>

(* Mutant: the end of a line is kept in the text that follows it.          *)
PollKeepingEnds ==
  /\ up /\ watching /\ exists
  /\ ReadLen > 0
  /\ LET chunk == pending \o SubSeq(console, off + 1, off + ReadLen)
     IN  log' = log \o MarksOf(chunk) /\ pending' = chunk
  /\ off' = off + ReadLen
  /\ UNCHANGED <<console, exists, watching, up>>

(* Mutant: only the first line of a read is looked at; the others wait for *)
(* the guest to write again.                                               *)
PollOneLine ==
  /\ up /\ watching /\ exists
  /\ ReadLen > 0
  /\ LET chunk == pending \o SubSeq(console, off + 1, off + ReadLen)
         ends  == {i \in DOMAIN chunk : chunk[i] = NL}
     IN  IF ends = {}
           THEN log' = log /\ pending' = chunk
           ELSE LET i == CHOOSE i \in ends : \A j \in ends : i <= j
                IN  /\ log' = log \o ParseMark(SubSeq(chunk, 1, i - 1))
                    /\ pending' = SubSeq(chunk, i + 1, Len(chunk))
  /\ off' = off + ReadLen
  /\ UNCHANGED <<console, exists, watching, up>>

(* One turn of the loop that found the file grown.                         *)
Poll ==
  /\ up /\ watching /\ exists
  /\ ReadLen > 0
  /\ LET chunk == pending \o SubSeq(console, off + 1, off + ReadLen)
     IN  log' = log \o MarksOf(chunk) /\ pending' = Rest(chunk)
  /\ off' = off + ReadLen
  /\ UNCHANGED <<console, exists, watching, up>>

(* A turn that finds no file, or no growth, 30 s after the last growth.    *)
IdleQuit ==
  /\ up /\ watching
  /\ ~exists \/ ReadLen = 0
  /\ watching' = FALSE
  /\ UNCHANGED <<console, exists, off, pending, log, up>>

(* The directory is deleted; the process ends.                             *)
ConsoleRemoved ==
  /\ exists
  /\ exists' = FALSE
  /\ UNCHANGED <<console, off, pending, log, watching, up>>

ProcessEnds ==
  /\ up
  /\ up' = FALSE
  /\ UNCHANGED <<console, exists, off, pending, log, watching>>

Next ==
  \/ \E w \in Text \cup {NL} : GuestWrites(w)
  \/ Poll \/ IdleQuit
  \/ ConsoleRemoved \/ ProcessEnds

Spec == Init /\ [][Next]_vars /\ WF_vars(Poll)
-----------------------------------------------------------------------------
(* However the guest's output is cut into reads, the watcher has recorded  *)
(* the marks of exactly the complete lines of what it has read, in order,  *)
(* and holds the line that is not complete.                                *)
ReadsLikeOneChunk ==
  LET read == SubSeq(console, 1, off)
  IN  log = MarksOf(read) /\ pending = Rest(read)

(* "Every line containing WEFT_MARK <stage> is folded into timings.jsonl": *)
(* a mark the guest completes while the watcher polls, wherever in its     *)
(* line it is, is recorded, even if the guest never writes again, unless   *)
(* the process or the file goes.  Nothing is said of marks completed after *)
(* the watcher gave up.  (A mark takes at least four words of the          *)
(* console.)                                                               *)
MarksRecorded ==
  \A n \in 1..(MaxConsole \div 4) :
    (watching /\ Len(MarksOf(console)) >= n) ~> (Len(log) >= n \/ ~up \/ ~exists)
=============================================================================
