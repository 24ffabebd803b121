------------------------ MODULE ConsoleWatchProofs -------------------------
(***************************************************************************)
(* What is proved of the console watcher (ConsoleWatch), for every size of *)
(* its buffer, whatever the guest writes and however its output is cut     *)
(* into reads: the watcher has recorded the marks of exactly the complete  *)
(* lines of what it has read (ReadsLikeOneChunk).                          *)
(*                                                                         *)
(* Cut is a function defined by recursion, and what it computes is proved  *)
(* by induction (NatRecursion): that it has values of the right type, that *)
(* it looks at nothing after the word it is at, and CutCarries, on which   *)
(* the watcher rests: to cut the line in progress and the words after it   *)
(* yields what is missing of the cut of the whole text.                    *)
(***************************************************************************)
EXTENDS ConsoleWatch, NatRecursion, SequenceTheorems

Chunks   == Seq(Text \cup {NL})
CutState == [marks : Seq(Mark), line : Seq(Text)]
Start    == [marks |-> <<>>, line |-> <<>>]

(* One step of Cut: the word w after a state.                              *)
CutWord(state, w) ==
  IF w = NL THEN [marks |-> state.marks \o ParseMark(state.line), line |-> <<>>]
  ELSE [marks |-> state.marks, line |-> Append(state.line, w)]

-----------------------------------------------------------------------------
(* A line has marks, at most one.                                          *)
LEMMA ParseMarkType ==
  ASSUME NEW line \in Seq(Text)
  PROVE  ParseMark(line) \in Seq(Mark)
<1>1. CASE PrefixAt(line) = {}
  BY <1>1 DEF ParseMark
<1>2. CASE PrefixAt(line) # {}
  <2> DEFINE i    == CHOOSE j \in PrefixAt(line) : \A k \in PrefixAt(line) : j <= k
             rest == SubSeq(line, i + 2, Len(line))
  <2>1. PrefixAt(line) \in SUBSET Nat
    BY DEF PrefixAt
  <2>2. \E j \in PrefixAt(line) : \A k \in PrefixAt(line) : j <= k
    BY <1>2, <2>1, LeastNumber
  <2>3. i \in PrefixAt(line)
    BY <2>2
  <2>4. i \in 1..(Len(line) - 1)
    BY <2>3 DEF PrefixAt
  <2> HIDE DEF i
  <2>5. rest \in Seq(Text)
    BY <2>4
  <2>6. ParseMark(line)
          = IF rest = <<>> THEN <<>> ELSE <<[stage |-> Head(rest), meta |-> Tail(rest)]>>
    BY <1>2 DEF ParseMark, i
  <2> HIDE DEF rest
  <2>7. CASE rest = <<>>
    BY <2>6, <2>7
  <2>8. CASE rest # <<>>
    <3>1. Head(rest) \in Text /\ Tail(rest) \in Seq(Text)
      BY <2>5, <2>8
    <3>2. [stage |-> Head(rest), meta |-> Tail(rest)] \in Mark
      BY <3>1 DEF Mark
    <3> QED
      BY <2>6, <2>8, <3>2
  <2> QED
    BY <2>7, <2>8
<1> QED
  BY <1>1, <1>2

LEMMA CutWordType ==
  ASSUME NEW state \in CutState, NEW w \in Text \cup {NL}
  PROVE  CutWord(state, w) \in CutState
<1>1. state.marks \in Seq(Mark) /\ state.line \in Seq(Text)
  BY DEF CutState
<1>2. CASE w = NL
  <2>1. ParseMark(state.line) \in Seq(Mark)
    BY <1>1, ParseMarkType
  <2>2. state.marks \o ParseMark(state.line) \in Seq(Mark)
    BY <1>1, <2>1
  <2>3. <<>> \in Seq(Text)
    OBVIOUS
  <2> QED
    BY <1>2, <2>2, <2>3 DEF CutWord, CutState
<1>3. CASE w # NL
  <2>1. Append(state.line, w) \in Seq(Text)
    BY <1>1, <1>3
  <2> QED
    BY <1>1, <1>3, <2>1 DEF CutWord, CutState
<1> QED
  BY <1>2, <1>3

LEMMA CutWordParts ==
  ASSUME NEW state, NEW w
  PROVE  /\ CutWord(state, w).marks
              = IF w = NL THEN state.marks \o ParseMark(state.line) ELSE state.marks
         /\ CutWord(state, w).line = IF w = NL THEN <<>> ELSE Append(state.line, w)
  BY DEF CutWord

(* The recursion of Cut has a value at every word.                         *)
LEMMA CutValues ==
  ASSUME NEW chunk \in Chunks
  PROVE  /\ Cut(chunk) \in [0..Len(chunk) -> CutState]
         /\ Cut(chunk)[0] = Start
         /\ \A n \in 1..Len(chunk) : Cut(chunk)[n] = CutWord(Cut(chunk)[n - 1], chunk[n])
<1> DEFINE L == Len(chunk)
           Rec(f) == [n \in 0..L |->
                        IF n = 0 THEN [marks |-> <<>>, line |-> <<>>]
                        ELSE IF chunk[n] = NL
                          THEN [marks |-> f[n - 1].marks \o ParseMark(f[n - 1].line),
                                line |-> <<>>]
                          ELSE [marks |-> f[n - 1].marks,
                                line |-> Append(f[n - 1].line, chunk[n])]]
           F == [x \in CutState \X (1..L) |-> CutWord(x[1], chunk[x[2]])]
<1>1. L \in Nat /\ \A n \in 1..L : chunk[n] \in Text \cup {NL}
  BY DEF Chunks
<1>2. Start \in CutState
  BY DEF Start, CutState
<1>3. F \in [CutState \X (1..L) -> CutState]
  <2>1. \A x \in CutState \X (1..L) : CutWord(x[1], chunk[x[2]]) \in CutState
    BY <1>1, CutWordType
  <2> QED
    BY <2>1
<1>4. PICK f \in [0..L -> CutState] : IsRecursion(f, Start, F, L)
  <2> HIDE DEF F, L, Rec
  <2>1. L \in Nat
    BY <1>1
  <2> QED
    BY <2>1, <1>2, <1>3, RecursionHasValues
<1>5. \A n \in 1..L : f[n] = CutWord(f[n - 1], chunk[n])
  <2> SUFFICES ASSUME NEW n \in 1..L PROVE f[n] = CutWord(f[n - 1], chunk[n])
    OBVIOUS
  <2>1. <<f[n - 1], n>> \in CutState \X (1..L)
    BY <1>1, <1>4, SMTT(30)
  <2> QED
    BY <1>4, <2>1 DEF IsRecursion
<1>6. f = Rec(f)
  <2>1. DOMAIN f = 0..L
    OBVIOUS
  <2>2. \A n \in 0..L : f[n] = Rec(f)[n]
    BY <1>1, <1>4, <1>5 DEF CutWord, Start, IsRecursion
  <2> QED
    BY <1>4, <2>1, <2>2
<1>7. Cut(chunk) = CHOOSE g : g = Rec(g)
  BY DEF Cut
<1> DEFINE c == Cut(chunk)
<1> HIDE DEF F
<1>8. c = Rec(c)
  <2> HIDE DEF Rec
  <2> QED
    BY <1>6, <1>7
<1> HIDE DEF c
<1>9. c[0] = Start
  BY <1>1, <1>8 DEF Start
<1>10. \A n \in 1..L : c[n] = CutWord(c[n - 1], chunk[n])
  <2> SUFFICES ASSUME NEW n \in 1..L PROVE c[n] = CutWord(c[n - 1], chunk[n])
    OBVIOUS
  <2>1. n \in 0..L /\ n # 0
    BY <1>1
  <2>2. c[n] = Rec(c)[n]
    BY <1>8
  <2> QED
    BY <2>1, <2>2 DEF CutWord
<1>11. DOMAIN c = 0..L
  BY <1>8
<1>12. \A n \in 0..L : c[n] \in CutState
  <2> DEFINE U == {n \in 0..L : c[n] \in CutState}
  <2>1. 0 \in U
    BY <1>1, <1>2, <1>9
  <2>2. ASSUME NEW n \in 1..L, n - 1 \in U PROVE n \in U
    BY <1>1, <1>10, <2>2, CutWordType
  <2>3. 0..L \subseteq U
    <3> HIDE DEF U
    <3> QED
      BY <1>1, <2>1, <2>2, IntervalInduction
  <2> QED
    BY <2>3
<1>13. c = [n \in 0..L |-> c[n]]
  BY <1>8, <1>11
<1> QED
  BY <1>9, <1>10, <1>12, <1>13 DEF c
-----------------------------------------------------------------------------
(* Appending to a text does not change how its own words are cut.          *)
LEMMA CutOfPrefix ==
  ASSUME NEW a \in Chunks, NEW b \in Chunks, NEW n \in 0..Len(a)
  PROVE  Cut(a \o b)[n] = Cut(a)[n]
<1> DEFINE t == a \o b
           U == {k \in 0..Len(a) : Cut(t)[k] = Cut(a)[k]}
<1>1. t \in Chunks /\ Len(a) \in Nat /\ Len(b) \in Nat /\ Len(t) = Len(a) + Len(b)
  BY DEF Chunks
<1>2. \A k \in 1..Len(a) : t[k] = a[k]
  BY DEF Chunks
<1> HIDE DEF t
<1>3. 0 \in U
  BY <1>1, CutValues
<1>4. ASSUME NEW k \in 1..Len(a), k - 1 \in U PROVE k \in U
  <2>1. k \in 1..Len(t)
    BY <1>1
  <2>2. Cut(t)[k] = CutWord(Cut(t)[k - 1], t[k])
    BY <1>1, <2>1, CutValues
  <2>3. Cut(a)[k] = CutWord(Cut(a)[k - 1], a[k])
    BY CutValues
  <2> QED
    BY <1>1, <1>2, <1>4, <2>2, <2>3
<1>5. 0..Len(a) \subseteq U
  <2> HIDE DEF U
  <2> QED
    BY <1>1, <1>3, <1>4, IntervalInduction
<1> QED
  BY <1>5 DEF t

(* A text without an end of line is one line in progress.                  *)
LEMMA CutOfLine ==
  ASSUME NL \notin Text, NEW line \in Seq(Text), NEW n \in 0..Len(line)
  PROVE  Cut(line)[n] = [marks |-> <<>>, line |-> SubSeq(line, 1, n)]
<1> DEFINE Begun(k) == [marks |-> <<>>, line |-> SubSeq(line, 1, k)]
           U == {k \in 0..Len(line) : Cut(line)[k] = Begun(k)}
<1>1. line \in Chunks /\ Len(line) \in Nat
  BY DEF Chunks
<1>2. 0 \in U
  <2>1. SubSeq(line, 1, 0) = <<>>
    BY SubSeqEmpty
  <2> QED
    BY <1>1, <2>1, CutValues DEF Start
<1>3. ASSUME NEW k \in 1..Len(line), k - 1 \in U PROVE k \in U
  <2>1. Cut(line)[k] = CutWord(Begun(k - 1), line[k])
    BY <1>1, <1>3, CutValues
  <2>2. line[k] # NL
    OBVIOUS
  <2>3. SubSeq(line, 1, k) = Append(SubSeq(line, 1, k - 1), line[k])
    <3>1. 1 \in 1..(Len(line) + 1) /\ k \in 1..Len(line)
      OBVIOUS
    <3> QED
      BY <3>1, SubSeqRecursiveSecond
  <2>4. /\ Begun(k - 1).marks = <<>>
        /\ Begun(k - 1).line = SubSeq(line, 1, k - 1)
    OBVIOUS
  <2>5. CutWord(Begun(k - 1), line[k])
          = [marks |-> Begun(k - 1).marks, line |-> Append(Begun(k - 1).line, line[k])]
    <3> HIDE DEF Begun
    <3> QED
      BY <2>2 DEF CutWord
  <2>6. Cut(line)[k] = Begun(k)
    BY <2>1, <2>3, <2>4, <2>5
  <2>7. k \in 0..Len(line)
    BY <1>1
  <2> HIDE DEF Begun
  <2> QED
    BY <2>6, <2>7
<1>4. 0..Len(line) \subseteq U
  <2> HIDE DEF U
  <2> QED
    BY <1>1, <1>2, <1>3, IntervalInduction
<1> QED
  BY <1>4

(* To cut the line in progress and the words after it yields what is       *)
(* missing of the cut of the whole text.                                   *)
LEMMA CutCarries ==
  ASSUME NL \notin Text, NEW a \in Chunks, NEW b \in Chunks
  PROVE  /\ MarksOf(a \o b) = MarksOf(a) \o MarksOf(Rest(a) \o b)
         /\ Rest(a \o b) = Rest(Rest(a) \o b)
<1> DEFINE t    == a \o b
           r    == Rest(a)
           c    == r \o b
           m    == MarksOf(a)
           U    == {k \in 0..Len(b) :
                      /\ Cut(t)[Len(a) + k].marks = m \o Cut(c)[Len(r) + k].marks
                      /\ Cut(t)[Len(a) + k].line = Cut(c)[Len(r) + k].line}
<1>1. Cut(a)[Len(a)] \in CutState
  <2>1. Len(a) \in 0..Len(a)
    BY DEF Chunks
  <2> QED
    BY <2>1, CutValues
<1>2. r \in Seq(Text) /\ m \in Seq(Mark)
  BY <1>1 DEF Rest, MarksOf, CutState
<1>3. r \in Chunks
  BY <1>2 DEF Chunks
<1>4. /\ t \in Chunks /\ Len(a) \in Nat /\ Len(b) \in Nat /\ Len(t) = Len(a) + Len(b)
      /\ \A k \in 1..Len(b) : t[Len(a) + k] = b[k]
  BY DEF Chunks
<1> HIDE DEF r
<1>5. /\ c \in Chunks /\ Len(r) \in Nat /\ Len(c) = Len(r) + Len(b)
      /\ \A k \in 1..Len(b) : c[Len(r) + k] = b[k]
  BY <1>3 DEF Chunks
<1> HIDE DEF t, c, m
<1>6. 0 \in U
  <2>1. Cut(t)[Len(a)] = Cut(a)[Len(a)]
    BY <1>4, CutOfPrefix DEF t
  <2>2. Cut(c)[Len(r)] = Cut(r)[Len(r)]
    BY <1>3, <1>5, CutOfPrefix DEF c
  <2>3. Cut(r)[Len(r)] = [marks |-> <<>>, line |-> SubSeq(r, 1, Len(r))]
    <3>1. Len(r) \in 0..Len(r)
      BY <1>5
    <3> QED
      BY <1>2, <3>1, CutOfLine
  <2>4. SubSeq(r, 1, Len(r)) = r
    BY <1>2, SubSeqFull
  <2>5. m \o <<>> = m
    BY <1>2, ConcatEmptySeq
  <2>6. Cut(a)[Len(a)].marks = m /\ Cut(a)[Len(a)].line = r
    BY DEF m, r, MarksOf, Rest
  <2>7. Len(a) + 0 = Len(a) /\ Len(r) + 0 = Len(r)
    BY <1>4, <1>5
  <2>8. Cut(c)[Len(r)].marks = <<>> /\ Cut(c)[Len(r)].line = r
    BY <2>2, <2>3, <2>4
  <2>9. Cut(t)[Len(a) + 0].marks = m \o Cut(c)[Len(r) + 0].marks
    BY <2>1, <2>5, <2>6, <2>7, <2>8
  <2>10. Cut(t)[Len(a) + 0].line = Cut(c)[Len(r) + 0].line
    BY <2>1, <2>6, <2>7, <2>8
  <2> QED
    BY <1>4, <2>9, <2>10
<1>7. ASSUME NEW k \in 1..Len(b), k - 1 \in U PROVE k \in U
  <2> DEFINE s == Cut(t)[Len(a) + (k - 1)]
             u == Cut(c)[Len(r) + (k - 1)]
  <2>1. Cut(t)[Len(a) + k] = CutWord(s, b[k])
    <3>1. Len(a) + k \in 1..Len(t) /\ Len(a) + k - 1 = Len(a) + (k - 1)
      BY <1>4
    <3> QED
      BY <1>4, <3>1, CutValues
  <2>2. Cut(c)[Len(r) + k] = CutWord(u, b[k])
    <3>1. Len(r) + k \in 1..Len(c) /\ Len(r) + k - 1 = Len(r) + (k - 1)
      BY <1>5, <1>4
    <3>2. Cut(c)[Len(r) + k] = CutWord(Cut(c)[Len(r) + k - 1], c[Len(r) + k])
      BY <1>5, <3>1, CutValues
    <3> QED
      BY <1>5, <3>1, <3>2
  <2>3. s.marks = m \o u.marks /\ s.line = u.line
    BY <1>7
  <2>4. u \in CutState
    <3>1. Len(r) + (k - 1) \in 0..Len(c)
      BY <1>5, <1>4
    <3> QED
      BY <1>5, <3>1, CutValues
  <2>5. ParseMark(u.line) \in Seq(Mark) /\ u.marks \in Seq(Mark)
    BY <2>4, ParseMarkType DEF CutState
  <2> HIDE DEF s, u, U
  <2>6. (m \o u.marks) \o ParseMark(u.line) = m \o (u.marks \o ParseMark(u.line))
    <3>1. m \in Seq(Mark)
      BY <1>2
    <3> HIDE DEF m
    <3> DEFINE p == ParseMark(u.line)
               q == u.marks
    <3>2. p \in Seq(Mark) /\ q \in Seq(Mark)
      BY <2>5
    <3> HIDE DEF p, q
    <3>3. (m \o q) \o p = m \o (q \o p)
      BY <3>1, <3>2, ConcatAssociative, SMTT(30)
    <3> QED
      BY <3>3 DEF p, q
  <2>7. CutWord(s, b[k]).marks = m \o CutWord(u, b[k]).marks
    <3>1. CASE b[k] = NL
      <4>1. CutWord(s, b[k]).marks = s.marks \o ParseMark(s.line)
        BY <3>1, CutWordParts
      <4>2. CutWord(u, b[k]).marks = u.marks \o ParseMark(u.line)
        BY <3>1, CutWordParts
      <4> QED
        BY <2>3, <2>6, <4>1, <4>2
    <3>2. CASE b[k] # NL
      <4>1. CutWord(s, b[k]).marks = s.marks /\ CutWord(u, b[k]).marks = u.marks
        BY <3>2, CutWordParts
      <4> QED
        BY <2>3, <4>1
    <3> QED
      BY <3>1, <3>2
  <2>8. CutWord(s, b[k]).line = CutWord(u, b[k]).line
    BY <2>3, CutWordParts
  <2>9. k \in 0..Len(b)
    BY <1>4
  <2> QED
    BY <2>1, <2>2, <2>7, <2>8, <2>9 DEF U
<1>8. 0..Len(b) \subseteq U
  <2> HIDE DEF U
  <2> QED
    BY <1>4, <1>6, <1>7, IntervalInduction
<1>9. /\ Cut(t)[Len(t)].marks = m \o Cut(c)[Len(c)].marks
      /\ Cut(t)[Len(t)].line = Cut(c)[Len(c)].line
  <2>1. Len(b) \in U
    <3> HIDE DEF U
    <3> QED
      BY <1>4, <1>8
  <2> QED
    BY <1>4, <1>5, <2>1
<1> QED
  BY <1>9 DEF t, c, m, r, MarksOf, Rest

-----------------------------------------------------------------------------
(* The invariant: the types, and what has been recorded so far.            *)
WatchInv == TypeOK /\ ReadsLikeOneChunk

LEMMA InitWatchInv == Init => WatchInv
<1> SUFFICES ASSUME Init PROVE WatchInv
  OBVIOUS
<1>1. TypeOK
  BY DEF Init, TypeOK
<1>2. SubSeq(console, 1, off) = <<>>
  BY SubSeqEmpty DEF Init
<1>3. <<>> \in Chunks /\ Len(<<>>) = 0
  BY DEF Chunks
<1>4. Cut(<<>>)[0] = Start
  BY <1>3, CutValues
<1>5. MarksOf(<<>>) = <<>> /\ Rest(<<>>) = <<>>
  BY <1>3, <1>4 DEF MarksOf, Rest, Start
<1> QED
  BY <1>1, <1>2, <1>5 DEF WatchInv, ReadsLikeOneChunk, Init

LEMMA NextWatchInv ==
  ASSUME NL \notin Text, WatchInv, [Next]_vars
  PROVE  WatchInv'
<1> USE DEF WatchInv
<1>1. console \in Chunks /\ off \in 0..Len(console) /\ Len(console) \in Nat
  BY DEF TypeOK, Chunks
<1>2. ASSUME NEW w \in Text \cup {NL}, GuestWrites(w) PROVE WatchInv'
  <2>1. TypeOK'
    BY <1>2, <1>1 DEF GuestWrites, TypeOK
  <2>2. SubSeq(console, 1, off)' = SubSeq(console, 1, off)
    <3>1. console' = console \o <<w>>
      BY <1>2, AppendIsConcat DEF GuestWrites, TypeOK
    <3>2. SubSeq(console \o <<w>>, 1, off) = SubSeq(console, 1, off)
      <4>1. <<w>> \in Seq(Text \cup {NL})
        OBVIOUS
      <4>2. off \in 0..Len(console) /\ 1 \in 1..(Len(console) + 1)
        BY <1>1
      <4> QED
        BY <4>1, <4>2, SubSeqOfConcat1 DEF TypeOK
    <3> QED
      BY <1>2, <3>1, <3>2 DEF GuestWrites
  <2> QED
    BY <1>2, <2>1, <2>2 DEF GuestWrites, ReadsLikeOneChunk
<1>3. CASE Poll
  <2> DEFINE a == SubSeq(console, 1, off)
             b == SubSeq(console, off + 1, off + ReadLen)
             n == off + ReadLen
  <2>1. off \in Nat /\ ReadLen \in Nat /\ n \in 0..Len(console)
    BY <1>1, ConsoleAssumption DEF ReadLen
  <2>2. a \in Chunks /\ b \in Chunks
    <3>1. off + 1 \in Int /\ n \in Int
      BY <2>1
    <3> QED
      BY <1>1, <2>1, <3>1, SubSeqProperties DEF Chunks
  <2>3. SubSeq(console, 1, n) = a \o b
    <3>1. off \in 0..Len(console) /\ n \in off..Len(console)
      BY <1>1, <2>1
    <3> QED
      BY <1>1, <2>1, <3>1, ConcatAdjacentSubSeq DEF Chunks
  <2>4. log = MarksOf(a) /\ pending = Rest(a)
    BY DEF ReadsLikeOneChunk
  <2>5. log' = log \o MarksOf(pending \o b) /\ pending' = Rest(pending \o b)
    BY <1>3 DEF Poll
  <2>6. log' = MarksOf(a \o b) /\ pending' = Rest(a \o b)
    <3> HIDE DEF a, b
    <3> QED
      BY <2>2, <2>4, <2>5, CutCarries
  <2>7. ReadsLikeOneChunk'
    BY <1>3, <2>3, <2>6 DEF Poll, ReadsLikeOneChunk
  <2>8. log' \in Seq(Mark) /\ pending' \in Seq(Text)
    <3>1. a \o b \in Chunks /\ Len(a \o b) \in 0..Len(a \o b)
      BY <2>2 DEF Chunks
    <3>2. Cut(a \o b)[Len(a \o b)] \in CutState
      BY <3>1, CutValues
    <3> QED
      BY <2>6, <3>2 DEF MarksOf, Rest, CutState
  <2>9. TypeOK'
    BY <1>3, <2>1, <2>8 DEF Poll, TypeOK
  <2> QED
    BY <2>7, <2>9
<1>4. CASE IdleQuit
  BY <1>4 DEF IdleQuit, TypeOK, ReadsLikeOneChunk
<1>5. CASE ConsoleRemoved
  BY <1>5 DEF ConsoleRemoved, TypeOK, ReadsLikeOneChunk
<1>6. CASE ProcessEnds
  BY <1>6 DEF ProcessEnds, TypeOK, ReadsLikeOneChunk
<1>7. CASE UNCHANGED vars
  BY <1>7 DEF vars, TypeOK, ReadsLikeOneChunk
<1> HIDE DEF WatchInv
<1> QED
  BY <1>2, <1>3, <1>4, <1>5, <1>6, <1>7 DEF Next

LEMMA WatchInvariant == Spec => []WatchInv
<1>1. NL \notin Text
  BY ConsoleAssumption DEF Text
<1>2. WatchInv /\ [Next]_vars => WatchInv'
  BY <1>1, NextWatchInv
<1> QED
  BY <1>2, InitWatchInv, PTL DEF Spec

(* The watcher's variables have their types: no end of line in the line it *)
(* holds, and no more words read than the console has.                     *)
THEOREM WatchTypeCorrect == Spec => []TypeOK
<1>1. WatchInv => TypeOK
  BY DEF WatchInv
<1> QED
  BY <1>1, WatchInvariant, PTL

(* However the guest's output is cut into reads (of at most BufLen words,  *)
(* whenever the watcher polls), the watcher has recorded the marks of the  *)
(* complete lines of what it has read, all of them, in order and once.     *)
THEOREM ChunkingIsInvisible == Spec => []ReadsLikeOneChunk
<1>1. WatchInv => ReadsLikeOneChunk
  BY DEF WatchInv
<1> QED
  BY <1>1, WatchInvariant, PTL
=============================================================================
