-------------------------- MODULE ConsoleTabProofs --------------------------
(***************************************************************************)
(* What is proved of the Console tab (ConsoleTab), for a console of any    *)
(* length and any number of timers: as long as no read has ended inside a  *)
(* character or an escape sequence, the text shown and waiting is that of  *)
(* one read of the whole file (ReadsLikeOneRead).                          *)
(*                                                                         *)
(* Select and Join are defined by recursion; what they compute is proved   *)
(* by induction (NatRecursion).  The heart is DisplayOfConcat: decoding    *)
(* and stripping distribute over a text and what follows it when the first *)
(* is valid UTF-8 and ends neither in ESC nor in ESC "[".  The invariant   *)
(* adds to ReadsLikeOneRead that the last read ended where it does no      *)
(* harm, which is what DisplayOfConcat needs of it at the next read.       *)
(***************************************************************************)
EXTENDS ConsoleTab, NatRecursion, SequenceTheorems

-----------------------------------------------------------------------------
(* The recursion of Select has a value at every element.                   *)
LEMMA KeptValues ==
  ASSUME NEW S, NEW s \in Seq(S), NEW keep
  PROVE  /\ Kept(s, keep) \in [0..Len(s) -> Seq(S)]
         /\ Kept(s, keep)[0] = <<>>
         /\ \A n \in 1..Len(s) :
              Kept(s, keep)[n] = IF n \in keep THEN Append(Kept(s, keep)[n - 1], s[n])
                                 ELSE Kept(s, keep)[n - 1]
<1> DEFINE L == Len(s)
           Rec(f) == [n \in 0..L |->
                        IF n = 0 THEN <<>>
                        ELSE IF n \in keep THEN Append(f[n - 1], s[n]) ELSE f[n - 1]]
           F == [x \in Seq(S) \X (1..L) |->
                   IF x[2] \in keep THEN Append(x[1], s[x[2]]) ELSE x[1]]
<1>1. L \in Nat /\ \A n \in 1..L : s[n] \in S
  OBVIOUS
<1>2. <<>> \in Seq(S)
  OBVIOUS
<1>3. F \in [Seq(S) \X (1..L) -> Seq(S)]
  <2>1. ASSUME NEW x \in Seq(S) \X (1..L)
        PROVE  (IF x[2] \in keep THEN Append(x[1], s[x[2]]) ELSE x[1]) \in Seq(S)
    <3>1. x[1] \in Seq(S) /\ x[2] \in 1..L
      OBVIOUS
    <3>2. Append(x[1], s[x[2]]) \in Seq(S)
      BY <1>1, <3>1, AppendProperties
    <3> QED
      BY <3>1, <3>2
  <2> QED
    BY <2>1
<1>4. PICK f \in [0..L -> Seq(S)] : IsRecursion(f, <<>>, F, L)
  <2> HIDE DEF F, L, Rec
  <2>1. L \in Nat
    BY <1>1
  <2> QED
    BY <2>1, <1>2, <1>3, RecursionHasValues
<1>5. f[0] = <<>>
  BY <1>4 DEF IsRecursion
<1>6. ASSUME NEW n \in 1..L
      PROVE  f[n] = IF n \in keep THEN Append(f[n - 1], s[n]) ELSE f[n - 1]
  <2>1. <<f[n - 1], n>> \in Seq(S) \X (1..L)
    <3>1. n - 1 \in 0..L
      BY <1>1
    <3>2. f[n - 1] \in Seq(S)
      BY <3>1
    <3> QED
      BY <3>2
  <2>2. f[n] = F[<<f[n - 1], n>>]
    BY <1>4 DEF IsRecursion
  <2> QED
    BY <2>1, <2>2
<1>7. f = Rec(f)
  <2>1. DOMAIN f = 0..L
    OBVIOUS
  <2>2. ASSUME NEW n \in 0..L PROVE f[n] = Rec(f)[n]
    <3>1. CASE n = 0
      BY <1>5, <3>1
    <3>2. CASE n # 0
      <4>1. n \in 1..L
        BY <1>1, <3>2
      <4> QED
        BY <1>6, <3>2, <4>1
    <3> QED
      BY <3>1, <3>2
  <2> QED
    BY <1>4, <2>1, <2>2
<1>8. Kept(s, keep) = CHOOSE g : g = Rec(g)
  BY DEF Kept
<1> DEFINE c == Kept(s, keep)
<1> HIDE DEF F
<1>9. c = Rec(c)
  <2> HIDE DEF Rec
  <2> QED
    BY <1>7, <1>8
<1> HIDE DEF c
<1>10. c[0] = <<>> /\ DOMAIN c = 0..L
  BY <1>1, <1>9
<1>11. ASSUME NEW n \in 1..L
       PROVE  c[n] = IF n \in keep THEN Append(c[n - 1], s[n]) ELSE c[n - 1]
  <2>1. n \in 0..L /\ n # 0
    BY <1>1
  <2>2. c[n] = Rec(c)[n]
    BY <1>9
  <2> QED
    BY <2>1, <2>2
<1>12. \A n \in 0..L : c[n] \in Seq(S)
  <2> DEFINE U == {n \in 0..L : c[n] \in Seq(S)}
  <2>1. 0 \in U
    <3>1. 0 \in 0..L /\ c[0] \in Seq(S)
      BY <1>1, <1>2, <1>10, SMTT(30)
    <3> QED
      BY <3>1
  <2>2. ASSUME NEW n \in 1..L, n - 1 \in U PROVE n \in U
    <3>1. c[n - 1] \in Seq(S) /\ s[n] \in S
      BY <1>1, <2>2
    <3>2. Append(c[n - 1], s[n]) \in Seq(S)
      BY <3>1, AppendProperties
    <3>3. c[n] \in Seq(S)
      BY <1>11, <3>1, <3>2
    <3> QED
      BY <3>3
  <2>3. 0..L \subseteq U
    <3> HIDE DEF U
    <3> QED
      BY <1>1, <2>1, <2>2, IntervalInduction
  <2> QED
    BY <2>3
<1>13. c = [n \in 0..L |-> c[n]]
  BY <1>9, <1>10
<1> QED
  BY <1>10, <1>11, <1>12, <1>13 DEF c

LEMMA SelectType ==
  ASSUME NEW S, NEW s \in Seq(S), NEW keep
  PROVE  Select(s, keep) \in Seq(S)
<1>1. Len(s) \in 0..Len(s)
  OBVIOUS
<1> QED
  BY <1>1, KeptValues DEF Select

Associates(S) == \A x, y, z \in Seq(S) : (x \o y) \o z = x \o (y \o z)

LEMMA ConcatAssociates == \A S : Associates(S)
<1> SUFFICES ASSUME NEW S, NEW x \in Seq(S), NEW y \in Seq(S), NEW z \in Seq(S)
             PROVE  (x \o y) \o z = x \o (y \o z)
  BY DEF Associates
<1> QED
  BY ConcatAssociative

(* To append to the second of two sequences is to append to both of them.  *)
AppendsThrough(S) == \A x, y \in Seq(S), e \in S : Append(x \o y, e) = x \o Append(y, e)

LEMMA AppendToConcat == \A S : AppendsThrough(S)
<1> SUFFICES ASSUME NEW S, NEW x \in Seq(S), NEW y \in Seq(S), NEW e \in S
             PROVE  Append(x \o y, e) = x \o Append(y, e)
  BY DEF AppendsThrough
<1>1. <<e>> \in Seq(S) /\ x \o y \in Seq(S)
  OBVIOUS
<1>2. (x \o y) \o <<e>> = x \o (y \o <<e>>)
  BY <1>1, ConcatAssociative
<1>3. Append(x \o y, e) = (x \o y) \o <<e>> /\ Append(y, e) = y \o <<e>>
  BY <1>1, AppendIsConcat
<1> QED
  BY <1>2, <1>3

LEMMA SelectNothing == \A keep : Select(<<>>, keep) = <<>>
<1> SUFFICES ASSUME NEW keep PROVE Select(<<>>, keep) = <<>>
  OBVIOUS
<1>1. <<>> \in Seq({}) /\ Len(<<>>) = 0
  OBVIOUS
<1>2. Kept(<<>>, keep)[0] = <<>>
  <2>1. ASSUME NEW S, NEW s \in Seq(S) PROVE Kept(s, keep)[0] = <<>>
    BY KeptValues
  <2> QED
    BY <1>1, <2>1, Zenon
<1> QED
  BY <1>1, <1>2 DEF Select

(* u begins like s and goes on like t, and keeps what they keep.           *)
Splits(u, keep, s, keepS, t, keepT) ==
  /\ Len(u) = Len(s) + Len(t)
  /\ \A i \in 1..Len(s) : u[i] = s[i] /\ (i \in keep <=> i \in keepS)
  /\ \A i \in 1..Len(t) : u[Len(s) + i] = t[i] /\ (Len(s) + i \in keep <=> i \in keepT)

(* Selecting from such a sequence is selecting from its parts.             *)
LEMMA SelectFromBoth ==
  ASSUME NEW S, NEW s \in Seq(S), NEW t \in Seq(S), NEW u \in Seq(S),
         NEW keepS, NEW keepT, NEW keep,
         Splits(u, keep, s, keepS, t, keepT)
  PROVE  Select(u, keep) = Select(s, keepS) \o Select(t, keepT)
<1>1. Len(s) \in Nat /\ Len(t) \in Nat /\ Len(u) \in Nat
  OBVIOUS
<1> DEFINE Ku == Kept(u, keep)
           Ks == Kept(s, keepS)
           Kt == Kept(t, keepT)
           U  == {i \in 0..Len(s) : Ku[i] = Ks[i]}
           Both(i) == Ku[Len(s) + i] = Ks[Len(s)] \o Kt[i]
           V  == {i \in 0..Len(t) : Both(i)}
<1>2. /\ Ku \in [0..Len(u) -> Seq(S)] /\ Ku[0] = <<>>
      /\ \A n \in 1..Len(u) :
           Ku[n] = IF n \in keep THEN Append(Ku[n - 1], u[n]) ELSE Ku[n - 1]
  BY KeptValues
<1>3. /\ Ks \in [0..Len(s) -> Seq(S)] /\ Ks[0] = <<>>
      /\ \A n \in 1..Len(s) :
           Ks[n] = IF n \in keepS THEN Append(Ks[n - 1], s[n]) ELSE Ks[n - 1]
  BY KeptValues
<1>4. /\ Kt \in [0..Len(t) -> Seq(S)] /\ Kt[0] = <<>>
      /\ \A n \in 1..Len(t) :
           Kt[n] = IF n \in keepT THEN Append(Kt[n - 1], t[n]) ELSE Kt[n - 1]
  BY KeptValues
<1> HIDE DEF Ku, Ks, Kt
<1>5. 0 \in U
  BY <1>1, <1>2, <1>3
<1>6. ASSUME NEW i \in 1..Len(s), i - 1 \in U PROVE i \in U
  <2>1. i \in 1..Len(u) /\ i \in 0..Len(s)
    BY <1>1 DEF Splits
  <2>2. Ku[i - 1] = Ks[i - 1]
    BY <1>6
  <2>3. Ku[i] = IF i \in keep THEN Append(Ku[i - 1], u[i]) ELSE Ku[i - 1]
    BY <1>2, <2>1
  <2>4. Ks[i] = IF i \in keepS THEN Append(Ks[i - 1], s[i]) ELSE Ks[i - 1]
    BY <1>3
  <2>5. Ku[i] = Ks[i]
    BY <2>2, <2>3, <2>4 DEF Splits
  <2> QED
    BY <2>1, <2>5
<1>7. 0..Len(s) \subseteq U
  <2> HIDE DEF U
  <2> QED
    BY <1>1, <1>5, <1>6, IntervalInduction
<1>8. Ku[Len(s)] = Ks[Len(s)] /\ Ks[Len(s)] \in Seq(S)
  BY <1>1, <1>3, <1>7
<1>9. 0 \in V
  <2>1. Ks[Len(s)] \o <<>> = Ks[Len(s)]
    BY <1>8, ConcatEmptySeq
  <2>2. Len(s) + 0 = Len(s)
    BY <1>1
  <2>3. Ku[Len(s) + 0] = Ks[Len(s)] \o Kt[0]
    BY <1>4, <1>8, <2>1, <2>2
  <2>4. Both(0)
    BY <2>3
  <2> HIDE DEF Both
  <2> QED
    BY <1>1, <2>4
<1>10. ASSUME NEW i \in 1..Len(t), i - 1 \in V PROVE i \in V
  <2> DEFINE n == Len(s) + i
  <2>1. n \in 1..Len(u) /\ i \in 0..Len(t) /\ n - 1 = Len(s) + (i - 1)
    BY <1>1 DEF Splits
  <2>2. Ku[n - 1] = Ks[Len(s)] \o Kt[i - 1]
    BY <1>10, <2>1
  <2>3. Ku[n] = IF n \in keep THEN Append(Ku[n - 1], u[n]) ELSE Ku[n - 1]
    BY <1>2, <2>1
  <2>4. Kt[i] = IF i \in keepT THEN Append(Kt[i - 1], t[i]) ELSE Kt[i - 1]
    BY <1>4
  <2>5. Kt[i - 1] \in Seq(S) /\ t[i] \in S
    <3>1. i - 1 \in 0..Len(t)
      BY <1>1
    <3>2. Kt[i - 1] \in Seq(S)
      <4>1. Kt \in [0..Len(t) -> Seq(S)]
        BY <1>4, Zenon
      <4> QED
        BY <3>1, <4>1, Zenon
    <3>3. t[i] \in S
      OBVIOUS
    <3> QED
      BY <3>2, <3>3
  <2>6. u[n] = t[i] /\ (n \in keep <=> i \in keepT)
    BY DEF Splits
  <2> HIDE DEF n
  <2>7. Append(Ks[Len(s)] \o Kt[i - 1], t[i]) = Ks[Len(s)] \o Append(Kt[i - 1], t[i])
    <3>1. Ks[Len(s)] \in Seq(S)
      BY <1>8, Zenon
    <3>2. Kt[i - 1] \in Seq(S) /\ t[i] \in S
      BY <2>5, Zenon
    <3>3. AppendsThrough(S)
      BY AppendToConcat
    <3> QED
      BY <3>1, <3>2, <3>3, Zenon DEF AppendsThrough
  <2>8. Ku[n] = Ks[Len(s)] \o Kt[i]
    BY <2>2, <2>3, <2>4, <2>6, <2>7
  <2>9. Both(i)
    BY <2>8 DEF n
  <2> HIDE DEF Both
  <2> QED
    BY <2>1, <2>9
<1>11. 0..Len(t) \subseteq V
  <2> HIDE DEF V
  <2> QED
    BY <1>1, <1>9, <1>10, IntervalInduction
<1>12. Ku[Len(u)] = Ks[Len(s)] \o Kt[Len(t)]
  <2>1. Len(t) \in V
    <3> HIDE DEF V
    <3> QED
      BY <1>1, <1>11
  <2> QED
    BY <2>1 DEF Splits
<1> QED
  BY <1>12 DEF Ku, Ks, Kt, Select

-----------------------------------------------------------------------------
(* The pieces of text joined: the recursion has a value at every piece.    *)
LEMMA JoinedValues ==
  ASSUME NEW S, NEW pieces \in Seq(Seq(S))
  PROVE  /\ Joined(pieces) \in [0..Len(pieces) -> Seq(S)]
         /\ Joined(pieces)[0] = <<>>
         /\ \A n \in 1..Len(pieces) :
              Joined(pieces)[n] = Joined(pieces)[n - 1] \o pieces[n]
<1> DEFINE L == Len(pieces)
           Rec(f) == [n \in 0..L |-> IF n = 0 THEN <<>> ELSE f[n - 1] \o pieces[n]]
           F == [x \in Seq(S) \X (1..L) |-> x[1] \o pieces[x[2]]]
<1>1. L \in Nat /\ \A n \in 1..L : pieces[n] \in Seq(S)
  OBVIOUS
<1>2. <<>> \in Seq(S)
  OBVIOUS
<1>3. F \in [Seq(S) \X (1..L) -> Seq(S)]
  <2>1. ASSUME NEW x \in Seq(S) \X (1..L) PROVE x[1] \o pieces[x[2]] \in Seq(S)
    <3>1. x[1] \in Seq(S) /\ x[2] \in 1..L
      OBVIOUS
    <3>2. pieces[x[2]] \in Seq(S)
      BY <1>1, <3>1
    <3> QED
      BY <3>1, <3>2, ConcatProperties
  <2> QED
    BY <2>1
<1>4. PICK f \in [0..L -> Seq(S)] : IsRecursion(f, <<>>, F, L)
  <2> HIDE DEF F, L, Rec
  <2>1. L \in Nat
    BY <1>1
  <2> QED
    BY <2>1, <1>2, <1>3, RecursionHasValues
<1>5. f[0] = <<>>
  BY <1>4 DEF IsRecursion
<1>6. ASSUME NEW n \in 1..L PROVE f[n] = f[n - 1] \o pieces[n]
  <2>1. <<f[n - 1], n>> \in Seq(S) \X (1..L)
    <3>1. n - 1 \in 0..L
      BY <1>1
    <3>2. f[n - 1] \in Seq(S)
      BY <3>1
    <3> QED
      BY <3>2
  <2>2. f[n] = F[<<f[n - 1], n>>]
    BY <1>4 DEF IsRecursion
  <2> QED
    BY <2>1, <2>2
<1>7. f = Rec(f)
  <2>1. DOMAIN f = 0..L
    OBVIOUS
  <2>2. ASSUME NEW n \in 0..L PROVE f[n] = Rec(f)[n]
    <3>1. CASE n = 0
      BY <1>5, <3>1
    <3>2. CASE n # 0
      <4>1. n \in 1..L
        BY <1>1, <3>2
      <4> QED
        BY <1>6, <3>2, <4>1
    <3> QED
      BY <3>1, <3>2
  <2> QED
    BY <1>4, <2>1, <2>2
<1>8. Joined(pieces) = CHOOSE g : g = Rec(g)
  BY DEF Joined
<1> DEFINE c == Joined(pieces)
<1> HIDE DEF F
<1>9. c = Rec(c)
  <2> HIDE DEF Rec
  <2> QED
    BY <1>7, <1>8
<1> HIDE DEF c
<1>10. c[0] = <<>> /\ DOMAIN c = 0..L
  BY <1>1, <1>9
<1>11. ASSUME NEW n \in 1..L PROVE c[n] = c[n - 1] \o pieces[n]
  <2>1. n \in 0..L /\ n # 0
    BY <1>1
  <2>2. c[n] = Rec(c)[n]
    BY <1>9
  <2> QED
    BY <2>1, <2>2
<1>12. \A n \in 0..L : c[n] \in Seq(S)
  <2> DEFINE U == {n \in 0..L : c[n] \in Seq(S)}
  <2>1. 0 \in U
    <3>1. 0 \in 0..L /\ c[0] \in Seq(S)
      BY <1>1, <1>2, <1>10
    <3> QED
      BY <3>1
  <2>2. ASSUME NEW n \in 1..L, n - 1 \in U PROVE n \in U
    <3>1. c[n - 1] \in Seq(S) /\ pieces[n] \in Seq(S)
      BY <1>1, <2>2
    <3>2. c[n - 1] \o pieces[n] \in Seq(S)
      BY <3>1, ConcatProperties
    <3>3. c[n] \in Seq(S)
      BY <1>11, <3>2
    <3> QED
      BY <3>3
  <2>3. 0..L \subseteq U
    <3> HIDE DEF U
    <3> QED
      BY <1>1, <2>1, <2>2, IntervalInduction
  <2> QED
    BY <2>3
<1>13. c = [n \in 0..L |-> c[n]]
  BY <1>9, <1>10
<1> QED
  BY <1>10, <1>11, <1>12, <1>13 DEF c

LEMMA JoinType ==
  ASSUME NEW S, NEW pieces \in Seq(Seq(S))
  PROVE  Join(pieces) \in Seq(S)
<1>1. Len(pieces) \in 0..Len(pieces)
  OBVIOUS
<1> QED
  BY <1>1, JoinedValues DEF Join

(* A piece at the end is joined last.                                      *)
LEMMA JoinOfAppend ==
  ASSUME NEW S, NEW pieces \in Seq(Seq(S)), NEW piece \in Seq(S)
  PROVE  Join(Append(pieces, piece)) = Join(pieces) \o piece
<1> DEFINE all == Append(pieces, piece)
           L   == Len(pieces)
           Ja  == Joined(all)
           Jp  == Joined(pieces)
           U   == {n \in 0..L : Ja[n] = Jp[n]}
<1>1. /\ all \in Seq(Seq(S)) /\ L \in Nat /\ Len(all) = L + 1
      /\ \A n \in 1..L : all[n] = pieces[n]
      /\ all[L + 1] = piece
  BY AppendProperties
<1> HIDE DEF all
<1>2. Ja[0] = <<>> /\ \A n \in 1..Len(all) : Ja[n] = Ja[n - 1] \o all[n]
  BY <1>1, JoinedValues
<1>3. Jp[0] = <<>> /\ \A n \in 1..L : Jp[n] = Jp[n - 1] \o pieces[n]
  BY JoinedValues
<1> HIDE DEF L, Ja, Jp
<1>4. 0 \in U
  BY <1>1, <1>2, <1>3
<1>5. ASSUME NEW n \in 1..L, n - 1 \in U PROVE n \in U
  <2>1. n \in 1..Len(all) /\ n \in 0..L
    BY <1>1
  <2>2. Ja[n - 1] = Jp[n - 1]
    BY <1>5
  <2>3. Ja[n] = Jp[n]
    BY <1>1, <1>2, <1>3, <2>1, <2>2
  <2> QED
    BY <2>1, <2>3
<1>6. 0..L \subseteq U
  <2> HIDE DEF U
  <2> QED
    BY <1>1, <1>4, <1>5, IntervalInduction
<1>7. Ja[L] = Jp[L]
  BY <1>1, <1>6
<1>8. Ja[L + 1] = Ja[L] \o piece
  <2> DEFINE k == L + 1
  <2>1. k \in 1..Len(all) /\ k - 1 = L
    BY <1>1
  <2> HIDE DEF k
  <2>2. Ja[k] = Ja[k - 1] \o all[k]
    BY <1>2, <2>1
  <2> QED
    BY <1>1, <2>1, <2>2 DEF k
<1> QED
  BY <1>1, <1>7, <1>8 DEF Join, all, L, Ja, Jp

(* The first piece is joined first.                                        *)
LEMMA JoinOfHead ==
  ASSUME NEW S, NEW pieces \in Seq(Seq(S)), pieces # <<>>
  PROVE  Join(pieces) = Head(pieces) \o Join(Tail(pieces))
<1> DEFINE rest == Tail(pieces)
           first == Head(pieces)
           L == Len(rest)
           Jp == Joined(pieces)
           Jr == Joined(rest)
           Both(n) == Jp[n + 1] = first \o Jr[n]
           U == {n \in 0..L : Both(n)}
<1>1. /\ rest \in Seq(Seq(S)) /\ first \in Seq(S) /\ L \in Nat /\ Len(pieces) = L + 1
      /\ \A n \in 1..L : rest[n] = pieces[n + 1]
      /\ pieces[1] = first
  BY HeadTailProperties
<1>2. \A n \in 1..L : rest[n] \in Seq(S)
  BY <1>1
<1> HIDE DEF rest, first
<1>3. /\ Jr \in [0..L -> Seq(S)] /\ Jr[0] = <<>>
      /\ \A n \in 1..L : Jr[n] = Jr[n - 1] \o rest[n]
  BY <1>1, JoinedValues
<1>4. /\ Jp[0] = <<>>
      /\ \A n \in 1..Len(pieces) : Jp[n] = Jp[n - 1] \o pieces[n]
  BY JoinedValues
<1>5. \A x, y, z \in Seq(S) : (x \o y) \o z = x \o (y \o z)
  <2>1. Associates(S)
    BY ConcatAssociates
  <2> QED
    BY <2>1 DEF Associates
<1>6. \A x \in Seq(S) : x \o <<>> = x /\ <<>> \o x = x
  BY ConcatEmptySeq
<1> HIDE DEF L, Jp, Jr
<1>7. 0 \in U
  <2>1. 1 \in 1..Len(pieces) /\ 1 - 1 = 0 /\ 0 + 1 = 1
    BY <1>1
  <2>2. Jp[1] = Jp[1 - 1] \o pieces[1]
    BY <1>4, <2>1
  <2>3. Jp[1] = first
    BY <1>1, <1>4, <1>6, <2>1, <2>2
  <2>4. first \o Jr[0] = first
    BY <1>1, <1>3, <1>6
  <2>5. Both(0)
    BY <2>1, <2>3, <2>4
  <2> HIDE DEF Both
  <2> QED
    BY <1>1, <2>5
<1>8. ASSUME NEW n \in 1..L, n - 1 \in U PROVE n \in U
  <2>1. n + 1 \in 1..Len(pieces) /\ n + 1 - 1 = n /\ n - 1 + 1 = n
    BY <1>1
  <2>2. Jp[n + 1] = Jp[n] \o pieces[n + 1]
    <3> DEFINE k == n + 1
    <3>1. k \in 1..Len(pieces) /\ k - 1 = n
      BY <2>1
    <3> HIDE DEF k
    <3>2. Jp[k] = Jp[k - 1] \o pieces[k]
      BY <1>4, <3>1
    <3> QED
      BY <3>1, <3>2 DEF k
  <2>3. Jr[n] = Jr[n - 1] \o rest[n]
    BY <1>3
  <2>4. Jp[n] = first \o Jr[n - 1]
    <3>1. Both(n - 1)
      <4> HIDE DEF Both
      <4> QED
        BY <1>8
    <3> QED
      BY <2>1, <3>1
  <2>5. Jr[n - 1] \in Seq(S) /\ rest[n] \in Seq(S)
    <3>1. n - 1 \in 0..L
      BY <1>1
    <3> QED
      BY <1>2, <1>3, <3>1
  <2>6. (first \o Jr[n - 1]) \o rest[n] = first \o (Jr[n - 1] \o rest[n])
    BY <1>1, <1>5, <2>5
  <2>7. Both(n)
    BY <1>1, <2>2, <2>3, <2>4, <2>6
  <2>8. n \in 0..L
    BY <1>1
  <2> HIDE DEF Both
  <2> QED
    BY <2>7, <2>8
<1>9. 0..L \subseteq U
  <2> HIDE DEF U
  <2> QED
    BY <1>1, <1>7, <1>8, IntervalInduction
<1>10. Both(L)
  <2> HIDE DEF Both
  <2>1. L \in 0..L
    BY <1>1
  <2> QED
    BY <1>9, <2>1
<1> QED
  BY <1>1, <1>10 DEF Join, rest, first, L, Jp, Jr
-----------------------------------------------------------------------------
LEMMA ConcatParts ==
  ASSUME NEW S, NEW s \in Seq(S), NEW t \in Seq(S)
  PROVE  /\ s \o t \in Seq(S) /\ Len(s) \in Nat /\ Len(t) \in Nat
         /\ Len(s \o t) = Len(s) + Len(t)
         /\ \A i \in 1..Len(s) : (s \o t)[i] = s[i]
         /\ \A i \in 1..Len(t) : (s \o t)[Len(s) + i] = t[i]
OBVIOUS

(* The characters of valid data at the positions of its bytes, and the     *)
(* positions of those that Decode keeps.                                   *)
Wides(data) == [i \in DOMAIN data |-> IF i \in Pairs(data) THEN "wide" ELSE data[i]]
Whole(data) == {i \in DOMAIN data : data[i] # "cont"}

LEMMA WidesType ==
  ASSUME NEW data \in Seq(Bytes)
  PROVE  Wides(data) \in Seq(Chars) /\ Len(Wides(data)) = Len(data)
<1>1. DOMAIN data = 1..Len(data) /\ Len(data) \in Nat
  OBVIOUS
<1>2. \A i \in 1..Len(data) : data[i] \in Bytes
  OBVIOUS
<1>3. Bytes \subseteq Chars /\ "wide" \in Chars
  BY DEF Chars
<1>4. Wides(data) = [i \in 1..Len(data) |-> IF i \in Pairs(data) THEN "wide" ELSE data[i]]
  BY <1>1 DEF Wides
<1>5. \A i \in 1..Len(data) : (IF i \in Pairs(data) THEN "wide" ELSE data[i]) \in Chars
  BY <1>2, <1>3
<1> QED
  BY <1>1, <1>4, <1>5, IsASeq

LEMMA DecodeType ==
  ASSUME NEW data \in Seq(Bytes)
  PROVE  Decode(data) \in Seq(Chars)
<1>1. Wides(data) \in Seq(Chars)
  BY WidesType
<1>2. Select(Wides(data), Whole(data)) \in Seq(Chars)
  BY <1>1, SelectType
<1>3. data \in Seq(Chars)
  BY DEF Chars
<1> QED
  BY <1>2, <1>3 DEF Decode, Wides, Whole

LEMMA DisplayType ==
  ASSUME NEW data \in Seq(Bytes)
  PROVE  Display(data) \in Seq(Chars)
BY DecodeType, SelectType DEF Display, StripAnsiEscapes

(* Valid data that goes on validly decodes piece by piece.                 *)
LEMMA DecodeOfConcat ==
  ASSUME NEW a \in Seq(Bytes), NEW b \in Seq(Bytes), ValidUTF8(a), ValidUTF8(a \o b)
  PROVE  Decode(a \o b) = Decode(a) \o Decode(b)
<1> DEFINE u == a \o b
<1>1. /\ u \in Seq(Bytes) /\ Len(a) \in Nat /\ Len(b) \in Nat /\ Len(u) = Len(a) + Len(b)
      /\ \A i \in 1..Len(a) : u[i] = a[i]
      /\ \A i \in 1..Len(b) : u[Len(a) + i] = b[i]
  BY ConcatParts
<1>2. DOMAIN a = 1..Len(a) /\ DOMAIN b = 1..Len(b) /\ DOMAIN u = 1..Len(u)
  OBVIOUS
<1>3. ValidUTF8(u)
  OBVIOUS
<1> HIDE DEF u
<1>4. ~(Len(a) > 0 /\ a[Len(a)] = "lead")
  <2> SUFFICES ASSUME Len(a) > 0, a[Len(a)] = "lead" PROVE FALSE
    OBVIOUS
  <2>1. Len(a) \in Pairs(a)
    BY <1>1, <1>2 DEF ValidUTF8
  <2> QED
    BY <1>1, <2>1 DEF Pairs
<1>5. ASSUME NEW i \in 1..Len(a) PROVE i \in Pairs(u) <=> i \in Pairs(a)
  <2>1. CASE i = Len(a)
    BY <1>1, <1>4, <2>1 DEF Pairs
  <2>2. CASE i # Len(a)
    <3>1. i \in 1..(Len(a) - 1) /\ i \in 1..(Len(u) - 1) /\ i + 1 \in 1..Len(a)
      BY <1>1, <2>2
    <3> QED
      BY <1>1, <3>1 DEF Pairs
  <2> QED
    BY <2>1, <2>2
<1>6. ASSUME NEW i \in 1..Len(b) PROVE Len(a) + i \in Pairs(u) <=> i \in Pairs(b)
  <2>1. CASE i = Len(b)
    BY <1>1, <2>1 DEF Pairs
  <2>2. CASE i # Len(b)
    <3>1. /\ i \in 1..(Len(b) - 1) /\ Len(a) + i \in 1..(Len(u) - 1)
          /\ i + 1 \in 1..Len(b) /\ Len(a) + (i + 1) = Len(a) + i + 1
      BY <1>1, <2>2
    <3>2. u[Len(a) + i] = b[i] /\ u[Len(a) + i + 1] = b[i + 1]
      BY <1>1, <3>1, SMTT(30)
    <3> QED
      BY <3>1, <3>2 DEF Pairs
  <2> QED
    BY <2>1, <2>2
<1>7. ValidUTF8(b)
  <2>1. ASSUME NEW i \in 1..Len(b), b[i] = "lead" PROVE i \in Pairs(b)
    <3>1. Len(a) + i \in 1..Len(u) /\ u[Len(a) + i] = "lead"
      BY <1>1, <2>1
    <3>2. Len(a) + i \in Pairs(u)
      BY <1>2, <1>3, <3>1 DEF ValidUTF8
    <3> QED
      BY <1>6, <3>2
  <2>2. ASSUME NEW i \in 1..Len(b), b[i] = "cont" PROVE i - 1 \in Pairs(b)
    <3>1. Len(a) + i \in 1..Len(u) /\ u[Len(a) + i] = "cont"
      BY <1>1, <2>2
    <3>2. Len(a) + i - 1 \in Pairs(u)
      BY <1>2, <1>3, <3>1 DEF ValidUTF8
    <3>3. CASE i = 1
      <4>1. Len(a) \in Pairs(u)
        BY <1>1, <3>2, <3>3
      <4>2. Len(a) \in 1..Len(a) /\ u[Len(a)] = "lead"
        BY <1>1, <4>1 DEF Pairs
      <4> QED
        BY <1>1, <1>4, <4>2, SMTT(30)
    <3>4. CASE i # 1
      <4>1. i - 1 \in 1..Len(b) /\ Len(a) + (i - 1) = Len(a) + i - 1
        BY <1>1, <3>4
      <4> QED
        BY <1>6, <3>2, <4>1
    <3> QED
      BY <3>3, <3>4
  <2> QED
    BY <1>2, <2>1, <2>2 DEF ValidUTF8
<1>8. /\ Decode(u) = Select(Wides(u), Whole(u))
      /\ Decode(a) = Select(Wides(a), Whole(a))
      /\ Decode(b) = Select(Wides(b), Whole(b))
  BY <1>3, <1>7 DEF Decode, Wides, Whole
<1>9. /\ Wides(u) \in Seq(Chars) /\ Len(Wides(u)) = Len(u)
      /\ Wides(a) \in Seq(Chars) /\ Len(Wides(a)) = Len(a)
      /\ Wides(b) \in Seq(Chars) /\ Len(Wides(b)) = Len(b)
  BY <1>1, WidesType
<1>10. \A i \in 1..Len(a) : Wides(u)[i] = Wides(a)[i] /\ (i \in Whole(u) <=> i \in Whole(a))
  <2> TAKE i \in 1..Len(a)
  <2>1. i \in 1..Len(u) /\ u[i] = a[i]
    BY <1>1
  <2> QED
    BY <1>2, <1>5, <2>1 DEF Wides, Whole
<1>11. \A i \in 1..Len(b) :
         Wides(u)[Len(a) + i] = Wides(b)[i] /\ (Len(a) + i \in Whole(u) <=> i \in Whole(b))
  <2> TAKE i \in 1..Len(b)
  <2>1. Len(a) + i \in 1..Len(u) /\ u[Len(a) + i] = b[i]
    BY <1>1
  <2> QED
    BY <1>2, <1>6, <2>1 DEF Wides, Whole
<1>12. Select(Wides(u), Whole(u)) = Select(Wides(a), Whole(a)) \o Select(Wides(b), Whole(b))
  <2> DEFINE wu == Wides(u)
             wa == Wides(a)
             wb == Wides(b)
  <2>1. /\ wu \in Seq(Chars) /\ wa \in Seq(Chars) /\ wb \in Seq(Chars)
        /\ Splits(wu, Whole(u), wa, Whole(a), wb, Whole(b))
    BY <1>1, <1>9, <1>10, <1>11 DEF Splits
  <2> HIDE DEF wu, wa, wb
  <2>2. Select(wu, Whole(u)) = Select(wa, Whole(a)) \o Select(wb, Whole(b))
    BY <2>1, SelectFromBoth
  <2> QED
    BY <2>2 DEF wu, wa, wb
<1> QED
  BY <1>8, <1>12 DEF u

-----------------------------------------------------------------------------
(* A text that ends neither in ESC nor in ESC "[".                         *)
EndsClean(s) ==
  /\ Len(s) > 0 => s[Len(s)] # "esc"
  /\ Len(s) > 1 => ~(s[Len(s) - 1] = "esc" /\ s[Len(s)] = "[")

(* Text after a clean end is stripped on its own.                          *)
LEMMA StripOfConcat ==
  ASSUME NEW s \in Seq(Chars), NEW t \in Seq(Chars), EndsClean(s)
  PROVE  StripAnsiEscapes(s \o t) = StripAnsiEscapes(s) \o StripAnsiEscapes(t)
<1> DEFINE u == s \o t
           Stays(w) == {i \in DOMAIN w : \A e \in Escapes(w) : i \notin e..(e + 2)}
<1>1. /\ u \in Seq(Chars) /\ Len(s) \in Nat /\ Len(t) \in Nat /\ Len(u) = Len(s) + Len(t)
      /\ \A i \in 1..Len(s) : u[i] = s[i]
      /\ \A i \in 1..Len(t) : u[Len(s) + i] = t[i]
  OBVIOUS
<1>2. DOMAIN s = 1..Len(s) /\ DOMAIN t = 1..Len(t) /\ DOMAIN u = 1..Len(u)
  OBVIOUS
<1> HIDE DEF u
<1>3. ASSUME NEW e \in Escapes(u), e <= Len(s) PROVE e \in Escapes(s) /\ e + 2 <= Len(s)
  <2>1. /\ e \in 1..(Len(u) - 2) /\ u[e] = "esc" /\ u[e + 1] = "["
        /\ u[e + 2] \in {"letter", "["}
    BY DEF Escapes
  <2>2. e # Len(s)
    <3> SUFFICES ASSUME e = Len(s) PROVE FALSE
      OBVIOUS
    <3>1. Len(s) > 0 /\ s[Len(s)] = "esc"
      BY <1>1, <2>1
    <3> QED
      BY <3>1 DEF EndsClean
  <2>3. e # Len(s) - 1
    <3> SUFFICES ASSUME e = Len(s) - 1 PROVE FALSE
      OBVIOUS
    <3>1. Len(s) > 1 /\ Len(s) - 1 \in 1..Len(s) /\ e + 1 = Len(s)
      BY <1>1, <2>1
    <3>2. s[Len(s) - 1] = "esc" /\ s[Len(s)] = "["
      BY <1>1, <2>1, <3>1, SMTT(30)
    <3> QED
      BY <3>1, <3>2 DEF EndsClean
  <2>4. e \in 1..(Len(s) - 2) /\ e + 1 \in 1..Len(s) /\ e + 2 \in 1..Len(s)
    BY <1>1, <1>3, <2>1, <2>2, <2>3
  <2>5. s[e] = u[e] /\ s[e + 1] = u[e + 1] /\ s[e + 2] = u[e + 2]
    <3>1. \A i \in 1..Len(s) : u[i] = s[i]
      BY <1>1
    <3>2. e \in 1..Len(s)
      BY <1>1, <2>4
    <3> QED
      BY <2>4, <3>1, <3>2, SMTT(30)
  <2> QED
    BY <1>1, <2>1, <2>4, <2>5 DEF Escapes
<1>4. ASSUME NEW e \in Escapes(s) PROVE e \in Escapes(u) /\ e \in Nat /\ e + 2 <= Len(s)
  <2>1. e \in 1..(Len(s) - 2) /\ e + 1 \in 1..Len(s) /\ e + 2 \in 1..Len(s) /\ e \in 1..Len(s)
    BY <1>1 DEF Escapes
  <2>2. u[e] = s[e] /\ u[e + 1] = s[e + 1] /\ u[e + 2] = s[e + 2]
    BY <1>1, <2>1
  <2>3. e \in 1..(Len(u) - 2)
    BY <1>1, <2>1
  <2> QED
    BY <2>1, <2>2, <2>3 DEF Escapes
<1>5. ASSUME NEW e \in 1..Len(t) PROVE Len(s) + e \in Escapes(u) <=> e \in Escapes(t)
  <2>1. CASE e \in 1..(Len(t) - 2)
    <3>1. /\ e + 1 \in 1..Len(t) /\ e + 2 \in 1..Len(t) /\ Len(s) + e \in 1..(Len(u) - 2)
          /\ Len(s) + (e + 1) = Len(s) + e + 1 /\ Len(s) + (e + 2) = Len(s) + e + 2
      BY <1>1, <2>1
    <3>2. u[Len(s) + e] = t[e] /\ u[Len(s) + e + 1] = t[e + 1] /\ u[Len(s) + e + 2] = t[e + 2]
      BY <1>1, <3>1
    <3> QED
      BY <2>1, <3>1, <3>2 DEF Escapes
  <2>2. CASE e \notin 1..(Len(t) - 2)
    <3>1. Len(s) + e \notin 1..(Len(u) - 2)
      BY <1>1, <2>2
    <3> QED
      BY <2>2, <3>1 DEF Escapes
  <2> QED
    BY <2>1, <2>2
<1>6. ASSUME NEW i \in 1..Len(s) PROVE i \in Stays(u) <=> i \in Stays(s)
  <2>1. ASSUME NEW e \in Escapes(u), i \in e..(e + 2) PROVE e \in Escapes(s)
    <3>1. e \in Nat
      BY DEF Escapes
    <3>2. e <= Len(s)
      BY <1>1, <2>1, <3>1
    <3> QED
      BY <1>3, <3>2
  <2>2. i \in DOMAIN u /\ i \in DOMAIN s
    BY <1>1, <1>2
  <2> QED
    BY <1>4, <2>1, <2>2
<1>7. ASSUME NEW i \in 1..Len(t) PROVE Len(s) + i \in Stays(u) <=> i \in Stays(t)
  <2>1. ASSUME NEW e \in Escapes(u), Len(s) + i \in e..(e + 2)
        PROVE  \E d \in Escapes(t) : i \in d..(d + 2)
    <3>1. e \in 1..(Len(u) - 2)
      BY DEF Escapes
    <3>2. e > Len(s)
      <4> SUFFICES ASSUME e <= Len(s) PROVE FALSE
        BY <1>1, <3>1
      <4>1. e + 2 <= Len(s)
        BY <1>3
      <4> QED
        BY <1>1, <2>1, <3>1, <4>1
    <3> DEFINE d == e - Len(s)
    <3>3. d \in 1..Len(t) /\ Len(s) + d = e
      BY <1>1, <3>1, <3>2
    <3>4. d \in Escapes(t)
      BY <1>5, <3>3
    <3>5. i \in d..(d + 2)
      BY <1>1, <2>1, <3>1
    <3> HIDE DEF d
    <3> QED
      BY <3>4, <3>5
  <2>2. ASSUME NEW d \in Escapes(t), i \in d..(d + 2)
        PROVE  \E e \in Escapes(u) : Len(s) + i \in e..(e + 2)
    <3>1. d \in 1..(Len(t) - 2) /\ d \in 1..Len(t)
      BY <1>1 DEF Escapes
    <3>2. Len(s) + d \in Escapes(u)
      BY <1>5, <3>1
    <3>3. Len(s) + i \in (Len(s) + d)..(Len(s) + d + 2)
      BY <1>1, <2>2, <3>1
    <3> QED
      BY <3>2, <3>3
  <2>3. Len(s) + i \in DOMAIN u /\ i \in DOMAIN t
    BY <1>1, <1>2
  <2> QED
    BY <2>1, <2>2, <2>3
<1>8. /\ StripAnsiEscapes(u) = Select(u, Stays(u))
      /\ StripAnsiEscapes(s) = Select(s, Stays(s))
      /\ StripAnsiEscapes(t) = Select(t, Stays(t))
  BY DEF StripAnsiEscapes
<1> HIDE DEF Stays
<1>9. Select(u, Stays(u)) = Select(s, Stays(s)) \o Select(t, Stays(t))
  <2>1. Splits(u, Stays(u), s, Stays(s), t, Stays(t))
    BY <1>1, <1>6, <1>7 DEF Splits
  <2> QED
    BY <1>1, <2>1, SelectFromBoth
<1> QED
  BY <1>8, <1>9 DEF u
(* The last character of the first n bytes of valid data.                  *)
LEMMA LastCharacter ==
  ASSUME NEW data \in Seq(Bytes), ValidUTF8(data), NEW n \in 1..Len(data)
  PROVE  LET K == Kept(Wides(data), Whole(data))
             c == IF data[n] = "cont" \/ n \in Pairs(data) THEN "wide" ELSE data[n]
         IN  /\ K[n] \in Seq(Chars) /\ K[n] # <<>>
             /\ K[n][Len(K[n])] = c
             /\ data[n] # "cont" => Len(K[n]) = Len(K[n - 1]) + 1
                                    /\ K[n - 1] \in Seq(Chars)
                                    /\ \A i \in 1..Len(K[n - 1]) : K[n][i] = K[n - 1][i]
<1> DEFINE w == Wides(data)
           K == Kept(w, Whole(data))
<1>1. DOMAIN data = 1..Len(data) /\ Len(data) \in Nat
  OBVIOUS
<1>2. /\ w \in Seq(Chars) /\ Len(w) = Len(data)
      /\ \A i \in 1..Len(data) : w[i] = IF i \in Pairs(data) THEN "wide" ELSE data[i]
  BY <1>1, WidesType DEF Wides
<1>3. \A i \in 1..Len(data) : w[i] \in Chars
  BY <1>2
<1> HIDE DEF w
<1>4. /\ \A i \in 0..Len(data) : K[i] \in Seq(Chars)
      /\ \A i \in 1..Len(data) :
           K[i] = IF i \in Whole(data) THEN Append(K[i - 1], w[i]) ELSE K[i - 1]
  <2>1. /\ K \in [0..Len(w) -> Seq(Chars)]
        /\ \A i \in 1..Len(w) :
             K[i] = IF i \in Whole(data) THEN Append(K[i - 1], w[i]) ELSE K[i - 1]
    BY <1>2, KeptValues
  <2> HIDE DEF K
  <2> QED
    BY <1>2, <2>1
<1> HIDE DEF K
<1>5. ASSUME NEW i \in 1..Len(data), data[i] # "cont"
      PROVE  /\ K[i] \in Seq(Chars) /\ K[i] # <<>> /\ K[i - 1] \in Seq(Chars)
             /\ Len(K[i]) = Len(K[i - 1]) + 1
             /\ K[i][Len(K[i])] = w[i]
             /\ \A j \in 1..Len(K[i - 1]) : K[i][j] = K[i - 1][j]
  <2>1. K[i - 1] \in Seq(Chars)
    <3>1. i - 1 \in 0..Len(data)
      BY <1>1
    <3> QED
      BY <1>4, <3>1
  <2>2. K[i] = Append(K[i - 1], w[i])
    BY <1>1, <1>4, <1>5 DEF Whole
  <2> DEFINE k == K[i - 1]
             e == w[i]
  <2>3. k \in Seq(Chars) /\ e \in Chars
    BY <1>3, <2>1
  <2> HIDE DEF k, e
  <2>4. /\ Append(k, e) \in Seq(Chars) /\ Append(k, e) # <<>>
        /\ Len(Append(k, e)) = Len(k) + 1
        /\ Append(k, e)[Len(Append(k, e))] = e
        /\ \A j \in 1..Len(k) : Append(k, e)[j] = k[j]
    BY <2>3, AppendProperties
  <2> QED
    BY <2>1, <2>2, <2>4 DEF k, e
<1>6. CASE data[n] # "cont"
  BY <1>2, <1>5, <1>6 DEF K, w
<1>7. CASE data[n] = "cont"
  <2>1. n - 1 \in Pairs(data)
    BY <1>1, <1>7 DEF ValidUTF8
  <2> DEFINE i == n - 1
  <2>2. i \in 1..Len(data) /\ data[i] = "lead" /\ i \in Pairs(data)
    BY <1>1, <2>1 DEF Pairs
  <2>3. K[n] = K[i]
    <3>1. n \notin Whole(data)
      BY <1>7 DEF Whole
    <3> QED
      BY <1>4, <3>1
  <2> HIDE DEF i
  <2>4. w[i] = "wide"
    BY <1>2, <2>2
  <2>5. K[i] \in Seq(Chars) /\ K[i] # <<>> /\ K[i][Len(K[i])] = "wide"
    BY <1>5, <2>2, <2>4
  <2> QED
    BY <1>7, <2>3, <2>5 DEF K, w
<1> QED
  BY <1>6, <1>7

(* The text of valid data that ends cleanly ends cleanly.                  *)
LEMMA DecodeEndsClean ==
  ASSUME NEW data \in Seq(Bytes), ValidUTF8(data), EndsClean(data)
  PROVE  EndsClean(Decode(data))
<1> DEFINE K == Kept(Wides(data), Whole(data))
           L == Len(data)
<1>1. Decode(data) = K[L] /\ L \in Nat
  <2>1. Len(Wides(data)) = L
    BY WidesType
  <2> QED
    BY <2>1 DEF Decode, Wides, Whole, Select
<1>2. CASE L = 0
  <2>1. K[0] = <<>>
    BY WidesType, KeptValues
  <2> QED
    BY <1>1, <1>2, <2>1 DEF EndsClean
<1>3. CASE L > 0
  <2> DEFINE c(n) == IF data[n] = "cont" \/ n \in Pairs(data) THEN "wide" ELSE data[n]
  <2>1. L \in 1..L
    BY <1>1, <1>3
  <2>2. /\ K[L] \in Seq(Chars) /\ K[L] # <<>> /\ K[L][Len(K[L])] = c(L)
        /\ data[L] # "cont" => Len(K[L]) = Len(K[L - 1]) + 1
                               /\ K[L - 1] \in Seq(Chars)
                               /\ \A i \in 1..Len(K[L - 1]) : K[L][i] = K[L - 1][i]
    BY <2>1, LastCharacter
  <2>3. c(L) # "esc"
    BY <1>3 DEF EndsClean
  <2>4. ASSUME Len(K[L]) > 1, K[L][Len(K[L]) - 1] = "esc", K[L][Len(K[L])] = "["
        PROVE  FALSE
    <3>1. data[L] = "[" /\ data[L] # "cont"
      BY <2>2, <2>4
    <3> DEFINE p == K[L - 1]
    <3>2. p \in Seq(Chars) /\ Len(p) > 0 /\ p[Len(p)] = "esc"
      <4>1. Len(K[L]) = Len(p) + 1 /\ p \in Seq(Chars) /\ Len(p) \in Nat
            /\ \A i \in 1..Len(p) : K[L][i] = p[i]
        BY <2>2, <3>1
      <4> HIDE DEF p
      <4>2. Len(p) \in 1..Len(p) /\ Len(K[L]) - 1 = Len(p)
        BY <2>4, <4>1
      <4> QED
        BY <2>4, <4>1, <4>2
    <3>3. CASE L = 1
      <4>1. K[0] = <<>>
        BY WidesType, KeptValues
      <4>2. p = <<>>
        BY <3>3, <4>1
      <4> QED
        BY <3>2, <4>2
    <3>4. CASE L # 1
      <4>1. L - 1 \in 1..L /\ L > 1
        <5>1. L \in Nat
          BY <1>1
        <5> HIDE DEF L
        <5> QED
          BY <5>1, <1>3, <3>4
      <4>2. p[Len(p)] = c(L - 1)
        BY <4>1, LastCharacter
      <4>3. data[L - 1] = "esc"
        BY <3>2, <4>2
      <4> QED
        BY <3>1, <4>1, <4>3 DEF EndsClean
    <3> QED
      BY <1>1, <3>3, <3>4
  <2> HIDE DEF K, c
  <2> QED
    BY <1>1, <2>2, <2>3, <2>4 DEF EndsClean
<1> QED
  BY <1>1, <1>2, <1>3

(* What is displayed of a text that is read in two parts, the first of     *)
(* which ends where it does no harm: of valid data, and of data that is    *)
(* decoded byte by byte as a whole and in its parts.                       *)
LEMMA DisplayOfConcat ==
  ASSUME NEW a \in Seq(Bytes), NEW b \in Seq(Bytes),
         ValidUTF8(a), EndsClean(a), ValidUTF8(a \o b)
  PROVE  Display(a \o b) = Display(a) \o Display(b)
<1>1. Decode(a \o b) = Decode(a) \o Decode(b)
  BY DecodeOfConcat
<1>2. Decode(a) \in Seq(Chars) /\ Decode(b) \in Seq(Chars)
  BY DecodeType
<1>3. EndsClean(Decode(a))
  BY DecodeEndsClean
<1> QED
  BY <1>1, <1>2, <1>3, StripOfConcat DEF Display

LEMMA DisplayOfRawConcat ==
  ASSUME NEW a \in Seq(Bytes), NEW b \in Seq(Bytes), EndsClean(a),
         Decode(a) = a, Decode(b) = b, Decode(a \o b) = a \o b
  PROVE  Display(a \o b) = Display(a) \o Display(b)
<1>1. a \in Seq(Chars) /\ b \in Seq(Chars)
  BY DecodeType
<1> QED
  BY <1>1, StripOfConcat DEF Display

(* Data that may end inside a character.                                   *)
EndsInLead(s) == Len(s) > 0 /\ s[Len(s)] = "lead"

(* What comes before a character of valid data is valid.                   *)
LEMMA ValidBefore ==
  ASSUME NEW a \in Seq(Bytes), NEW b \in Seq(Bytes), ValidUTF8(a \o b), ~EndsInLead(a)
  PROVE  ValidUTF8(a)
<1> DEFINE u == a \o b
<1>1. /\ u \in Seq(Bytes) /\ Len(a) \in Nat /\ Len(b) \in Nat /\ Len(u) = Len(a) + Len(b)
      /\ \A i \in 1..Len(a) : u[i] = a[i]
  BY ConcatParts
<1>2. DOMAIN a = 1..Len(a) /\ DOMAIN u = 1..Len(u)
  OBVIOUS
<1>3. ValidUTF8(u)
  OBVIOUS
<1> HIDE DEF u
<1>4. ASSUME NEW i \in 1..Len(a), a[i] = "lead" PROVE i \in Pairs(a)
  <2>1. i # Len(a)
    BY <1>4 DEF EndsInLead
  <2>2. i \in 1..(Len(a) - 1) /\ i + 1 \in 1..Len(a) /\ i \in 1..Len(u)
    BY <1>1, <2>1
  <2>3. u[i] = a[i] /\ u[i + 1] = a[i + 1]
    BY <1>1, <2>2
  <2>4. i \in Pairs(u)
    BY <1>2, <1>3, <1>4, <2>2, <2>3 DEF ValidUTF8
  <2> QED
    BY <1>4, <2>2, <2>3, <2>4 DEF Pairs
<1>5. ASSUME NEW i \in 1..Len(a), a[i] = "cont" PROVE i - 1 \in Pairs(a)
  <2>1. u[i] = a[i] /\ i \in 1..Len(u)
    BY <1>1
  <2>2. i - 1 \in Pairs(u)
    BY <1>2, <1>3, <1>5, <2>1 DEF ValidUTF8
  <2>3. i - 1 \in 1..(Len(a) - 1) /\ i - 1 \in 1..Len(a) /\ (i - 1) + 1 = i
    BY <1>1, <2>2 DEF Pairs
  <2>4. u[i - 1] = a[i - 1] /\ u[i - 1] = "lead"
    BY <1>1, <2>2, <2>3 DEF Pairs
  <2> QED
    BY <1>5, <2>3, <2>4 DEF Pairs
<1> QED
  BY <1>2, <1>4, <1>5 DEF ValidUTF8

-----------------------------------------------------------------------------
(* The invariant: the types, that the last read ended where it does no     *)
(* harm if all reads have, that all that was read reads byte by byte if    *)
(* the reads do, and the text shown and waiting.                           *)
CutIsClean ==
  clean => /\ CleanCut(offset)
           /\ raw => Decode(Upto(console, offset)) = Upto(console, offset)

TabInv == TypeOK /\ CutIsClean /\ ReadsLikeOneRead

(* CleanCut speaks of what has been read and of nothing after it.          *)
LEMMA CleanCutOfRead ==
  ASSUME NEW n \in 0..Len(console), TypeOK
  PROVE  /\ Upto(console, n) \in Seq(Bytes)
         /\ CleanCut(n) <=> ~EndsInLead(Upto(console, n)) /\ EndsClean(Upto(console, n))
<1> DEFINE a == Upto(console, n)
<1>1. a \in Seq(Bytes) /\ Len(a) = n /\ n \in Nat /\ \A i \in 1..n : a[i] = console[i]
  BY SubSeqProperties DEF Upto, TypeOK
<1>2. CleanCut(n) <=> /\ n > 0 => console[n] \notin {"lead", "esc"}
                      /\ n > 1 => ~(console[n - 1] = "esc" /\ console[n] = "[")
  BY DEF CleanCut
<1> HIDE DEF a
<1>3. n > 0 => a[n] = console[n]
  BY <1>1
<1>4. n > 1 => a[n - 1] = console[n - 1]
  BY <1>1
<1>5. EndsClean(a) <=> /\ n > 0 => console[n] # "esc"
                       /\ n > 1 => ~(console[n - 1] = "esc" /\ console[n] = "[")
  BY <1>1, <1>3, <1>4 DEF EndsClean
<1>6. EndsInLead(a) <=> n > 0 /\ console[n] = "lead"
  BY <1>1, <1>3 DEF EndsInLead
<1> QED
  BY <1>1, <1>2, <1>5, <1>6 DEF a

LEMMA InitTabInv == Init => TabInv
<1> SUFFICES ASSUME Init PROVE TabInv
  OBVIOUS
<1>1. TypeOK
  BY TabAssumption DEF Init, TypeOK
<1>2. Upto(console, 0) = <<>> /\ offset = 0 /\ Len(<<>>) = 0
  BY SubSeqEmpty DEF Init, Upto
<1>3. ValidUTF8(<<>>)
  BY DEF ValidUTF8
<1>4. CleanCut(0)
  BY DEF CleanCut
<1>5. Decode(<<>>) = <<>>
  <2>1. <<>> \in Seq(Bytes)
    OBVIOUS
  <2>2. Wides(<<>>) \in Seq(Chars) /\ Len(Wides(<<>>)) = 0
    BY <1>2, <2>1, WidesType
  <2>3. Kept(Wides(<<>>), Whole(<<>>))[0] = <<>>
    BY <2>2, KeptValues
  <2>4. Decode(<<>>) = Select(Wides(<<>>), Whole(<<>>))
    BY <1>3 DEF Decode, Wides, Whole
  <2> QED
    BY <2>2, <2>3, <2>4 DEF Select
<1>6. Display(<<>>) = <<>>
  BY <1>5, SelectNothing DEF Display, StripAnsiEscapes
<1>7. Join(<<>>) = <<>>
  <2>1. <<>> \in Seq(Seq(Chars))
    OBVIOUS
  <2> QED
    BY <1>2, <2>1, JoinedValues DEF Join
<1>8. <<>> \o <<>> = <<>>
  BY ConcatEmptySeq
<1> QED
  BY <1>1, <1>2, <1>4, <1>5, <1>6, <1>7, <1>8 DEF TabInv, CutIsClean, ReadsLikeOneRead, Init

(* A poll, by whichever timer.                                             *)
LEMMA PollKeeps ==
  ASSUME TabInv, Poll, UNCHANGED <<console, shown>>,
         exists' = exists, timers' \in 0..MaxTimers
  PROVE  TabInv'
<1> DEFINE a    == Upto(console, offset)
           b    == SubSeq(console, offset + 1, Len(console))
           text == Display(b)
<1>1. /\ console \in Seq(Bytes) /\ Len(console) \in Nat /\ offset \in 0..Len(console)
      /\ blocks \in Seq(Seq(Chars) \ {<<>>}) /\ shown \in Seq(Chars)
  BY DEF TabInv, TypeOK
<1>2. CASE ~(exists /\ offset < Len(console))
  BY <1>2 DEF Poll, TabInv, TypeOK, CutIsClean, CleanCut, ReadsLikeOneRead
<1>3. CASE exists /\ offset < Len(console)
  <2>1. /\ offset' = Len(console)
        /\ raw' = (raw /\ Decode(b) = b)
        /\ clean' = (clean /\ CleanCut(Len(console)) /\ (ValidUTF8(console) \/ raw'))
        /\ blocks' = IF text = <<>> THEN blocks ELSE Append(blocks, text)
    BY <1>3 DEF Poll
  <2>2. a \in Seq(Bytes) /\ b \in Seq(Bytes)
    BY <1>1, SubSeqProperties DEF Upto
  <2>3. a \o b = console /\ Upto(console, Len(console)) = console
    <3>1. a \o b = SubSeq(console, 1, Len(console))
      <4>1. /\ 1 \in 1..(Len(console) + 1) /\ offset \in (1 - 1)..Len(console)
            /\ Len(console) \in offset..Len(console)
        BY <1>1
      <4> QED
        BY <1>1, <4>1, ConcatAdjacentSubSeq DEF Upto
    <3>2. SubSeq(console, 1, Len(console)) = console
      BY <1>1, SubSeqFull
    <3> QED
      BY <3>1, <3>2 DEF Upto
  <2>4. text \in Seq(Chars)
    BY <2>2, DisplayType
  <2>5. blocks \in Seq(Seq(Chars))
    BY <1>1
  <2>6. Join(blocks') = Join(blocks) \o text
    <3> HIDE DEF text
    <3>1. CASE text = <<>>
      <4>1. Join(blocks) \in Seq(Chars)
        BY <2>5, JoinType
      <4> QED
        BY <2>1, <3>1, <4>1, ConcatEmptySeq
    <3>2. CASE text # <<>>
      BY <2>1, <2>4, <2>5, <3>2, JoinOfAppend
    <3> QED
      BY <3>1, <3>2
  <2>7. TypeOK'
    <3>1. blocks' \in Seq(Seq(Chars) \ {<<>>})
      <4> HIDE DEF text
      <4> QED
        BY <1>1, <2>1, <2>4
    <3>2. clean' \in BOOLEAN /\ raw' \in BOOLEAN
      BY <2>1
    <3> HIDE DEF text
    <3> QED
      BY <1>1, <2>1, <3>1, <3>2 DEF TabInv, TypeOK
  <2>8. ASSUME clean' PROVE /\ raw' => Decode(a \o b) = a \o b
                            /\ Display(a \o b) = Display(a) \o text
    <3>1. clean /\ CleanCut(offset) /\ (raw => Decode(a) = a)
      BY <2>1, <2>8 DEF TabInv, CutIsClean
    <3>2. ~EndsInLead(a) /\ EndsClean(a)
      BY <1>1, <3>1, CleanCutOfRead DEF TabInv
    <3>3. ValidUTF8(a \o b) \/ raw'
      BY <2>1, <2>3, <2>8
    <3>4. raw' => Decode(a) = a /\ Decode(b) = b
      BY <2>1, <3>1
    <3> HIDE DEF a, b
    <3>5. CASE ValidUTF8(a \o b)
      <4>1. ValidUTF8(a)
        BY <2>2, <3>2, <3>5, ValidBefore
      <4>2. Display(a \o b) = Display(a) \o text
        BY <2>2, <3>2, <3>5, <4>1, DisplayOfConcat
      <4>3. Decode(a \o b) = Decode(a) \o Decode(b)
        BY <2>2, <3>5, <4>1, DecodeOfConcat
      <4> QED
        BY <3>4, <4>2, <4>3
    <3>6. CASE ~ValidUTF8(a \o b)
      <4>1. Decode(a \o b) = a \o b
        BY <3>6 DEF Decode
      <4>2. Decode(a) = a /\ Decode(b) = b
        BY <3>3, <3>4, <3>6
      <4>3. Display(a \o b) = Display(a) \o text
        BY <2>2, <3>2, <4>1, <4>2, DisplayOfRawConcat
      <4> QED
        BY <4>1, <4>3
    <3> QED
      BY <3>5, <3>6
  <2>9. CutIsClean'
    <3> HIDE DEF text, b
    <3> QED
      BY <2>1, <2>3, <2>8 DEF CutIsClean, CleanCut
  <2>10. ReadsLikeOneRead'
    <3> SUFFICES ASSUME clean'
                 PROVE  shown \o Join(blocks') = Display(Upto(console, Len(console)))
      BY <2>1 DEF ReadsLikeOneRead
    <3>1. clean
      BY <2>1
    <3>4. Display(a \o b) = Display(a) \o text
      BY <2>8
    <3>5. Display(a) = shown \o Join(blocks)
      BY <3>1 DEF TabInv, ReadsLikeOneRead
    <3>6. Join(blocks) \in Seq(Chars)
      BY <2>5, JoinType
    <3>7. (shown \o Join(blocks)) \o text = shown \o (Join(blocks) \o text)
      <4> HIDE DEF text
      <4>1. \A x, y, z \in Seq(Chars) : (x \o y) \o z = x \o (y \o z)
        <5>1. Associates(Chars)
          BY ConcatAssociates
        <5> QED
          BY <5>1 DEF Associates
      <4> QED
        BY <1>1, <2>4, <3>6, <4>1
    <3> QED
      BY <2>3, <2>6, <3>4, <3>5, <3>7
  <2> QED
    BY <2>7, <2>9, <2>10 DEF TabInv
<1> QED
  BY <1>2, <1>3

LEMMA NextTabInv ==
  ASSUME TabInv, [Next]_vars
  PROVE  TabInv'
<1>1. /\ console \in Seq(Bytes) /\ Len(console) \in Nat /\ offset \in 0..Len(console)
      /\ blocks \in Seq(Seq(Chars) \ {<<>>}) /\ shown \in Seq(Chars)
      /\ timers \in 0..MaxTimers /\ MaxTimers \in Nat
  BY TabAssumption DEF TabInv, TypeOK
<1>2. ASSUME NEW w \in Bytes, GuestWrites(w) PROVE TabInv'
  <2>1. console' = console \o <<w>> /\ <<w>> \in Seq(Bytes)
    <3>1. console' = Append(console, w)
      BY <1>2 DEF GuestWrites
    <3> QED
      BY <1>1, <3>1, AppendIsConcat
  <2>2. TypeOK'
    BY <1>1, <1>2 DEF GuestWrites, TabInv, TypeOK
  <2>3. Len(console') = Len(console) + 1 /\ \A i \in 1..Len(console) : console'[i] = console[i]
    BY <1>1, <1>2 DEF GuestWrites
  <2>4. Upto(console', offset) = Upto(console, offset)
    <3>1. CASE offset = 0
      BY <3>1, SubSeqEmpty DEF Upto
    <3>2. CASE offset # 0
      <4>1. 1 \in 1..Len(console) /\ offset \in 1..Len(console)
        BY <1>1, <3>2
      <4> QED
        BY <1>1, <2>1, <4>1, SubSeqOfConcat1 DEF Upto
    <3> QED
      BY <3>1, <3>2
  <2>5. CleanCut(offset) => CleanCut(offset)'
    <3>1. offset' = offset
      BY <1>2 DEF GuestWrites
    <3>2. offset > 0 => console'[offset] = console[offset]
      BY <1>1, <2>3
    <3>3. offset > 1 => console'[offset - 1] = console[offset - 1]
      <4>1. offset > 1 => offset - 1 \in 1..Len(console)
        BY <1>1
      <4> QED
        BY <2>3, <4>1
    <3>4. CleanCut(offset)' <=>
            /\ offset > 0 => console'[offset] \notin {"lead", "esc"}
            /\ offset > 1 => ~(console'[offset - 1] = "esc" /\ console'[offset] = "[")
      BY <3>1 DEF CleanCut
    <3>5. CleanCut(offset) <=>
            /\ offset > 0 => console[offset] \notin {"lead", "esc"}
            /\ offset > 1 => ~(console[offset - 1] = "esc" /\ console[offset] = "[")
      BY DEF CleanCut
    <3>6. offset > 1 => offset > 0
      BY <1>1
    <3> QED
      BY <3>2, <3>3, <3>4, <3>5, <3>6
  <2> QED
    BY <1>2, <2>2, <2>4, <2>5 DEF GuestWrites, TabInv, CutIsClean, ReadsLikeOneRead
<1>3. CASE Appear
  <2>1. timers' \in 0..MaxTimers
    BY <1>1, <1>3 DEF Appear
  <2> QED
    BY <1>3, <2>1, PollKeeps DEF Appear
<1>4. CASE TimerFires
  BY <1>1, <1>4, PollKeeps DEF TimerFires
<1>5. CASE RunBlock
  <2> DEFINE h == Head(blocks)
             t == Tail(blocks)
  <2>1. blocks # <<>> /\ shown' = shown \o h /\ blocks' = t
    BY <1>5 DEF RunBlock
  <2>2. h \in Seq(Chars) /\ t \in Seq(Seq(Chars) \ {<<>>}) /\ blocks \in Seq(Seq(Chars))
    BY <1>1, <2>1, HeadTailProperties
  <2>3. Join(blocks) = h \o Join(t)
    BY <2>1, <2>2, JoinOfHead
  <2>4. Join(t) \in Seq(Chars)
    <3>1. t \in Seq(Seq(Chars))
      BY <2>2
    <3> QED
      BY <3>1, JoinType
  <2>5. (shown \o h) \o Join(t) = shown \o (h \o Join(t))
    <3>1. \A x, y, z \in Seq(Chars) : (x \o y) \o z = x \o (y \o z)
      BY ConcatAssociative
    <3> HIDE DEF h, t
    <3> QED
      BY <1>1, <2>2, <2>4, <3>1
  <2>6. shown' \in Seq(Chars)
    <3> HIDE DEF h, t
    <3> QED
      BY <1>1, <2>1, <2>2, ConcatProperties
  <2>7. TypeOK'
    <3> HIDE DEF h, t
    <3> QED
      BY <1>5, <2>1, <2>2, <2>6 DEF RunBlock, TabInv, TypeOK
  <2>8. CutIsClean'
    BY <1>5 DEF RunBlock, TabInv, CutIsClean, CleanCut
  <2>9. ReadsLikeOneRead'
    <3>1. UNCHANGED <<console, offset, raw, clean>>
      BY <1>5 DEF RunBlock
    <3> HIDE DEF h, t
    <3> QED
      BY <2>1, <2>3, <2>5, <3>1 DEF TabInv, ReadsLikeOneRead
  <2> QED
    BY <2>7, <2>8, <2>9 DEF TabInv
<1>6. CASE ConsoleRemoved
  BY <1>6 DEF ConsoleRemoved, TabInv, TypeOK, CutIsClean, CleanCut, ReadsLikeOneRead
<1>7. CASE UNCHANGED vars
  BY <1>7 DEF vars, TabInv, TypeOK, CutIsClean, CleanCut, ReadsLikeOneRead
<1> QED
  BY <1>2, <1>3, <1>4, <1>5, <1>6, <1>7 DEF Next

LEMMA TabInvariant == Spec => []TabInv
<1>1. TabInv /\ [Next]_vars => TabInv'
  BY NextTabInv
<1> QED
  BY <1>1, InitTabInv, PTL DEF Spec

(* The tab's variables have their types: the offset never passes the end   *)
(* of the file, and no empty piece of text waits.                          *)
THEOREM TabTypeCorrect == Spec => []TypeOK
<1>1. TabInv => TypeOK
  BY DEF TabInv
<1> QED
  BY <1>1, TabInvariant, PTL

(* However many timers poll the console, and whenever the tab appears: as  *)
(* long as no read has ended inside a character or an escape sequence, and *)
(* the reads are decoded as the whole file is, the text shown and waiting  *)
(* is that of one read of the whole file.                                  *)
THEOREM PollingIsInvisible == Spec => []ReadsLikeOneRead
<1>1. TabInv => ReadsLikeOneRead
  BY DEF TabInv
<1> QED
  BY <1>1, TabInvariant, PTL
=============================================================================
