---------------------------- MODULE FoldingProofs ----------------------------
(***************************************************************************)
(* Lemmas about folds, and the induction that they need: by sets, since an *)
(* induction theorem over predicates cannot be used here.                  *)
(***************************************************************************)
EXTENDS Folding, WellFoundedInduction, SequenceTheorems, TLAPS

(***************************************************************************)
(* Induction, of a set.                                                    *)
(***************************************************************************)
\* A set that has 0, and n + 1 with n, has every natural number.
LEMMA EveryNatural ==
  ASSUME NEW S, 0 \in S, \A n \in Nat : n \in S => n + 1 \in S
  PROVE  \A n \in Nat : n \in S
<1> DEFINE R == OpToRel(<, Nat)
           T == Nat \ S
<1> SUFFICES ASSUME T # {} PROVE FALSE OBVIOUS
<1>1. IsWellFoundedOn(R, Nat) BY NatLessThanWellFounded
<1>2. \A y, x \in Nat : y < x => <<y, x>> \in R BY DEF OpToRel
<1> HIDE DEF R
<1>3. T \subseteq Nat OBVIOUS
<1>4. PICK x \in T : \A y \in T : ~ (<<y, x>> \in R) BY <1>1, <1>3, WFMin, Zenon
<1>5. x \in Nat /\ x \notin S /\ x # 0 OBVIOUS
<1>6. x - 1 \in Nat /\ x - 1 < x /\ (x - 1) + 1 = x BY <1>5
<1>7. x - 1 \notin S BY <1>5, <1>6
<1>8. <<x - 1, x>> \in R BY <1>2, <1>5, <1>6
<1> QED BY <1>4, <1>6, <1>7, <1>8

\* A set that has the empty sequence, and with a sequence the longer ones, has them all.
LEMMA EverySequence ==
  ASSUME NEW C, NEW S, <<>> \in S,
         \A s \in Seq(C) : \A c \in C : s \in S => Append(s, c) \in S
  PROVE  \A s \in Seq(C) : s \in S
<1> DEFINE T == {n \in Nat : \A s \in Seq(C) : Len(s) = n => s \in S}
<1>1. 0 \in T
  <2>1. \A s \in Seq(C) : Len(s) = 0 => s = <<>> BY EmptySeq
  <2> QED BY <2>1
<1>2. ASSUME NEW n \in Nat, n \in T PROVE n + 1 \in T
  <2>1. ASSUME NEW s \in Seq(C), Len(s) = n + 1 PROVE s \in S
    <3>1. s # <<>> BY <2>1, EmptySeq
    <3>2. PICK t \in Seq(C), c \in C : s = Append(t, c) BY <3>1, SequenceEmptyOrAppend
    <3>3. Len(t) = n BY <2>1, <3>2
    <3>4. t \in S BY <1>2, <3>3
    <3> QED BY <3>2, <3>4
  <2> QED BY <2>1
<1> HIDE DEF T
<1>3. \A n \in Nat : n \in T BY <1>1, <1>2, EveryNatural
<1> QED BY <1>3 DEF T

(***************************************************************************)
(* Folds.                                                                  *)
(***************************************************************************)
\* f has the values of the fold of the beginnings of seq.
FoldsTo(f, step, start, seq) ==
  f = [i \in 0 .. Len(seq) |-> IF i = 0 THEN start ELSE step[f[i - 1]][seq[i]]]

LEMMA FoldExists ==
  ASSUME NEW C, NEW step, NEW start
  PROVE  \A seq \in Seq(C) : \E f : FoldsTo(f, step, start, seq)
<1> DEFINE S == {seq \in Seq(C) : \E f : FoldsTo(f, step, start, seq)}
<1>1. <<>> \in S
  <2>1. FoldsTo([i \in 0 .. 0 |-> start], step, start, <<>>) BY DEF FoldsTo
  <2> QED BY <2>1
<1>2. ASSUME NEW seq \in Seq(C), NEW c \in C, seq \in S PROVE Append(seq, c) \in S
  <2>1. PICK f : FoldsTo(f, step, start, seq) BY <1>2
  <2> DEFINE n == Len(seq)
             g == [i \in 0 .. n + 1 |-> IF i <= n THEN f[i] ELSE step[f[n]][c]]
             t == Append(seq, c)
  <2>2. n \in Nat /\ Len(t) = n + 1 /\ t \in Seq(C) OBVIOUS
  <2>3. \A i \in 1 .. n : t[i] = seq[i] OBVIOUS
  <2>4. t[n + 1] = c OBVIOUS
  <2> HIDE DEF t, n
  <2>5. f = [i \in 0 .. n |-> IF i = 0 THEN start ELSE step[f[i - 1]][seq[i]]]
    BY <2>1 DEF FoldsTo, n
  <2>6. \A i \in 0 .. n + 1 : g[i] = IF i = 0 THEN start ELSE step[g[i - 1]][t[i]]
    <3> TAKE i \in 0 .. n + 1
    <3>1. CASE i = 0 BY <3>1, <2>2, <2>5
    <3>2. CASE i \in 1 .. n
      <4>1. g[i] = f[i] /\ g[i - 1] = f[i - 1] BY <3>2, <2>2
      <4>2. f[i] = step[f[i - 1]][seq[i]] BY <3>2, <2>2, <2>5
      <4> QED BY <4>1, <4>2, <3>2, <2>3
    <3>3. CASE i = n + 1
      <4>1. g[i] = step[f[n]][c] /\ g[i - 1] = f[n] BY <3>3, <2>2
      <4> QED BY <4>1, <3>3, <2>4, <2>2
    <3> QED BY <3>1, <3>2, <3>3, <2>2
  <2>7. g = [i \in 0 .. n + 1 |-> g[i]] OBVIOUS
  <2> HIDE DEF g
  <2>8. FoldsTo(g, step, start, t) BY <2>2, <2>6, <2>7, Zenon DEF FoldsTo
  <2> QED BY <2>2, <2>8 DEF t
<1> HIDE DEF S
<1>3. \A seq \in Seq(C) : seq \in S BY <1>1, <1>2, EverySequence
<1> QED BY <1>3 DEF S

LEMMA FoldUnique ==
  ASSUME NEW C, NEW step, NEW start, NEW seq \in Seq(C),
         NEW f, FoldsTo(f, step, start, seq), NEW g, FoldsTo(g, step, start, seq)
  PROVE  f = g
<1> DEFINE S == {n \in Nat : n <= Len(seq) => f[n] = g[n]}
<1> Len(seq) \in Nat OBVIOUS
<1>1. f = [i \in 0 .. Len(seq) |-> IF i = 0 THEN start ELSE step[f[i - 1]][seq[i]]]
  BY DEF FoldsTo
<1>2. g = [i \in 0 .. Len(seq) |-> IF i = 0 THEN start ELSE step[g[i - 1]][seq[i]]]
  BY DEF FoldsTo
<1>3. \A i \in 0 .. Len(seq) : f[i] = IF i = 0 THEN start ELSE step[f[i - 1]][seq[i]]
  BY <1>1
<1>4. \A i \in 0 .. Len(seq) : g[i] = IF i = 0 THEN start ELSE step[g[i - 1]][seq[i]]
  BY <1>2
<1>5. 0 \in S BY <1>3, <1>4
<1>6. ASSUME NEW n \in Nat, n \in S PROVE n + 1 \in S
  <2>1. SUFFICES ASSUME n + 1 <= Len(seq) PROVE f[n + 1] = g[n + 1] OBVIOUS
  <2>2. n + 1 \in 0 .. Len(seq) /\ n + 1 # 0 /\ n + 1 - 1 = n BY <2>1
  <2>3. f[n] = g[n] BY <1>6, <2>1
  <2>4. f[n + 1] = step[f[n]][seq[n + 1]] BY <1>3, <2>2
  <2>5. g[n + 1] = step[g[n]][seq[n + 1]] BY <1>4, <2>2
  <2> QED BY <2>3, <2>4, <2>5
<1> HIDE DEF S
<1>7. \A n \in Nat : n \in S BY <1>5, <1>6, EveryNatural
<1>8. \A n \in 0 .. Len(seq) : f[n] = g[n] BY <1>7 DEF S
<1>9. f = [i \in 0 .. Len(seq) |-> f[i]] BY <1>1
<1>10. g = [i \in 0 .. Len(seq) |-> g[i]] BY <1>2
<1> QED BY <1>8, <1>9, <1>10

\* Folded is the last value of the fold.
LEMMA FoldedIs ==
  ASSUME NEW C, NEW step, NEW start, NEW seq \in Seq(C),
         NEW f, FoldsTo(f, step, start, seq)
  PROVE  Folded(step, start, seq) = f[Len(seq)]
<1> DEFINE h == CHOOSE g : FoldsTo(g, step, start, seq)
<1>1. FoldsTo(h, step, start, seq) OBVIOUS
<1>2. h = f BY <1>1, FoldUnique
<1>3. h = CHOOSE g :
            g = [i \in 0 .. Len(seq) |-> IF i = 0 THEN start ELSE step[g[i - 1]][seq[i]]]
  BY DEF FoldsTo
<1>4. Folded(step, start, seq) = h[Len(seq)] BY <1>3 DEF Folded
<1> QED BY <1>2, <1>4

\* What a fold does with no element and with one more.
LEMMA FoldedEmpty ==
  ASSUME NEW step, NEW start
  PROVE  Folded(step, start, <<>>) = start
<1>1. PICK none \in Seq(Nat) : none = <<>> BY EmptySeq, Zenon
<1>2. PICK f : FoldsTo(f, step, start, none) BY FoldExists
<1>3. Folded(step, start, none) = f[Len(none)] BY <1>2, FoldedIs
<1>4. f = [i \in 0 .. Len(none) |-> IF i = 0 THEN start ELSE step[f[i - 1]][none[i]]]
  BY <1>2 DEF FoldsTo
<1>5. Len(none) = 0 BY <1>1
<1>6. f[0] = start BY <1>4, <1>5
<1> QED BY <1>1, <1>3, <1>5, <1>6

LEMMA FoldedAppend ==
  ASSUME NEW C, NEW step, NEW start, NEW seq \in Seq(C), NEW c \in C
  PROVE  Folded(step, start, Append(seq, c)) = step[Folded(step, start, seq)][c]
<1> DEFINE t == Append(seq, c)
           n == Len(seq)
<1>1. n \in Nat /\ Len(t) = n + 1 /\ t \in Seq(C) OBVIOUS
<1>2. \A i \in 1 .. n : t[i] = seq[i] OBVIOUS
<1>3. t[n + 1] = c OBVIOUS
<1> HIDE DEF t
<1>4. PICK f : FoldsTo(f, step, start, t) BY <1>1, FoldExists
<1>5. f = [i \in 0 .. n + 1 |-> IF i = 0 THEN start ELSE step[f[i - 1]][t[i]]]
  BY <1>1, <1>4 DEF FoldsTo
<1>6. \A i \in 0 .. n + 1 : f[i] = IF i = 0 THEN start ELSE step[f[i - 1]][t[i]] BY <1>5
<1> DEFINE g == [i \in 0 .. n |-> f[i]]
<1>7. \A i \in 0 .. n : g[i] = IF i = 0 THEN start ELSE step[g[i - 1]][seq[i]]
  <2> TAKE i \in 0 .. n
  <2>1. CASE i = 0 BY <2>1, <1>1, <1>6
  <2>2. CASE i \in 1 .. n
    <3>1. i \in 0 .. n + 1 /\ i # 0 /\ i - 1 \in 0 .. n BY <2>2, <1>1
    <3>2. g[i] = f[i] /\ g[i - 1] = f[i - 1] BY <3>1
    <3>3. f[i] = step[f[i - 1]][t[i]] BY <3>1, <1>6
    <3> QED BY <3>1, <3>2, <3>3, <1>2, <2>2
  <2> QED BY <2>1, <2>2, <1>1
<1>8. g = [i \in 0 .. n |-> g[i]] OBVIOUS
<1>9. g[n] = f[n] BY <1>1
<1> HIDE DEF g
<1>10. FoldsTo(g, step, start, seq) BY <1>7, <1>8, Zenon DEF FoldsTo
<1>11. Folded(step, start, seq) = f[n] BY <1>9, <1>10, FoldedIs
<1>12. Folded(step, start, t) = f[n + 1] BY <1>1, <1>4, FoldedIs
<1>13. f[n + 1] = step[f[n]][c] BY <1>1, <1>3, <1>6
<1> QED BY <1>11, <1>12, <1>13 DEF t

\* A fold stays in a set that its steps do not leave.
LEMMA FoldedIn ==
  ASSUME NEW C, NEW A, NEW step, NEW start \in A,
         \A a \in A : \A c \in C : step[a][c] \in A
  PROVE  \A seq \in Seq(C) : Folded(step, start, seq) \in A
<1> DEFINE S == {seq \in Seq(C) : Folded(step, start, seq) \in A}
<1>1. <<>> \in S BY FoldedEmpty
<1>2. ASSUME NEW seq \in Seq(C), NEW c \in C, seq \in S PROVE Append(seq, c) \in S
  <2>1. Folded(step, start, Append(seq, c)) = step[Folded(step, start, seq)][c]
    BY FoldedAppend
  <2> QED BY <2>1, <1>2
<1> HIDE DEF S
<1>3. \A seq \in Seq(C) : seq \in S BY <1>1, <1>2, EverySequence
<1> QED BY <1>3 DEF S

\* An element more at the end of two sequences in one.
LEMMA ConcatAppend ==
  ASSUME NEW C, NEW s \in Seq(C), NEW t \in Seq(C), NEW c \in C
  PROVE  s \o Append(t, c) = Append(s \o t, c)
OBVIOUS

\* A fold goes on where it was left.
LEMMA FoldedConcat ==
  ASSUME NEW C, NEW step, NEW start, NEW s \in Seq(C)
  PROVE  \A t \in Seq(C) :
           Folded(step, start, s \o t) = Folded(step, Folded(step, start, s), t)
<1> DEFINE mid == Folded(step, start, s)
           S == {t \in Seq(C) : Folded(step, start, s \o t) = Folded(step, mid, t)}
<1>1. <<>> \in S
  <2>1. s \o <<>> = s OBVIOUS
  <2>2. Folded(step, mid, <<>>) = mid BY FoldedEmpty
  <2> QED BY <2>1, <2>2
<1> HIDE DEF mid
<1>2. ASSUME NEW t \in Seq(C), NEW c \in C, t \in S PROVE Append(t, c) \in S
  <2>1. PICK u \in Seq(C) : u = s \o t BY ConcatProperties, Zenon
  <2>2. Folded(step, start, Append(u, c)) = step[Folded(step, start, u)][c]
    BY FoldedAppend
  <2>3. Folded(step, mid, Append(t, c)) = step[Folded(step, mid, t)][c] BY FoldedAppend
  <2>4. s \o Append(t, c) = Append(u, c) /\ Append(t, c) \in Seq(C) BY <2>1
  <2> QED BY <2>1, <2>2, <2>3, <2>4, <1>2, Zenon
<1> HIDE DEF S
<1>3. \A t \in Seq(C) : t \in S BY <1>1, <1>2, EverySequence
<1> QED BY <1>3 DEF S, mid

(***************************************************************************)
(* Sequences one after the other.                                          *)
(***************************************************************************)
LEMMA JoinedEmpty == \A S : Joined(S, <<>>) = <<>>
BY FoldedEmpty DEF Joined

LEMMA JoinedType ==
  ASSUME NEW S
  PROVE  \A seqs \in Seq(Seq(S)) : Joined(S, seqs) \in Seq(S)
<1> DEFINE step == [all \in Seq(S) |-> [seq \in Seq(S) |-> all \o seq]]
<1>1. \A all \in Seq(S) : \A seq \in Seq(S) : step[all][seq] \in Seq(S)
  OBVIOUS
<1>2. <<>> \in Seq(S)
  OBVIOUS
<1> HIDE DEF step
<1>3. \A seqs \in Seq(Seq(S)) : Folded(step, <<>>, seqs) \in Seq(S)
  BY <1>1, <1>2, FoldedIn
<1> QED BY <1>3 DEF Joined, step

LEMMA JoinedAppend ==
  ASSUME NEW S, NEW seqs \in Seq(Seq(S)), NEW seq \in Seq(S)
  PROVE  Joined(S, Append(seqs, seq)) = Joined(S, seqs) \o seq
<1> DEFINE step == [all \in Seq(S) |-> [t \in Seq(S) |-> all \o t]]
<1>1. \A all \in Seq(S) : step[all][seq] = all \o seq
  OBVIOUS
<1> HIDE DEF step
<1>2. Folded(step, <<>>, Append(seqs, seq)) = step[Folded(step, <<>>, seqs)][seq]
  BY FoldedAppend
<1>3. Joined(S, seqs) = Folded(step, <<>>, seqs)
      /\ Joined(S, Append(seqs, seq)) = Folded(step, <<>>, Append(seqs, seq))
  BY DEF Joined, step
<1>4. Joined(S, seqs) \in Seq(S)
  BY JoinedType
<1> QED BY <1>1, <1>2, <1>3, <1>4

LEMMA JoinedConcat ==
  ASSUME NEW S, NEW s \in Seq(Seq(S))
  PROVE  \A t \in Seq(Seq(S)) : Joined(S, s \o t) = Joined(S, s) \o Joined(S, t)
<1> DEFINE G == {t \in Seq(Seq(S)) : Joined(S, s \o t) = Joined(S, s) \o Joined(S, t)}
<1>1. <<>> \in G
  <2>1. s \o <<>> = s /\ Joined(S, s) \in Seq(S)
    BY JoinedType
  <2>2. Joined(S, s) \o <<>> = Joined(S, s)
    BY <2>1
  <2> QED BY <2>1, <2>2, JoinedEmpty
<1>2. ASSUME NEW t \in Seq(Seq(S)), NEW seq \in Seq(S), t \in G PROVE Append(t, seq) \in G
  <2>1. PICK u \in Seq(Seq(S)) : u = s \o t
    BY ConcatProperties, Zenon
  <2>2. PICK a \in Seq(S), b \in Seq(S) : a = Joined(S, s) /\ b = Joined(S, t)
    BY JoinedType
  <2>3. Joined(S, u) = a \o b
    BY <1>2, <2>1, <2>2
  <2>4. Joined(S, Append(u, seq)) = (a \o b) \o seq
    BY <2>3, JoinedAppend
  <2>5. Joined(S, Append(t, seq)) = b \o seq
    BY <2>2, JoinedAppend
  <2>6. (a \o b) \o seq = a \o (b \o seq)
    BY ConcatAssociative, SMTT(30)
  <2>7. s \o Append(t, seq) = Append(u, seq) /\ Append(t, seq) \in Seq(Seq(S))
    BY <2>1, ConcatAppend, SMTT(30)
  <2> QED BY <2>2, <2>4, <2>5, <2>6, <2>7, Zenon
<1> HIDE DEF G
<1>3. \A t \in Seq(Seq(S)) : t \in G
  BY <1>1, <1>2, EverySequence
<1> QED BY <1>3 DEF G

\* Of sequences of one element.
LEMMA JoinedSingles ==
  ASSUME NEW S
  PROVE  \A s \in Seq(S) : Joined(S, [i \in 1 .. Len(s) |-> <<s[i]>>]) = s
<1> DEFINE Singles(s) == [i \in 1 .. Len(s) |-> <<s[i]>>]
           G == {s \in Seq(S) : Joined(S, Singles(s)) = s}
<1>1. <<>> \in G
  <2>1. Singles(<<>>) = <<>>
    OBVIOUS
  <2> QED BY <2>1, JoinedEmpty
<1>2. ASSUME NEW s \in Seq(S), NEW x \in S, s \in G PROVE Append(s, x) \in G
  <2>1. Singles(s) \in Seq(Seq(S)) /\ <<x>> \in Seq(S)
    OBVIOUS
  <2>2. Singles(Append(s, x)) = Append(Singles(s), <<x>>)
    OBVIOUS
  <2>3. Joined(S, Append(Singles(s), <<x>>)) = Joined(S, Singles(s)) \o <<x>>
    BY <2>1, JoinedAppend
  <2>4. Append(s, x) = s \o <<x>> /\ Append(s, x) \in Seq(S)
    OBVIOUS
  <2> QED BY <1>2, <2>2, <2>3, <2>4
<1> HIDE DEF G
<1>3. \A s \in Seq(S) : s \in G
  BY <1>1, <1>2, EverySequence
<1> QED BY <1>3 DEF G

\* Of one sequence, and of sequences joined before.
LEMMA JoinedOne ==
  ASSUME NEW S, NEW seq \in Seq(S)
  PROVE  <<seq>> \in Seq(Seq(S)) /\ Joined(S, <<seq>>) = seq
<1>1. PICK none \in Seq(Seq(S)) : none = <<>>
  BY EmptySeq, Zenon
<1>2. Append(none, seq) = <<seq>>
  BY <1>1
<1>3. Joined(S, none) = <<>>
  BY <1>1, JoinedEmpty
<1>4. Joined(S, Append(none, seq)) = <<>> \o seq
  BY <1>3, JoinedAppend
<1>5. <<>> \o seq = seq
  OBVIOUS
<1> QED BY <1>2, <1>4, <1>5

LEMMA JoinedJoined ==
  ASSUME NEW S
  PROVE  \A seqs \in Seq(Seq(Seq(S))) :
           Joined(S, Joined(Seq(S), seqs)) = Joined(S, [i \in 1 .. Len(seqs) |-> Joined(S, seqs[i])])
<1> DEFINE Each(seqs) == [i \in 1 .. Len(seqs) |-> Joined(S, seqs[i])]
           G == {seqs \in Seq(Seq(Seq(S))) :
                   Joined(S, Joined(Seq(S), seqs)) = Joined(S, Each(seqs))}
<1>1. <<>> \in G
  <2>1. PICK none \in Seq(Seq(Seq(S))) : none = <<>> /\ Len(none) = 0
    BY EmptySeq, Zenon
  <2>2. Each(none) = <<>>
    BY <2>1
  <2>3. Joined(Seq(S), none) = <<>>
    BY <2>1, JoinedEmpty
  <2> QED BY <2>1, <2>2, <2>3
<1>2. ASSUME NEW seqs \in Seq(Seq(Seq(S))), NEW x \in Seq(Seq(S)), seqs \in G
      PROVE  Append(seqs, x) \in G
  <2>1. \A i \in 1 .. Len(seqs) : Joined(S, seqs[i]) \in Seq(S)
    <3>1. \A i \in 1 .. Len(seqs) : seqs[i] \in Seq(Seq(S))
      OBVIOUS
    <3> QED BY <3>1, JoinedType
  <2>2. PICK all \in Seq(Seq(S)), each \in Seq(Seq(S)), y \in Seq(S) :
          all = Joined(Seq(S), seqs) /\ each = Each(seqs) /\ y = Joined(S, x)
    <3>1. Joined(Seq(S), seqs) \in Seq(Seq(S)) /\ Joined(S, x) \in Seq(S)
      BY JoinedType
    <3>2. Each(seqs) \in Seq(Seq(S))
      <4>1. Len(seqs) \in Nat
        OBVIOUS
      <4> QED BY <2>1, <4>1
    <3> QED BY <3>1, <3>2
  <2>3. Joined(S, all) = Joined(S, each)
    BY <1>2, <2>2
  <2>4. Joined(Seq(S), Append(seqs, x)) = all \o x
    BY <2>2, JoinedAppend
  <2>5. Joined(S, all \o x) = Joined(S, all) \o y
    BY <2>2, JoinedConcat
  <2>6. Each(Append(seqs, x)) = Append(each, y)
    <3>1. /\ Len(Append(seqs, x)) = Len(seqs) + 1 /\ Len(seqs) \in Nat
          /\ Append(seqs, x)[Len(seqs) + 1] = x
          /\ \A i \in 1 .. Len(seqs) : Append(seqs, x)[i] = seqs[i]
      OBVIOUS
    <3>2. Len(each) = Len(seqs) /\ \A i \in 1 .. Len(seqs) : each[i] = Joined(S, seqs[i])
      BY <2>2
    <3>3. /\ Append(each, y) = [i \in 1 .. Len(seqs) + 1 |-> Append(each, y)[i]]
          /\ Append(each, y)[Len(seqs) + 1] = y
          /\ \A i \in 1 .. Len(seqs) : Append(each, y)[i] = each[i]
      <4>1. /\ Append(each, y) \in Seq(Seq(S)) /\ Len(Append(each, y)) = Len(each) + 1
            /\ Append(each, y)[Len(each) + 1] = y
            /\ \A i \in 1 .. Len(each) : Append(each, y)[i] = each[i]
        BY ONLY each \in Seq(Seq(S)), y \in Seq(S), AppendProperties
      <4>2. \A z \in Seq(Seq(S)) : z = [i \in 1 .. Len(z) |-> z[i]]
        OBVIOUS
      <4>3. Append(each, y) = [i \in 1 .. Len(each) + 1 |-> Append(each, y)[i]]
        BY <4>1, <4>2
      <4> QED BY <3>2, <4>1, <4>3
    <3>4. ASSUME NEW i \in 1 .. Len(seqs) + 1
          PROVE  Joined(S, Append(seqs, x)[i]) = Append(each, y)[i]
      <4>1. i \in 1 .. Len(seqs) \/ i = Len(seqs) + 1
        BY <3>1
      <4> QED BY <2>2, <3>1, <3>2, <3>3, <4>1
    <3> QED BY <3>1, <3>3, <3>4
  <2>7. Joined(S, Append(each, y)) = Joined(S, each) \o y
    BY JoinedAppend
  <2>8. Append(seqs, x) \in Seq(Seq(Seq(S)))
    OBVIOUS
  <2> HIDE DEF Each
  <2> QED BY <2>3, <2>4, <2>5, <2>6, <2>7, <2>8
<1> HIDE DEF G
<1>3. \A seqs \in Seq(Seq(Seq(S))) : seqs \in G
  BY <1>1, <1>2, EverySequence
<1> QED BY <1>3 DEF G

\* Sequences, all but the last of one element, and all of their elements.
LastSpreads(seqs, n) == Len(seqs) = n /\ \A i \in 1 .. n - 1 : Len(seqs[i]) = 1

SpreadOf(all, seqs, n) ==
  /\ Len(all) = n - 1 + Len(seqs[n])
  /\ \A i \in 1 .. n - 1 : all[i] = seqs[i][1]
  /\ \A j \in 1 .. Len(seqs[n]) : all[n - 1 + j] = seqs[n][j]

LEMMA JoinedSpread ==
  ASSUME NEW S, NEW n \in Nat \ {0}, NEW seqs \in Seq(Seq(S)), LastSpreads(seqs, n)
  PROVE  Joined(S, seqs) \in Seq(S) /\ SpreadOf(Joined(S, seqs), seqs, n)
<1>0. Len(seqs) = n /\ \A i \in 1 .. n - 1 : Len(seqs[i]) = 1
  BY DEF LastSpreads
<1> USE <1>0
<1> DEFINE front == [i \in 1 .. n - 1 |-> seqs[i][1]]
           singles == [i \in 1 .. n - 1 |-> <<front[i]>>]
           last == seqs[n]
<1>1. \A i \in 1 .. n : seqs[i] \in Seq(S)
  OBVIOUS
<1>2. \A i \in 1 .. n - 1 : seqs[i][1] \in S /\ seqs[i] = <<seqs[i][1]>>
  BY <1>1
<1>3. front \in Seq(S) /\ Len(front) = n - 1
  BY <1>2
<1>4. last \in Seq(S)
  BY <1>1
<1>5. singles \in Seq(Seq(S)) /\ Len(singles) = n - 1
  BY <1>2
<1>6. seqs = Append(singles, last)
  <2>1. Append(singles, last) \in Seq(Seq(S)) /\ Len(Append(singles, last)) = n
    BY <1>4, <1>5
  <2>2. \A i \in 1 .. n : seqs[i] = Append(singles, last)[i]
    BY <1>2, <1>5
  <2> QED BY <2>1, <2>2, SeqEqual
<1>7. Joined(S, singles) = front
  BY <1>3, JoinedSingles
<1> HIDE DEF front, singles, last
<1>8. Joined(S, seqs) = front \o last
  BY <1>4, <1>5, <1>6, <1>7, JoinedAppend
<1>9. /\ front \o last \in Seq(S)
      /\ Len(front \o last) = n - 1 + Len(last)
      /\ \A i \in 1 .. n - 1 : (front \o last)[i] = front[i]
      /\ \A j \in 1 .. Len(last) : (front \o last)[n - 1 + j] = last[j]
  <2>1. /\ front \o last \in Seq(S)
        /\ Len(front \o last) = Len(front) + Len(last)
        /\ \A i \in 1 .. Len(front) : (front \o last)[i] = front[i]
        /\ \A j \in 1 .. Len(last) : (front \o last)[Len(front) + j] = last[j]
    <3>1. front \in Seq(S) /\ last \in Seq(S)
      BY <1>3, <1>4
    <3> QED BY <3>1
  <2>2. Len(front) = n - 1
    BY <1>3
  <2> QED BY <2>1, <2>2, Zenon
<1>10. \A i \in 1 .. n - 1 : front[i] = seqs[i][1]
  BY DEF front
<1> QED BY <1>8, <1>9, <1>10, ZenonT(30) DEF last, SpreadOf

\* Cut in two.
CutAt(S, s, k) ==
  \E a, b \in Seq(S) : a = SubSeq(s, 1, k) /\ b = SubSeq(s, k + 1, Len(s)) /\ s = a \o b

LEMMA CutInTwo ==
  ASSUME NEW S, NEW s \in Seq(S), NEW k \in 0 .. Len(s)
  PROVE  CutAt(S, s, k)
<1>1. Len(s) \in Nat /\ \A i \in 1 .. Len(s) : s[i] \in S
  OBVIOUS
<1>2. PICK a \in Seq(S) : /\ a = SubSeq(s, 1, k) /\ Len(a) = k
                          /\ \A i \in 1 .. k : a[i] = s[i]
  <2>1. \A i \in 1 .. k : s[i] \in S
    BY <1>1
  <2>2. /\ SubSeq(s, 1, k) \in Seq(S)
        /\ Len(SubSeq(s, 1, k)) = IF 1 <= k THEN k - 1 + 1 ELSE 0
        /\ \A i \in 1 .. k - 1 + 1 : SubSeq(s, 1, k)[i] = s[1 + i - 1]
    BY <1>1, <2>1, SubSeqProperties
  <2>3. Len(SubSeq(s, 1, k)) = k
    BY <1>1, <2>2
  <2>4. \A i \in 1 .. k : SubSeq(s, 1, k)[i] = s[i]
    <3> TAKE i \in 1 .. k
    <3>1. i \in 1 .. k - 1 + 1 /\ 1 + i - 1 = i
      BY <1>1
    <3> QED BY <2>2, <3>1
  <2> QED BY <2>2, <2>3, <2>4
<1>3. PICK b \in Seq(S) : /\ b = SubSeq(s, k + 1, Len(s)) /\ Len(b) = Len(s) - k
                          /\ \A i \in 1 .. Len(s) - k : b[i] = s[k + i]
  <2>1. \A i \in k + 1 .. Len(s) : s[i] \in S
    BY <1>1
  <2>2. /\ SubSeq(s, k + 1, Len(s)) \in Seq(S)
        /\ Len(SubSeq(s, k + 1, Len(s)))
             = IF k + 1 <= Len(s) THEN Len(s) - (k + 1) + 1 ELSE 0
        /\ \A i \in 1 .. Len(s) - (k + 1) + 1 : SubSeq(s, k + 1, Len(s))[i] = s[(k + 1) + i - 1]
    BY <1>1, <2>1, SubSeqProperties
  <2>3. Len(SubSeq(s, k + 1, Len(s))) = Len(s) - k
    BY <1>1, <2>2
  <2>4. \A i \in 1 .. Len(s) - k : SubSeq(s, k + 1, Len(s))[i] = s[k + i]
    <3> TAKE i \in 1 .. Len(s) - k
    <3>1. i \in 1 .. Len(s) - (k + 1) + 1 /\ (k + 1) + i - 1 = k + i
      BY <1>1
    <3> QED BY <2>2, <3>1
  <2> QED BY <2>2, <2>3, <2>4
<1>4. /\ a \o b \in Seq(S) /\ Len(a \o b) = Len(s)
      /\ \A i \in 1 .. Len(s) : (a \o b)[i] = IF i <= k THEN a[i] ELSE b[i - k]
  <2>1. /\ a \o b \in Seq(S) /\ Len(a \o b) = Len(a) + Len(b)
        /\ \A i \in 1 .. Len(a) + Len(b) :
             (a \o b)[i] = IF i <= Len(a) THEN a[i] ELSE b[i - Len(a)]
    BY ConcatProperties
  <2>2. Len(a) + Len(b) = Len(s)
    <3>1. k + (Len(s) - k) = Len(s)
      BY <1>1
    <3> QED BY <1>2, <1>3, <3>1
  <2> QED BY <1>2, <2>1, <2>2
<1>5. \A i \in 1 .. Len(s) : s[i] = (a \o b)[i]
  <2> TAKE i \in 1 .. Len(s)
  <2>1. CASE i <= k
    <3>1. i \in 1 .. k
      BY <2>1
    <3> QED BY <1>2, <1>4, <2>1, <3>1
  <2>2. CASE ~(i <= k)
    <3>1. i - k \in 1 .. Len(s) - k /\ k + (i - k) = i
      BY <1>1, <2>2
    <3> QED BY <1>3, <1>4, <2>2, <3>1
  <2> QED BY <2>1, <2>2
<1>6. s = a \o b
  BY <1>4, <1>5, SeqEqual
<1> QED BY <1>2, <1>3, <1>6 DEF CutAt
=============================================================================
