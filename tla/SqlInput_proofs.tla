-------------------------- MODULE SqlInput_proofs --------------------------
(***************************************************************************)
(* The history of edits of a SQL tab, two stacks of snapshots of which one *)
(* is cut, implements the line of versions of EditHistory, for all texts   *)
(* and every limit (internal/sqltab/editor.go).  Every variable keeps its  *)
(* type, and keys act on what is shown.                                    *)
(***************************************************************************)
EXTENDS SqlInput, TLAPS, SequenceTheorems

(***************************************************************************)
(* Texts.                                                                  *)
(***************************************************************************)
\* A text is a sequence of characters of bounded length.
LEMMA TextIsSequence ==
  ASSUME NEW t
  PROVE  t \in Texts <=> t \in Seq(Characters) /\ Len(t) <= MaxLength
  <1>1. ASSUME t \in Texts PROVE t \in Seq(Characters) /\ Len(t) <= MaxLength
    <2>1. PICK n \in 0..MaxLength : t \in [1..n -> Characters]
      BY <1>1 DEF Texts
    <2>2. n \in Nat /\ n <= MaxLength
      BY <2>1, ConstantsAssumption DEF ConstantsAssumption
    <2>3. QED
      BY <2>1, <2>2
  <1>2. ASSUME t \in Seq(Characters), Len(t) <= MaxLength PROVE t \in Texts
    <2>1. t \in [1..Len(t) -> Characters] /\ Len(t) \in 0..MaxLength
      BY <1>2, LenProperties, ConstantsAssumption DEF ConstantsAssumption
    <2>2. QED
      BY <2>1 DEF Texts
  <1>3. QED
    BY <1>1, <1>2

\* A part of a text is a sequence of characters.
LEMMA PartOfText ==
  ASSUME NEW t \in Texts, NEW i \in Nat \ {0}, NEW j \in 0..Len(t)
  PROVE  /\ SubSeq(t, i, j) \in Seq(Characters)
         /\ Len(SubSeq(t, i, j)) = IF i <= j THEN j - i + 1 ELSE 0
  <1>1. t \in Seq(Characters) /\ Len(t) \in Nat
    BY TextIsSequence, LenProperties
  <1>2. \A k \in i..j : t[k] \in Characters
    BY <1>1, ElementOfSeq
  <1>3. i \in Int /\ j \in Int
    BY <1>1
  <1>4. QED
    BY <1>2, <1>3, SubSeqProperties

\* What a text becomes when the part between two positions is replaced.
LEMMA ReplacedText ==
  ASSUME NEW t \in Texts, NEW i \in 0..Len(t), NEW j \in i..Len(t),
         NEW insert \in Seq(Characters)
  PROVE  /\ SubSeq(t, 1, i) \o insert \o SubSeq(t, j + 1, Len(t)) \in Seq(Characters)
         /\ Len(SubSeq(t, 1, i) \o insert \o SubSeq(t, j + 1, Len(t)))
              = i + Len(insert) + (Len(t) - j)
         /\ Len(t) \in Nat /\ Len(insert) \in Nat
  <1>0. Len(t) \in Nat /\ Len(insert) \in Nat /\ i \in Nat /\ j \in Nat
    BY TextIsSequence, LenProperties
  <1>1. /\ SubSeq(t, 1, i) \in Seq(Characters)
        /\ Len(SubSeq(t, 1, i)) = i
    BY <1>0, PartOfText
  <1>2. /\ SubSeq(t, j + 1, Len(t)) \in Seq(Characters)
        /\ Len(SubSeq(t, j + 1, Len(t))) = Len(t) - j
    <2>1. j + 1 \in Nat \ {0} /\ Len(t) \in 0..Len(t) /\ j <= Len(t)
      BY <1>0
    <2>2. /\ SubSeq(t, j + 1, Len(t)) \in Seq(Characters)
          /\ Len(SubSeq(t, j + 1, Len(t)))
               = IF j + 1 <= Len(t) THEN Len(t) - (j + 1) + 1 ELSE 0
      BY <2>1, PartOfText
    <2>3. QED
      BY <1>0, <2>1, <2>2
  <1>3. /\ SubSeq(t, 1, i) \o insert \in Seq(Characters)
        /\ Len(SubSeq(t, 1, i) \o insert) = i + Len(insert)
    BY <1>1, ConcatProperties
  <1>4. /\ (SubSeq(t, 1, i) \o insert) \o SubSeq(t, j + 1, Len(t)) \in Seq(Characters)
        /\ Len((SubSeq(t, 1, i) \o insert) \o SubSeq(t, j + 1, Len(t)))
             = Len(SubSeq(t, 1, i) \o insert) + Len(SubSeq(t, j + 1, Len(t)))
    BY <1>2, <1>3, ConcatProperties
  <1>5. QED
    BY <1>0, <1>2, <1>3, <1>4

(***************************************************************************)
(* Lines of versions.                                                      *)
(***************************************************************************)
\* The line of versions that two stacks and the text between them stand for.
Line(u, t, r) ==
  [i \in 1..(Len(u) + 1 + Len(r)) |->
     IF i <= Len(u) THEN u[i].value
     ELSE IF i = Len(u) + 1 THEN t
     ELSE r[Len(u) + 2 + Len(r) - i].value]

\* A line is a sequence of texts.
LEMMA LineType ==
  ASSUME NEW u \in Seq(Snapshots), NEW t \in Texts, NEW r \in Seq(Snapshots)
  PROVE  /\ Line(u, t, r) \in Seq(Texts)
         /\ Len(Line(u, t, r)) = Len(u) + 1 + Len(r)
  <1>1. Len(u) \in Nat /\ Len(r) \in Nat
    BY LenProperties
  <1>2. ASSUME NEW i \in 1..(Len(u) + 1 + Len(r))
        PROVE  (IF i <= Len(u) THEN u[i].value
                ELSE IF i = Len(u) + 1 THEN t
                ELSE r[Len(u) + 2 + Len(r) - i].value) \in Texts
    <2>1. CASE i <= Len(u)
      <3>1. u[i] \in Snapshots
        BY <1>1, <2>1, ElementOfSeq
      <3>2. QED
        BY <2>1, <3>1 DEF Snapshots
    <2>2. CASE i = Len(u) + 1
      BY <1>1, <2>2
    <2>3. CASE i > Len(u) + 1
      <3>1. Len(u) + 2 + Len(r) - i \in 1..Len(r)
        BY <1>1, <2>3
      <3>2. r[Len(u) + 2 + Len(r) - i] \in Snapshots
        BY <3>1, ElementOfSeq
      <3>3. QED
        BY <1>1, <2>3, <3>2 DEF Snapshots
    <2>4. QED
      BY <1>1, <2>1, <2>2, <2>3
  <1>3. Line(u, t, r) \in [1..(Len(u) + 1 + Len(r)) -> Texts]
    BY <1>2 DEF Line
  <1>4. Line(u, t, r) \in Seq(Texts) /\ Len(Line(u, t, r)) = Len(u) + 1 + Len(r)
    BY <1>1, <1>3
  <1>5. QED
    BY <1>4

\* Taking the newest snapshot from a stack, and putting it back.
LEMMA Popped ==
  ASSUME NEW u \in Seq(Snapshots), u # <<>>
  PROVE  /\ Len(u) \in Nat \ {0} /\ u[Len(u)] \in Snapshots
         /\ SubSeq(u, 1, Len(u) - 1) \in Seq(Snapshots)
         /\ Len(SubSeq(u, 1, Len(u) - 1)) = Len(u) - 1
         /\ \A i \in 1..(Len(u) - 1) : SubSeq(u, 1, Len(u) - 1)[i] = u[i]
         /\ Append(SubSeq(u, 1, Len(u) - 1), u[Len(u)]) = u
  <1> DEFINE u2 == SubSeq(u, 1, Len(u) - 1)
             e == u[Len(u)]
  <1>1. Len(u) \in Nat \ {0}
    BY EmptySeq, LenProperties
  <1>2. e \in Snapshots
    BY <1>1, ElementOfSeq
  <1>3. \A i \in 1..(Len(u) - 1) : u[i] \in Snapshots
    BY <1>1, ElementOfSeq
  <1>4. 1 \in Int /\ Len(u) - 1 \in Int
    BY <1>1
  <1>5. /\ u2 \in Seq(Snapshots)
        /\ Len(u2) = IF 1 <= Len(u) - 1 THEN Len(u) - 1 - 1 + 1 ELSE 0
        /\ \A i \in 1..(Len(u) - 1 - 1 + 1) : u2[i] = u[1 + i - 1]
    BY <1>3, <1>4, SubSeqProperties
  <1> HIDE DEF u2, e
  <1>6. Len(u2) = Len(u) - 1
    <2>1. Len(u2) = IF 1 <= Len(u) - 1 THEN Len(u) - 1 - 1 + 1 ELSE 0
      BY <1>5
    <2>2. \A n \in Nat \ {0} : (IF 1 <= n - 1 THEN n - 1 - 1 + 1 ELSE 0) = n - 1
      OBVIOUS
    <2>3. QED
      BY <1>1, <2>1, <2>2
  <1>7. ASSUME NEW i \in 1..(Len(u) - 1) PROVE u2[i] = u[i]
    <2>1. i \in 1..(Len(u) - 1 - 1 + 1) /\ 1 + i - 1 = i
      BY <1>1
    <2>2. QED
      BY <1>5, <2>1
  <1>8. /\ Append(u2, e) \in Seq(Snapshots)
        /\ Len(Append(u2, e)) = Len(u2) + 1
        /\ \A i \in 1..Len(u2) : Append(u2, e)[i] = u2[i]
        /\ Append(u2, e)[Len(u2) + 1] = e
    BY <1>2, <1>5, AppendProperties
  <1>9. ASSUME NEW i \in 1..Len(Append(u2, e)) PROVE Append(u2, e)[i] = u[i]
    <2>1. CASE i = Len(u)
      BY <1>1, <1>6, <1>8, <2>1 DEF e
    <2>2. CASE i # Len(u)
      BY <1>1, <1>6, <1>7, <1>8, <2>2
    <2>3. QED
      BY <2>1, <2>2
  <1>10. Append(u2, e) = u
    BY <1>1, <1>6, <1>8, <1>9, SeqEqual
  <1>11. QED
    BY <1>1, <1>2, <1>5, <1>6, <1>7, <1>10 DEF u2, e

\* Adding a snapshot to a stack, and taking it back.
LEMMA Pushed ==
  ASSUME NEW u \in Seq(Snapshots), NEW e \in Snapshots
  PROVE  /\ Append(u, e) \in Seq(Snapshots) /\ Append(u, e) # <<>>
         /\ Len(Append(u, e)) = Len(u) + 1
         /\ Append(u, e)[Len(u) + 1] = e
         /\ \A i \in 1..Len(u) : Append(u, e)[i] = u[i]
         /\ SubSeq(Append(u, e), 1, Len(u)) = u
  <1> DEFINE v == Append(u, e)
  <1>1. /\ v \in Seq(Snapshots) /\ v # <<>> /\ Len(v) = Len(u) + 1
        /\ v[Len(u) + 1] = e /\ \A i \in 1..Len(u) : v[i] = u[i]
    BY AppendProperties
  <1>2. Len(u) \in Nat
    BY LenProperties
  <1> HIDE DEF v
  <1>3. /\ SubSeq(v, 1, Len(v) - 1) \in Seq(Snapshots)
        /\ Len(SubSeq(v, 1, Len(v) - 1)) = Len(v) - 1
        /\ \A i \in 1..(Len(v) - 1) : SubSeq(v, 1, Len(v) - 1)[i] = v[i]
    BY <1>1, Popped
  <1>4. Len(v) - 1 = Len(u)
    BY <1>1, <1>2
  <1>5. SubSeq(v, 1, Len(u)) = u
    BY <1>1, <1>3, <1>4, SeqEqual
  <1>6. QED
    BY <1>1, <1>5 DEF v

\* Undoing moves a snapshot across the text and leaves the line as it is.
LEMMA LineUndone ==
  ASSUME NEW u \in Seq(Snapshots), NEW r \in Seq(Snapshots),
         NEW snapshot \in Snapshots, u # <<>>
  PROVE  Line(SubSeq(u, 1, Len(u) - 1), u[Len(u)].value, Append(r, snapshot))
           = Line(u, snapshot.value, r)
  <1> DEFINE t == snapshot.value
             u2 == SubSeq(u, 1, Len(u) - 1)
             r2 == Append(r, snapshot)
             t2 == u[Len(u)].value
  <1>1. Len(u) \in Nat \ {0} /\ Len(r) \in Nat
    BY Popped, LenProperties
  <1>2. u[Len(u)] \in Snapshots /\ t2 \in Texts /\ t \in Texts
    <2>1. u[Len(u)] \in Snapshots
      BY Popped
    <2>2. QED
      BY <2>1 DEF Snapshots
  <1>3. /\ u2 \in Seq(Snapshots) /\ Len(u2) = Len(u) - 1
        /\ \A i \in 1..(Len(u) - 1) : u2[i] = u[i]
    BY Popped
  <1>4. /\ r2 \in Seq(Snapshots) /\ Len(r2) = Len(r) + 1
        /\ \A i \in 1..Len(r) : r2[i] = r[i]
        /\ r2[Len(r) + 1] = snapshot
    BY Pushed
  <1> HIDE DEF u2, r2, t2, t
  <1>5. /\ Line(u2, t2, r2) \in Seq(Texts) /\ Line(u, t, r) \in Seq(Texts)
        /\ Len(Line(u2, t2, r2)) = Len(Line(u, t, r))
        /\ Len(Line(u, t, r)) = Len(u) + 1 + Len(r)
    <2>1. /\ Line(u2, t2, r2) \in Seq(Texts)
          /\ Len(Line(u2, t2, r2)) = Len(u2) + 1 + Len(r2)
      BY <1>2, <1>3, <1>4, LineType
    <2>2. /\ Line(u, t, r) \in Seq(Texts)
          /\ Len(Line(u, t, r)) = Len(u) + 1 + Len(r)
      BY <1>2, LineType
    <2>3. QED
      BY <1>1, <1>3, <1>4, <2>1, <2>2
  <1>6. ASSUME NEW i \in 1..(Len(u) + 1 + Len(r))
        PROVE  Line(u2, t2, r2)[i] = Line(u, t, r)[i]
    <2>0. i \in 1..(Len(u2) + 1 + Len(r2))
      BY <1>1, <1>3, <1>4
    <2>1. Line(u2, t2, r2)[i] =
            IF i <= Len(u) - 1 THEN u2[i].value
            ELSE IF i = Len(u) THEN t2
            ELSE r2[Len(u) + 2 + Len(r) - i].value
      BY <1>1, <1>3, <1>4, <2>0 DEF Line
    <2>2. Line(u, t, r)[i] =
            IF i <= Len(u) THEN u[i].value
            ELSE IF i = Len(u) + 1 THEN t
            ELSE r[Len(u) + 2 + Len(r) - i].value
      BY DEF Line
    <2>3. CASE i < Len(u)
      BY <1>1, <1>3, <2>1, <2>2, <2>3
    <2>4. CASE i = Len(u)
      BY <1>1, <2>1, <2>2, <2>4 DEF t2
    <2>5. CASE i = Len(u) + 1
      <3>1. Len(u) + 2 + Len(r) - i = Len(r) + 1
        BY <1>1, <2>5
      <3>2. r2[Len(u) + 2 + Len(r) - i] = snapshot
        BY <1>4, <3>1
      <3>3. QED
        BY <1>1, <2>1, <2>2, <2>5, <3>2 DEF t
    <2>6. CASE i > Len(u) + 1
      <3>1. Len(u) + 2 + Len(r) - i \in 1..Len(r)
        BY <1>1, <2>6
      <3>2. r2[Len(u) + 2 + Len(r) - i] = r[Len(u) + 2 + Len(r) - i]
        BY <1>4, <3>1
      <3>3. ~(i <= Len(u) - 1) /\ i # Len(u) /\ ~(i <= Len(u)) /\ i # Len(u) + 1
        BY <1>1, <2>6
      <3>4. QED
        BY <2>1, <2>2, <3>2, <3>3
    <2>7. QED
      BY <1>1, <2>3, <2>4, <2>5, <2>6
  <1>7. Line(u2, t2, r2) = Line(u, t, r)
    BY <1>5, <1>6, SeqEqual
  <1>8. QED
    BY <1>7 DEF u2, r2, t2, t

\* Redoing is undoing backwards, and leaves the line as it is too.
LEMMA LineRedone ==
  ASSUME NEW u \in Seq(Snapshots), NEW r \in Seq(Snapshots),
         NEW snapshot \in Snapshots, r # <<>>
  PROVE  Line(Append(u, snapshot), r[Len(r)].value, SubSeq(r, 1, Len(r) - 1))
           = Line(u, snapshot.value, r)
  <1> DEFINE v == Append(u, snapshot)
             e == r[Len(r)]
             s == SubSeq(r, 1, Len(r) - 1)
  <1>1. /\ v \in Seq(Snapshots) /\ v # <<>> /\ Len(v) = Len(u) + 1
        /\ v[Len(u) + 1] = snapshot /\ SubSeq(v, 1, Len(u)) = u
    BY Pushed
  <1>2. e \in Snapshots /\ s \in Seq(Snapshots) /\ Append(s, e) = r
    BY Popped
  <1> HIDE DEF v, e, s
  <1>3. Line(SubSeq(v, 1, Len(v) - 1), v[Len(v)].value, Append(s, e))
          = Line(v, e.value, s)
    BY <1>1, <1>2, LineUndone
  <1>4. Len(v) - 1 = Len(u) /\ Len(v) = Len(u) + 1
    BY <1>1, LenProperties
  <1>5. Line(u, snapshot.value, r) = Line(v, e.value, s)
    BY <1>1, <1>2, <1>3, <1>4
  <1>6. QED
    BY <1>5 DEF v, e, s

\* A stack or line without its oldest element.
LEMMA OldestDropped ==
  ASSUME NEW S, NEW s \in Seq(S), s # <<>>
  PROVE  /\ Len(s) \in Nat \ {0}
         /\ SubSeq(s, 2, Len(s)) \in Seq(S)
         /\ Len(SubSeq(s, 2, Len(s))) = Len(s) - 1
         /\ \A i \in 1..(Len(s) - 1) : SubSeq(s, 2, Len(s))[i] = s[i + 1]
  <1> DEFINE n == Len(s)
             rest == SubSeq(s, 2, n)
  <1>1. n \in Nat \ {0}
    BY EmptySeq, LenProperties
  <1>2. \A i \in 2..n : s[i] \in S
    BY <1>1, ElementOfSeq
  <1>3. 2 \in Int /\ n \in Int
    BY <1>1
  <1>4. /\ rest \in Seq(S)
        /\ Len(rest) = IF 2 <= n THEN n - 2 + 1 ELSE 0
        /\ \A i \in 1..(n - 2 + 1) : rest[i] = s[2 + i - 1]
    BY <1>2, <1>3, SubSeqProperties
  <1> HIDE DEF rest, n
  <1>5. Len(rest) = n - 1
    <2>1. Len(rest) = IF 2 <= n THEN n - 2 + 1 ELSE 0
      BY <1>4
    <2>2. QED
      BY <1>1, <2>1
  <1>6. ASSUME NEW i \in 1..(n - 1) PROVE rest[i] = s[i + 1]
    <2>1. i \in 1..(n - 2 + 1) /\ 2 + i - 1 = i + 1
      BY <1>1
    <2>2. QED
      BY <1>4, <2>1
  <1>7. QED
    BY <1>1, <1>4, <1>5, <1>6 DEF rest, n

\* The line of a stack and a text after which nothing comes.
LEMMA LastLine ==
  ASSUME NEW w \in Seq(Snapshots), NEW v \in Texts
  PROVE  /\ Line(w, v, <<>>) \in Seq(Texts)
         /\ Len(Line(w, v, <<>>)) = Len(w) + 1 /\ Len(w) \in Nat
         /\ \A i \in 1..Len(w) : Line(w, v, <<>>)[i] = w[i].value
         /\ Line(w, v, <<>>)[Len(w) + 1] = v
  <1>1. <<>> \in Seq(Snapshots) /\ Len(<<>>) = 0 /\ Len(w) \in Nat
    BY EmptySeq, LenProperties
  <1>2. Line(w, v, <<>>) \in Seq(Texts) /\ Len(Line(w, v, <<>>)) = Len(w) + 1
    <2>1. /\ Line(w, v, <<>>) \in Seq(Texts)
          /\ Len(Line(w, v, <<>>)) = Len(w) + 1 + Len(<<>>)
      BY <1>1, LineType
    <2>2. QED
      BY <1>1, <2>1
  <1>3. ASSUME NEW i \in 1..(Len(w) + 1)
        PROVE  Line(w, v, <<>>)[i] = IF i <= Len(w) THEN w[i].value ELSE v
    <2>1. i \in 1..(Len(w) + 1 + Len(<<>>))
      BY <1>1
    <2>2. i <= Len(w) \/ i = Len(w) + 1
      BY <1>1
    <2>3. QED
      BY <2>1, <2>2 DEF Line
  <1>4. QED
    BY <1>1, <1>2, <1>3

\* An edit drops what comes after the text and adds a text to the line.
LEMMA LineExtended ==
  ASSUME NEW u \in Seq(Snapshots), NEW r \in Seq(Snapshots),
         NEW snapshot \in Snapshots, NEW v \in Texts
  PROVE  Append(SubSeq(Line(u, snapshot.value, r), 1, Len(u) + 1), v)
           = Line(Append(u, snapshot), v, <<>>)
  <1> DEFINE l == Line(u, snapshot.value, r)
             n == Len(u) + 1
             front == SubSeq(l, 1, n)
             w == Append(u, snapshot)
  <1>1. Len(u) \in Nat /\ Len(r) \in Nat /\ snapshot.value \in Texts
    BY LenProperties DEF Snapshots
  <1>2. l \in Seq(Texts) /\ Len(l) = n + Len(r)
    BY <1>1, LineType
  <1>3. ASSUME NEW i \in 1..n
        PROVE  l[i] = IF i <= Len(u) THEN u[i].value ELSE snapshot.value
    <2>1. i \in 1..(Len(u) + 1 + Len(r)) /\ (i <= Len(u) \/ i = Len(u) + 1)
      BY <1>1
    <2>2. QED
      BY <2>1 DEF Line
  <1>4. w \in Seq(Snapshots) /\ Len(w) = n /\ w[n] = snapshot
          /\ \A i \in 1..Len(u) : w[i] = u[i]
    BY Pushed
  <1> HIDE DEF l
  <1>5. n \in Nat \ {0} /\ n \in 1..Len(l) /\ n <= Len(l)
    BY <1>1, <1>2
  <1>6. /\ front \in Seq(Texts)
        /\ Len(front) = IF 1 <= n THEN n - 1 + 1 ELSE 0
        /\ \A i \in 1..(n - 1 + 1) : front[i] = l[1 + i - 1]
    <2>1. \A i \in 1..n : l[i] \in Texts
      BY <1>2, <1>5, ElementOfSeq
    <2>2. 1 \in Int /\ n \in Int
      BY <1>1
    <2>3. QED
      BY <2>1, <2>2, SubSeqProperties
  <1> HIDE DEF front, w
  <1>7. Len(front) = n /\ \A i \in 1..n : front[i] = l[i]
    <2>1. Len(front) = IF 1 <= n THEN n - 1 + 1 ELSE 0
      BY <1>6
    <2>2. Len(front) = n
      BY <1>5, <2>1
    <2>3. ASSUME NEW i \in 1..n PROVE front[i] = l[i]
      <3>1. i \in 1..(n - 1 + 1) /\ 1 + i - 1 = i
        BY <1>5
      <3>2. QED
        BY <1>6, <3>1
    <2>4. QED
      BY <2>2, <2>3
  <1> HIDE DEF n
  <1>8. /\ Append(front, v) \in Seq(Texts) /\ Len(Append(front, v)) = n + 1
        /\ \A i \in 1..n : Append(front, v)[i] = front[i]
        /\ Append(front, v)[n + 1] = v
    BY <1>6, <1>7, AppendProperties
  <1>9. /\ Line(w, v, <<>>) \in Seq(Texts) /\ Len(Line(w, v, <<>>)) = n + 1
        /\ \A i \in 1..n : Line(w, v, <<>>)[i] = w[i].value
        /\ Line(w, v, <<>>)[n + 1] = v
    BY <1>4, LastLine
  <1>10. ASSUME NEW i \in 1..(n + 1)
         PROVE  Append(front, v)[i] = Line(w, v, <<>>)[i]
    <2>1. CASE i = n + 1
      BY <1>8, <1>9, <2>1
    <2>2. CASE i = n
      <3>1. i \in 1..n /\ ~(i <= Len(u))
        BY <1>1, <1>5, <2>2 DEF n
      <3>2. QED
        BY <1>3, <1>4, <1>7, <1>8, <1>9, <2>2, <3>1
    <2>3. CASE i < n
      <3>1. i \in 1..n /\ i \in 1..Len(u) /\ i <= Len(u)
        BY <1>1, <1>5, <2>3 DEF n
      <3>2. QED
        BY <1>3, <1>4, <1>7, <1>8, <1>9, <3>1
    <2>4. i = n + 1 \/ i = n \/ i < n
      <3>1. n \in Nat
        BY <1>5
      <3>2. QED
        BY <3>1
    <2>5. QED
      BY <2>1, <2>2, <2>3, <2>4
  <1>11. Append(front, v) = Line(w, v, <<>>)
    BY <1>8, <1>9, <1>10, SeqEqual
  <1>12. QED
    BY <1>11 DEF front, w, l, n

\* Forgetting the oldest snapshot forgets the oldest version.
LEMMA LineForgets ==
  ASSUME NEW w \in Seq(Snapshots), w # <<>>, NEW v \in Texts
  PROVE  SubSeq(Line(w, v, <<>>), 2, Len(w) + 1) = Line(SubSeq(w, 2, Len(w)), v, <<>>)
  <1> DEFINE n == Len(w)
             l == Line(w, v, <<>>)
             w2 == SubSeq(w, 2, n)
             l2 == SubSeq(l, 2, n + 1)
             m == Line(w2, v, <<>>)
  <1>1. /\ n \in Nat \ {0} /\ w2 \in Seq(Snapshots) /\ Len(w2) = n - 1
        /\ \A i \in 1..(n - 1) : w2[i] = w[i + 1]
    BY OldestDropped
  <1>2. /\ l \in Seq(Texts) /\ Len(l) = n + 1
        /\ \A i \in 1..n : l[i] = w[i].value
        /\ l[n + 1] = v
    BY LastLine
  <1> HIDE DEF w2
  <1>3. /\ m \in Seq(Texts) /\ Len(m) = n - 1 + 1
        /\ \A i \in 1..(n - 1) : m[i] = w2[i].value
        /\ m[n - 1 + 1] = v
    <2>1. /\ m \in Seq(Texts) /\ Len(m) = Len(w2) + 1
          /\ \A i \in 1..Len(w2) : m[i] = w2[i].value
          /\ m[Len(w2) + 1] = v
      BY <1>1, LastLine
    <2> HIDE DEF m, n
    <2>2. QED
      BY <1>1, <2>1
  <1> HIDE DEF l, m
  <1>4. /\ l2 \in Seq(Texts) /\ Len(l2) = n + 1 - 1
        /\ \A i \in 1..(n + 1 - 1) : l2[i] = l[i + 1]
    <2>1. l # <<>>
      BY <1>1, <1>2, EmptySeq
    <2>2. QED
      BY <1>2, <2>1, OldestDropped
  <1> HIDE DEF l2, n
  <1>5. Len(l2) = n /\ Len(m) = n /\ n - 1 + 1 = n /\ n + 1 - 1 = n
    BY <1>1, <1>3, <1>4
  <1>6. ASSUME NEW i \in 1..n PROVE l2[i] = m[i]
    <2>1. l2[i] = l[i + 1]
      BY <1>4, <1>5
    <2>2. CASE i = n
      BY <1>2, <1>3, <1>5, <2>1, <2>2
    <2>3. CASE i # n
      <3>1. i \in 1..(n - 1) /\ i + 1 \in 1..n
        BY <1>1, <2>3
      <3>2. QED
        BY <1>1, <1>2, <1>3, <2>1, <3>1
    <2>4. QED
      BY <2>2, <2>3
  <1>7. l2 = m
    BY <1>3, <1>4, <1>5, <1>6, SeqEqual
  <1>8. QED
    BY <1>7 DEF l, l2, m, w2, n

\* The stack is cut as the line is: an edit of a line with a full stack.
LEMMA LineEdited ==
  ASSUME NEW u \in Seq(Snapshots), NEW r \in Seq(Snapshots),
         NEW snapshot \in Snapshots, NEW v \in Texts, Len(u) <= MaxUndoHistory
  PROVE  /\ LastOf(Append(u, snapshot)) \in Seq(Snapshots)
         /\ Len(LastOf(Append(u, snapshot))) <= MaxUndoHistory
         /\ History!LastOf(Append(SubSeq(Line(u, snapshot.value, r), 1, Len(u) + 1), v),
                           MaxUndoHistory + 1)
              = Line(LastOf(Append(u, snapshot)), v, <<>>)
  <1> DEFINE w == Append(u, snapshot)
             l == Line(w, v, <<>>)
  <1>1. /\ Len(u) \in Nat /\ MaxUndoHistory \in Nat \ {0}
        /\ w \in Seq(Snapshots) /\ w # <<>> /\ Len(w) = Len(u) + 1
    BY Pushed, LenProperties, ConstantsAssumption DEF ConstantsAssumption
  <1>2. Append(SubSeq(Line(u, snapshot.value, r), 1, Len(u) + 1), v) = l
    BY LineExtended
  <1>3. l \in Seq(Texts) /\ Len(l) = Len(w) + 1
    BY <1>1, LastLine
  <1> HIDE DEF l, w
  <1>4. CASE Len(w) <= MaxUndoHistory
    <2>1. LastOf(w) = w
      BY <1>1, <1>4 DEF LastOf
    <2>2. History!LastOf(l, MaxUndoHistory + 1) = l
      BY <1>1, <1>3, <1>4 DEF History!LastOf
    <2>3. QED
      BY <1>1, <1>2, <1>4, <2>1, <2>2 DEF w, l
  <1>5. CASE Len(w) > MaxUndoHistory
    <2>1. Len(w) = MaxUndoHistory + 1 /\ Len(l) = MaxUndoHistory + 2
      BY <1>1, <1>3, <1>5
    <2>2. LastOf(w) = SubSeq(w, 2, Len(w))
      <3>1. Len(w) - MaxUndoHistory + 1 = 2
        BY <1>1, <2>1
      <3>2. QED
        BY <1>5, <3>1 DEF LastOf
    <2>3. History!LastOf(l, MaxUndoHistory + 1) = SubSeq(l, 2, Len(w) + 1)
      <3>1. Len(l) - (MaxUndoHistory + 1) + 1 = 2 /\ ~(Len(l) <= MaxUndoHistory + 1)
              /\ Len(l) = Len(w) + 1
        BY <1>1, <2>1
      <3>2. QED
        BY <3>1 DEF History!LastOf
    <2>4. /\ SubSeq(w, 2, Len(w)) \in Seq(Snapshots)
          /\ Len(SubSeq(w, 2, Len(w))) = Len(w) - 1
      BY <1>1, OldestDropped
    <2>5. SubSeq(l, 2, Len(w) + 1) = Line(SubSeq(w, 2, Len(w)), v, <<>>)
      BY <1>1, LineForgets DEF l
    <2>6. Len(LastOf(w)) <= MaxUndoHistory
      BY <1>1, <2>1, <2>2, <2>4
    <2>7. QED
      BY <1>2, <2>2, <2>3, <2>4, <2>5, <2>6 DEF w
  <1>6. QED
    BY <1>1, <1>4, <1>5

(***************************************************************************)
(* The editor.                                                             *)
(***************************************************************************)
\* The two stacks together never hold more than one of them may.
StacksInv ==
  /\ session \in Sessions
  /\ text \in Texts /\ cursor \in 0..Len(text)
  /\ undo \in Seq(Snapshots) /\ redo \in Seq(Snapshots)
  /\ Len(undo) + Len(redo) <= MaxUndoHistory

line == Line(undo, text, redo)

\* The steps of EditHistory, said of the line.
LEMMA StepsOfLine ==
  /\ History!vars = <<line, Len(undo) + 1>>
  /\ line' = line /\ Len(undo') = Len(undo) => UNCHANGED History!vars
  /\ \A v : /\ v # line[Len(undo) + 1]
            /\ line' = History!LastOf(Append(SubSeq(line, 1, Len(undo) + 1), v),
                                      MaxUndoHistory + 1)
            /\ Len(undo') + 1 = Len(line')
            => History!Edit(v)
  /\ line' = line /\ Len(undo) + 1 > 1 /\ Len(undo') + 1 = Len(undo) + 1 - 1
       => History!Undo
  /\ line' = line /\ Len(undo) + 1 < Len(line) /\ Len(undo') + 1 = Len(undo) + 1 + 1
       => History!Redo
  BY DEF line, Line, History!vars, History!Edit, History!Shown, History!Undo,
         History!Redo

\* What is shown is a version of the line.
LEMMA ShownText ==
  ASSUME StacksInv
  PROVE  /\ line \in Seq(Texts) /\ Len(line) = Len(undo) + 1 + Len(redo)
         /\ line[Len(undo) + 1] = text
         /\ Len(undo) \in Nat /\ Len(redo) \in Nat
         /\ MaxUndoHistory \in Nat \ {0} /\ Now \in Snapshots
  <1>1. /\ Len(undo) \in Nat /\ Len(redo) \in Nat
        /\ MaxUndoHistory \in Nat \ {0} /\ MaxLength \in Nat
    BY LenProperties, ConstantsAssumption DEF StacksInv, ConstantsAssumption
  <1>2. Now \in Snapshots
    <2>1. Len(text) \in Nat /\ Len(text) <= MaxLength
      BY TextIsSequence, LenProperties DEF StacksInv
    <2>2. cursor \in 0..MaxLength
      BY <1>1, <2>1 DEF StacksInv
    <2>3. QED
      BY <2>2 DEF Now, Snapshots, StacksInv
  <1>3. line \in Seq(Texts) /\ Len(line) = Len(undo) + 1 + Len(redo)
    BY LineType DEF StacksInv, line
  <1>4. line[Len(undo) + 1] = text
    BY <1>1 DEF line, Line
  <1>5. QED
    BY <1>1, <1>2, <1>3, <1>4

\* A change of the text is an edit of the line.
LEMMA ChangeEdits ==
  ASSUME StacksInv, NEW v \in Texts, NEW position \in 0..Len(v),
         ChangeTo(v, position), UNCHANGED session
  PROVE  StacksInv' /\ (History!Edit(v) \/ UNCHANGED History!vars)
  <1>1. text' = v /\ cursor' = position
    BY DEF ChangeTo
  <1>2. CASE v = text
    <2>1. UNCHANGED <<undo, redo, text>>
      BY <1>2 DEF ChangeTo
    <2>2. StacksInv'
      BY <1>1, <1>2, <2>1 DEF StacksInv
    <2>3. line' = line
      BY <2>1 DEF line
    <2>4. QED
      BY <2>1, <2>2, <2>3, StepsOfLine
  <1>3. CASE v # text
    <2>1. undo' = LastOf(Append(undo, Now)) /\ redo' = <<>>
      BY <1>3 DEF ChangeTo, PushUndo
    <2>2. Len(undo) <= MaxUndoHistory /\ Now.value = text
      BY ShownText DEF StacksInv, Now
    <2>3. /\ undo' \in Seq(Snapshots) /\ Len(undo') <= MaxUndoHistory
          /\ History!LastOf(Append(SubSeq(line, 1, Len(undo) + 1), v),
                            MaxUndoHistory + 1) = line'
      BY <1>1, <2>1, <2>2, ShownText, LineEdited DEF StacksInv, line
    <2>4. redo' \in Seq(Snapshots) /\ Len(redo') = 0 /\ Len(undo') \in Nat
      BY <2>1, <2>3, EmptySeq, LenProperties
    <2>5. StacksInv'
      BY <1>1, <2>3, <2>4 DEF StacksInv
    <2>6. Len(line') = Len(undo') + 1
      <3>1. Len(line') = Len(undo') + 1 + Len(redo')
        BY <2>3, <2>4, <1>1, LineType DEF line
      <3>2. QED
        BY <2>4, <3>1
    <2>7. v # line[Len(undo) + 1]
      BY <1>3, ShownText
    <2>8. QED
      BY <2>3, <2>5, <2>6, <2>7, StepsOfLine
  <1>4. QED
    BY <1>2, <1>3

\* Undoing an edit walks back along the line.
LEMMA UndoWalks ==
  ASSUME StacksInv, UndoEdit, UNCHANGED session
  PROVE  StacksInv' /\ History!Undo
  <1>1. /\ undo # <<>> /\ undo' = SubSeq(undo, 1, Len(undo) - 1)
        /\ redo' = Append(redo, Now) /\ text' = undo[Len(undo)].value
        /\ cursor' = Within(0, Len(text'), undo[Len(undo)].cursor)
    BY DEF UndoEdit, Restore
  <1>2. /\ Len(undo) \in Nat \ {0} /\ undo[Len(undo)] \in Snapshots
        /\ undo' \in Seq(Snapshots) /\ Len(undo') = Len(undo) - 1
    BY <1>1, Popped DEF StacksInv
  <1>3. redo' \in Seq(Snapshots) /\ Len(redo') = Len(redo) + 1
    BY <1>1, ShownText, Pushed DEF StacksInv
  <1>4. text' \in Texts /\ cursor' \in 0..Len(text')
    <2>1. text' \in Texts /\ undo[Len(undo)].cursor \in Nat
      BY <1>1, <1>2, ConstantsAssumption DEF Snapshots, ConstantsAssumption
    <2>2. Len(text') \in Nat
      BY <2>1, TextIsSequence, LenProperties
    <2>3. QED
      BY <1>1, <2>1, <2>2 DEF Within, Smaller, Larger
  <1>5. line' = line
    <2>1. Now.value = text
      BY DEF Now
    <2>2. QED
      BY <1>1, <2>1, ShownText, LineUndone DEF line, StacksInv
  <1>6. StacksInv'
    BY <1>2, <1>3, <1>4, ShownText DEF StacksInv
  <1>7. QED
    BY <1>2, <1>5, <1>6, StepsOfLine

\* Redoing an edit walks forwards along the line.
LEMMA RedoWalks ==
  ASSUME StacksInv, RedoEdit, UNCHANGED session
  PROVE  StacksInv' /\ History!Redo
  <1>1. /\ redo # <<>> /\ redo' = SubSeq(redo, 1, Len(redo) - 1)
        /\ undo' = Append(undo, Now) /\ text' = redo[Len(redo)].value
        /\ cursor' = Within(0, Len(text'), redo[Len(redo)].cursor)
    BY DEF RedoEdit, Restore
  <1>2. /\ Len(redo) \in Nat \ {0} /\ redo[Len(redo)] \in Snapshots
        /\ redo' \in Seq(Snapshots) /\ Len(redo') = Len(redo) - 1
    BY <1>1, Popped DEF StacksInv
  <1>3. undo' \in Seq(Snapshots) /\ Len(undo') = Len(undo) + 1
    BY <1>1, ShownText, Pushed DEF StacksInv
  <1>4. text' \in Texts /\ cursor' \in 0..Len(text')
    <2>1. text' \in Texts /\ redo[Len(redo)].cursor \in Nat
      BY <1>1, <1>2, ConstantsAssumption DEF Snapshots, ConstantsAssumption
    <2>2. Len(text') \in Nat
      BY <2>1, TextIsSequence, LenProperties
    <2>3. QED
      BY <1>1, <2>1, <2>2 DEF Within, Smaller, Larger
  <1>5. line' = line
    <2>1. Now.value = text
      BY DEF Now
    <2>2. QED
      BY <1>1, <2>1, ShownText, LineRedone DEF line, StacksInv
  <1>6. StacksInv'
    BY <1>2, <1>3, <1>4, ShownText DEF StacksInv
  <1>7. Len(undo) + 1 < Len(line)
    BY <1>2, ShownText
  <1>8. QED
    BY <1>3, <1>5, <1>6, <1>7, ShownText, StepsOfLine

\* Steps that leave the history alone, and those that change the text.
Still == UNCHANGED <<session, text, undo, redo>> /\ cursor' \in 0..Len(text)

Edited ==
  /\ UNCHANGED session
  /\ \E v \in Texts : \E position \in 0..Len(v) : ChangeTo(v, position)

SelectionInv == selection \in [anchor : Nat, head : Nat, active : BOOLEAN]

\* A session is one of those assumed.
LEMMA SessionType ==
  ASSUME StacksInv
  PROVE  /\ session.characters \subseteq Characters
         /\ session.length \in Nat /\ session.length <= MaxLength
         /\ MaxLength \in Nat /\ text \in Seq(Characters) /\ Len(text) \in Nat
         /\ cursor \in 0..Len(text)
  <1>1. session \in [characters : SUBSET Characters, length : 0..MaxLength,
                     results : SUBSET AllOutputs, heights : SUBSET (Nat \ {0})]
          /\ MaxLength \in Nat
    BY ConstantsAssumption DEF StacksInv, ConstantsAssumption
  <1>2. text \in Seq(Characters) /\ Len(text) \in Nat
    BY TextIsSequence, LenProperties DEF StacksInv
  <1>3. QED
    BY <1>1, <1>2 DEF StacksInv

\* The bounds of the selection are positions of the text.
LEMMA BoundsOfSelection ==
  ASSUME StacksInv, SelectionInv
  PROVE  /\ SelectionStart \in 0..Len(text) /\ SelectionEnd \in 0..Len(text)
         /\ SelectionStart <= SelectionEnd
  BY SessionType DEF SelectionInv, SelectionStart, SelectionEnd, Within, Smaller, Larger

\* A text put in place of the selection, or at the cursor, is an edit.
LEMMA ReplacementEdits ==
  ASSUME StacksInv, SelectionInv, UNCHANGED session,
         NEW insert \in Seq(Characters), ReplaceSelection(insert)
  PROVE  Edited
  <1> DEFINE start == IF HasSelection THEN SelectionStart ELSE cursor
             end == IF HasSelection THEN SelectionEnd ELSE cursor
             value == SubSeq(text, 1, start) \o insert \o SubSeq(text, end + 1, Len(text))
  <1>1. start \in 0..Len(text) /\ end \in start..Len(text)
    BY SessionType, BoundsOfSelection
  <1>2. Len(value) <= session.length /\ ChangeTo(value, start + Len(insert))
    BY DEF ReplaceSelection
  <1> HIDE DEF start, end
  <1>3. /\ value \in Seq(Characters) /\ Len(insert) \in Nat
        /\ Len(value) = start + Len(insert) + (Len(text) - end)
    BY <1>1, ReplacedText DEF StacksInv
  <1> HIDE DEF value
  <1>4. value \in Texts /\ start + Len(insert) \in 0..Len(value)
    <2>1. Len(value) <= MaxLength
      <3>1. Len(value) \in Nat
        BY <1>3, LenProperties
      <3>2. QED
        BY <1>2, <3>1, SessionType
    <2>2. value \in Texts
      BY <1>3, <2>1, TextIsSequence
    <2>3. start \in Nat /\ end \in Nat /\ end <= Len(text) /\ Len(text) \in Nat
      BY <1>1, SessionType
    <2>4. QED
      BY <1>3, <2>2, <2>3
  <1>5. QED
    BY <1>2, <1>4 DEF Edited

\* What the text area does to the text is an edit.
LEMMA TextAreaTexts ==
  ASSUME StacksInv, NEW edit \in TextAreaEdits, Len(edit.value) <= session.length
  PROVE  edit.value \in Texts /\ edit.cursor \in 0..Len(edit.value)
  <1> DEFINE Cut(i, j) == SubSeq(text, 1, i) \o SubSeq(text, j + 1, Len(text))
  <1>1. ASSUME NEW i \in 0..Len(text), NEW j \in i..Len(text)
        PROVE  /\ Cut(i, j) \in Seq(Characters)
               /\ Len(Cut(i, j)) = i + (Len(text) - j)
    <2>1. SubSeq(text, 1, i) \in Seq(Characters) /\ i \in Nat /\ j \in Nat
      <3>1. 1 \in Nat \ {0} /\ i \in Nat /\ j \in Nat
        BY SessionType
      <3>2. QED
        BY <3>1, PartOfText DEF StacksInv
    <2>2. SubSeq(text, 1, i) \o <<>> = SubSeq(text, 1, i)
      BY <2>1, ConcatEmptySeq
    <2>3. <<>> \in Seq(Characters) /\ Len(<<>>) = 0
      BY EmptySeq
    <2>4. /\ SubSeq(text, 1, i) \o <<>> \o SubSeq(text, j + 1, Len(text)) \in Seq(Characters)
          /\ Len(SubSeq(text, 1, i) \o <<>> \o SubSeq(text, j + 1, Len(text)))
               = i + Len(<<>>) + (Len(text) - j)
      BY <2>3, ReplacedText DEF StacksInv
    <2>5. i + 0 + (Len(text) - j) = i + (Len(text) - j)
      BY <2>1, SessionType
    <2>6. QED
      BY <2>2, <2>3, <2>4, <2>5
  <1> HIDE DEF Cut
  <1>2. ASSUME NEW i \in 0..(cursor - 1), edit = [value |-> Cut(i, cursor), cursor |-> i]
        PROVE  edit.value \in Seq(Characters) /\ edit.cursor \in 0..Len(edit.value)
    <2>1. i \in 0..Len(text) /\ cursor \in i..Len(text)
      BY SessionType
    <2>2. Cut(i, cursor) \in Seq(Characters) /\ Len(Cut(i, cursor)) = i + (Len(text) - cursor)
      BY <1>1, <2>1
    <2>3. i \in 0..Len(Cut(i, cursor))
      BY <2>1, <2>2, SessionType
    <2>4. QED
      BY <1>2, <2>2, <2>3
  <1>3. ASSUME NEW i \in (cursor + 1)..Len(text),
               edit = [value |-> Cut(cursor, i), cursor |-> cursor]
        PROVE  edit.value \in Seq(Characters) /\ edit.cursor \in 0..Len(edit.value)
    <2>1. cursor \in 0..Len(text) /\ i \in cursor..Len(text)
      BY SessionType
    <2>2. Cut(cursor, i) \in Seq(Characters) /\ Len(Cut(cursor, i)) = cursor + (Len(text) - i)
      BY <1>1, <2>1
    <2>3. cursor \in 0..Len(Cut(cursor, i))
      BY <2>1, <2>2, SessionType
    <2>4. QED
      BY <1>3, <2>2, <2>3
  <1>4. ASSUME NEW c \in session.characters,
               edit = [value |-> SubSeq(text, 1, cursor) \o <<c>>
                                   \o SubSeq(text, cursor + 1, Len(text)),
                       cursor |-> cursor + 1]
        PROVE  edit.value \in Seq(Characters) /\ edit.cursor \in 0..Len(edit.value)
    <2> DEFINE value == SubSeq(text, 1, cursor) \o <<c>> \o SubSeq(text, cursor + 1, Len(text))
    <2>1. <<c>> \in Seq(Characters) /\ Len(<<c>>) = 1
      BY SessionType
    <2>2. cursor \in 0..Len(text) /\ cursor \in cursor..Len(text)
      BY SessionType
    <2>3. /\ value \in Seq(Characters)
          /\ Len(value) = cursor + Len(<<c>>) + (Len(text) - cursor)
      BY <2>1, <2>2, ReplacedText DEF StacksInv
    <2> HIDE DEF value
    <2>4. cursor + 1 \in 0..Len(value)
      BY <2>1, <2>2, <2>3, SessionType
    <2>5. edit.value = value /\ edit.cursor = cursor + 1
      BY <1>4 DEF value
    <2>6. QED
      BY <2>3, <2>4, <2>5
  <1>5. edit.value \in Seq(Characters) /\ edit.cursor \in 0..Len(edit.value)
    BY <1>2, <1>3, <1>4 DEF TextAreaEdits, Cut
  <1>6. Len(edit.value) <= MaxLength
    <2>1. Len(edit.value) \in Nat
      BY <1>5, LenProperties
    <2>2. QED
      BY <2>1, SessionType
  <1>7. QED
    BY <1>5, <1>6, TextIsSequence

\* A selection is kept, given up, made from the cursor or moved.
LEMMA KeysOfEditor ==
  ASSUME StacksInv, SelectionInv, UNCHANGED session, EditorNext
  PROVE  SelectionInv' /\ (Still \/ Edited \/ UndoEdit \/ RedoEdit)
  <1> DEFINE Goal == SelectionInv' /\ (Still \/ Edited \/ UndoEdit \/ RedoEdit)
  <1>0. /\ Len(text) \in Nat /\ cursor \in 0..Len(text) /\ cursor \in Nat
        /\ NoSelection \in [anchor : Nat, head : Nat, active : BOOLEAN]
        /\ selection \in [anchor : Nat, head : Nat, active : BOOLEAN]
    BY SessionType DEF NoSelection, SelectionInv
  <1>1. ASSUME NEW v, NEW p, ChangeTo(v, p) PROVE SelectionInv'
    BY <1>0, <1>1 DEF ChangeTo, SelectionInv
  <1>2. CASE LeaveEditor
    BY <1>0, <1>2 DEF LeaveEditor, InEditor, Still, SelectionInv, HasSelection
  <1>3. CASE SelectAll
    BY <1>0, <1>3 DEF SelectAll, Still, SelectionInv
  <1>4. CASE UndoEdit
    BY <1>0, <1>4 DEF UndoEdit, Restore, SelectionInv
  <1>5. CASE RedoEdit
    BY <1>0, <1>5 DEF RedoEdit, Restore, SelectionInv
  <1>6. ASSUME NEW insert \in Seq(Characters), ReplaceSelection(insert) PROVE Goal
    <2>1. Edited
      BY <1>6, ReplacementEdits
    <2>2. QED
      BY <1>1, <2>1 DEF Edited
  <1>7. CASE RemoveSelection
    <2>1. <<>> \in Seq(Characters)
      BY EmptySeq
    <2>2. QED
      BY <1>6, <1>7, <2>1 DEF RemoveSelection
  <1>8. CASE EditText
    <2>1. PICK edit \in TextAreaEdits :
            Len(edit.value) <= session.length /\ ChangeTo(edit.value, edit.cursor)
      BY <1>8 DEF EditText
    <2>2. Edited
      BY <2>1, TextAreaTexts DEF Edited
    <2>3. QED
      BY <1>1, <2>1, <2>2
  <1>9. ASSUME NEW content \in Contents, Insert(content) PROVE Goal
    <2>1. content \in Seq(Characters)
      <3>1. PICK n \in 1..2 : content \in [1..n -> session.characters]
        BY DEF Contents
      <3>2. content \in Seq(session.characters)
        BY <3>1
      <3>3. QED
        BY <3>1, SessionType
    <2>2. QED
      BY <1>6, <1>9, <2>1 DEF Insert
  <1>10. ASSUME NEW character \in session.characters, TypeOverSelection(character)
         PROVE  Goal
    <2>1. <<character>> \in Seq(Characters)
      BY SessionType
    <2>2. QED
      BY <1>6, <1>10, <2>1 DEF TypeOverSelection
  <1>11. ASSUME NEW position \in 0..Len(text), SelectTo(position) PROVE Goal
    BY <1>0, <1>11 DEF SelectTo, HeadAt, Still, SelectionInv
  <1>12. ASSUME NEW position \in 0..Len(text), NEW plain \in BOOLEAN,
                MoveCursor(position, plain)
         PROVE  Goal
    <2>1. /\ UNCHANGED <<text, undo, redo>> /\ cursor' = position
          /\ selection' = NoSelection \/ selection' = selection
      BY <1>12 DEF MoveCursor
    <2>2. SelectionInv'
      BY <1>0, <2>1 DEF SelectionInv
    <2>3. QED
      BY <2>1, <2>2 DEF Still
  <1>13. QED
    BY <1>2, <1>3, <1>4, <1>5, <1>7, <1>8, <1>9, <1>10, <1>11, <1>12 DEF EditorNext

\* Runs, results and the mouse leave the history alone.
LEMMA OthersLeaveHistory ==
  ASSUME StacksInv, SelectionInv, UNCHANGED session,
         RunNext \/ ResultNext \/ MouseNext
  PROVE  SelectionInv' /\ Still
  <1> DEFINE Goal == SelectionInv' /\ Still
  <1>0. /\ Len(text) \in Nat /\ cursor \in 0..Len(text) /\ cursor \in Nat
        /\ selection \in [anchor : Nat, head : Nat, active : BOOLEAN]
    BY SessionType DEF SelectionInv
  <1>1. ASSUME UNCHANGED editorVars PROVE Goal
    BY <1>0, <1>1 DEF editorVars, Still, SelectionInv
  <1>2. CASE RunNext
    BY <1>1, <1>2 DEF RunNext, Execute, Rerun, FinishRun, FinishCancelledRun,
         FinishFailedRun, ShowResults
  <1>3. CASE ResultNext
    BY <1>1, <1>3 DEF ResultNext, EnterEditor, Up, Down, Home, End, ToggleSelectedRow,
         OpenInspector, CloseInspector, LeftRight, MovePage, MoveOutput, SetSize,
         Navigating
  <1>4. CASE MouseNext
    <2>1. ASSUME NEW position \in 0..Len(text), Drag(position) PROVE Goal
      BY <1>0, <2>1 DEF Drag, HeadAt, Still, SelectionInv
    <2>2. ASSUME NEW position \in 0..Len(text), NEW shift \in BOOLEAN,
                 ClickEditor(position, shift)
          PROVE  Goal
      <3>1. UNCHANGED <<text, undo, redo>> /\ cursor' = position /\ position \in Nat
        BY <1>0, <2>2 DEF ClickEditor
      <3>2. CASE shift
        <4>1. PICK anchor \in {selection.anchor, cursor} :
                selection' = [anchor |-> anchor, head |-> position,
                              active |-> anchor # position]
          BY <2>2, <3>2 DEF ClickEditor, HeadAt
        <4>2. QED
          BY <1>0, <3>1, <4>1 DEF Still, SelectionInv
      <3>3. CASE ~shift
        <4>1. selection' = [anchor |-> position, head |-> position, active |-> FALSE]
          BY <2>2, <3>3 DEF ClickEditor
        <4>2. QED
          BY <1>0, <3>1, <4>1 DEF Still, SelectionInv
      <3>4. QED
        BY <3>2, <3>3
    <2>3. CASE Release
      BY <1>1, <2>3 DEF Release
    <2>4. CASE Wheel
      BY <1>1, <2>4 DEF Wheel
    <2>5. ASSUME NEW row, NEW column, ClickResult(row, column) PROVE Goal
      BY <1>1, <2>5 DEF ClickResult
    <2>6. QED
      BY <1>4, <2>1, <2>2, <2>3, <2>4, <2>5 DEF MouseNext
  <1>5. QED
    BY <1>2, <1>3, <1>4

\* Every step keeps the stacks and walks along the line, or stands still on it.
LEMMA EveryStepWalks ==
  ASSUME StacksInv, SelectionInv, [Next]_vars
  PROVE  StacksInv' /\ SelectionInv' /\ [History!Next]_History!vars
  <1>1. ASSUME Still PROVE StacksInv' /\ UNCHANGED History!vars
    <2>1. UNCHANGED <<text, undo, redo, session>> /\ cursor' \in 0..Len(text)
      BY <1>1 DEF Still
    <2>2. line' = line
      BY <2>1 DEF line
    <2>3. QED
      BY <2>1, <2>2, StepsOfLine DEF StacksInv
  <1>2. ASSUME Edited PROVE StacksInv' /\ [History!Next]_History!vars
    <2>1. PICK v \in Texts : \E position \in 0..Len(v) : ChangeTo(v, position)
      BY <1>2 DEF Edited
    <2>2. PICK position \in 0..Len(v) : ChangeTo(v, position)
      BY <2>1
    <2>3. StacksInv' /\ (History!Edit(v) \/ UNCHANGED History!vars)
      BY <1>2, <2>2, ChangeEdits DEF Edited
    <2>4. QED
      BY <2>3 DEF History!Next
  <1>3. ASSUME UNCHANGED session, UndoEdit
        PROVE  StacksInv' /\ [History!Next]_History!vars
    BY <1>3, UndoWalks DEF History!Next
  <1>4. ASSUME UNCHANGED session, RedoEdit
        PROVE  StacksInv' /\ [History!Next]_History!vars
    BY <1>4, RedoWalks DEF History!Next
  <1>5. CASE Next
    <2>1. UNCHANGED session /\ (EditorNext \/ (RunNext \/ ResultNext \/ MouseNext))
      BY <1>5 DEF Next
    <2>2. SelectionInv' /\ (Still \/ Edited \/ UndoEdit \/ RedoEdit)
      BY <2>1, KeysOfEditor, OthersLeaveHistory
    <2>3. QED
      BY <1>1, <1>2, <1>3, <1>4, <2>1, <2>2
  <1>6. CASE UNCHANGED vars
    <2>1. UNCHANGED <<session, text, cursor, selection, undo, redo>>
      BY <1>6 DEF vars, editorVars
    <2>2. Still
      BY <2>1, SessionType DEF Still
    <2>3. SelectionInv'
      BY <2>1 DEF SelectionInv
    <2>4. QED
      BY <1>1, <2>2, <2>3
  <1>7. QED
    BY <1>5, <1>6

\* A tab starts with an empty text and nothing to undo.
LEMMA FirstText ==
  ASSUME Init
  PROVE  StacksInv /\ SelectionInv /\ History!Init
  <1>1. /\ text = <<>> /\ cursor = 0 /\ undo = <<>> /\ redo = <<>>
        /\ selection = NoSelection /\ session \in Sessions
    BY DEF Init
  <1>2. <<>> \in Seq(Characters) /\ Len(<<>>) = 0 /\ <<>> \in Seq(Snapshots)
    BY EmptySeq
  <1>3. MaxLength \in Nat /\ MaxUndoHistory \in Nat \ {0}
    BY ConstantsAssumption DEF ConstantsAssumption
  <1>4. <<>> \in Texts
    <2>1. Len(<<>>) <= MaxLength
      BY <1>2, <1>3
    <2>2. QED
      BY <1>2, <2>1, TextIsSequence
  <1>5. StacksInv
    BY <1>1, <1>2, <1>3, <1>4 DEF StacksInv
  <1>6. SelectionInv
    BY <1>1 DEF SelectionInv, NoSelection
  <1>7. line = <<text>>
    <2>1. line \in Seq(Texts) /\ Len(line) = 1 /\ line[1] = text
      BY <1>1, <1>2, <1>5, ShownText
    <2>2. QED
      BY <2>1
  <1>8. History!Init
    <2>1. line = <<text>> /\ Len(undo) + 1 = 1 /\ text \in Texts
      BY <1>1, <1>2, <1>4, <1>7
    <2>2. QED
      BY <2>1 DEF History!Init, line, Line
  <1>9. QED
    BY <1>5, <1>6, <1>8

\* The stacks of undo and redo hold snapshots of texts the editor may hold, and both
\* together no more than the limit that cuts one of them (pushUndo, undoEdit, redoEdit).
THEOREM StacksInvariant == Spec => [](StacksInv /\ SelectionInv)
  <1>1. Init => StacksInv /\ SelectionInv
    BY FirstText
  <1>2. StacksInv /\ SelectionInv /\ [Next]_vars => (StacksInv /\ SelectionInv)'
    BY EveryStepWalks
  <1>3. QED
    BY <1>1, <1>2, PTL DEF Spec

\* Undo and redo walk along one line of versions: the editor implements EditHistory,
\* for all texts, every limit and whatever else the user and the runs do meanwhile.
THEOREM HistoryWalks == Spec => HistoryKept
  <1>1. Init => History!Init
    BY FirstText
  <1>2. StacksInv /\ SelectionInv /\ [Next]_vars => [History!Next]_History!vars
    BY EveryStepWalks
  <1>3. QED
    BY <1>1, <1>2, StacksInvariant, PTL DEF Spec, HistoryKept, History!Spec

(***************************************************************************)
(* The selection and the snapshots lie in their texts.                     *)
(***************************************************************************)
SelectionFits ==
  /\ selection.anchor <= Len(text) /\ selection.head <= Len(text)
  /\ selection.active => selection.anchor # selection.head

Fits(snapshot) == snapshot.cursor <= Len(snapshot.value)

AllFit(stack) == \A i \in 1..Len(stack) : Fits(stack[i])

\* A change of the text gives up the selection; what else moves it knows the text.
LEMMA SelectionFitsKept ==
  ASSUME StacksInv, SelectionInv, SelectionFits, [Next]_vars
  PROVE  SelectionFits'
  <1>0. /\ Len(text) \in Nat /\ cursor \in 0..Len(text) /\ cursor \in Nat
        /\ selection \in [anchor : Nat, head : Nat, active : BOOLEAN]
        /\ Len(text') \in Nat
    <2>1. StacksInv'
      BY EveryStepWalks
    <2>2. text' \in Texts
      BY <2>1 DEF StacksInv
    <2>3. Len(text') \in Nat
      BY <2>2, TextIsSequence, LenProperties
    <2>4. QED
      BY <2>3, SessionType DEF SelectionInv
  <1>1. ASSUME selection' = NoSelection PROVE SelectionFits'
    BY <1>0, <1>1 DEF NoSelection, SelectionFits
  <1>2. ASSUME UNCHANGED text,
               NEW anchor \in 0..Len(text), NEW head \in 0..Len(text),
               selection' = [anchor |-> anchor, head |-> head,
                             active |-> anchor # head]
        PROVE  SelectionFits'
    <2>1. /\ selection'.anchor = anchor /\ selection'.head = head
          /\ selection'.active => anchor # head
      BY <1>2
    <2>2. anchor <= Len(text) /\ head <= Len(text) /\ text' = text
      BY <1>0, <1>2
    <2>3. QED
      BY <2>1, <2>2 DEF SelectionFits
  <1>3. ASSUME UNCHANGED <<text, selection>> PROVE SelectionFits'
    BY <1>3 DEF SelectionFits
  <1>4. selection.anchor \in 0..Len(text)
    BY <1>0 DEF SelectionFits
  <1>5. CASE EditorNext
    <2>1. CASE LeaveEditor
      <3>1. UNCHANGED text /\ selection' = [selection EXCEPT !.active = HasSelection]
        BY <2>1 DEF LeaveEditor
      <3>2. HasSelection => selection.anchor # selection.head
        BY DEF HasSelection, SelectionStart, SelectionEnd, Smaller, Larger
      <3>3. QED
        BY <1>0, <3>1, <3>2 DEF SelectionFits
    <2>2. CASE SelectAll
      <3>1. /\ UNCHANGED text
            /\ selection' = [anchor |-> 0, head |-> Len(text), active |-> text # <<>>]
        BY <2>2 DEF SelectAll
      <3>2. text # <<>> => Len(text) # 0
        BY EmptySeq, SessionType
      <3>3. QED
        BY <1>0, <3>1, <3>2 DEF SelectionFits
    <2>3. CASE UndoEdit \/ RedoEdit
      BY <1>1, <2>3 DEF UndoEdit, RedoEdit, Restore
    <2>4. CASE RemoveSelection \/ EditText
      BY <1>1, <2>4 DEF RemoveSelection, EditText, ReplaceSelection, ChangeTo
    <2>5. ASSUME NEW content, Insert(content) \/ TypeOverSelection(content)
          PROVE  SelectionFits'
      BY <1>1, <2>5 DEF Insert, TypeOverSelection, ReplaceSelection, ChangeTo
    <2>6. ASSUME NEW position \in 0..Len(text), SelectTo(position)
          PROVE  SelectionFits'
      <3>1. PICK anchor \in {selection.anchor, cursor} :
              selection' = [anchor |-> anchor, head |-> position,
                            active |-> anchor # position]
        BY <2>6 DEF SelectTo, HeadAt
      <3>2. UNCHANGED text /\ anchor \in 0..Len(text)
        BY <1>0, <1>4, <2>6 DEF SelectTo
      <3>3. QED
        BY <1>2, <3>1, <3>2
    <2>7. ASSUME NEW position, NEW plain, MoveCursor(position, plain)
          PROVE  SelectionFits'
      BY <1>1, <1>3, <2>7 DEF MoveCursor
    <2>8. QED
      BY <1>5, <2>1, <2>2, <2>3, <2>4, <2>5, <2>6, <2>7 DEF EditorNext
  <1>6. CASE RunNext
    BY <1>3, <1>6 DEF RunNext, Execute, Rerun, FinishRun, FinishCancelledRun,
         FinishFailedRun, ShowResults, editorVars
  <1>7. CASE ResultNext
    BY <1>3, <1>7 DEF ResultNext, EnterEditor, Up, Down, Home, End, ToggleSelectedRow,
         OpenInspector, CloseInspector, LeftRight, MovePage, MoveOutput, SetSize,
         Navigating, editorVars
  <1>8. CASE MouseNext
    <2>1. ASSUME NEW position \in 0..Len(text), Drag(position) PROVE SelectionFits'
      BY <1>2, <1>4, <2>1 DEF Drag, HeadAt
    <2>2. ASSUME NEW position \in 0..Len(text), NEW shift \in BOOLEAN,
                 ClickEditor(position, shift)
          PROVE  SelectionFits'
      <3>1. PICK anchor \in {selection.anchor, cursor, position} :
              selection' = [anchor |-> anchor, head |-> position,
                            active |-> anchor # position]
        BY <2>2 DEF ClickEditor, HeadAt
      <3>2. UNCHANGED text /\ anchor \in 0..Len(text)
        BY <1>0, <1>4, <2>2 DEF ClickEditor
      <3>3. QED
        BY <1>2, <3>1, <3>2
    <2>3. CASE Release \/ Wheel
      BY <1>3, <2>3 DEF Release, Wheel, editorVars
    <2>4. ASSUME NEW row, NEW column, ClickResult(row, column) PROVE SelectionFits'
      BY <1>3, <2>4 DEF ClickResult, editorVars
    <2>5. QED
      BY <1>8, <2>1, <2>2, <2>3, <2>4 DEF MouseNext
  <1>9. CASE UNCHANGED vars
    BY <1>3, <1>9 DEF vars, editorVars
  <1>10. QED
    BY <1>5, <1>6, <1>7, <1>8, <1>9 DEF Next

\* The cursor of a snapshot lies in its text, however the stacks trade snapshots.
LEMMA AllFitKept ==
  ASSUME StacksInv, SelectionInv, [Next]_vars, AllFit(undo), AllFit(redo)
  PROVE  AllFit(undo') /\ AllFit(redo')
  <1>0. Now \in Snapshots /\ Fits(Now)
    <2>1. cursor <= Len(text)
      BY SessionType
    <2>2. QED
      BY <2>1, ShownText DEF Fits, Now
  <1>1. ASSUME NEW u \in Seq(Snapshots), AllFit(u)
        PROVE  AllFit(Append(u, Now))
    <2>1. /\ Len(Append(u, Now)) = Len(u) + 1 /\ Append(u, Now)[Len(u) + 1] = Now
          /\ \A i \in 1..Len(u) : Append(u, Now)[i] = u[i]
          /\ Len(u) \in Nat
      BY <1>0, Pushed, LenProperties
    <2>2. ASSUME NEW i \in 1..(Len(u) + 1) PROVE Fits(Append(u, Now)[i])
      <3>1. i \in 1..Len(u) \/ i = Len(u) + 1
        BY <2>1
      <3>2. QED
        BY <1>0, <1>1, <2>1, <3>1 DEF AllFit
    <2>3. QED
      BY <2>1, <2>2 DEF AllFit
  <1>2. ASSUME NEW u \in Seq(Snapshots), AllFit(u), u # <<>>
        PROVE  AllFit(SubSeq(u, 1, Len(u) - 1)) /\ AllFit(SubSeq(u, 2, Len(u)))
    <2>1. /\ Len(u) \in Nat \ {0}
          /\ Len(SubSeq(u, 1, Len(u) - 1)) = Len(u) - 1
          /\ \A i \in 1..(Len(u) - 1) : SubSeq(u, 1, Len(u) - 1)[i] = u[i]
      BY <1>2, Popped
    <2>2. /\ Len(SubSeq(u, 2, Len(u))) = Len(u) - 1
          /\ \A i \in 1..(Len(u) - 1) : SubSeq(u, 2, Len(u))[i] = u[i + 1]
      BY <1>2, OldestDropped
    <2>3. \A i \in 1..(Len(u) - 1) : i \in 1..Len(u) /\ i + 1 \in 1..Len(u)
      BY <2>1
    <2>4. QED
      BY <1>2, <2>1, <2>2, <2>3 DEF AllFit
  <1>3. AllFit(<<>>)
    BY EmptySeq DEF AllFit
  <1>4. ASSUME UNCHANGED <<undo, redo>> PROVE AllFit(undo') /\ AllFit(redo')
    BY <1>4
  <1>5. CASE Edited
    <2>1. PICK v, position : ChangeTo(v, position)
      BY <1>5 DEF Edited
    <2>2. CASE v = text
      BY <1>4, <2>1, <2>2 DEF ChangeTo
    <2>3. CASE v # text
      <3>1. undo' = LastOf(Append(undo, Now)) /\ redo' = <<>>
        BY <2>1, <2>3 DEF ChangeTo, PushUndo
      <3>2. /\ Append(undo, Now) \in Seq(Snapshots) /\ Append(undo, Now) # <<>>
            /\ Len(Append(undo, Now)) = Len(undo) + 1
            /\ Len(undo) \in Nat /\ Len(redo) \in Nat /\ MaxUndoHistory \in Nat \ {0}
        BY <1>0, Pushed, ShownText DEF StacksInv
      <3>3. AllFit(Append(undo, Now))
        BY <1>1 DEF StacksInv
      <3>4. \/ LastOf(Append(undo, Now)) = Append(undo, Now)
            \/ LastOf(Append(undo, Now))
                 = SubSeq(Append(undo, Now), 2, Len(Append(undo, Now)))
        <4>1. Len(Append(undo, Now)) > MaxUndoHistory =>
                Len(Append(undo, Now)) - MaxUndoHistory + 1 = 2
          BY <3>2 DEF StacksInv
        <4>2. QED
          BY <4>1 DEF LastOf
      <3>5. QED
        BY <1>2, <1>3, <3>1, <3>2, <3>3, <3>4
    <2>4. QED
      BY <2>2, <2>3
  <1>6. CASE UndoEdit
    BY <1>1, <1>2, <1>6 DEF UndoEdit, StacksInv
  <1>7. CASE RedoEdit
    BY <1>1, <1>2, <1>7 DEF RedoEdit, StacksInv
  <1>8. CASE Next
    BY <1>4, <1>5, <1>6, <1>7, <1>8, KeysOfEditor, OthersLeaveHistory
    DEF Next, Still
  <1>9. CASE UNCHANGED vars
    BY <1>4, <1>9 DEF vars, editorVars
  <1>10. QED
    BY <1>8, <1>9

(***************************************************************************)
(* The panes and the results.                                              *)
(***************************************************************************)
\* Keys have one target, whatever is opened, clicked or ended.
ModesInv ==
  /\ textMode \in BOOLEAN /\ dragging \in BOOLEAN /\ pane \in {"editor", "results"}
  /\ running \in BOOLEAN /\ ran \in BOOLEAN /\ inspector \in BOOLEAN
  /\ OneTarget

CellsType ==
  /\ session \in Sessions /\ height \in session.heights /\ result \in AllOutputs
  /\ activeOutput \in Nat \ {0} /\ resultPage \in Nat /\ selectedRow \in Nat
  /\ resultRowOffset \in Nat /\ selectedColumn \in Nat /\ selectedRows \subseteq Nat

\* The rows of a page.
LEMMA PageRows ==
  ASSUME NEW page \in Nat, NEW rows \in Nat
  PROVE  /\ ResultPageSize \in Nat \ {0} /\ page * ResultPageSize \in Nat
         /\ PageStart(page, rows) \in 0..rows
         /\ PageEnd(page, rows) \in PageStart(page, rows)..rows
         /\ page * ResultPageSize < rows =>
              page * ResultPageSize
                \in PageStart(page, rows)..(PageEnd(page, rows) - 1)
  <1>1. ResultPageSize \in Nat \ {0}
    BY ConstantsAssumption DEF ConstantsAssumption
  <1>2. page * ResultPageSize \in Nat
    BY <1>1
  <1> DEFINE first == page * ResultPageSize
  <1> HIDE DEF first
  <1>3. PageStart(page, rows) = IF rows < first THEN rows ELSE first
    BY DEF PageStart, Smaller, first
  <1>4. PageEnd(page, rows)
          = IF rows < PageStart(page, rows) + ResultPageSize THEN rows
            ELSE PageStart(page, rows) + ResultPageSize
    BY DEF PageEnd, Smaller
  <1>5. first \in Nat
    BY <1>2 DEF first
  <1>6. PageStart(page, rows) \in 0..rows
    BY <1>3, <1>5
  <1>7. PageEnd(page, rows) \in PageStart(page, rows)..rows
    BY <1>1, <1>4, <1>6
  <1>8. first < rows => first \in PageStart(page, rows)..(PageEnd(page, rows) - 1)
    BY <1>1, <1>3, <1>4, <1>5
  <1>9. QED
    BY <1>1, <1>2, <1>6, <1>7, <1>8 DEF first

\* The first page begins with the first row.
LEMMA FirstPageRows ==
  ASSUME NEW rows \in Nat \ {0}
  PROVE  0 \in PageStart(0, rows)..(PageEnd(0, rows) - 1)
  <1>1. 0 * ResultPageSize = 0
    BY ConstantsAssumption DEF ConstantsAssumption
  <1>2. 0 * ResultPageSize < rows
    BY <1>1
  <1>3. 0 * ResultPageSize \in PageStart(0, rows)..(PageEnd(0, rows) - 1)
    BY <1>2, PageRows
  <1>4. QED
    BY <1>1, <1>3

\* The last row is on the last page.
LEMMA LastPageRows ==
  ASSUME NEW rows \in Nat \ {0}
  PROVE  /\ (rows - 1) \div ResultPageSize \in Nat
         /\ rows - 1 \in PageStart((rows - 1) \div ResultPageSize, rows)
                           ..(PageEnd((rows - 1) \div ResultPageSize, rows) - 1)
  <1> DEFINE n == rows - 1
             page == n \div ResultPageSize
             first == page * ResultPageSize
  <1>1. ResultPageSize \in Nat \ {0} /\ n \in Nat
    BY ConstantsAssumption DEF ConstantsAssumption
  <1> HIDE DEF n
  <1>2. page \in Nat /\ first <= n /\ n < first + ResultPageSize /\ first \in Nat
    BY <1>1
  <1> HIDE DEF page, first
  <1>3. PageStart(page, rows) = first
    BY <1>2 DEF PageStart, Smaller, first, n
  <1>4. PageEnd(page, rows) = rows
    BY <1>1, <1>2, <1>3 DEF PageEnd, Smaller, n
  <1>5. QED
    BY <1>1, <1>2, <1>3, <1>4 DEF n, page

\* A row is brought into the window over its page.
LEMMA OffsetShows ==
  ASSUME resultRowOffset \in Nat, NEW page \in Nat, NEW rows \in Nat,
         NEW row \in PageStart(page, rows)..(PageEnd(page, rows) - 1),
         NEW h \in Nat \ {0}
  PROVE  /\ OffsetFor(row, page, rows, h) \in Nat
         /\ row \in OffsetFor(row, page, rows, h)..(OffsetFor(row, page, rows, h) + h - 1)
  <1> DEFINE start == PageStart(page, rows)
             end == PageEnd(page, rows)
             from == Larger(start, resultRowOffset)
             up == Smaller(from, row)
             down == IF row >= up + h THEN row - h + 1 ELSE up
             lowest == Larger(start, end - h)
  <1>1. start \in Nat /\ end \in Nat /\ row \in Nat /\ start <= row /\ row < end
    <2>1. start \in 0..rows /\ end \in start..rows /\ row \in start..(end - 1)
      BY PageRows
    <2> HIDE DEF start, end
    <2>2. start \in Nat /\ end \in Nat
      BY <2>1
    <2>3. QED
      BY <2>1, <2>2
  <1>2. OffsetFor(row, page, rows, h) = Smaller(lowest, down)
    BY <1>1 DEF OffsetFor
  <1> HIDE DEF start, end
  <1>3. from \in Nat /\ from >= start
    BY <1>1 DEF Larger
  <1> HIDE DEF from
  <1>4. up \in Nat /\ up <= row
    BY <1>1, <1>3 DEF Smaller
  <1> HIDE DEF up
  <1>5. down \in Nat /\ down <= row /\ row < down + h
    BY <1>1, <1>4
  <1> HIDE DEF down
  <1>6. lowest \in Nat /\ lowest >= end - h
    BY <1>1 DEF Larger
  <1> HIDE DEF lowest
  <1>7. /\ Smaller(lowest, down) \in Nat /\ Smaller(lowest, down) <= row
        /\ row < Smaller(lowest, down) + h
    BY <1>1, <1>5, <1>6 DEF Smaller
  <1>8. QED
    BY <1>1, <1>2, <1>7

\* What is shown, in numbers.
LEMMA OutputType ==
  ASSUME CellsType
  PROVE  /\ height \in Nat \ {0} /\ session.heights \subseteq Nat \ {0}
         /\ session.results \subseteq AllOutputs
         /\ Len(result) \in Nat
         /\ HasOutput => Output \in Outputs /\ Output.rows \in Nat
                           /\ Output.columns \in Nat /\ Output.isRows \in BOOLEAN
  <1>1. session \in [characters : SUBSET Characters, length : 0..MaxLength,
                     results : SUBSET AllOutputs, heights : SUBSET (Nat \ {0})]
    BY ConstantsAssumption DEF CellsType, ConstantsAssumption
  <1>2. result \in Seq(Outputs)
    BY DEF CellsType, AllOutputs
  <1>3. HasOutput => Output \in Outputs
    BY <1>2, ElementOfSeq DEF HasOutput, Output
  <1>4. QED
    BY <1>1, <1>2, <1>3, LenProperties DEF CellsType, Outputs

\* Every action that gives keys to the editor takes them from the results.
LEMMA ModesKept ==
  ASSUME ModesInv, [Next]_vars
  PROVE  ModesInv'
  <1>1. CASE EditorNext
    <2>1. ASSUME UNCHANGED <<pane, dragging, runVars, inspector>>,
                 UNCHANGED textMode \/ textMode' = FALSE
          PROVE  ModesInv'
      <3>1. UNCHANGED <<pane, dragging, running, ran, inspector>>
        BY <2>1 DEF runVars
      <3>2. CASE UNCHANGED textMode
        BY <3>1, <3>2 DEF ModesInv, OneTarget
      <3>3. CASE textMode' = FALSE
        BY <3>1, <3>3 DEF ModesInv, OneTarget
      <3>4. QED
        BY <2>1, <3>2, <3>3
    <2>2. QED
      BY <1>1, <2>1 DEF EditorNext, LeaveEditor, SelectAll, UndoEdit, RedoEdit,
           RemoveSelection, EditText, Insert, TypeOverSelection, SelectTo, MoveCursor,
           InEditor, resultVars
  <1>2. CASE RunNext
    <2>1. ASSUME NEW all \in BOOLEAN, Execute(all) \/ Rerun PROVE ModesInv'
      <3>1. /\ UNCHANGED <<textMode, pane, dragging, inspector>>
            /\ running' \in BOOLEAN /\ ran' \in BOOLEAN
        BY <2>1 DEF Execute, Rerun, modeVars, resultVars, ModesInv
      <3>2. QED
        BY <3>1 DEF ModesInv, OneTarget
    <2>2. ASSUME NEW outputs, FinishRun(outputs) \/ FinishFailedRun(outputs)
          PROVE  ModesInv'
      BY <2>2 DEF FinishRun, FinishFailedRun, ShowResults, ResetResultNavigation,
           ModesInv, OneTarget
    <2>3. ASSUME NEW outputs, FinishCancelledRun(outputs) PROVE ModesInv'
      <3>1. /\ textMode' = FALSE /\ pane' = "results" /\ running' = FALSE
            /\ UNCHANGED <<dragging, ran>>
        BY <2>3 DEF FinishCancelledRun, ShowResults
      <3>2. inspector' = FALSE \/ UNCHANGED inspector
        BY <2>3 DEF FinishCancelledRun, ResetResultNavigation, resultVars
      <3>3. QED
        BY <3>1, <3>2 DEF ModesInv, OneTarget
    <2>4. QED
      BY <1>2, <2>1, <2>2, <2>3 DEF RunNext
  <1>3. CASE ResultNext
    <2>1. CASE EnterEditor
      BY <2>1 DEF EnterEditor, Navigating, ModesInv, OneTarget, runVars, resultVars
    <2>2. CASE CloseInspector
      BY <2>2 DEF CloseInspector, ModesInv, OneTarget, modeVars, runVars
    <2>3. CASE OpenInspector
      BY <2>3 DEF OpenInspector, Navigating, ModesInv, OneTarget, runVars
    <2>4. ASSUME NEW h, SetSize(h) PROVE ModesInv'
      BY <2>4 DEF SetSize, ModesInv, OneTarget, modeVars, runVars
    <2>5. ASSUME Navigating, UNCHANGED <<inspector, textMode>>,
                 pane' = pane \/ pane' = "results"
          PROVE  ModesInv'
      BY <2>5 DEF Navigating, ModesInv, OneTarget, runVars
    <2>6. CASE Up \/ Down
      BY <2>5, <2>6 DEF Up, Down, MoveRow, resultVars
    <2>7. CASE Home \/ End \/ ToggleSelectedRow
      BY <2>5, <2>7 DEF Home, End, ToggleSelectedRow
    <2>8. ASSUME NEW delta, LeftRight(delta) \/ MovePage(delta) \/ MoveOutput(delta)
          PROVE  ModesInv'
      BY <2>5, <2>8 DEF LeftRight, MoveColumn, MovePage, MoveOutput
    <2>9. QED
      BY <1>3, <2>1, <2>2, <2>3, <2>4, <2>6, <2>7, <2>8 DEF ResultNext
  <1>4. CASE MouseNext
    <2>1. ASSUME NEW position, NEW shift, ClickEditor(position, shift) PROVE ModesInv'
      BY <2>1 DEF ClickEditor, ModesInv, OneTarget, runVars, resultVars
    <2>2. ASSUME NEW position, Drag(position) PROVE ModesInv'
      BY <2>2 DEF Drag, ModesInv, OneTarget, modeVars, runVars, resultVars
    <2>3. CASE Release
      BY <2>3 DEF Release, ModesInv, OneTarget, runVars, resultVars
    <2>4. CASE Wheel
      <3>1. UNCHANGED <<modeVars, runVars, inspector>>
        BY <2>4 DEF Wheel, MoveRow, MoveColumn, resultVars
      <3>2. QED
        BY <3>1 DEF ModesInv, OneTarget, modeVars, runVars
    <2>5. ASSUME NEW row, NEW column, ClickResult(row, column) PROVE ModesInv'
      BY <2>5 DEF ClickResult, ModesInv, OneTarget, runVars
    <2>6. QED
      BY <1>4, <2>1, <2>2, <2>3, <2>4, <2>5 DEF MouseNext
  <1>5. CASE UNCHANGED vars
    BY <1>5 DEF vars, modeVars, runVars, resultVars, ModesInv, OneTarget
  <1>6. QED
    BY <1>1, <1>2, <1>3, <1>4, <1>5 DEF Next

CellsInv == CellsType /\ CellShown

\* The rows of the output are those before, the cell is another one of them.
LEMMA CellMoves ==
  ASSUME CellsInv, ShowsRows,
         UNCHANGED <<session, result, activeOutput>>, height' \in session.heights,
         selectedRow' \in Nat, resultPage' \in Nat, resultRowOffset' \in Nat,
         selectedColumn' \in Nat, selectedColumn' < Larger(1, Output.columns),
         selectedRows' \subseteq 0..(Output.rows - 1),
         inspector' => Output.rows > 0,
         Output.rows > 0 =>
           /\ selectedRow' \in PageStart(resultPage', Output.rows)
                                 ..(PageEnd(resultPage', Output.rows) - 1)
           /\ selectedRow' \in resultRowOffset'..(resultRowOffset' + height' - 1)
  PROVE  CellsInv'
  <1>1. (ShowsRows)' /\ (Output)' = Output
    BY DEF ShowsRows, HasOutput, Output
  <1>2. CellShown'
    BY <1>1 DEF CellShown
  <1>3. selectedRows' \subseteq Nat
    BY OutputType DEF CellsInv, ShowsRows
  <1>4. CellsType'
    BY <1>3 DEF CellsInv, CellsType
  <1>5. QED
    BY <1>2, <1>4 DEF CellsInv

\* With results that are new or another output, the first cell is selected.
LEMMA CellResets ==
  ASSUME CellsInv, UNCHANGED <<session, height>>, result' \in AllOutputs,
         activeOutput' \in Nat \ {0},
         resultPage' = 0, selectedRow' = 0, resultRowOffset' = 0,
         selectedColumn' = 0, selectedRows' = {}, ~inspector'
  PROVE  CellsInv'
  <1>1. CellsType'
    BY DEF CellsInv, CellsType
  <1>2. /\ height' \in Nat \ {0}
        /\ (HasOutput)' => (Output)' \in Outputs
    <2>1. height' \in Nat \ {0}
      BY OutputType DEF CellsInv
    <2>2. result' \in Seq(Outputs)
      BY DEF AllOutputs
    <2>3. (HasOutput)' => (Output)' \in Outputs
      BY <2>2, ElementOfSeq DEF HasOutput, Output
    <2>4. QED
      BY <2>1, <2>3
  <1>3. ASSUME (ShowsRows)'
        PROVE  /\ (Output)'.rows > 0 =>
                    /\ 0 \in PageStart(0, (Output)'.rows)..(PageEnd(0, (Output)'.rows) - 1)
                    /\ 0 \in 0..(0 + height' - 1)
               /\ 0 < Larger(1, (Output)'.columns)
    <2>1. (Output)'.rows \in Nat /\ (Output)'.columns \in Nat
      BY <1>2, <1>3 DEF ShowsRows, Outputs
    <2>2. (Output)'.rows > 0 =>
            0 \in PageStart(0, (Output)'.rows)..(PageEnd(0, (Output)'.rows) - 1)
      BY <2>1, FirstPageRows
    <2>3. 0 \in 0..(0 + height' - 1) /\ 0 < Larger(1, (Output)'.columns)
      BY <1>2, <2>1 DEF Larger
    <2>4. QED
      BY <2>2, <2>3
  <1>4. CellShown'
    BY <1>3 DEF CellShown
  <1>5. QED
    BY <1>1, <1>4 DEF CellsInv

\* A row of the page on display is brought into the window.
LEMMA RowSelected ==
  ASSUME CellsInv, ShowsRows, NEW page \in Nat,
         NEW row \in PageStart(page, Output.rows)..(PageEnd(page, Output.rows) - 1),
         SelectRow(row, page),
         UNCHANGED <<session, result, activeOutput, selectedRows, inspector, height>>,
         selectedColumn' \in Nat, selectedColumn' < Larger(1, Output.columns)
  PROVE  CellsInv'
  <1>0. /\ Output.rows \in Nat /\ height \in Nat \ {0} /\ resultRowOffset \in Nat
        /\ CellsType /\ CellShown
    BY OutputType DEF CellsInv, CellsType, ShowsRows
  <1>1. /\ selectedRow' = row /\ resultPage' = page
        /\ resultRowOffset' = OffsetFor(row, page, Output.rows, height)
    BY DEF SelectRow
  <1>2. /\ resultRowOffset' \in Nat
        /\ row \in resultRowOffset'..(resultRowOffset' + height - 1)
    BY <1>0, <1>1, OffsetShows
  <1>3. row \in Nat
    <2>1. PageStart(page, Output.rows) \in 0..Output.rows
      BY <1>0, PageRows
    <2>2. QED
      BY <1>0, <2>1
  <1>4. height' \in session.heights /\ selectedRows' \subseteq 0..(Output.rows - 1)
          /\ (inspector' => Output.rows > 0)
    BY <1>0 DEF CellsType, CellShown
  <1>5. QED
    BY <1>1, <1>2, <1>3, <1>4, CellMoves

\* A cell that stays is shown as before.
LEMMA CellStays ==
  ASSUME CellsInv, UNCHANGED <<session, result, resultVars, height>>
  PROVE  CellsInv'
  BY DEF CellsInv, CellsType, CellShown, ShowsRows, HasOutput, Output, resultVars, cellVars

\* Moving along the rows stays on the page.
LEMMA RowMoves ==
  ASSUME CellsInv, NEW delta \in Int, MoveRow(delta), UNCHANGED <<session, result, height>>
  PROVE  CellsInv'
  <1>1. CASE ShowsRows /\ Output.rows > 0
    <2> DEFINE start == PageStart(resultPage, Output.rows)
               end == PageEnd(resultPage, Output.rows)
               row == Smaller(end - 1, Larger(start, selectedRow + delta))
    <2>1. /\ Output.rows \in Nat /\ resultPage \in Nat /\ selectedRow \in Nat
          /\ selectedColumn \in Nat /\ selectedColumn < Larger(1, Output.columns)
          /\ selectedRow \in start..(end - 1)
      BY <1>1, OutputType DEF CellsInv, CellsType, CellShown, ShowsRows
    <2>2. start \in 0..Output.rows /\ end \in start..Output.rows
      BY <2>1, PageRows
    <2>3. /\ SelectRow(row, resultPage)
          /\ UNCHANGED <<activeOutput, selectedColumn, selectedRows, inspector>>
      BY <1>1 DEF MoveRow
    <2> HIDE DEF start, end
    <2>4. row \in start..(end - 1)
      <3>1. start \in Nat /\ end \in Nat /\ start <= end - 1
        BY <2>1, <2>2
      <3>2. Larger(start, selectedRow + delta) \in Nat
              /\ Larger(start, selectedRow + delta) >= start
        BY <2>1, <3>1 DEF Larger
      <3>3. QED
        BY <3>1, <3>2 DEF Smaller
    <2> HIDE DEF row
    <2>5. QED
      BY <1>1, <2>1, <2>3, <2>4, RowSelected DEF start, end
  <1>2. CASE ~(ShowsRows /\ Output.rows > 0)
    BY <1>2, CellStays DEF MoveRow
  <1>3. QED
    BY <1>1, <1>2

\* Moving along the columns stays in the row.
LEMMA ColumnMoves ==
  ASSUME CellsInv, NEW delta \in Int, MoveColumn(delta), UNCHANGED <<session, result, height>>
  PROVE  CellsInv'
  <1>1. /\ ShowsRows /\ Output.columns \in Nat /\ Output.columns > 0
        /\ CellsType /\ CellShown
    BY OutputType DEF MoveColumn, CellsInv, ShowsRows
  <1>2. /\ UNCHANGED <<activeOutput, resultPage, selectedRow, resultRowOffset,
                       selectedRows, inspector>>
        /\ selectedColumn' = Within(0, Output.columns - 1, selectedColumn + delta)
    BY DEF MoveColumn
  <1>3. selectedColumn' \in Nat /\ selectedColumn' < Larger(1, Output.columns)
    BY <1>1, <1>2 DEF CellsType, Within, Smaller, Larger
  <1>4. QED
    BY <1>1, <1>2, <1>3, CellMoves DEF CellsType, CellShown

\* Turning a page selects its first row.
LEMMA PageTurns ==
  ASSUME CellsInv, NEW delta \in {-1, 1}, MovePage(delta), UNCHANGED session
  PROVE  CellsInv'
  <1> DEFINE rows == Output.rows
             last == (rows + ResultPageSize - 1) \div ResultPageSize
             target == Smaller(Larger(1, last) - 1, Larger(0, resultPage + delta))
             first == target * ResultPageSize
  <1>1. /\ ShowsRows /\ rows \in Nat /\ ResultPageSize \in Nat \ {0}
        /\ CellsType /\ CellShown /\ height \in Nat \ {0}
    BY OutputType, ConstantsAssumption
    DEF MovePage, CellsInv, ShowsRows, ConstantsAssumption
  <1>2. /\ UNCHANGED <<result, height, activeOutput, selectedColumn, selectedRows, inspector>>
        /\ resultPage' = target /\ selectedRow' = first /\ resultRowOffset' = first
    BY DEF MovePage, Navigating, runVars
  <1> HIDE DEF rows
  <1>3. last \in Nat /\ (last - 1) * ResultPageSize < rows + (IF rows = 0 THEN 1 ELSE 0)
    <2>1. rows + ResultPageSize - 1 \in Nat
      BY <1>1
    <2>2. last \in Nat /\ last * ResultPageSize <= rows + ResultPageSize - 1
      BY <1>1, <2>1
    <2>3. (last - 1) * ResultPageSize = last * ResultPageSize - ResultPageSize
      BY <1>1, <2>2
    <2> HIDE DEF last
    <2>4. QED
      BY <1>1, <2>2, <2>3
  <1>4. rows > 0 => last > 0
    <2>1. rows > 0 => last * ResultPageSize + ResultPageSize > rows + ResultPageSize - 1
      BY <1>1
    <2>2. last = 0 => last * ResultPageSize = 0
      BY <1>1
    <2> HIDE DEF last
    <2>3. QED
      BY <1>1, <1>3, <2>1, <2>2
  <1> HIDE DEF last
  <1>5. target \in Nat /\ target <= Larger(1, last) - 1
    BY <1>1, <1>3 DEF Smaller, Larger, CellsType
  <1> HIDE DEF target
  <1>6. first \in Nat
    BY <1>1, <1>5
  <1>7. rows > 0 => first < rows
    <2>1. rows > 0 => target <= last - 1 /\ last - 1 \in Nat
      BY <1>3, <1>4, <1>5 DEF Larger
    <2>2. rows > 0 => target * ResultPageSize <= (last - 1) * ResultPageSize
      BY <1>1, <1>5, <2>1
    <2>3. (last - 1) * ResultPageSize \in Int
      BY <1>1, <1>3
    <2>4. QED
      BY <1>1, <1>3, <1>6, <2>2, <2>3
  <1>8. rows > 0 => first \in PageStart(target, rows)..(PageEnd(target, rows) - 1)
    BY <1>1, <1>5, <1>7, PageRows
  <1> HIDE DEF first
  <1>9. first \in first..(first + height - 1)
    BY <1>1, <1>6
  <1>10. QED
    BY <1>1, <1>2, <1>5, <1>6, <1>8, <1>9, CellMoves DEF CellsType, CellShown, rows

\* A window of another size is moved to the row that is selected.
LEMMA SizeChanges ==
  ASSUME CellsInv, NEW h \in session.heights, SetSize(h), UNCHANGED session
  PROVE  CellsInv'
  <1>0. /\ CellsType /\ CellShown /\ h \in Nat \ {0} /\ height' = h
        /\ UNCHANGED <<result, activeOutput, resultPage, selectedRows, inspector>>
    BY OutputType DEF CellsInv, SetSize, runVars
  <1>1. CASE ShowsRows /\ Output.rows > 0
    <2> DEFINE start == PageStart(resultPage, Output.rows)
               end == PageEnd(resultPage, Output.rows)
    <2>1. /\ Output.rows \in Nat /\ Output.columns \in Nat
          /\ resultPage \in Nat /\ selectedRow \in Nat /\ selectedColumn \in Nat
          /\ resultRowOffset \in Nat
          /\ selectedRow \in start..(end - 1)
          /\ selectedRows \subseteq 0..(Output.rows - 1)
      BY <1>0, <1>1, OutputType DEF CellsType, CellShown, ShowsRows
    <2>2. start \in 0..Output.rows /\ end \in start..Output.rows
      BY <2>1, PageRows
    <2>3. /\ selectedRow' = Within(0, Output.rows - 1, selectedRow)
          /\ selectedColumn' = Within(0, Larger(0, Output.columns - 1), selectedColumn)
          /\ resultRowOffset' = OffsetFor(selectedRow', resultPage, Output.rows, h)
      BY <1>1 DEF SetSize
    <2> HIDE DEF start, end
    <2>4. selectedRow' = selectedRow
      <3>1. start \in Nat /\ end \in Nat /\ selectedRow <= Output.rows - 1
        BY <2>1, <2>2
      <3>2. QED
        BY <2>1, <2>3, <3>1 DEF Within, Smaller, Larger
    <2>5. selectedColumn' \in Nat /\ selectedColumn' < Larger(1, Output.columns)
      BY <2>1, <2>3 DEF Within, Smaller, Larger
    <2>6. /\ resultRowOffset' \in Nat
          /\ selectedRow' \in resultRowOffset'..(resultRowOffset' + h - 1)
      BY <1>0, <2>1, <2>3, <2>4, OffsetShows DEF start, end
    <2>7. QED
      BY <1>0, <1>1, <2>1, <2>4, <2>5, <2>6, CellMoves DEF start, end
  <1>2. CASE ~(ShowsRows /\ Output.rows > 0)
    <2>1. selectedRow' = 0 /\ selectedColumn' = 0 /\ UNCHANGED resultRowOffset
      BY <1>2 DEF SetSize
    <2>2. CellsType'
      BY <1>0, <2>1 DEF CellsType
    <2>3. CASE ShowsRows
      <3>1. Output.rows \in Nat /\ Output.columns \in Nat /\ ~(Output.rows > 0)
        BY <1>0, <1>2, <2>3, OutputType DEF ShowsRows
      <3>2. 0 < Larger(1, Output.columns)
        BY <3>1 DEF Larger
      <3>3. QED
        BY <1>0, <2>1, <2>3, <3>1, <3>2, CellMoves DEF CellsType, CellShown
    <2>4. CASE ~ShowsRows
      <3>1. ~(ShowsRows)' /\ selectedRows' = {} /\ ~inspector'
        BY <1>0, <2>4 DEF CellShown, ShowsRows, HasOutput, Output
      <3>2. QED
        BY <2>2, <3>1 DEF CellsInv, CellShown
    <2>5. QED
      BY <2>3, <2>4
  <1>3. QED
    BY <1>1, <1>2

\* Every step leaves the cell that is acted on among those that are shown.
LEMMA CellsKept ==
  ASSUME CellsInv, ModesInv, [Next]_vars
  PROVE  CellsInv'
  <1>0. /\ CellsType /\ CellShown
        /\ ShowsRows => Output.rows \in Nat /\ Output.columns \in Nat
        /\ session.results \subseteq AllOutputs
    BY OutputType DEF CellsInv, ShowsRows
  <1>1. CASE UNCHANGED <<session, result, resultVars, height>>
    BY <1>1, CellStays
  <1>2. CASE EditorNext /\ UNCHANGED session
    <2>1. UNCHANGED <<result, resultVars, height>>
      BY <1>2 DEF EditorNext, LeaveEditor, SelectAll, UndoEdit, RedoEdit,
           RemoveSelection, EditText, Insert, TypeOverSelection, SelectTo, MoveCursor,
           InEditor, runVars
    <2>2. QED
      BY <1>1, <1>2, <2>1
  <1>3. ASSUME NEW outputs \in session.results, UNCHANGED session,
               FinishRun(outputs) \/ FinishCancelledRun(outputs)
                 \/ FinishFailedRun(outputs)
        PROVE  CellsInv'
    <2>1. outputs \in Seq(Outputs) /\ ErrorOutput \in Outputs
      BY <1>0, <1>3 DEF AllOutputs, ErrorOutput, Outputs
    <2>2. outputs \in AllOutputs /\ Append(outputs, ErrorOutput) \in AllOutputs
      BY <2>1, AppendProperties DEF AllOutputs
    <2>3. UNCHANGED height
      BY <1>3 DEF FinishRun, FinishCancelledRun, FinishFailedRun, ShowResults
    <2>4. CASE result' \in AllOutputs /\ ResetResultNavigation
      BY <1>3, <2>3, <2>4, CellResets DEF ResetResultNavigation
    <2>5. CASE UNCHANGED <<result, resultVars>>
      BY <1>1, <1>3, <2>3, <2>5
    <2>6. QED
      BY <1>3, <2>2, <2>4, <2>5 DEF FinishRun, FinishCancelledRun, FinishFailedRun
  <1>4. CASE RunNext /\ UNCHANGED session
    <2>1. ASSUME NEW all, Execute(all) \/ Rerun PROVE UNCHANGED <<result, resultVars, height>>
      BY <2>1 DEF Execute, Rerun
    <2>2. QED
      BY <1>1, <1>3, <1>4, <2>1 DEF RunNext
  <1>5. CASE ResultNext /\ UNCHANGED session
    <2>1. CASE EnterEditor
      BY <1>1, <1>5, <2>1 DEF EnterEditor, Navigating, runVars
    <2>2. CASE Up \/ Down
      <3>1. PICK delta \in {-1, 1} : MoveRow(delta) /\ UNCHANGED <<result, height>>
        BY <2>2 DEF Up, Down, Navigating, runVars
      <3>2. QED
        BY <1>5, <3>1, RowMoves
    <2>3. CASE Home
      <3>1. /\ selectedRow' = 0 /\ resultPage' = 0 /\ resultRowOffset' = 0
            /\ UNCHANGED <<result, height, activeOutput, selectedColumn, selectedRows,
                           inspector>>
        BY <2>3 DEF Home, Navigating, runVars
      <3>2. CASE ShowsRows
        <4>1. Output.rows > 0 =>
                 0 \in PageStart(0, Output.rows)..(PageEnd(0, Output.rows) - 1)
          BY <1>0, <3>2, FirstPageRows
        <4>2. 0 \in 0..(0 + height - 1)
          BY <1>0, OutputType
        <4>3. QED
          BY <1>0, <1>5, <3>1, <3>2, <4>1, <4>2, CellMoves DEF CellsType, CellShown
      <3>3. CASE ~ShowsRows
        <4>1. ~(ShowsRows)' /\ selectedRows' = {} /\ ~inspector'
          BY <1>0, <3>1, <3>3 DEF CellShown, ShowsRows, HasOutput, Output
        <4>2. CellsType'
          BY <1>0, <1>5, <3>1 DEF CellsType
        <4>3. QED
          BY <4>1, <4>2 DEF CellsInv, CellShown
      <3>4. QED
        BY <3>2, <3>3
    <2>4. CASE End
      <3>1. /\ ShowsRows /\ Output.rows > 0
            /\ SelectRow(Output.rows - 1, (Output.rows - 1) \div ResultPageSize)
            /\ UNCHANGED <<result, height, activeOutput, selectedColumn, selectedRows,
                           inspector>>
        BY <2>4 DEF End, Navigating, runVars
      <3>2. /\ (Output.rows - 1) \div ResultPageSize \in Nat
            /\ Output.rows - 1 \in
                 PageStart((Output.rows - 1) \div ResultPageSize, Output.rows)
                   ..(PageEnd((Output.rows - 1) \div ResultPageSize, Output.rows) - 1)
        BY <1>0, <3>1, LastPageRows
      <3>3. selectedColumn' \in Nat /\ selectedColumn' < Larger(1, Output.columns)
        BY <1>0, <3>1 DEF CellsType, CellShown
      <3>4. QED
        BY <1>5, <3>1, <3>2, <3>3, RowSelected
    <2>5. CASE ToggleSelectedRow
      <3>1. /\ ShowsRows /\ Output.rows > 0
            /\ selectedRows' \subseteq selectedRows \cup {selectedRow}
            /\ UNCHANGED <<result, height, cellVars, inspector>>
        BY <2>5 DEF ToggleSelectedRow, Navigating, runVars
      <3>2. selectedRow \in 0..(Output.rows - 1)
        <4>1. /\ selectedRow \in PageStart(resultPage, Output.rows)
                                   ..(PageEnd(resultPage, Output.rows) - 1)
              /\ resultPage \in Nat /\ selectedRow \in Nat
          BY <1>0, <3>1 DEF CellsType, CellShown
        <4>2. PageEnd(resultPage, Output.rows)
                 \in PageStart(resultPage, Output.rows)..Output.rows
                /\ PageStart(resultPage, Output.rows) \in 0..Output.rows
          BY <1>0, <3>1, <4>1, PageRows
        <4>3. PageEnd(resultPage, Output.rows) <= Output.rows
                /\ PageEnd(resultPage, Output.rows) \in Int
                /\ PageStart(resultPage, Output.rows) \in Int
          BY <1>0, <3>1, <4>2
        <4>4. QED
          BY <1>0, <3>1, <4>1, <4>3
      <3>3. selectedRows' \subseteq 0..(Output.rows - 1)
        BY <1>0, <3>1, <3>2 DEF CellShown
      <3>4. QED
        BY <1>0, <1>5, <3>1, <3>3, CellMoves DEF CellsType, CellShown, cellVars
    <2>6. CASE OpenInspector
      <3>1. /\ ShowsRows /\ selectedRow < Output.rows
            /\ UNCHANGED <<result, height, cellVars, selectedRows>>
        BY <2>6 DEF OpenInspector, Navigating, runVars
      <3>2. Output.rows > 0
        BY <1>0, <3>1 DEF CellsType
      <3>3. QED
        BY <1>0, <1>5, <3>1, <3>2, CellMoves DEF CellsType, CellShown, cellVars
    <2>7. CASE CloseInspector
      BY <1>0, <1>5, <2>7
      DEF CloseInspector, CellsInv, CellsType, CellShown, ShowsRows, HasOutput, Output,
          cellVars, runVars
    <2>8. ASSUME NEW delta \in {-1, 1}, LeftRight(delta) PROVE CellsInv'
      BY <1>5, <2>8, ColumnMoves DEF LeftRight, Navigating, runVars
    <2>9. ASSUME NEW delta \in {-1, 1}, MovePage(delta) PROVE CellsInv'
      BY <1>5, <2>9, PageTurns
    <2>10. ASSUME NEW delta \in {-1, 1}, MoveOutput(delta) PROVE CellsInv'
      <3>1. /\ result # <<>> /\ ~inspector
            /\ activeOutput'
                 = ((activeOutput - 1 + delta + Len(result)) % Len(result)) + 1
            /\ resultPage' = 0 /\ selectedRow' = 0 /\ resultRowOffset' = 0
            /\ selectedColumn' = 0 /\ selectedRows' = {}
            /\ UNCHANGED <<result, height, inspector>>
        BY <2>10 DEF MoveOutput, Navigating, runVars
      <3>2. Len(result) \in Nat \ {0} /\ result \in AllOutputs
        <4>1. result \in Seq(Outputs)
          BY <1>0 DEF CellsType, AllOutputs
        <4>2. QED
          BY <3>1, <4>1, EmptySeq, LenProperties DEF AllOutputs
      <3>3. activeOutput' \in Nat \ {0}
        <4> DEFINE n == activeOutput - 1 + delta + Len(result)
        <4>1. n \in Int
          BY <1>0, <3>2 DEF CellsType
        <4> HIDE DEF n
        <4>2. n % Len(result) \in Nat
          BY <3>2, <4>1
        <4>3. QED
          BY <3>1, <4>2 DEF n
      <3>4. QED
        BY <1>5, <3>1, <3>2, <3>3, CellResets
    <2>11. ASSUME NEW h \in session.heights, SetSize(h) PROVE CellsInv'
      BY <1>5, <2>11, SizeChanges
    <2>12. QED
      BY <1>5, <2>1, <2>2, <2>3, <2>4, <2>5, <2>6, <2>7, <2>8, <2>9, <2>10, <2>11
      DEF ResultNext
  <1>6. CASE MouseNext /\ UNCHANGED session
    <2>1. ASSUME NEW position, NEW shift,
                 Drag(position) \/ ClickEditor(position, shift) \/ Release
          PROVE  UNCHANGED <<result, resultVars, height>>
      BY <2>1 DEF Drag, ClickEditor, Release, runVars
    <2>2. CASE Wheel
      BY <1>6, <2>2, RowMoves, ColumnMoves DEF Wheel, runVars
    <2>3. ASSUME ShowsRows, NEW row \in 0..(Output.rows - 1), NEW column,
                 ClickResult(row, column)
          PROVE  CellsInv'
      <3> DEFINE start == PageStart(resultPage, Output.rows)
                 end == PageEnd(resultPage, Output.rows)
      <3>1. /\ SelectRow(row, resultPage)
            /\ column \in 0..(Output.columns - 1) \cup {selectedColumn}
            /\ selectedColumn' = column
            /\ row >= Larger(start, resultRowOffset)
            /\ row < Smaller(end, Larger(start, resultRowOffset) + height)
            /\ UNCHANGED <<result, height, activeOutput, selectedRows, inspector>>
        BY <2>3 DEF ClickResult, runVars
      <3>2. start \in 0..Output.rows /\ end \in start..Output.rows
        BY <1>0, <2>3, PageRows DEF CellsType
      <3>3. start \in Nat /\ end \in Nat /\ resultRowOffset \in Nat
              /\ height \in Nat \ {0} /\ row \in Nat
        BY <1>0, <2>3, <3>2, OutputType DEF CellsType
      <3> HIDE DEF start, end
      <3>4. row \in start..(end - 1)
        BY <3>1, <3>3 DEF Larger, Smaller
      <3>5. selectedColumn' \in Nat /\ selectedColumn' < Larger(1, Output.columns)
        <4>1. selectedColumn \in Nat /\ selectedColumn < Larger(1, Output.columns)
          BY <1>0, <2>3 DEF CellsType, CellShown
        <4>2. QED
          BY <1>0, <2>3, <3>1, <4>1 DEF Larger
      <3>6. QED
        BY <1>0, <1>6, <2>3, <3>1, <3>4, <3>5, RowSelected DEF CellsType, start, end
    <2>4. QED
      BY <1>1, <1>6, <2>1, <2>2, <2>3 DEF MouseNext
  <1>7. CASE UNCHANGED vars
    BY <1>1, <1>7 DEF vars, runVars
  <1>8. QED
    BY <1>2, <1>4, <1>5, <1>6, <1>7 DEF Next

\* The whole invariant of a tab under its user's hands.
InputInv ==
  /\ StacksInv /\ SelectionInv /\ SelectionFits /\ AllFit(undo) /\ AllFit(redo)
  /\ ModesInv /\ CellsInv

\* A tab starts with the editor focused and nothing to show.
LEMMA FirstInput ==
  ASSUME Init
  PROVE  InputInv
  <1>1. StacksInv /\ SelectionInv
    BY FirstText
  <1>2. /\ text = <<>> /\ undo = <<>> /\ redo = <<>> /\ result = <<>>
        /\ selection = NoSelection /\ Len(<<>>) = 0
        /\ <<>> \in AllOutputs
    BY EmptySeq DEF Init, AllOutputs
  <1>3. SelectionFits /\ AllFit(undo) /\ AllFit(redo)
    BY <1>2 DEF SelectionFits, AllFit, NoSelection
  <1>4. ModesInv
    BY DEF Init, ModesInv, OneTarget
  <1>5. CellsType
    BY <1>2 DEF Init, CellsType
  <1>6. CellShown
    <2>1. ~ShowsRows
      BY <1>2 DEF ShowsRows, HasOutput
    <2>2. QED
      BY <2>1 DEF Init, CellShown
  <1>7. QED
    BY <1>1, <1>3, <1>4, <1>5, <1>6 DEF InputInv, CellsInv

\* Every step keeps it.
LEMMA InputInvKept ==
  ASSUME InputInv, [Next]_vars
  PROVE  InputInv'
  <1>1. StacksInv' /\ SelectionInv'
    BY EveryStepWalks DEF InputInv
  <1>2. SelectionFits'
    BY SelectionFitsKept DEF InputInv
  <1>3. AllFit(undo') /\ AllFit(redo')
    BY AllFitKept DEF InputInv
  <1>4. ModesInv' /\ CellsInv'
    BY ModesKept, CellsKept DEF InputInv
  <1>5. QED
    BY <1>1, <1>2, <1>3, <1>4 DEF InputInv

\* The text, the cursor, the selection and every snapshot fit each other, and the
\* selected cell and the panes have their types, for all texts and results.
THEOREM TypeCorrect == Spec => []TypeOK
  <1>1. InputInv => TypeOK
    <2> SUFFICES ASSUME InputInv PROVE TypeOK
      OBVIOUS
    <2> USE DEF InputInv
    <2>1. selection \in Selections
      <3>1. Len(text) \in Nat /\ Len(text) <= MaxLength /\ MaxLength \in Nat
        BY TextIsSequence, SessionType DEF StacksInv
      <3>2. selection.anchor \in 0..MaxLength /\ selection.head \in 0..MaxLength
        BY <3>1 DEF SelectionFits, SelectionInv
      <3>3. QED
        BY <3>2 DEF SelectionInv, Selections
    <2>2. \A stack \in {undo, redo} : \A i \in 1..Len(stack) :
            stack[i].cursor <= Len(stack[i].value)
      BY DEF AllFit, Fits
    <2>3. QED
      BY <2>1, <2>2 DEF TypeOK, StacksInv, SelectionFits, ModesInv, CellsInv, CellsType
  <1>2. QED
    BY <1>1, FirstInput, InputInvKept, PTL DEF Spec

\* What a key acts on is what the user sees, for all outputs of any number of rows
\* and columns, every page size and every height of the window.
THEOREM ActsOnShown == Spec => []InputIsShown
  <1>1. InputInv => InputIsShown
    BY DEF InputInv, ModesInv, CellsInv, InputIsShown
  <1>2. QED
    BY <1>1, FirstInput, InputInvKept, PTL DEF Spec
=============================================================================
