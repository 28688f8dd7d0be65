----------------------------- MODULE TagsProofs -----------------------------
(***************************************************************************)
(* What MCData says of an edit of comments, and of FLAC and Ogg files, for *)
(* every input: the proof is about all comments and all edits.  A key is   *)
(* kept for one field at most, and an edit removes the keys of the fields  *)
(* it names and puts one for each, so that a field of the edit reads as it *)
(* was asked for, and the others as they did.  Packets that are cut into   *)
(* segments, and laid on pages, are assembled again as they were, so that  *)
(* an edited Ogg file makes its new header and then what it made before.   *)
(***************************************************************************)
EXTENDS DataProofs

-----------------------------------------------------------------------------
(* The comments of several fields. *)

\* A finite set has an order, in which each of its elements is once.
LEMMA OrderIs ==
  ASSUME NEW S, IsFiniteSet(S)
  PROVE  /\ SetToSeq(S) \in [1..Cardinality(S) -> S] /\ Cardinality(S) \in Nat
         /\ \A x \in S : \E i \in 1..Cardinality(S) : SetToSeq(S)[i] = x
         /\ \A i, j \in 1..Cardinality(S) : SetToSeq(S)[i] = SetToSeq(S)[j] => i = j
<1> DEFINE n == Cardinality(S)
<1>1. n \in Nat /\ ExistsBijection(1..n, S)
  BY FS_CardinalityType
<1>2. \E f \in [1..n -> S] : IsInjective(f)
  BY <1>1 DEF ExistsBijection, Bijection, Injection
<1>3. SetToSeq(S) \in [1..n -> S] /\ IsInjective(SetToSeq(S))
  BY <1>2 DEF SetToSeq
<1>4. SetToSeq(S) \in Injection(1..n, S)
  BY <1>3 DEF Injection
<1>5. IsFiniteSet(1..n) /\ Cardinality(1..n) = n
  BY <1>1, FS_Interval
<1>6. SetToSeq(S) \in Surjection(1..n, S)
  BY <1>4, <1>5, FS_Injection
<1> HIDE DEF n
<1> QED
  BY <1>1, <1>3, <1>6 DEF Surjection, IsInjective, n

\* A key that one field at most has is found in the comments of that field.
LEMMA EachIs ==
  ASSUME NEW S, IsFiniteSet(S), NEW of \in [S -> Seq(Tagged)]
  PROVE  /\ Ogg!Each(of) \in Seq(Tagged)
         /\ \A key : (\A k \in S : Ogg!Values(of[k], key) = <<>>)
                 => Ogg!Values(Ogg!Each(of), key) = <<>>
         /\ \A key : \A k \in S : (\A l \in S \ {k} : Ogg!Values(of[l], key) = <<>>)
                                     => Ogg!Values(Ogg!Each(of), key) = Ogg!Values(of[k], key)
<1> DEFINE n == Cardinality(S)
           order == SetToSeq(S)
           parts == [i \in 1..n |-> of[order[i]]]
<1>1. /\ order \in [1..n -> S] /\ n \in Nat
      /\ \A x \in S : \E i \in 1..n : order[i] = x
      /\ \A i, j \in 1..n : order[i] = order[j] => i = j
  BY OrderIs
<1>2. Ogg!Each(of) = FlattenSeq(parts)
  <2>1. DOMAIN of = S
    OBVIOUS
  <2>2. DOMAIN order = 1..n
    BY <1>1
  <2> QED
    BY <2>1, <2>2, SameOgg DEF Ogg!Each
<1> HIDE DEF n, order
<1>3. parts \in Seq(Seq(Tagged)) /\ Len(parts) = n /\ \A i \in 1..n : parts[i] = of[order[i]]
  BY <1>1
<1> HIDE DEF parts
<1>4. PICK f \in [0..n -> Seq(Tagged)] : /\ f[0] = <<>> /\ FlattenSeq(parts) = f[n]
                                         /\ \A i \in 1..n : f[i] = Cat(f[i - 1], parts[i])
  <2>1. \E f \in [0..Len(parts) -> Seq(Tagged)] :
            /\ f[0] = <<>> /\ FlattenSeq(parts) = f[Len(parts)]
            /\ \A i \in 1..Len(parts) : f[i] = Cat(f[i - 1], parts[i])
    BY <1>3, FlattenIs, ZenonT(30)
  <2> QED
    BY <2>1, <1>3
<1>5. ASSUME NEW i \in 0..n, i < n, NEW key
      PROVE  /\ i + 1 \in 1..n /\ order[i + 1] \in S
             /\ Ogg!Values(f[i + 1], key)
                     = Cat(Ogg!Values(f[i], key), Ogg!Values(of[order[i + 1]], key))
  <2>1. i + 1 \in 1..n /\ i + 1 - 1 = i /\ order[i + 1] \in S
    BY <1>1, <1>5
  <2>2. f[i + 1] = Cat(f[(i + 1) - 1], parts[i + 1]) /\ parts[i + 1] = of[order[i + 1]]
    BY <2>1, <1>3, <1>4
  <2>3. f[i] \in Seq(Tagged) /\ of[order[i + 1]] \in Seq(Tagged)
    BY <2>1, <1>4
  <2>4. Ogg!Values(Cat(f[i], of[order[i + 1]]), key)
              = Cat(Ogg!Values(f[i], key), Ogg!Values(of[order[i + 1]], key))
    BY <2>3, ValuesCat
  <2> QED
    BY <2>1, <2>2, <2>4
<1>6. Cat(<<>>, <<>>) = <<>> /\ \A s \in Seq(Words) : Cat(<<>>, s) = s /\ Cat(s, <<>>) = s
  BY CatIs
<1>7. ASSUME NEW key, \A k \in S : Ogg!Values(of[k], key) = <<>>
      PROVE  Ogg!Values(Ogg!Each(of), key) = <<>>
  <2> DEFINE T == {i \in 0..n : Ogg!Values(f[i], key) = <<>>}
  <2>1. 0 \in T
    <3>1. Ogg!Values(<<>>, key) = <<>>
      BY CatIs, ValuesMore
    <3> QED
      BY <3>1, <1>1, <1>4
  <2>2. ASSUME NEW i \in 0..n, i \in T, i < n PROVE i + 1 \in T
    <3>1. Ogg!Values(f[i + 1], key) = Cat(<<>>, <<>>) /\ i + 1 \in 0..n
      BY <1>5, <1>7, <2>2
    <3> QED
      BY <3>1, <1>6
  <2>3. 0..n \subseteq T
    <3> HIDE DEF T
    <3> QED
      BY <1>1, <2>1, <2>2, UpTo
  <2> QED
    BY <2>3, <1>1, <1>2, <1>4
<1>8. ASSUME NEW key, NEW k \in S, \A l \in S \ {k} : Ogg!Values(of[l], key) = <<>>
      PROVE  Ogg!Values(Ogg!Each(of), key) = Ogg!Values(of[k], key)
  <2>1. PICK m \in 1..n : order[m] = k
    BY <1>1
  <2>2. of[k] \in Seq(Tagged) /\ Ogg!Values(of[k], key) \in Seq(Words)
    BY ValuesMore
  <2> DEFINE T == {i \in 0..n :
             Ogg!Values(f[i], key) = IF i < m THEN <<>> ELSE Ogg!Values(of[k], key)}
  <2>3. 0 \in T
    <3>1. Ogg!Values(<<>>, key) = <<>>
      BY CatIs, ValuesMore
    <3> QED
      BY <3>1, <1>1, <1>4, <2>1
  <2>4. ASSUME NEW i \in 0..n, i \in T, i < n PROVE i + 1 \in T
    <3>1. /\ Ogg!Values(f[i + 1], key)
                  = Cat(Ogg!Values(f[i], key), Ogg!Values(of[order[i + 1]], key))
          /\ i + 1 \in 1..n /\ i + 1 \in 0..n /\ order[i + 1] \in S
      BY <1>5, <2>4
    <3>2. CASE i + 1 = m
      <4>1. order[i + 1] = k /\ Ogg!Values(f[i], key) = <<>>
        BY <2>1, <2>4, <3>2
      <4> QED
        BY <3>1, <3>2, <4>1, <1>6, <2>2
    <3>3. CASE i + 1 # m
      <4>1. order[i + 1] # k
        BY <1>1, <2>1, <3>1, <3>3
      <4>2. Ogg!Values(of[order[i + 1]], key) = <<>>
        BY <1>8, <3>1, <4>1
      <4>3. Ogg!Values(f[i + 1], key) = Ogg!Values(f[i], key)
        <5>1. Ogg!Values(f[i], key) \in Seq(Words)
          BY <1>4, ValuesMore
        <5> QED
          BY <5>1, <3>1, <4>2, <1>6
      <4>4. i < m <=> i + 1 < m
        BY <3>3, <1>1
      <4> QED
        BY <2>4, <3>1, <4>3, <4>4
    <3> QED
      BY <3>2, <3>3
  <2>5. 0..n \subseteq T
    <3> HIDE DEF T
    <3> QED
      BY <1>1, <2>3, <2>4, UpTo
  <2>6. n \in 0..n /\ ~(n < m)
    BY <1>1, <2>1
  <2> QED
    BY <2>5, <2>6, <1>2, <1>4
<1>9. Ogg!Each(of) \in Seq(Tagged)
  BY <1>1, <1>2, <1>4
<1> QED
  BY <1>7, <1>8, <1>9

\* A name more is added unless it is there.
LEMMA DistinctIs ==
  ASSUME NEW S, NEW words \in Seq(S)
  PROVE  \E f \in [0..Len(words) -> Seq(S)] :
            /\ f[0] = <<>> /\ Ogg!Distinct(words) = f[Len(words)]
            /\ \A n \in 1..Len(words) :
                 f[n] = IF words[n] \in Ogg!Range(f[n - 1]) THEN f[n - 1]
                      ELSE Append(f[n - 1], words[n])
<1> DEFINE len == Len(words)
           More(s, x) == IF x \in Ogg!Range(s) THEN s ELSE Append(s, x)
           Good(g) == g = [n \in 0..len |-> IF n = 0 THEN <<>> ELSE More(g[n - 1], words[n])]
           next == [p \in (1..len) \X Seq(S) |-> More(p[2], words[p[1]])]
           once == CHOOSE g : Good(g)
<1>1. len \in Nat /\ \A n \in 1..len : words[n] \in S
  OBVIOUS
<1>2. \A s \in Seq(S) : \A x \in S : More(s, x) \in Seq(S)
  OBVIOUS
<1>3. Ogg!Distinct(words) = once[len]
  BY DEF Ogg!Distinct
<1> HIDE DEF len, More, once
<1>4. next \in Steps(len, Seq(S))
  BY <1>1, <1>2 DEF Steps
<1>5. \A n \in 1..len : \A s \in Seq(S) : next[<<n, s>>] = More(s, words[n])
  OBVIOUS
<1> HIDE DEF next
<1>6. PICK f : Follows(f, next, <<>>, len, Seq(S))
  <2>1. <<>> \in Seq(S)
    OBVIOUS
  <2> QED
    BY <1>1, <1>4, <2>1, Recursion
<1>7. f \in [0..len -> Seq(S)] /\ f[0] = <<>>
  BY <1>6 DEF Follows
<1>8. ASSUME NEW n \in 1..len
      PROVE  f[n] = More(f[n - 1], words[n])
  <2>1. n - 1 \in 0..len /\ f[n] = next[<<n, f[n - 1]>>]
    BY <1>1, <1>6 DEF Follows
  <2> QED
    BY <2>1, <1>5, <1>7
<1>9. Good(f)
  <2>1. f = [n \in 0..len |-> f[n]]
    BY <1>7
  <2>2. \A n \in 0..len : f[n] = IF n = 0 THEN <<>> ELSE More(f[n - 1], words[n])
    BY <1>7, <1>8
  <2> QED
    BY <2>1, <2>2
<1>10. Good(once)
  <2> HIDE DEF Good
  <2> QED
    BY <1>9 DEF once
<1>11. \A n \in 0..len : once[n] = IF n = 0 THEN <<>> ELSE More(once[n - 1], words[n])
  BY <1>10
<1> HIDE DEF Good
<1> DEFINE T == {n \in 0..len : once[n] = f[n]}
<1>12. 0 \in T
  BY <1>1, <1>7, <1>11
<1>13. ASSUME NEW n \in 0..len, n \in T, n < len
       PROVE  n + 1 \in T
  <2>1. n + 1 \in 1..len /\ n + 1 \in 0..len /\ n + 1 - 1 = n /\ n + 1 # 0
    BY <1>1, <1>13
  <2>2. once[n + 1] = More(once[n], words[n + 1])
    BY <2>1, <1>11
  <2>3. f[n + 1] = More(f[n], words[n + 1])
    BY <2>1, <1>8
  <2> QED
    BY <2>1, <2>2, <2>3, <1>13
<1>14. 0..len \subseteq T
  <2> HIDE DEF T
  <2> QED
    BY <1>1, <1>12, <1>13, UpTo
<1>15. Ogg!Distinct(words) = f[len]
  BY <1>1, <1>3, <1>14
<1> QED
  BY <1>7, <1>8, <1>15 DEF len, More

\* Of no names, none.
LEMMA DistinctNone ==
  ASSUME NEW S, NEW words \in Seq(S)
  PROVE  Len(words) = 0 => Ogg!Distinct(words) = <<>>
<1> DEFINE More(s, x) == IF x \in Ogg!Range(s) THEN s ELSE Append(s, x)
<1>1. PICK f \in [0..Len(words) -> Seq(S)] :
        /\ f[0] = <<>> /\ Ogg!Distinct(words) = f[Len(words)]
        /\ \A n \in 1..Len(words) : f[n] = More(f[n - 1], words[n])
  BY DistinctIs
<1> QED
  BY <1>1

\* The names of a text that is longer by one.
LEMMA DistinctMore ==
  ASSUME NEW S, NEW words \in Seq(S)
  PROVE  /\ Ogg!Distinct(<<>>) = <<>> /\ Ogg!Distinct(words) \in Seq(S)
         /\ \A x \in S : Ogg!Distinct(Append(words, x)) = IF x \in Ogg!Range(Ogg!Distinct(words))
                                                         THEN Ogg!Distinct(words)
                                                         ELSE Append(Ogg!Distinct(words), x)
<1> DEFINE n == Len(words)
           More(s, x) == IF x \in Ogg!Range(s) THEN s ELSE Append(s, x)
<1>1. n \in Nat
  OBVIOUS
<1>2. PICK f \in [0..n -> Seq(S)] :
        /\ f[0] = <<>> /\ Ogg!Distinct(words) = f[n]
        /\ \A i \in 1..n : f[i] = More(f[i - 1], words[i])
  BY DistinctIs
<1>3. Ogg!Distinct(<<>>) = <<>>
  <2>1. <<>> \in Seq(S) /\ Len(<<>>) = 0
    OBVIOUS
  <2> QED
    BY <2>1, DistinctNone
<1>4. ASSUME NEW x \in S
      PROVE  Ogg!Distinct(Append(words, x)) = More(Ogg!Distinct(words), x)
  <2> DEFINE more == Append(words, x)
  <2>1. /\ more \in Seq(S) /\ Len(more) = n + 1 /\ more[n + 1] = x
        /\ \A i \in 1..n : more[i] = words[i]
    OBVIOUS
  <2> HIDE DEF more, More, n
  <2>2. PICK g \in [0..n + 1 -> Seq(S)] :
          /\ g[0] = <<>> /\ Ogg!Distinct(more) = g[n + 1]
          /\ \A i \in 1..n + 1 : g[i] = More(g[i - 1], more[i])
    <3>1. \E g \in [0..Len(more) -> Seq(S)] :
            /\ g[0] = <<>> /\ Ogg!Distinct(more) = g[Len(more)]
            /\ \A i \in 1..Len(more) : g[i] = More(g[i - 1], more[i])
      BY <2>1, DistinctIs, ZenonT(30) DEF More
    <3> QED
      BY <2>1, <3>1
  <2> DEFINE T == {i \in 0..n : f[i] = g[i]}
  <2>3. 0 \in T
    BY <1>1, <1>2, <2>2
  <2>4. ASSUME NEW i \in 0..n, i \in T, i < n
        PROVE  i + 1 \in T
    <3>1. i + 1 \in 1..n /\ i + 1 \in 1..n + 1 /\ i + 1 \in 0..n /\ i + 1 - 1 = i
      BY <1>1, <2>4
    <3>2. f[i + 1] = More(f[(i + 1) - 1], words[i + 1])
      BY <3>1, <1>2 DEF n
    <3>3. g[i + 1] = More(g[(i + 1) - 1], more[i + 1])
      BY <3>1, <2>2
    <3> QED
      BY <3>1, <3>2, <3>3, <2>1, <2>4
  <2>5. 0..n \subseteq T
    <3> HIDE DEF T
    <3> QED
      BY <1>1, <2>3, <2>4, UpTo
  <2>6. f[n] = g[n]
    BY <1>1, <2>5
  <2>7. n + 1 \in 1..n + 1 /\ (n + 1) - 1 = n
    BY <1>1
  <2>8. g[n + 1] = More(g[(n + 1) - 1], more[n + 1])
    BY <2>7, <2>2
  <2> QED
    BY <1>2, <2>1, <2>2, <2>6, <2>7, <2>8 DEF more, n
<1>5. Ogg!Distinct(words) \in Seq(S)
  BY <1>1, <1>2
<1> QED
  BY <1>3, <1>4, <1>5 DEF More

\* Names that are there once are left as they are, and so is a single name.
LEMMA DistinctTwice ==
  ASSUME NEW S, NEW words \in Seq(S)
  PROVE  /\ Ogg!Distinct(Ogg!Distinct(words)) = Ogg!Distinct(words)
         /\ Ogg!Distinct(words) = <<>> <=> words = <<>>
         /\ Len(words) <= 1 => Ogg!Distinct(words) = words
<1> DEFINE T == {w \in Seq(S) : /\ Ogg!Distinct(Ogg!Distinct(w)) = Ogg!Distinct(w)
                                /\ Ogg!Distinct(w) = <<>> <=> w = <<>>}
<1>1. <<>> \in T
  <2>1. <<>> \in Seq(S)
    OBVIOUS
  <2>2. Ogg!Distinct(<<>>) = <<>>
    BY <2>1, DistinctMore
  <2> QED
    BY <2>1, <2>2
<1>2. ASSUME NEW w \in Seq(S), NEW x \in S, w \in T
      PROVE  Append(w, x) \in T
  <2> DEFINE d == Ogg!Distinct(w)
             more == Append(w, x)
  <2>1. more \in Seq(S) /\ more # <<>>
    OBVIOUS
  <2>2. d \in Seq(S) /\ Ogg!Distinct(more) = IF x \in Ogg!Range(d) THEN d ELSE Append(d, x)
    BY DistinctMore
  <2>3. Ogg!Distinct(d) = d /\ (d = <<>> <=> w = <<>>)
    BY <1>2
  <2> HIDE DEF d, more
  <2>4. Ogg!Distinct(Append(d, x)) = IF x \in Ogg!Range(d) THEN d ELSE Append(d, x)
    BY <2>2, <2>3, DistinctMore
  <2>5. d = <<>> => ~(x \in Ogg!Range(d))
    BY DEF Ogg!Range
  <2>6. Append(d, x) # <<>>
    BY <2>2
  <2>7. Ogg!Distinct(Ogg!Distinct(more)) = Ogg!Distinct(more) /\ Ogg!Distinct(more) # <<>>
    BY <2>2, <2>3, <2>4, <2>5, <2>6
  <2> QED
    BY <2>1, <2>7 DEF more
<1>3. Seq(S) \subseteq T
  <2> HIDE DEF T
  <2> QED
    BY <1>1, <1>2, AllSeq
<1>4. ASSUME Len(words) <= 1
      PROVE  Ogg!Distinct(words) = words
  <2>1. CASE words = <<>>
    BY <2>1, DistinctMore
  <2>2. CASE words # <<>>
    <3> DEFINE x == words[1]
    <3>1. x \in S /\ words = Append(<<>>, x) /\ <<>> \in Seq(S)
      BY <1>4, <2>2, SMTT(30)
    <3>2. ~(x \in Ogg!Range(<<>>))
      BY DEF Ogg!Range
    <3>3. Ogg!Distinct(<<>>) = <<>>
      BY <3>1, DistinctMore
    <3> HIDE DEF x
    <3>4. Ogg!Distinct(Append(<<>>, x))
               = IF x \in Ogg!Range(Ogg!Distinct(<<>>)) THEN Ogg!Distinct(<<>>)
                                          ELSE Append(Ogg!Distinct(<<>>), x)
      BY <3>1, DistinctMore, ZenonT(30)
    <3> QED
      BY <3>1, <3>2, <3>3, <3>4
  <2> QED
    BY <2>1, <2>2
<1> QED
  BY <1>3, <1>4

-----------------------------------------------------------------------------
\* The comment of a field, unless it is empty.
LEMMA OneIs ==
  ASSUME NEW key \in Word, NEW value \in Words
  PROVE  /\ Ogg!One(key, value) \in Seq(Tagged)
         /\ \A other : Ogg!Values(Ogg!One(key, value), other)
                             = IF other = key /\ value # Ogg!Empty THEN <<value>> ELSE <<>>
<1> DEFINE c == Ogg!Comment(key, value)
<1>1. c \in Tagged /\ c.key = key /\ c.value = value
  BY DEF Ogg!Comment, Tagged
<1>2. Ogg!One(key, value) = IF value = Ogg!Empty THEN <<>> ELSE Append(<<>>, c)
  BY DEF Ogg!One
<1> HIDE DEF c
<1>3. <<>> \in Seq(Tagged) /\ Append(<<>>, c) \in Seq(Tagged)
  BY <1>1
<1>4. ASSUME NEW other
      PROVE  Ogg!Values(Ogg!One(key, value), other)
                   = IF other = key /\ value # Ogg!Empty THEN <<value>> ELSE <<>>
  <2>1. /\ Ogg!Values(<<>>, other) = <<>>
        /\ Ogg!Values(Append(<<>>, c), other)
                 = IF c.key = other THEN Append(Ogg!Values(<<>>, other), c.value)
                      ELSE Ogg!Values(<<>>, other)
    BY <1>1, <1>3, ValuesMore
  <2>2. Append(<<>>, value) = <<value>>
    OBVIOUS
  <2> QED
    BY <1>1, <1>2, <2>1, <2>2
<1> QED
  BY <1>2, <1>3, <1>4

\* A comment for each name.
Named(key, names) == [i \in DOMAIN names |-> Ogg!Comment(key, <<names[i]>>)]

\* The names of a credit, each in a comment of its own, are found together.
LEMMA NamedIs ==
  ASSUME NEW key \in Word, NEW names \in Words
  PROVE  /\ Named(key, names) \in Seq(Tagged)
         /\ FlattenSeq(Ogg!Values(Named(key, names), key)) = names
         /\ \A other : other # key => Ogg!Values(Named(key, names), other) = <<>>
<1> DEFINE of == [x \in Word |-> Ogg!Comment(key, <<x>>)]
           Right(n) == /\ Named(key, n) \in Seq(Tagged)
                       /\ FlattenSeq(Ogg!Values(Named(key, n), key)) = n
                       /\ \A other : other # key => Ogg!Values(Named(key, n), other) = <<>>
           T == {n \in Words : Right(n)}
<1>1. of \in Maps(Word, Tagged)
  BY DEF Maps, Ogg!Comment, Tagged, Words
<1>2. \A x \in Word : of[x] = Ogg!Comment(key, <<x>>)
  OBVIOUS
<1>3. ASSUME NEW n \in Words
      PROVE  Named(key, n) = MapSeq(n, of)
  <2>1. \A i \in DOMAIN n : n[i] \in Word
    BY DEF Words
  <2> HIDE DEF of
  <2>2. \A i \in DOMAIN n : of[n[i]] = Ogg!Comment(key, <<n[i]>>)
    BY <2>1, <1>2
  <2> QED
    BY <2>2 DEF Named, MapSeq
<1> HIDE DEF of
<1>4. <<>> \in T
  <2>1. <<>> \in Words /\ <<>> \in Seq(Tagged)
    BY DEF Words
  <2>2. Named(key, <<>>) = <<>>
    BY <2>1, <1>1, <1>3, MapIs
  <2>3. \A other : Ogg!Values(<<>>, other) = <<>>
    BY <2>1, ValuesMore
  <2> QED
    BY <2>1, <2>2, <2>3, FlattenNone
<1>5. ASSUME NEW n \in Words, NEW x \in Word, n \in T
      PROVE  Append(n, x) \in T
  <2> DEFINE more == Append(n, x)
             c == Ogg!Comment(key, <<x>>)
             old == Named(key, n)
  <2>0. n \in Seq(Word)
    BY DEF Words
  <2>1. more \in Words
    BY DEF Words
  <2>2. MapSeq(more, of) = Append(MapSeq(n, of), of[x])
    BY <1>1, <2>0, MapIs
  <2> HIDE DEF more
  <2>3. Named(key, more) = Append(old, c)
    BY <2>1, <2>2, <1>2, <1>3
  <2>4. c \in Tagged /\ c.key = key /\ c.value = <<x>>
    BY DEF Ogg!Comment, Tagged, Words
  <2> HIDE DEF c
  <2>5. old \in Seq(Tagged) /\ FlattenSeq(Ogg!Values(old, key)) = n
        /\ \A other : other # key => Ogg!Values(old, other) = <<>>
    BY <1>5
  <2> HIDE DEF old
  <2>6. Ogg!Values(old, key) \in Seq(Words)
             /\ Ogg!Values(Append(old, c), key) = Append(Ogg!Values(old, key), <<x>>)
    BY <2>4, <2>5, ValuesMore
  <2>7. Append(old, c) \in Seq(Tagged)
    BY <2>4, <2>5
  <2>8. ASSUME NEW other, other # key PROVE Ogg!Values(Append(old, c), other) = <<>>
    <3>1. Ogg!Values(Append(old, c), other) = Ogg!Values(old, other)
      BY <2>4, <2>5, <2>8, ValuesMore
    <3> QED
      BY <3>1, <2>5, <2>8
  <2> DEFINE v == Ogg!Values(old, key)
  <2>9. FlattenSeq(Append(v, <<x>>)) = Append(n, x)
    <3>1. v \in Seq(Seq(Word)) /\ <<x>> \in Seq(Word)
      BY <2>6 DEF Words
    <3>2. FlattenSeq(v) = n
      BY <2>5
    <3> HIDE DEF v
    <3>3. FlattenSeq(Append(v, <<x>>)) = Cat(n, <<x>>)
      BY <3>1, <3>2, FlattenMore
    <3>4. Cat(n, <<x>>) = Append(n, x)
      BY <2>0 DEF Cat
    <3> QED
      BY <3>3, <3>4
  <2>10. Right(more)
    BY <2>3, <2>6, <2>7, <2>8, <2>9 DEF more
  <2> QED
    BY <2>1, <2>10 DEF more
<1>6. Seq(Word) \subseteq T
  <2>1. \A n \in Seq(Word) : \A x \in Word : n \in T => Append(n, x) \in T
    BY <1>5 DEF Words
  <2> HIDE DEF T
  <2> QED
    BY <1>4, <2>1, AllSeq
<1> QED
  BY <1>6 DEF Words

\* In either mode a credit is found under its key, each name once, and nothing
\* under another.
LEMMA CreditIs ==
  ASSUME NEW key \in Word, NEW value \in Words, NEW split
  PROVE  /\ Ogg!Credit(key, value, split) \in Seq(Tagged)
         /\ Ogg!Joined(Ogg!Credit(key, value, split), key) = Ogg!Distinct(value)
         /\ \A other : other # key => Ogg!Values(Ogg!Credit(key, value, split), other) = <<>>
<1>0. value \in Seq(Word)
  BY DEF Words
<1>1. CASE split
  <2> DEFINE names == Ogg!Distinct(value)
  <2>1. names \in Words /\ Ogg!Distinct(names) = names
    BY <1>0, DistinctMore, DistinctTwice DEF Words
  <2>2. Ogg!Credit(key, value, split) = Named(key, names)
    BY <1>1 DEF Ogg!Credit, Named
  <2> HIDE DEF names
  <2>3. /\ Named(key, names) \in Seq(Tagged)
        /\ FlattenSeq(Ogg!Values(Named(key, names), key)) = names
        /\ \A other : other # key => Ogg!Values(Named(key, names), other) = <<>>
    BY <2>1, NamedIs
  <2> QED
    BY <2>1, <2>2, <2>3, SameOgg DEF Ogg!Joined, names
<1>2. CASE ~split
  <2>1. Ogg!Credit(key, value, split) = Ogg!One(key, value)
    BY <1>2 DEF Ogg!Credit
  <2>2. /\ Ogg!One(key, value) \in Seq(Tagged)
        /\ \A other : Ogg!Values(Ogg!One(key, value), other)
                            = IF other = key /\ value # Ogg!Empty THEN <<value>> ELSE <<>>
    BY OneIs
  <2>3. FlattenSeq(IF value # Ogg!Empty THEN <<value>> ELSE <<>>) = value
    <3>1. CASE value = Ogg!Empty
      BY <3>1, FlattenNone DEF Ogg!Empty
    <3>2. CASE value # Ogg!Empty
      <4>1. <<>> \in Seq(Seq(Word)) /\ <<value>> = Append(<<>>, value)
        OBVIOUS
      <4>2. FlattenSeq(Append(<<>>, value)) = Cat(FlattenSeq(<<>>), value)
        BY <4>1, <1>0, FlattenMore
      <4>3. Cat(<<>>, value) = value
        BY <1>0, CatIs
      <4> QED
        BY <3>2, <4>1, <4>2, <4>3, FlattenNone
    <3> QED
      BY <3>1, <3>2
  <2>4. Ogg!Joined(Ogg!One(key, value), key) = Ogg!Distinct(value)
    <3>1. Ogg!Values(Ogg!One(key, value), key) = IF value # Ogg!Empty THEN <<value>> ELSE <<>>
      BY <2>2
    <3> QED
      BY <3>1, <2>3, SameOgg DEF Ogg!Joined
  <2>5. \A other : other # key => Ogg!Values(Ogg!One(key, value), other) = <<>>
    BY <2>2
  <2> HIDE DEF Ogg!Joined
  <2>6. Ogg!One(key, value) \in Seq(Tagged)
    BY <2>2
  <2> QED
    BY <2>1, <2>4, <2>5, <2>6
<1> QED
  BY <1>1, <1>2

-----------------------------------------------------------------------------
\* The field whose edit takes a key away.
Owner(key) ==
    IF key = "TITLE" THEN "title" ELSE IF key = "ALBUM" THEN "album"
    ELSE IF key \in {"DATE", "YEAR"} THEN "date" ELSE IF key = "ISRC" THEN "isrc"
    ELSE IF key = "GENRE" THEN "genre"
    ELSE IF key \in {"ORGANIZATION", "LABEL", "PUBLISHER"} THEN "label"
    ELSE IF key = "COPYRIGHT" THEN "copyright" ELSE IF key = "COMPOSER" THEN "composer"
    ELSE IF key = "COMMENT" THEN "comment" ELSE IF key = "ITUNESADVISORY" THEN "explicit"
    ELSE IF key = "RELEASETYPE" THEN "album_type" ELSE IF key \in {"BARCODE", "UPC"} THEN "upc"
    ELSE IF key = "COMPILATION" THEN "compilation"
    ELSE IF key = "REPLAYGAIN_TRACK_GAIN" THEN "replaygain_track_gain"
    ELSE IF key = "REPLAYGAIN_TRACK_PEAK" THEN "replaygain_track_peak"
    ELSE IF key = "REPLAYGAIN_ALBUM_GAIN" THEN "replaygain_album_gain"
    ELSE IF key = "REPLAYGAIN_ALBUM_PEAK" THEN "replaygain_album_peak"
    ELSE IF key = "ARTIST" THEN "artist"
    ELSE IF key \in {"ALBUMARTIST", "ALBUM-ARTIST", "ALBUM_ARTIST"} THEN "album_artist"
    ELSE IF key \in {"LYRICS", "UNSYNCEDLYRICS", "SYNCEDLYRICS"} THEN "lyrics"
    ELSE IF key \in {"TRACKNUMBER", "TRACK"} THEN "track"
    ELSE IF key \in {"DISCNUMBER", "DISC"} THEN "disc" ELSE "none"

\* The field of each key.
LEMMA OwnerIs ==
  /\ Owner("TITLE") = "title" /\ Owner("ALBUM") = "album" /\ Owner("DATE") = "date"
  /\ Owner("ISRC") = "isrc" /\ Owner("GENRE") = "genre" /\ Owner("ORGANIZATION") = "label"
  /\ Owner("COPYRIGHT") = "copyright" /\ Owner("COMPOSER") = "composer"
  /\ Owner("COMMENT") = "comment" /\ Owner("ITUNESADVISORY") = "explicit"
  /\ Owner("RELEASETYPE") = "album_type" /\ Owner("BARCODE") = "upc"
  /\ Owner("COMPILATION") = "compilation"
  /\ Owner("REPLAYGAIN_TRACK_GAIN") = "replaygain_track_gain"
  /\ Owner("REPLAYGAIN_TRACK_PEAK") = "replaygain_track_peak"
  /\ Owner("REPLAYGAIN_ALBUM_GAIN") = "replaygain_album_gain"
  /\ Owner("REPLAYGAIN_ALBUM_PEAK") = "replaygain_album_peak" /\ Owner("YEAR") = "date"
  /\ Owner("LABEL") = "label" /\ Owner("PUBLISHER") = "label" /\ Owner("UPC") = "upc"
  /\ Owner("ARTIST") = "artist" /\ Owner("ALBUMARTIST") = "album_artist"
  /\ Owner("ALBUM-ARTIST") = "album_artist" /\ Owner("ALBUM_ARTIST") = "album_artist"
  /\ Owner("LYRICS") = "lyrics" /\ Owner("UNSYNCEDLYRICS") = "lyrics"
  /\ Owner("SYNCEDLYRICS") = "lyrics" /\ Owner("TRACKNUMBER") = "track"
  /\ Owner("TRACK") = "track" /\ Owner("DISCNUMBER") = "disc" /\ Owner("DISC") = "disc"
  BY DEF Owner

\* The keys of the fields that have one, as the code lists them.
LEMMA SimpleAre ==
  /\ DOMAIN Ogg!SimpleKeys
          = {"title", "album", "date", "isrc", "genre", "label", "copyright", "composer",
         "comment", "explicit", "album_type", "upc", "compilation", "replaygain_track_gain",
         "replaygain_track_peak", "replaygain_album_gain", "replaygain_album_peak"}
  /\ Ogg!SimpleKeys["title"] = "TITLE" /\ Ogg!SimpleKeys["album"] = "ALBUM"
  /\ Ogg!SimpleKeys["date"] = "DATE" /\ Ogg!SimpleKeys["isrc"] = "ISRC"
  /\ Ogg!SimpleKeys["genre"] = "GENRE" /\ Ogg!SimpleKeys["label"] = "ORGANIZATION"
  /\ Ogg!SimpleKeys["copyright"] = "COPYRIGHT" /\ Ogg!SimpleKeys["composer"] = "COMPOSER"
  /\ Ogg!SimpleKeys["comment"] = "COMMENT" /\ Ogg!SimpleKeys["explicit"] = "ITUNESADVISORY"
  /\ Ogg!SimpleKeys["album_type"] = "RELEASETYPE" /\ Ogg!SimpleKeys["upc"] = "BARCODE"
  /\ Ogg!SimpleKeys["compilation"] = "COMPILATION"
  /\ Ogg!SimpleKeys["replaygain_track_gain"] = "REPLAYGAIN_TRACK_GAIN"
  /\ Ogg!SimpleKeys["replaygain_track_peak"] = "REPLAYGAIN_TRACK_PEAK"
  /\ Ogg!SimpleKeys["replaygain_album_gain"] = "REPLAYGAIN_ALBUM_GAIN"
  /\ Ogg!SimpleKeys["replaygain_album_peak"] = "REPLAYGAIN_ALBUM_PEAK"
  BY DEF Ogg!SimpleKeys

\* Each of them belongs to its field.
LEMMA SimpleOwned ==
  \A k \in DOMAIN Ogg!SimpleKeys : Owner(Ogg!SimpleKeys[k]) = k /\ Ogg!SimpleKeys[k] \in Word
<1>1. \A k \in DOMAIN Ogg!SimpleKeys : Owner(Ogg!SimpleKeys[k]) = k
  BY SimpleAre, OwnerIs
<1>2. \A k \in DOMAIN Ogg!SimpleKeys : Ogg!SimpleKeys[k] \in Word
  BY SimpleAre DEF Word
<1> QED
  BY <1>1, <1>2

\* So do the keys of the credits,
LEMMA CreditsOwned ==
  /\ DOMAIN Ogg!Credits = {"artist", "album_artist"}
  /\ Ogg!Credits["artist"] = "ARTIST" /\ Ogg!Credits["album_artist"] = "ALBUMARTIST"
  /\ \A k \in DOMAIN Ogg!Credits : Owner(Ogg!Credits[k]) = k /\ Ogg!Credits[k] \in Word
<1>1. /\ DOMAIN Ogg!Credits = {"artist", "album_artist"}
      /\ Ogg!Credits["artist"] = "ARTIST" /\ Ogg!Credits["album_artist"] = "ALBUMARTIST"
  BY DEF Ogg!Credits
<1> QED
  BY <1>1, OwnerIs DEF Word

\* the keys that give way,
LEMMA AliasesOwned ==
  /\ DOMAIN Ogg!Aliases = {"label", "date", "lyrics", "album_artist"}
  /\ Ogg!Aliases["label"] = {"LABEL", "PUBLISHER"} /\ Ogg!Aliases["date"] = {"YEAR"}
  /\ Ogg!Aliases["lyrics"] = {"SYNCEDLYRICS"}
  /\ Ogg!Aliases["album_artist"] = {"ALBUM-ARTIST", "ALBUM_ARTIST"}
  /\ \A k \in DOMAIN Ogg!Aliases : \A key \in Ogg!Aliases[k] : Owner(key) = k
<1>1. /\ DOMAIN Ogg!Aliases = {"label", "date", "lyrics", "album_artist"}
      /\ Ogg!Aliases["label"] = {"LABEL", "PUBLISHER"} /\ Ogg!Aliases["date"] = {"YEAR"}
      /\ Ogg!Aliases["lyrics"] = {"SYNCEDLYRICS"}
      /\ Ogg!Aliases["album_artist"] = {"ALBUM-ARTIST", "ALBUM_ARTIST"}
  BY DEF Ogg!Aliases
<1> QED
  BY <1>1, OwnerIs

\* and those of the lyrics.
LEMMA LyricsOwned == \A key \in Ogg!Lyrics : Owner(key) = "lyrics" /\ key \in Word
  BY OwnerIs DEF Ogg!Lyrics, Word

\* An index has two keys, which belong to it.
LEMMA IndexesAre ==
  /\ DOMAIN Ogg!Indexes = {"track", "disc"}
  /\ \A x \in DOMAIN Ogg!Indexes :
       /\ Ogg!Range(Ogg!Indexes[x].keys) = {Ogg!Indexes[x].keys[1], Ogg!Indexes[x].keys[2]}
       /\ Ogg!Indexes[x].keys[1] \in Word /\ Ogg!Indexes[x].keys[1] # Ogg!Indexes[x].keys[2]
       /\ Owner(Ogg!Indexes[x].keys[1]) = x /\ Owner(Ogg!Indexes[x].keys[2]) = x
<1>1. DOMAIN Ogg!Indexes = {"track", "disc"}
  BY DEF Ogg!Indexes
<1>2. /\ Ogg!Indexes["track"].keys = <<"TRACKNUMBER", "TRACK">>
      /\ Ogg!Indexes["disc"].keys = <<"DISCNUMBER", "DISC">>
  BY DEF Ogg!Indexes
<1>3. \A a, b : Ogg!Range(<<a, b>>) = {a, b} /\ <<a, b>>[1] = a /\ <<a, b>>[2] = b
  BY DEF Ogg!Range
<1>5. "TRACKNUMBER" \in Word /\ "DISCNUMBER" \in Word
  BY DEF Word
<1>6. \A x \in DOMAIN Ogg!Indexes :
        \E a, b :
               Ogg!Indexes[x].keys = <<a, b>> /\ a # b /\ a \in Word /\ Owner(a) = x /\ Owner(b) = x
  BY <1>1, <1>2, <1>5, OwnerIs
<1> QED
  BY <1>1, <1>3, <1>6

\* The fields are finitely many.
LEMMA FieldsFinite ==
  /\ IsFiniteSet(DOMAIN Ogg!SimpleKeys) /\ IsFiniteSet(DOMAIN Ogg!Credits)
  /\ IsFiniteSet(DOMAIN Ogg!Indexes) /\ IsFiniteSet(Ogg!Lyrics)
<1>1. ASSUME NEW a, NEW b PROVE IsFiniteSet({a, b})
  <2>1. {a, b} = {a} \cup {b}
    OBVIOUS
  <2>2. IsFiniteSet({a}) /\ IsFiniteSet({b})
    BY FS_Singleton
  <2>3. IsFiniteSet({a} \cup {b})
    BY <2>2, FS_Union
  <2> QED
    BY <2>1, <2>3
<1>2. ASSUME NEW a, NEW b, NEW c, NEW d PROVE IsFiniteSet({a, b, c, d})
  <2>1. {a, b, c, d} = {a, b} \cup {c, d}
    OBVIOUS
  <2>2. IsFiniteSet({a, b}) /\ IsFiniteSet({c, d})
    BY <1>1
  <2>3. IsFiniteSet({a, b} \cup {c, d})
    BY <2>2, FS_Union
  <2> QED
    BY <2>1, <2>3
<1>3. IsFiniteSet(DOMAIN Ogg!SimpleKeys)
  <2> DEFINE A == {"title", "album", "date", "isrc"}
             B == {"genre", "label", "copyright", "composer"}
             C == {"comment", "explicit", "album_type", "upc"}
             D == {"compilation", "replaygain_track_gain"}
             E == {"replaygain_track_peak", "replaygain_album_gain"}
             F == {"replaygain_album_peak", "replaygain_album_gain"}
  <2>1. DOMAIN Ogg!SimpleKeys = (A \cup B) \cup (C \cup D) \cup (E \cup F)
    BY SimpleAre
  <2>2. IsFiniteSet(A) /\ IsFiniteSet(B) /\ IsFiniteSet(C)
    BY <1>2
  <2>3. IsFiniteSet(D) /\ IsFiniteSet(E) /\ IsFiniteSet(F)
    BY <1>1
  <2> HIDE DEF A, B, C, D, E, F
  <2>4. IsFiniteSet(A \cup B) /\ IsFiniteSet(C \cup D) /\ IsFiniteSet(E \cup F)
    BY <2>2, <2>3, FS_Union
  <2>5. IsFiniteSet((A \cup B) \cup (C \cup D))
    BY <2>4, FS_Union
  <2> QED
    BY <2>1, <2>4, <2>5, FS_Union
<1>4. DOMAIN Ogg!Credits = {"artist", "album_artist"} /\ Ogg!Lyrics = {"LYRICS", "UNSYNCEDLYRICS"}
  BY DEF Ogg!Credits, Ogg!Lyrics
<1>5. DOMAIN Ogg!Indexes = {"track", "disc"}
  BY DEF Ogg!Indexes
<1> QED
  BY <1>1, <1>3, <1>4, <1>5

-----------------------------------------------------------------------------
\* The comments of some fields, each under a key of its own.
LEMMA EachAt ==
  ASSUME NEW S, IsFiniteSet(S), NEW of \in Pickers(S, Tagged), NEW at \in Maps(S, Word),
         \A k, l \in S : at[k] = at[l] => k = l,
         \A k \in S : \A key : key # at[k] => Ogg!Values(of[k], key) = <<>>
  PROVE  /\ Ogg!Each(of) \in Seq(Tagged)
         /\ \A key : (\A k \in S : at[k] # key) => Ogg!Values(Ogg!Each(of), key) = <<>>
         /\ \A k \in S : Ogg!Values(Ogg!Each(of), at[k]) = Ogg!Values(of[k], at[k])
<1>1. of \in [S -> Seq(Tagged)]
  BY DEF Pickers, Maps
<1>2. /\ Ogg!Each(of) \in Seq(Tagged)
      /\ \A key : (\A k \in S : Ogg!Values(of[k], key) = <<>>)
              => Ogg!Values(Ogg!Each(of), key) = <<>>
      /\ \A key : \A k \in S : (\A l \in S \ {k} : Ogg!Values(of[l], key) = <<>>)
                                  => Ogg!Values(Ogg!Each(of), key) = Ogg!Values(of[k], key)
  BY <1>1, EachIs
<1>3. ASSUME NEW k \in S
      PROVE  Ogg!Values(Ogg!Each(of), at[k]) = Ogg!Values(of[k], at[k])
  BY <1>2
<1>4. ASSUME NEW key, \A k \in S : at[k] # key
      PROVE  Ogg!Values(Ogg!Each(of), key) = <<>>
  BY <1>2, <1>4
<1> QED
  BY <1>2, <1>3, <1>4

\* What is kept under a key for some value.
Kept(value) == IF value = Ogg!Empty THEN <<>> ELSE <<value>>

\* The four parts of what is put.
PutSimple(fields) ==
    Ogg!Each([k \in DOMAIN fields \cap DOMAIN Ogg!SimpleKeys |->
                 Ogg!One(Ogg!SimpleKeys[k], fields[k])])
PutCredits(fields, split) ==
    Ogg!Each([k \in DOMAIN fields \cap DOMAIN Ogg!Credits |->
                 Ogg!Credit(Ogg!Credits[k], fields[k], split)])
PutIndexes(counts) ==
    Ogg!Each([x \in DOMAIN counts |-> Ogg!One(Ogg!Indexes[x].keys[1], counts[x])])
PutLyrics(fields) ==
    Ogg!Each([key \in IF "lyrics" \in DOMAIN fields THEN Ogg!Lyrics ELSE {} |->
                 Ogg!One(key, fields["lyrics"])])

\* The comments of the fields that have one key: each is found under it.
LEMMA SimplePut ==
  ASSUME NEW D, NEW fields \in Maps(D, Words)
  PROVE  /\ PutSimple(fields) \in Seq(Tagged)
         /\ \A key : (\A k \in D \cap DOMAIN Ogg!SimpleKeys : Ogg!SimpleKeys[k] # key)
                       => Ogg!Values(PutSimple(fields), key) = <<>>
         /\ \A k \in D \cap DOMAIN Ogg!SimpleKeys :
              Ogg!Values(PutSimple(fields), Ogg!SimpleKeys[k]) = Kept(fields[k])
<1> DEFINE S == D \cap DOMAIN Ogg!SimpleKeys
           of == [k \in S |-> Ogg!One(Ogg!SimpleKeys[k], fields[k])]
           at == [k \in S |-> Ogg!SimpleKeys[k]]
<1>1. DOMAIN fields = D /\ \A k \in D : fields[k] \in Words
  BY DEF Maps
<1>2. IsFiniteSet(S)
  BY FieldsFinite, FS_Subset
<1>3. \A k \in S : Ogg!SimpleKeys[k] \in Word /\ Owner(Ogg!SimpleKeys[k]) = k
  BY SimpleOwned
<1>4. PutSimple(fields) = Ogg!Each(of)
  BY <1>1 DEF PutSimple
<1>5. \A k \in S : of[k] = Ogg!One(Ogg!SimpleKeys[k], fields[k]) /\ at[k] = Ogg!SimpleKeys[k]
  OBVIOUS
<1>6. ASSUME NEW k \in S
      PROVE  /\ Ogg!One(Ogg!SimpleKeys[k], fields[k]) \in Seq(Tagged)
             /\ \A other : Ogg!Values(Ogg!One(Ogg!SimpleKeys[k], fields[k]), other)
                                 = IF other = Ogg!SimpleKeys[k]
                                      /\ fields[k] # Ogg!Empty THEN <<fields[k]>>
                                   ELSE <<>>
  BY <1>1, <1>3, OneIs
<1>7. of \in Pickers(S, Tagged) /\ at \in Maps(S, Word)
  BY <1>3, <1>6 DEF Pickers, Maps
<1> HIDE DEF of, at, S
<1>8. \A k, l \in S : at[k] = at[l] => k = l
  BY <1>3, <1>5
<1>9. \A k \in S : \A key : key # at[k] => Ogg!Values(of[k], key) = <<>>
  BY <1>5, <1>6
<1>10. /\ Ogg!Each(of) \in Seq(Tagged)
       /\ \A key : (\A k \in S : at[k] # key) => Ogg!Values(Ogg!Each(of), key) = <<>>
       /\ \A k \in S : Ogg!Values(Ogg!Each(of), at[k]) = Ogg!Values(of[k], at[k])
  BY <1>2, <1>7, <1>8, <1>9, EachAt
<1>11. ASSUME NEW k \in S
       PROVE  Ogg!Values(Ogg!Each(of), Ogg!SimpleKeys[k]) = Kept(fields[k])
  <2>1. Ogg!Values(Ogg!Each(of), Ogg!SimpleKeys[k])
             = Ogg!Values(Ogg!One(Ogg!SimpleKeys[k], fields[k]), Ogg!SimpleKeys[k])
    BY <1>5, <1>10
  <2> QED
    BY <2>1, <1>6 DEF Kept
<1> QED
  BY <1>4, <1>5, <1>10, <1>11 DEF S

\* Those of the credits.
LEMMA CreditsPut ==
  ASSUME NEW D, NEW fields \in Maps(D, Words), NEW split
  PROVE  /\ PutCredits(fields, split) \in Seq(Tagged)
         /\ \A key : (\A k \in D \cap DOMAIN Ogg!Credits : Ogg!Credits[k] # key)
                       => Ogg!Values(PutCredits(fields, split), key) = <<>>
         /\ \A k \in D \cap DOMAIN Ogg!Credits :
              Ogg!Joined(PutCredits(fields, split), Ogg!Credits[k]) = Ogg!Distinct(fields[k])
<1> DEFINE S == D \cap DOMAIN Ogg!Credits
           of == [k \in S |-> Ogg!Credit(Ogg!Credits[k], fields[k], split)]
           at == [k \in S |-> Ogg!Credits[k]]
<1>1. DOMAIN fields = D /\ \A k \in D : fields[k] \in Words
  BY DEF Maps
<1>2. IsFiniteSet(S)
  BY FieldsFinite, FS_Subset
<1>3. \A k \in S : Ogg!Credits[k] \in Word /\ Owner(Ogg!Credits[k]) = k
  BY CreditsOwned
<1>4. PutCredits(fields, split) = Ogg!Each(of)
  BY <1>1 DEF PutCredits
<1>5. \A k \in S : of[k] = Ogg!Credit(Ogg!Credits[k], fields[k], split) /\ at[k] = Ogg!Credits[k]
  OBVIOUS
<1>6. ASSUME NEW k \in S
      PROVE  /\ Ogg!Credit(Ogg!Credits[k], fields[k], split) \in Seq(Tagged)
             /\ Ogg!Joined(Ogg!Credit(Ogg!Credits[k], fields[k], split), Ogg!Credits[k])
                     = Ogg!Distinct(fields[k])
             /\ \A other : other # Ogg!Credits[k]
                             => Ogg!Values(Ogg!Credit(Ogg!Credits[k], fields[k], split), other)
                                  = <<>>
  BY <1>1, <1>3, CreditIs
<1>7. of \in Pickers(S, Tagged) /\ at \in Maps(S, Word)
  BY <1>3, <1>6 DEF Pickers, Maps
<1> HIDE DEF of, at, S
<1>8. \A k, l \in S : at[k] = at[l] => k = l
  BY <1>3, <1>5
<1>9. \A k \in S : \A key : key # at[k] => Ogg!Values(of[k], key) = <<>>
  BY <1>5, <1>6
<1>10. /\ Ogg!Each(of) \in Seq(Tagged)
       /\ \A key : (\A k \in S : at[k] # key) => Ogg!Values(Ogg!Each(of), key) = <<>>
       /\ \A k \in S : Ogg!Values(Ogg!Each(of), at[k]) = Ogg!Values(of[k], at[k])
  BY <1>2, <1>7, <1>8, <1>9, EachAt
<1>11. ASSUME NEW k \in S
       PROVE  Ogg!Joined(Ogg!Each(of), Ogg!Credits[k]) = Ogg!Distinct(fields[k])
  <2>1. Ogg!Values(Ogg!Each(of), Ogg!Credits[k])
             = Ogg!Values(Ogg!Credit(Ogg!Credits[k], fields[k], split), Ogg!Credits[k])
    BY <1>5, <1>10
  <2>2. Ogg!Joined(Ogg!Each(of), Ogg!Credits[k])
             = Ogg!Joined(Ogg!Credit(Ogg!Credits[k], fields[k], split), Ogg!Credits[k])
    BY <2>1 DEF Ogg!Joined
  <2> QED
    BY <2>2, <1>6
<1> QED
  BY <1>4, <1>5, <1>10, <1>11 DEF S

\* Those of the numbers.
LEMMA IndexesPut ==
  ASSUME NEW X \in SUBSET DOMAIN Ogg!Indexes, NEW counts \in Maps(X, Words)
  PROVE  /\ PutIndexes(counts) \in Seq(Tagged)
         /\ \A key : (\A x \in X : Ogg!Indexes[x].keys[1] # key)
                       => Ogg!Values(PutIndexes(counts), key) = <<>>
         /\ \A x \in X : Ogg!Values(PutIndexes(counts), Ogg!Indexes[x].keys[1]) = Kept(counts[x])
<1> DEFINE of == [x \in X |-> Ogg!One(Ogg!Indexes[x].keys[1], counts[x])]
           at == [x \in X |-> Ogg!Indexes[x].keys[1]]
<1>1. DOMAIN counts = X /\ \A k \in X : counts[k] \in Words
  BY DEF Maps
<1>2. IsFiniteSet(X)
  BY FieldsFinite, FS_Subset
<1>3. \A x \in X : Ogg!Indexes[x].keys[1] \in Word /\ Owner(Ogg!Indexes[x].keys[1]) = x
  BY IndexesAre
<1>4. PutIndexes(counts) = Ogg!Each(of)
  BY <1>1 DEF PutIndexes
<1>5. \A x \in X :
             of[x] = Ogg!One(Ogg!Indexes[x].keys[1], counts[x]) /\ at[x] = Ogg!Indexes[x].keys[1]
  OBVIOUS
<1>6. ASSUME NEW k \in X
      PROVE  /\ Ogg!One(Ogg!Indexes[k].keys[1], counts[k]) \in Seq(Tagged)
             /\ \A other : Ogg!Values(Ogg!One(Ogg!Indexes[k].keys[1], counts[k]), other)
                                 = IF other = Ogg!Indexes[k].keys[1] /\ counts[k] # Ogg!Empty
                                   THEN <<counts[k]>> ELSE <<>>
  BY <1>1, <1>3, OneIs
<1>7. of \in Pickers(X, Tagged) /\ at \in Maps(X, Word)
  BY <1>3, <1>6 DEF Pickers, Maps
<1> HIDE DEF of, at
<1>8. \A k, l \in X : at[k] = at[l] => k = l
  BY <1>3, <1>5
<1>9. \A k \in X : \A key : key # at[k] => Ogg!Values(of[k], key) = <<>>
  <2> SUFFICES ASSUME NEW k \in X, NEW key, key # at[k]
               PROVE  Ogg!Values(of[k], key) = <<>>
    OBVIOUS
  <2>1. of[k] = Ogg!One(Ogg!Indexes[k].keys[1], counts[k]) /\ key # Ogg!Indexes[k].keys[1]
    BY <1>5
  <2> QED
    BY <2>1, <1>6
<1>10. /\ Ogg!Each(of) \in Seq(Tagged)
       /\ \A key : (\A k \in X : at[k] # key) => Ogg!Values(Ogg!Each(of), key) = <<>>
       /\ \A k \in X : Ogg!Values(Ogg!Each(of), at[k]) = Ogg!Values(of[k], at[k])
  BY <1>2, <1>7, <1>8, <1>9, EachAt
<1>11. ASSUME NEW k \in X
       PROVE  Ogg!Values(Ogg!Each(of), Ogg!Indexes[k].keys[1]) = Kept(counts[k])
  <2>1. Ogg!Values(Ogg!Each(of), Ogg!Indexes[k].keys[1])
              = Ogg!Values(Ogg!One(Ogg!Indexes[k].keys[1], counts[k]), Ogg!Indexes[k].keys[1])
    BY <1>5, <1>10
  <2> QED
    BY <2>1, <1>6 DEF Kept
<1> QED
  BY <1>4, <1>5, <1>10, <1>11

\* The lyrics are put under two keys.
LEMMA LyricsPut ==
  ASSUME NEW D, NEW fields \in Maps(D, Words)
  PROVE  /\ PutLyrics(fields) \in Seq(Tagged)
         /\ \A key : ~("lyrics" \in D /\ key \in Ogg!Lyrics)
                 => Ogg!Values(PutLyrics(fields), key) = <<>>
         /\ "lyrics" \in D => \A key \in Ogg!Lyrics : Ogg!Values(PutLyrics(fields), key)
                                                            = Kept(fields["lyrics"])
<1> DEFINE S == IF "lyrics" \in D THEN Ogg!Lyrics ELSE {}
           of == [key \in S |-> Ogg!One(key, fields["lyrics"])]
           at == [key \in S |-> key]
<1>1. DOMAIN fields = D /\ \A k \in D : fields[k] \in Words
  BY DEF Maps
<1>2. IsFiniteSet(S)
  BY FieldsFinite, FS_EmptySet
<1>3. \A key \in S : key \in Word /\ key \in Ogg!Lyrics /\ "lyrics" \in D
  BY LyricsOwned
<1>4. PutLyrics(fields) = Ogg!Each(of)
  BY <1>1 DEF PutLyrics
<1>5. \A key \in S : of[key] = Ogg!One(key, fields["lyrics"]) /\ at[key] = key
  OBVIOUS
<1>6. ASSUME NEW k \in S
      PROVE  /\ Ogg!One(k, fields["lyrics"]) \in Seq(Tagged)
             /\ \A other : Ogg!Values(Ogg!One(k, fields["lyrics"]), other)
                                 = IF other = k /\ fields["lyrics"] # Ogg!Empty
                                   THEN <<fields["lyrics"]>> ELSE <<>>
  BY <1>1, <1>3, OneIs
<1>7. of \in Pickers(S, Tagged) /\ at \in Maps(S, Word)
  BY <1>3, <1>6 DEF Pickers, Maps
<1>a. \A key : key \in S <=> "lyrics" \in D /\ key \in Ogg!Lyrics
  OBVIOUS
<1> HIDE DEF of, at, S
<1>8. \A k, l \in S : at[k] = at[l] => k = l
  BY <1>3, <1>5
<1>9. \A k \in S : \A key : key # at[k] => Ogg!Values(of[k], key) = <<>>
  BY <1>5, <1>6
<1>10. /\ Ogg!Each(of) \in Seq(Tagged)
       /\ \A key : (\A k \in S : at[k] # key) => Ogg!Values(Ogg!Each(of), key) = <<>>
       /\ \A k \in S : Ogg!Values(Ogg!Each(of), at[k]) = Ogg!Values(of[k], at[k])
  BY <1>2, <1>7, <1>8, <1>9, EachAt
<1>11. ASSUME NEW k \in S
       PROVE  Ogg!Values(Ogg!Each(of), k) = Kept(fields["lyrics"])
  <2>1. Ogg!Values(Ogg!Each(of), k) = Ogg!Values(Ogg!One(k, fields["lyrics"]), k)
    BY <1>5, <1>10
  <2> QED
    BY <2>1, <1>6 DEF Kept
<1>12. \A key : key \notin S => Ogg!Values(Ogg!Each(of), key) = <<>>
  BY <1>5, <1>10
<1> QED
  BY <1>4, <1>a, <1>10, <1>11, <1>12

\* The keys that something is put under.
Primary ==
    {Ogg!SimpleKeys[k] : k \in DOMAIN Ogg!SimpleKeys}
    \cup {Ogg!Credits[k] : k \in DOMAIN Ogg!Credits}
    \cup {Ogg!Indexes[x].keys[1] : x \in DOMAIN Ogg!Indexes} \cup Ogg!Lyrics

\* The values under a key, of four lists.
LEMMA CatFour ==
  ASSUME NEW key, NEW a \in Seq(Tagged), NEW b \in Seq(Tagged), NEW c \in Seq(Tagged),
         NEW d \in Seq(Tagged)
  PROVE  /\ Cat(Cat(Cat(a, b), c), d) \in Seq(Tagged)
         /\ Ogg!Values(Cat(Cat(Cat(a, b), c), d), key)
                  = Cat(Cat(Cat(Ogg!Values(a, key), Ogg!Values(b, key)), Ogg!Values(c, key)),
                       Ogg!Values(d, key))
<1>1. Cat(a, b) \in Seq(Tagged)
           /\ Ogg!Values(Cat(a, b), key) = Cat(Ogg!Values(a, key), Ogg!Values(b, key))
  <2>1. Cat(a, b) \in Seq(Tagged)
    BY CatIs
  <2>2. Ogg!Values(Cat(a, b), key) = Cat(Ogg!Values(a, key), Ogg!Values(b, key))
    BY ValuesCat
  <2> QED
    BY <2>1, <2>2
<1> DEFINE ab == Cat(a, b)
           abc == Cat(ab, c)
<1> HIDE DEF ab
<1>2. ab \in Seq(Tagged) /\ Ogg!Values(ab, key) = Cat(Ogg!Values(a, key), Ogg!Values(b, key))
  BY <1>1 DEF ab
<1>3. abc \in Seq(Tagged) /\ Ogg!Values(abc, key) = Cat(Ogg!Values(ab, key), Ogg!Values(c, key))
  BY <1>2, CatIs, ValuesCat
<1> HIDE DEF abc
<1>4. Cat(abc, d) \in Seq(Tagged)
           /\ Ogg!Values(Cat(abc, d), key) = Cat(Ogg!Values(abc, key), Ogg!Values(d, key))
  BY <1>3, CatIs, ValuesCat
<1>5. Ogg!Values(Cat(abc, d), key)
            = Cat(Cat(Cat(Ogg!Values(a, key), Ogg!Values(b, key)), Ogg!Values(c, key)),
                 Ogg!Values(d, key))
  BY ONLY <1>2, <1>3, <1>4
<1> QED
  BY <1>4, <1>5 DEF abc, ab

\* What fields and indexes are kept as, together: each is found under its own
\* keys, and nothing under any other.
LEMMA PutIs ==
  ASSUME NEW D, NEW fields \in Maps(D, Words), NEW X \in SUBSET DOMAIN Ogg!Indexes,
         NEW counts \in Maps(X, Words), NEW split
  PROVE  /\ Ogg!Put(fields, counts, split) \in Seq(Tagged)
         /\ \A k \in D \cap DOMAIN Ogg!SimpleKeys :
              Ogg!Values(Ogg!Put(fields, counts, split), Ogg!SimpleKeys[k]) = Kept(fields[k])
         /\ \A k \in D \cap DOMAIN Ogg!Credits :
              Ogg!Joined(Ogg!Put(fields, counts, split), Ogg!Credits[k]) = Ogg!Distinct(fields[k])
         /\ \A x \in X : Ogg!Values(Ogg!Put(fields, counts, split), Ogg!Indexes[x].keys[1])
                 = Kept(counts[x])
         /\ "lyrics" \in D => \A key \in Ogg!Lyrics :
                   Ogg!Values(Ogg!Put(fields, counts, split), key)
                                                            = Kept(fields["lyrics"])
         /\ \A key : Ogg!Values(Ogg!Put(fields, counts, split), key) # <<>>
                           => key \in Primary /\ Owner(key) \in (D \ DOMAIN Ogg!Indexes) \cup X
<1> DEFINE a == PutSimple(fields)
           b == PutCredits(fields, split)
           c == PutIndexes(counts)
           d == PutLyrics(fields)
           put == Ogg!Put(fields, counts, split)
<1>1. put = Cat(Cat(Cat(a, b), c), d)
  BY DEF Ogg!Put, Cat, PutSimple, PutCredits, PutIndexes, PutLyrics
<1>2. /\ a \in Seq(Tagged)
      /\ \A key : (\A k \in D \cap DOMAIN Ogg!SimpleKeys : Ogg!SimpleKeys[k] # key)
              => Ogg!Values(a, key) = <<>>
      /\ \A k \in D \cap DOMAIN Ogg!SimpleKeys : Ogg!Values(a, Ogg!SimpleKeys[k]) = Kept(fields[k])
  BY SimplePut
<1>3. /\ b \in Seq(Tagged)
      /\ \A key : (\A k \in D \cap DOMAIN Ogg!Credits : Ogg!Credits[k] # key)
              => Ogg!Values(b, key) = <<>>
      /\ \A k \in D \cap DOMAIN Ogg!Credits :
                Ogg!Joined(b, Ogg!Credits[k]) = Ogg!Distinct(fields[k])
  BY CreditsPut
<1>4. /\ c \in Seq(Tagged)
      /\ \A key : (\A x \in X : Ogg!Indexes[x].keys[1] # key) => Ogg!Values(c, key) = <<>>
      /\ \A x \in X : Ogg!Values(c, Ogg!Indexes[x].keys[1]) = Kept(counts[x])
  BY IndexesPut
<1>5. /\ d \in Seq(Tagged)
      /\ \A key : ~("lyrics" \in D /\ key \in Ogg!Lyrics) => Ogg!Values(d, key) = <<>>
      /\ "lyrics" \in D => \A key \in Ogg!Lyrics : Ogg!Values(d, key) = Kept(fields["lyrics"])
  BY LyricsPut
<1> HIDE DEF a, b, c, d, put
<1>6. put \in Seq(Tagged)
  BY <1>1, <1>2, <1>3, <1>4, <1>5, CatFour
<1>7. ASSUME NEW key
      PROVE  /\ Ogg!Values(put, key)
                     = Cat(Cat(Cat(Ogg!Values(a, key), Ogg!Values(b, key)), Ogg!Values(c, key)),
                                           Ogg!Values(d, key))
             /\ Ogg!Values(a, key) \in Seq(Words) /\ Ogg!Values(b, key) \in Seq(Words)
             /\ Ogg!Values(c, key) \in Seq(Words) /\ Ogg!Values(d, key) \in Seq(Words)
  <2>1. Ogg!Values(put, key)
             = Cat(Cat(Cat(Ogg!Values(a, key), Ogg!Values(b, key)), Ogg!Values(c, key)),
                                   Ogg!Values(d, key))
    BY <1>1, <1>2, <1>3, <1>4, <1>5, CatFour
  <2>2. Ogg!Values(a, key) \in Seq(Words) /\ Ogg!Values(b, key) \in Seq(Words)
    BY <1>2, <1>3, ValuesMore
  <2>3. Ogg!Values(c, key) \in Seq(Words) /\ Ogg!Values(d, key) \in Seq(Words)
    BY <1>4, <1>5, ValuesMore
  <2> QED
    BY <2>1, <2>2, <2>3
<1>8. \A s \in Seq(Words) : Cat(<<>>, s) = s /\ Cat(s, <<>>) = s
  BY CatIs
<1>8a. <<>> \in Seq(Words) /\ Cat(<<>>, <<>>) = <<>>
  BY CatIs
<1>9. ASSUME NEW key
      PROVE  /\ Ogg!Values(a, key) # <<>> => \E k \in D \cap DOMAIN Ogg!SimpleKeys :
                       key = Ogg!SimpleKeys[k]
             /\ Ogg!Values(b, key) # <<>> => \E k \in D \cap DOMAIN Ogg!Credits :
                       key = Ogg!Credits[k]
             /\ Ogg!Values(c, key) # <<>> => \E x \in X : key = Ogg!Indexes[x].keys[1]
             /\ Ogg!Values(d, key) # <<>> => "lyrics" \in D /\ key \in Ogg!Lyrics
  BY <1>2, <1>3, <1>4, <1>5
<1>10. ASSUME NEW key
       PROVE  /\ Ogg!Values(a, key) # <<>>
                      => Owner(key) \in D \cap DOMAIN Ogg!SimpleKeys /\ key \in Primary
              /\ Ogg!Values(b, key) # <<>>
                      => Owner(key) \in D \cap DOMAIN Ogg!Credits /\ key \in Primary
              /\ Ogg!Values(c, key) # <<>> => Owner(key) \in X /\ key \in Primary
              /\ Ogg!Values(d, key) # <<>> => Owner(key) \in D \cap {"lyrics"} /\ key \in Primary
  <2>1. Ogg!Values(a, key) # <<>> => Owner(key) \in D \cap DOMAIN Ogg!SimpleKeys /\ key \in Primary
    BY <1>9, SimpleOwned DEF Primary
  <2>2. Ogg!Values(b, key) # <<>> => Owner(key) \in D \cap DOMAIN Ogg!Credits /\ key \in Primary
    BY <1>9, CreditsOwned DEF Primary
  <2>3. Ogg!Values(c, key) # <<>> => Owner(key) \in X /\ key \in Primary
    BY <1>9, IndexesAre DEF Primary
  <2>4. Ogg!Values(d, key) # <<>> => Owner(key) \in D \cap {"lyrics"} /\ key \in Primary
    BY <1>9, LyricsOwned DEF Primary
  <2> QED
    BY <2>1, <2>2, <2>3, <2>4
<1>11. /\ DOMAIN Ogg!SimpleKeys \cap DOMAIN Ogg!Credits = {}
               /\ "lyrics" \notin DOMAIN Ogg!SimpleKeys
       /\ "lyrics" \notin DOMAIN Ogg!Credits /\ "lyrics" \notin DOMAIN Ogg!Indexes
       /\ DOMAIN Ogg!SimpleKeys \cap DOMAIN Ogg!Indexes = {}
               /\ DOMAIN Ogg!Credits \cap DOMAIN Ogg!Indexes = {}
  BY SimpleAre, CreditsOwned, IndexesAre
<1>12. ASSUME NEW k \in D \cap DOMAIN Ogg!SimpleKeys
       PROVE  Ogg!Values(put, Ogg!SimpleKeys[k]) = Kept(fields[k])
  <2> DEFINE key == Ogg!SimpleKeys[k]
  <2>1. Owner(key) = k
    BY SimpleOwned
  <2>2. Ogg!Values(b, key) = <<>> /\ Ogg!Values(c, key) = <<>> /\ Ogg!Values(d, key) = <<>>
    BY <1>10, <1>11, <2>1
  <2> HIDE DEF key
  <2>3. Ogg!Values(put, key) = Ogg!Values(a, key)
    BY <1>7, <1>8, <2>2
  <2> QED
    BY <1>2, <2>3 DEF key
<1>13. ASSUME NEW k \in D \cap DOMAIN Ogg!Credits
       PROVE  Ogg!Joined(put, Ogg!Credits[k]) = Ogg!Distinct(fields[k])
  <2> DEFINE key == Ogg!Credits[k]
  <2>1. Owner(key) = k
    BY CreditsOwned
  <2>2. Ogg!Values(a, key) = <<>> /\ Ogg!Values(c, key) = <<>> /\ Ogg!Values(d, key) = <<>>
    BY <1>10, <1>11, <2>1
  <2> HIDE DEF key
  <2>3. Ogg!Values(put, key) = Ogg!Values(b, key)
    BY <1>7, <1>8, <2>2
  <2>4. Ogg!Joined(put, key) = Ogg!Joined(b, key)
    BY <2>3 DEF Ogg!Joined
  <2> QED
    BY <1>3, <2>4 DEF key
<1>14. ASSUME NEW x \in X
       PROVE  Ogg!Values(put, Ogg!Indexes[x].keys[1]) = Kept(counts[x])
  <2> DEFINE key == Ogg!Indexes[x].keys[1]
  <2>1. Owner(key) = x
    BY IndexesAre
  <2>2. Ogg!Values(a, key) = <<>> /\ Ogg!Values(b, key) = <<>> /\ Ogg!Values(d, key) = <<>>
    BY <1>10, <1>11, <2>1
  <2> HIDE DEF key
  <2>3. Ogg!Values(put, key) = Ogg!Values(c, key)
    BY <1>7, <1>8, <1>8a, <2>2
  <2> QED
    BY <1>4, <2>3 DEF key
<1>15. ASSUME "lyrics" \in D, NEW key \in Ogg!Lyrics
       PROVE  Ogg!Values(put, key) = Kept(fields["lyrics"])
  <2>1. Owner(key) = "lyrics"
    BY LyricsOwned
  <2>2. Ogg!Values(a, key) = <<>> /\ Ogg!Values(b, key) = <<>> /\ Ogg!Values(c, key) = <<>>
    BY <1>10, <1>11, <2>1
  <2>3. Ogg!Values(put, key) = Ogg!Values(d, key)
    BY <1>7, <1>8, <1>8a, <2>2
  <2> QED
    BY <1>5, <1>15, <2>3
<1>16. ASSUME NEW key, Ogg!Values(put, key) # <<>>
       PROVE  key \in Primary /\ Owner(key) \in (D \ DOMAIN Ogg!Indexes) \cup X
  <2>1. ~(/\ Ogg!Values(a, key) = <<>> /\ Ogg!Values(b, key) = <<>> /\ Ogg!Values(c, key) = <<>>
          /\ Ogg!Values(d, key) = <<>>)
    BY <1>7, <1>8a, <1>16
  <2> QED
    BY <2>1, <1>10, <1>11
<1> QED
  BY <1>6, <1>12, <1>13, <1>14, <1>15, <1>16 DEF put

-----------------------------------------------------------------------------
\* Comments that keep what is outside some keys, with others added.
Written(comments, keys, put) == Ogg!Without(comments, keys) \o put

\* Under the keys that are taken away is what is added, under others what was.
LEMMA WrittenIs ==
  ASSUME NEW comments \in Seq(Tagged), NEW keys, NEW put \in Seq(Tagged)
  PROVE  /\ Written(comments, keys, put) \in Seq(Tagged)
         /\ \A key \in keys : Ogg!Values(Written(comments, keys, put), key) = Ogg!Values(put, key)
         /\ \A key : key \notin keys /\ Ogg!Values(put, key) = <<>>
                       => Ogg!Values(Written(comments, keys, put), key) = Ogg!Values(comments, key)
<1> DEFINE kept == Ogg!Without(comments, keys)
           written == Written(comments, keys, put)
<1>1. /\ kept \in Seq(Tagged)
      /\ \A key : Ogg!Values(kept, key) = IF key \in keys THEN <<>> ELSE Ogg!Values(comments, key)
  BY WithoutIs
<1>2. written = Cat(kept, put)
  BY DEF Cat, Written
<1> HIDE DEF kept, written
<1>3. written \in Seq(Tagged)
  BY <1>1, <1>2, CatIs
<1>4. ASSUME NEW key
      PROVE  /\ Ogg!Values(written, key) = Cat(Ogg!Values(kept, key), Ogg!Values(put, key))
             /\ Ogg!Values(put, key) \in Seq(Words) /\ Ogg!Values(comments, key) \in Seq(Words)
  <2>1. Ogg!Values(Cat(kept, put), key) = Cat(Ogg!Values(kept, key), Ogg!Values(put, key))
    BY <1>1, ValuesCat
  <2>2. Ogg!Values(put, key) \in Seq(Words) /\ Ogg!Values(comments, key) \in Seq(Words)
    BY ValuesMore
  <2> QED
    BY <1>2, <2>1, <2>2
<1>5. \A s \in Seq(Words) : Cat(<<>>, s) = s /\ Cat(s, <<>>) = s
  BY CatIs
<1>6. ASSUME NEW key \in keys
      PROVE  Ogg!Values(written, key) = Ogg!Values(put, key)
  BY <1>1, <1>4, <1>5
<1>7. ASSUME NEW key, key \notin keys, Ogg!Values(put, key) = <<>>
      PROVE  Ogg!Values(written, key) = Ogg!Values(comments, key)
  BY <1>1, <1>4, <1>5, <1>7
<1> QED
  BY <1>3, <1>6, <1>7 DEF written

\* The first value under a key.
LEMMA FirstValueIs ==
  ASSUME NEW comments, NEW key
  PROVE  /\ Ogg!Values(comments, key) = <<>> => Ogg!First(comments, key) = Ogg!Empty
         /\ \A value : Ogg!Values(comments, key) = Kept(value) => Ogg!First(comments, key) = value
<1>1. ASSUME NEW value, Ogg!Values(comments, key) = Kept(value)
      PROVE  Ogg!First(comments, key) = value
  <2>1. <<value>> # <<>> /\ Head(<<value>>) = value
    OBVIOUS
  <2> QED
    BY <1>1, <2>1 DEF Ogg!First, Kept, Ogg!Empty
<1> QED
  BY <1>1 DEF Ogg!First

\* It is a text.
LEMMA FirstTyped ==
  ASSUME NEW comments \in Seq(Tagged), NEW key
  PROVE  Ogg!First(comments, key) \in Words
<1> DEFINE v == Ogg!Values(comments, key)
<1>1. v \in Seq(Words)
  BY ValuesMore
<1>2. Ogg!Empty \in Words
  BY DEF Ogg!Empty, Words
<1>3. Ogg!First(comments, key) = IF v = <<>> THEN Ogg!Empty ELSE Head(v)
  BY DEF Ogg!First
<1> HIDE DEF v
<1>4. v # <<>> => Head(v) \in Words
  BY <1>1
<1> QED
  BY <1>2, <1>3, <1>4

\* The first of some texts is read, and none when all are empty.
LEMMA FirstOfIs ==
  ASSUME NEW n \in Nat \ {0}, NEW of, DOMAIN of = 1..n
  PROVE  /\ of[1] # Ogg!Empty => Ogg!FirstOf(of) = of[1]
         /\ (\A i \in 1..n : of[i] = Ogg!Empty) => Ogg!FirstOf(of) = Ogg!Empty
<1>1. ASSUME of[1] # Ogg!Empty
      PROVE  Ogg!FirstOf(of) = of[1]
  <2> DEFINE found == {i \in DOMAIN of : of[i] # Ogg!Empty}
  <2>1. 1 \in found /\ found \subseteq Nat /\ \A i \in found : 1 <= i
    BY <1>1
  <2>2. Ogg!FirstOf(of) = of[Ogg!Least(found)]
    BY <2>1 DEF Ogg!FirstOf
  <2> HIDE DEF found
  <2>3. Ogg!Least(found) = 1
    <3>1. Ogg!Least(found) \in found /\ \A j \in found : Ogg!Least(found) <= j
      BY <2>1 DEF Ogg!Least
    <3>2. Ogg!Least(found) \in Nat /\ Ogg!Least(found) <= 1 /\ 1 <= Ogg!Least(found)
      BY <2>1, <3>1
    <3> QED
      BY <3>2
  <2> QED
    BY <2>2, <2>3
<1>2. ASSUME \A i \in 1..n : of[i] = Ogg!Empty
      PROVE  Ogg!FirstOf(of) = Ogg!Empty
  BY <1>2 DEF Ogg!FirstOf
<1> QED
  BY <1>1, <1>2

\* Where a field is read from: its own key comes first.
SourceKeys(k) ==
    IF k = "album_type" THEN {"RELEASETYPE", "COMPILATION"}
    ELSE IF k \in DOMAIN Ogg!Sources THEN {Ogg!Sources[k][i] : i \in DOMAIN Ogg!Sources[k]}
    ELSE {Ogg!CreditSources[k][i] : i \in DOMAIN Ogg!CreditSources[k]}

\* The fields that are read under one key.
Once == {"title", "album", "isrc", "genre", "copyright", "composer", "comment",
         "replaygain_track_gain", "replaygain_track_peak", "replaygain_album_gain",
         "replaygain_album_peak"}

\* The keys that each field is read under, as the code lists them.
LEMMA SourcesAre ==
  /\ DOMAIN Ogg!Sources = Once \cup {"date", "label", "upc", "lyrics"}
  /\ \A k \in Once : Ogg!Sources[k] = <<Ogg!SimpleKeys[k]>>
  /\ Ogg!Sources["date"] = <<"DATE", "YEAR">>
  /\ Ogg!Sources["label"] = <<"ORGANIZATION", "LABEL", "PUBLISHER">>
  /\ Ogg!Sources["upc"] = <<"BARCODE", "UPC">>
  /\ Ogg!Sources["lyrics"] = <<"LYRICS", "UNSYNCEDLYRICS", "SYNCEDLYRICS">>
<1>1. DOMAIN Ogg!Sources = Once \cup {"date", "label", "upc", "lyrics"}
  BY DEF Ogg!Sources, Once
<1>2. /\ Ogg!Sources["date"] = <<"DATE", "YEAR">>
      /\ Ogg!Sources["label"] = <<"ORGANIZATION", "LABEL", "PUBLISHER">>
      /\ Ogg!Sources["upc"] = <<"BARCODE", "UPC">>
      /\ Ogg!Sources["lyrics"] = <<"LYRICS", "UNSYNCEDLYRICS", "SYNCEDLYRICS">>
  BY DEF Ogg!Sources
<1>3. /\ Ogg!Sources["title"] = <<"TITLE">> /\ Ogg!Sources["album"] = <<"ALBUM">>
      /\ Ogg!Sources["isrc"] = <<"ISRC">> /\ Ogg!Sources["genre"] = <<"GENRE">>
      /\ Ogg!Sources["copyright"] = <<"COPYRIGHT">> /\ Ogg!Sources["composer"] = <<"COMPOSER">>
      /\ Ogg!Sources["comment"] = <<"COMMENT">>
      /\ Ogg!Sources["replaygain_track_gain"] = <<"REPLAYGAIN_TRACK_GAIN">>
      /\ Ogg!Sources["replaygain_track_peak"] = <<"REPLAYGAIN_TRACK_PEAK">>
      /\ Ogg!Sources["replaygain_album_gain"] = <<"REPLAYGAIN_ALBUM_GAIN">>
      /\ Ogg!Sources["replaygain_album_peak"] = <<"REPLAYGAIN_ALBUM_PEAK">>
  BY DEF Ogg!Sources
<1>4. \A k \in Once : Ogg!Sources[k] = <<Ogg!SimpleKeys[k]>>
  BY <1>3, SimpleAre DEF Once
<1> QED
  BY <1>1, <1>2, <1>4

\* And each credit.
LEMMA CreditSourcesAre ==
  /\ DOMAIN Ogg!CreditSources = {"artist", "album_artist"}
  /\ Ogg!CreditSources["artist"] = <<"ARTIST">>
  /\ Ogg!CreditSources["album_artist"] = <<"ALBUMARTIST", "ALBUM-ARTIST", "ALBUM_ARTIST">>
  BY DEF Ogg!CreditSources

\* The elements of short tuples.
LEMMA TuplesAre ==
  /\ \A a : /\ DOMAIN <<a>> = 1..1 /\ <<a>>[1] = a
            /\ {<<a>>[i] : i \in DOMAIN <<a>>} = {a}
  /\ \A a, b : /\ DOMAIN <<a, b>> = 1..2 /\ <<a, b>>[1] = a
               /\ {<<a, b>>[i] : i \in DOMAIN <<a, b>>} = {a, b}
  /\ \A a, b, c : /\ DOMAIN <<a, b, c>> = 1..3 /\ <<a, b, c>>[1] = a
                  /\ {<<a, b, c>>[i] : i \in DOMAIN <<a, b, c>>} = {a, b, c}
<1>1. ASSUME NEW a
      PROVE  /\ DOMAIN <<a>> = 1..1 /\ <<a>>[1] = a
             /\ {<<a>>[i] : i \in DOMAIN <<a>>} = {a}
  OBVIOUS
<1>2. ASSUME NEW a, NEW b
      PROVE  /\ DOMAIN <<a, b>> = 1..2 /\ <<a, b>>[1] = a
             /\ {<<a, b>>[i] : i \in DOMAIN <<a, b>>} = {a, b}
  <2>1. DOMAIN <<a, b>> = 1..2 /\ 1..2 = {1, 2} /\ <<a, b>>[1] = a /\ <<a, b>>[2] = b
    OBVIOUS
  <2> QED
    BY <2>1
<1>3. ASSUME NEW a, NEW b, NEW c
      PROVE  /\ DOMAIN <<a, b, c>> = 1..3 /\ <<a, b, c>>[1] = a
             /\ {<<a, b, c>>[i] : i \in DOMAIN <<a, b, c>>} = {a, b, c}
  <2>1. /\ DOMAIN <<a, b, c>> = 1..3 /\ 1..3 = {1, 2, 3}
        /\ <<a, b, c>>[1] = a /\ <<a, b, c>>[2] = b /\ <<a, b, c>>[3] = c
    OBVIOUS
  <2> QED
    BY <2>1
<1> QED
  BY <1>1, <1>2, <1>3

\* The keys that a field is read under belong to it, and its own is the first.
LEMMA SourcesOwned ==
  /\ \A k \in DOMAIN Ogg!Sources : \E n \in Nat \ {0} : DOMAIN Ogg!Sources[k] = 1..n
  /\ \A k \in DOMAIN Ogg!Sources \ {"lyrics"} :
       k \in DOMAIN Ogg!SimpleKeys /\ Ogg!Sources[k][1] = Ogg!SimpleKeys[k]
  /\ \A k \in DOMAIN Ogg!Sources : \A key \in SourceKeys(k) : Owner(key) = k
  /\ SourceKeys("date") = {"DATE", "YEAR"}
  /\ SourceKeys("label") = {"ORGANIZATION", "LABEL", "PUBLISHER"}
  /\ SourceKeys("lyrics") = {"LYRICS", "UNSYNCEDLYRICS", "SYNCEDLYRICS"}
  /\ SourceKeys("title") = {"TITLE"}
<1>1. "album_type" \notin DOMAIN Ogg!Sources
  BY SourcesAre DEF Once
<1>2. \A k \in DOMAIN Ogg!Sources :
             SourceKeys(k) = {Ogg!Sources[k][i] : i \in DOMAIN Ogg!Sources[k]}
  BY <1>1 DEF SourceKeys
<1>3. ASSUME NEW k \in Once
      PROVE  /\ DOMAIN Ogg!Sources[k] = 1..1 /\ Ogg!Sources[k][1] = Ogg!SimpleKeys[k]
             /\ SourceKeys(k) = {Ogg!SimpleKeys[k]} /\ k \in DOMAIN Ogg!SimpleKeys
             /\ Owner(Ogg!SimpleKeys[k]) = k
  <2>1. k \in DOMAIN Ogg!Sources /\ Ogg!Sources[k] = <<Ogg!SimpleKeys[k]>>
             /\ k \in DOMAIN Ogg!SimpleKeys
    BY SourcesAre, SimpleAre DEF Once
  <2>2. SourceKeys(k) = {<<Ogg!SimpleKeys[k]>>[i] : i \in DOMAIN <<Ogg!SimpleKeys[k]>>}
    BY <1>2, <2>1
  <2>3. SourceKeys(k) = {Ogg!SimpleKeys[k]}
    BY <2>2, TuplesAre
  <2> QED
    BY <2>1, <2>3, TuplesAre, SimpleOwned
<1>4. /\ DOMAIN Ogg!Sources["date"] = 1..2 /\ Ogg!Sources["date"][1] = Ogg!SimpleKeys["date"]
      /\ SourceKeys("date") = {"DATE", "YEAR"}
  BY <1>2, SourcesAre, SimpleAre, TuplesAre
<1>5. /\ DOMAIN Ogg!Sources["upc"] = 1..2 /\ Ogg!Sources["upc"][1] = Ogg!SimpleKeys["upc"]
      /\ SourceKeys("upc") = {"BARCODE", "UPC"}
  BY <1>2, SourcesAre, SimpleAre, TuplesAre
<1>6. /\ DOMAIN Ogg!Sources["label"] = 1..3 /\ Ogg!Sources["label"][1] = Ogg!SimpleKeys["label"]
      /\ SourceKeys("label") = {"ORGANIZATION", "LABEL", "PUBLISHER"}
  BY <1>2, SourcesAre, SimpleAre, TuplesAre
<1>7. /\ DOMAIN Ogg!Sources["lyrics"] = 1..3
      /\ SourceKeys("lyrics") = {"LYRICS", "UNSYNCEDLYRICS", "SYNCEDLYRICS"}
  BY <1>2, SourcesAre, SimpleAre, TuplesAre
<1>8. SourceKeys("title") = {"TITLE"}
  BY <1>3, SimpleAre DEF Once
<1>9. \A k \in {"date", "label", "upc", "lyrics"} : \A key \in SourceKeys(k) : Owner(key) = k
  BY <1>4, <1>5, <1>6, <1>7, OwnerIs
<1>10. ASSUME NEW k \in DOMAIN Ogg!Sources
       PROVE  /\ \E n \in Nat \ {0} : DOMAIN Ogg!Sources[k] = 1..n
              /\ k # "lyrics"
                      => k \in DOMAIN Ogg!SimpleKeys /\ Ogg!Sources[k][1] = Ogg!SimpleKeys[k]
              /\ \A key \in SourceKeys(k) : Owner(key) = k
  <2>0. 1 \in Nat \ {0} /\ 2 \in Nat \ {0} /\ 3 \in Nat \ {0}
    OBVIOUS
  <2>1. CASE k \in Once
    BY <2>0, <2>1, <1>3
  <2>2. CASE k \in {"date", "label", "upc", "lyrics"}
    <3>1. \E n \in Nat \ {0} : DOMAIN Ogg!Sources[k] = 1..n
      BY <2>0, <2>2, <1>4, <1>5, <1>6, <1>7
    <3>2. k # "lyrics" => k \in DOMAIN Ogg!SimpleKeys /\ Ogg!Sources[k][1] = Ogg!SimpleKeys[k]
      BY <2>2, <1>4, <1>5, <1>6, SimpleAre
    <3> QED
      BY <3>1, <3>2, <2>2, <1>9
  <2> QED
    BY <2>1, <2>2, SourcesAre
<1> QED
  BY <1>4, <1>6, <1>7, <1>8, <1>10

\* So do those of a credit.
LEMMA CreditSourcesOwned ==
  /\ DOMAIN Ogg!CreditSources = DOMAIN Ogg!Credits
  /\ \A k \in DOMAIN Ogg!CreditSources : /\ \E n \in Nat \ {0} : DOMAIN Ogg!CreditSources[k] = 1..n
                                         /\ Ogg!CreditSources[k][1] = Ogg!Credits[k]
                                         /\ \A key \in SourceKeys(k) : Owner(key) = k
                                         /\ k \notin DOMAIN Ogg!Sources /\ k # "album_type"
<1>1. \A k \in {"artist", "album_artist"} : k \notin DOMAIN Ogg!Sources /\ k # "album_type"
  BY SourcesAre DEF Once
<1>2. \A k \in {"artist", "album_artist"} :
        SourceKeys(k) = {Ogg!CreditSources[k][i] : i \in DOMAIN Ogg!CreditSources[k]}
  BY <1>1 DEF SourceKeys
<1>3. /\ DOMAIN Ogg!CreditSources["artist"] = 1..1
              /\ Ogg!CreditSources["artist"][1] = Ogg!Credits["artist"]
      /\ SourceKeys("artist") = {"ARTIST"}
  BY <1>2, CreditSourcesAre, CreditsOwned, TuplesAre
<1>4. /\ DOMAIN Ogg!CreditSources["album_artist"] = 1..3
      /\ Ogg!CreditSources["album_artist"][1] = Ogg!Credits["album_artist"]
      /\ SourceKeys("album_artist") = {"ALBUMARTIST", "ALBUM-ARTIST", "ALBUM_ARTIST"}
  BY <1>2, CreditSourcesAre, CreditsOwned, TuplesAre
<1>5. \A k \in {"artist", "album_artist"} : \A key \in SourceKeys(k) : Owner(key) = k
  BY <1>3, <1>4, OwnerIs
<1>6. 1 \in Nat \ {0} /\ 3 \in Nat \ {0}
  OBVIOUS
<1>7. ASSUME NEW k \in {"artist", "album_artist"}
      PROVE  (\E n \in Nat \ {0} : DOMAIN Ogg!CreditSources[k] = 1..n)
             /\ Ogg!CreditSources[k][1] = Ogg!Credits[k]
  BY <1>3, <1>4, <1>6
<1> QED
  BY <1>1, <1>5, <1>7, CreditSourcesAre, CreditsOwned

-----------------------------------------------------------------------------
\* What is read where the values are the same, and where a value was set.
LEMMA ReadSame ==
  ASSUME NEW a, NEW b, NEW k, \A key \in SourceKeys(k) : Ogg!Values(a, key) = Ogg!Values(b, key)
  PROVE  Ogg!ReadField(a, k) = Ogg!ReadField(b, k)
<1>1. \A key \in SourceKeys(k) :
             Ogg!First(a, key) = Ogg!First(b, key) /\ Ogg!Joined(a, key) = Ogg!Joined(b, key)
  BY DEF Ogg!First, Ogg!Joined
<1>2. CASE k = "album_type"
  <2>1. Ogg!First(a, "RELEASETYPE") = Ogg!First(b, "RELEASETYPE")
            /\ Ogg!First(a, "COMPILATION") = Ogg!First(b, "COMPILATION")
    BY <1>1, <1>2 DEF SourceKeys
  <2> QED
    BY <1>2, <2>1 DEF Ogg!ReadField, Ogg!ReadAlbumType
<1>3. CASE k # "album_type" /\ k \in DOMAIN Ogg!Sources
  <2>1. [i \in DOMAIN Ogg!Sources[k] |-> Ogg!First(a, Ogg!Sources[k][i])]
          = [i \in DOMAIN Ogg!Sources[k] |-> Ogg!First(b, Ogg!Sources[k][i])]
    BY <1>1, <1>3 DEF SourceKeys
  <2> QED
    BY <1>3, <2>1 DEF Ogg!ReadField
<1>4. CASE k # "album_type" /\ k \notin DOMAIN Ogg!Sources
  <2>1. [i \in DOMAIN Ogg!CreditSources[k] |-> Ogg!Joined(a, Ogg!CreditSources[k][i])]
          = [i \in DOMAIN Ogg!CreditSources[k] |-> Ogg!Joined(b, Ogg!CreditSources[k][i])]
    BY <1>1, <1>4 DEF SourceKeys
  <2> QED
    BY <1>4, <2>1 DEF Ogg!ReadField
<1> QED
  BY <1>2, <1>3, <1>4

\* A field reads as its first key has it, and as nothing when none of them has
\* any.
LEMMA ReadText ==
  ASSUME NEW cs, NEW k \in DOMAIN Ogg!Sources
  PROVE  /\ Ogg!First(cs, Ogg!Sources[k][1]) # Ogg!Empty
                 => Ogg!ReadField(cs, k) = Ogg!First(cs, Ogg!Sources[k][1])
         /\ (\A key \in SourceKeys(k) : Ogg!First(cs, key) = Ogg!Empty)
                 => Ogg!ReadField(cs, k) = Ogg!Empty
<1> DEFINE of == [i \in DOMAIN Ogg!Sources[k] |-> Ogg!First(cs, Ogg!Sources[k][i])]
<1>1. k # "album_type"
  BY SourcesAre DEF Once
<1>2. Ogg!ReadField(cs, k) = Ogg!FirstOf(of)
  BY <1>1 DEF Ogg!ReadField
<1>3. PICK n \in Nat \ {0} : DOMAIN Ogg!Sources[k] = 1..n
  BY SourcesOwned
<1>4. DOMAIN of = 1..n /\ of[1] = Ogg!First(cs, Ogg!Sources[k][1])
  BY <1>3
<1>5. (\A key \in SourceKeys(k) : Ogg!First(cs, key) = Ogg!Empty) => \A i \in 1..n :
             of[i] = Ogg!Empty
  BY <1>1, <1>3 DEF SourceKeys
<1> HIDE DEF of
<1>6. /\ of[1] # Ogg!Empty => Ogg!FirstOf(of) = of[1]
      /\ (\A i \in 1..n : of[i] = Ogg!Empty) => Ogg!FirstOf(of) = Ogg!Empty
  BY <1>4, FirstOfIs
<1> QED
  BY <1>2, <1>4, <1>5, <1>6

\* A credit reads as its own key has it.
LEMMA ReadCredit ==
  ASSUME NEW cs, NEW k \in DOMAIN Ogg!Credits, Ogg!Joined(cs, Ogg!Credits[k]) # Ogg!Empty
  PROVE  Ogg!ReadField(cs, k) = Ogg!Joined(cs, Ogg!Credits[k])
<1> DEFINE of == [i \in DOMAIN Ogg!CreditSources[k] |-> Ogg!Joined(cs, Ogg!CreditSources[k][i])]
<1>1. k # "album_type" /\ k \notin DOMAIN Ogg!Sources /\ Ogg!CreditSources[k][1] = Ogg!Credits[k]
  BY CreditSourcesOwned
<1>2. Ogg!ReadField(cs, k) = Ogg!FirstOf(of)
  BY <1>1 DEF Ogg!ReadField
<1>3. PICK n \in Nat \ {0} : DOMAIN Ogg!CreditSources[k] = 1..n
  BY CreditSourcesOwned
<1>4. DOMAIN of = 1..n /\ of[1] = Ogg!Joined(cs, Ogg!Credits[k])
  BY <1>1, <1>3
<1> HIDE DEF of
<1> QED
  BY <1>2, <1>4, FirstOfIs

\* The keys that an edit takes away.
LEMMA RemovedIs ==
  ASSUME NEW fields
  PROVE  /\ \A k \in DOMAIN fields \cap DOMAIN Ogg!SimpleKeys :
                   Ogg!SimpleKeys[k] \in Ogg!Removed(fields)
         /\ \A k \in DOMAIN fields \cap DOMAIN Ogg!Credits : Ogg!Credits[k] \in Ogg!Removed(fields)
         /\ \A k \in DOMAIN fields \cap DOMAIN Ogg!Aliases :
                   Ogg!Aliases[k] \subseteq Ogg!Removed(fields)
         /\ "lyrics" \in DOMAIN fields => Ogg!Lyrics \subseteq Ogg!Removed(fields)
         /\ \A x \in DOMAIN Ogg!Indexes : Ogg!EditsIndex(fields, x) =>
              Ogg!Indexes[x].keys[1] \in Ogg!Removed(fields)
                   /\ Ogg!Indexes[x].keys[2] \in Ogg!Removed(fields)
         /\ \A key \in Ogg!Removed(fields) :
              \/ Owner(key) \in DOMAIN fields \ DOMAIN Ogg!Indexes
              \/ Owner(key) \in DOMAIN Ogg!Indexes /\ Ogg!EditsIndex(fields, Owner(key))
<1> DEFINE D == DOMAIN fields
           a == {Ogg!SimpleKeys[k] : k \in D \cap DOMAIN Ogg!SimpleKeys}
           b == {Ogg!Credits[k] : k \in D \cap DOMAIN Ogg!Credits}
           c == UNION {Ogg!Aliases[k] : k \in D \cap DOMAIN Ogg!Aliases}
           d == IF "lyrics" \in D THEN Ogg!Lyrics ELSE {}
           X == {y \in DOMAIN Ogg!Indexes : Ogg!EditsIndex(fields, y)}
           e == UNION {Ogg!Range(Ogg!Indexes[x].keys) : x \in X}
<1>1. Ogg!Removed(fields) = a \cup b \cup c \cup d \cup e
  BY DEF Ogg!Removed
<1>2. \A x \in X : x \in DOMAIN Ogg!Indexes /\ Ogg!EditsIndex(fields, x)
  OBVIOUS
<1>3. \A x \in DOMAIN Ogg!Indexes : Ogg!EditsIndex(fields, x) => x \in X
  OBVIOUS
<1>4. \A x \in X : Ogg!Range(Ogg!Indexes[x].keys) \subseteq e
  OBVIOUS
<1>5. \A key \in e : \E x \in X : key \in Ogg!Range(Ogg!Indexes[x].keys)
  OBVIOUS
<1> HIDE DEF X, e
<1>6. \A x \in X : Ogg!Indexes[x].keys[1] \in e /\ Ogg!Indexes[x].keys[2] \in e
  BY <1>2, <1>4, IndexesAre
<1>7. \A key \in e : Owner(key) \in DOMAIN Ogg!Indexes /\ Ogg!EditsIndex(fields, Owner(key))
  <2> SUFFICES ASSUME NEW key \in e
               PROVE  Owner(key) \in DOMAIN Ogg!Indexes /\ Ogg!EditsIndex(fields, Owner(key))
    OBVIOUS
  <2>1. PICK x \in X : key \in Ogg!Range(Ogg!Indexes[x].keys)
    BY <1>5
  <2>2. x \in DOMAIN Ogg!Indexes /\ Ogg!EditsIndex(fields, x)
    BY <1>2
  <2>3. Owner(key) = x
    BY <2>1, <2>2, IndexesAre
  <2> QED
    BY <2>2, <2>3
<1>8. /\ DOMAIN Ogg!SimpleKeys \cap DOMAIN Ogg!Indexes = {}
              /\ DOMAIN Ogg!Credits \cap DOMAIN Ogg!Indexes = {}
      /\ DOMAIN Ogg!Aliases \cap DOMAIN Ogg!Indexes = {} /\ "lyrics" \notin DOMAIN Ogg!Indexes
  BY SimpleAre, CreditsOwned, AliasesOwned, IndexesAre
<1>9. \A key \in a : Owner(key) \in D \ DOMAIN Ogg!Indexes
  BY <1>8, SimpleOwned
<1>10. \A key \in b : Owner(key) \in D \ DOMAIN Ogg!Indexes
  BY <1>8, CreditsOwned
<1>11. \A key \in c : Owner(key) \in D \ DOMAIN Ogg!Indexes
  BY <1>8, AliasesOwned
<1>12. \A key \in d : Owner(key) \in D \ DOMAIN Ogg!Indexes
  BY <1>8, LyricsOwned
<1>13. \A key \in Ogg!Removed(fields) : \/ Owner(key) \in D \ DOMAIN Ogg!Indexes
                                        \/ Owner(key) \in DOMAIN Ogg!Indexes
                                                /\ Ogg!EditsIndex(fields, Owner(key))
  <2> HIDE DEF a, b, c, d, D
  <2> QED
    BY <1>1, <1>7, <1>9, <1>10, <1>11, <1>12
<1>14. \A x \in DOMAIN Ogg!Indexes : Ogg!EditsIndex(fields, x) =>
         Ogg!Indexes[x].keys[1] \in Ogg!Removed(fields)
              /\ Ogg!Indexes[x].keys[2] \in Ogg!Removed(fields)
  <2> HIDE DEF a, b, c, d, D
  <2> QED
    BY <1>1, <1>3, <1>6
<1>15. /\ \A k \in D \cap DOMAIN Ogg!SimpleKeys : Ogg!SimpleKeys[k] \in Ogg!Removed(fields)
       /\ \A k \in D \cap DOMAIN Ogg!Credits : Ogg!Credits[k] \in Ogg!Removed(fields)
       /\ \A k \in D \cap DOMAIN Ogg!Aliases : Ogg!Aliases[k] \subseteq Ogg!Removed(fields)
       /\ "lyrics" \in D => Ogg!Lyrics \subseteq Ogg!Removed(fields)
  <2>1. \A k \in D \cap DOMAIN Ogg!SimpleKeys : Ogg!SimpleKeys[k] \in a
    OBVIOUS
  <2>2. \A k \in D \cap DOMAIN Ogg!Credits : Ogg!Credits[k] \in b
    OBVIOUS
  <2>3. \A k \in D \cap DOMAIN Ogg!Aliases : Ogg!Aliases[k] \subseteq c
    OBVIOUS
  <2>4. "lyrics" \in D => Ogg!Lyrics \subseteq d
    OBVIOUS
  <2> HIDE DEF a, b, c, d, D
  <2> QED
    BY <1>1, <2>1, <2>2, <2>3, <2>4
<1> QED
  BY <1>13, <1>14, <1>15

\* Nothing is kept under the keys that give way.
LEMMA AliasesApart ==
  /\ \A k \in DOMAIN Ogg!Aliases : Ogg!Aliases[k] \cap Primary = {}
  /\ \A x \in DOMAIN Ogg!Indexes : Ogg!Indexes[x].keys[2] \notin Primary
  /\ Ogg!Lyrics \subseteq Primary
<1>1. \A key \in Primary : \/ \E k \in DOMAIN Ogg!SimpleKeys : key = Ogg!SimpleKeys[k]
                           \/ \E k \in DOMAIN Ogg!Credits : key = Ogg!Credits[k]
                           \/ \E x \in DOMAIN Ogg!Indexes : key = Ogg!Indexes[x].keys[1]
                           \/ key \in Ogg!Lyrics
  BY DEF Primary
<1>2. /\ DOMAIN Ogg!SimpleKeys \cap DOMAIN Ogg!Credits = {} /\ "lyrics" \notin DOMAIN Ogg!SimpleKeys
      /\ "lyrics" \notin DOMAIN Ogg!Credits /\ "lyrics" \notin DOMAIN Ogg!Indexes
      /\ DOMAIN Ogg!SimpleKeys \cap DOMAIN Ogg!Indexes = {}
              /\ DOMAIN Ogg!Credits \cap DOMAIN Ogg!Indexes = {}
  BY SimpleAre, CreditsOwned, IndexesAre
<1>3. ASSUME NEW key \in Primary
      PROVE  /\ Owner(key) \in DOMAIN Ogg!SimpleKeys => key = Ogg!SimpleKeys[Owner(key)]
             /\ Owner(key) \in DOMAIN Ogg!Credits => key = Ogg!Credits[Owner(key)]
             /\ Owner(key) \in DOMAIN Ogg!Indexes => key = Ogg!Indexes[Owner(key)].keys[1]
             /\ Owner(key) = "lyrics" => key \in Ogg!Lyrics
  <2>1. CASE \E k \in DOMAIN Ogg!SimpleKeys : key = Ogg!SimpleKeys[k]
    BY <2>1, <1>2, SimpleOwned
  <2>2. CASE \E k \in DOMAIN Ogg!Credits : key = Ogg!Credits[k]
    BY <2>2, <1>2, CreditsOwned
  <2>3. CASE \E x \in DOMAIN Ogg!Indexes : key = Ogg!Indexes[x].keys[1]
    BY <2>3, <1>2, IndexesAre
  <2>4. CASE key \in Ogg!Lyrics
    BY <2>4, <1>2, LyricsOwned
  <2> QED
    BY <1>1, <2>1, <2>2, <2>3, <2>4
<1>4. ASSUME NEW k \in DOMAIN Ogg!Aliases, NEW key \in Ogg!Aliases[k], key \in Primary
      PROVE  FALSE
  <2>1. Owner(key) = k
    BY AliasesOwned
  <2>2. CASE k = "label"
    <3>1. key \in {"LABEL", "PUBLISHER"} /\ Ogg!SimpleKeys["label"] = "ORGANIZATION"
          /\ "label" \in DOMAIN Ogg!SimpleKeys
      BY <2>2, AliasesOwned, SimpleAre
    <3> QED
      BY <3>1, <1>3, <1>4, <2>1, <2>2
  <2>3. CASE k = "date"
    <3>1. key \in {"YEAR"} /\ Ogg!SimpleKeys["date"] = "DATE" /\ "date" \in DOMAIN Ogg!SimpleKeys
      BY <2>3, AliasesOwned, SimpleAre
    <3> QED
      BY <3>1, <1>3, <1>4, <2>1, <2>3
  <2>4. CASE k = "lyrics"
    <3>1. key \in {"SYNCEDLYRICS"} /\ key \notin Ogg!Lyrics
      BY <2>4, AliasesOwned DEF Ogg!Lyrics
    <3> QED
      BY <3>1, <1>3, <1>4, <2>1, <2>4
  <2>5. CASE k = "album_artist"
    <3>1. key \in {"ALBUM-ARTIST", "ALBUM_ARTIST"} /\ Ogg!Credits["album_artist"] = "ALBUMARTIST"
          /\ "album_artist" \in DOMAIN Ogg!Credits
      BY <2>5, AliasesOwned, CreditsOwned
    <3> QED
      BY <3>1, <1>3, <1>4, <2>1, <2>5
  <2> QED
    BY <2>2, <2>3, <2>4, <2>5, AliasesOwned
<1>5. ASSUME NEW x \in DOMAIN Ogg!Indexes, Ogg!Indexes[x].keys[2] \in Primary
      PROVE  FALSE
  BY <1>3, <1>5, IndexesAre
<1>6. Ogg!Lyrics \subseteq Primary
  BY DEF Primary
<1> QED
  BY <1>4, <1>5, <1>6

-----------------------------------------------------------------------------
\* Numbers are texts.
LEMMA ParsedIs == \A value \in Words : Ogg!Parsed(value) \in Word
<1> SUFFICES ASSUME NEW value \in Words
             PROVE  Ogg!Parsed(value) \in Word
  OBVIOUS
<1>1. Ogg!Digits \subseteq Word /\ "0" \in Word
  BY DEF Ogg!Digits, Word
<1> QED
  BY <1>1 DEF Ogg!Parsed

\* A pair of numbers is a pair of texts.
LEMMA PairIs ==
  ASSUME NEW value \in Words
  PROVE  Ogg!Pair(value)[1] = Ogg!Parsed(value) /\ Ogg!Pair(value)[1] \in Word
              /\ Ogg!Pair(value)[2] \in Word
<1>1. value \in Seq(Word)
  BY DEF Words
<1>2. ASSUME Len(value) = 2
      PROVE  Tail(value) \in Seq(Word)
  <2>1. value # <<>>
    BY <1>2
  <2> QED
    BY <1>1, <2>1, HeadTailProperties
<1>3. "0" \in Word
  BY DEF Word
<1>4. Len(value) = 2 => Ogg!Parsed(Tail(value)) \in Word
  BY <1>2, ParsedIs DEF Words
<1>5. Ogg!Parsed(value) \in Word
  BY ParsedIs
<1> DEFINE second == IF Len(value) = 2 THEN Ogg!Parsed(Tail(value)) ELSE "0"
<1>6. second \in Word
  BY <1>3, <1>4
<1>7. Ogg!Pair(value) = <<Ogg!Parsed(value), second>>
  BY DEF Ogg!Pair
<1> HIDE DEF second
<1> QED
  BY <1>5, <1>6, <1>7

\* What an edit makes of an index is a text.
LEMMA NewIndexIs ==
  ASSUME NEW comments \in Seq(Tagged), NEW D, NEW fields \in Maps(D, Words),
         NEW x \in DOMAIN Ogg!Indexes
  PROVE  Ogg!NewIndex(comments, fields, x) \in Words
<1> DEFINE keys == Ogg!Indexes[x].keys
           own == Ogg!Pair(Ogg!First(comments, keys[1]))
           other == Ogg!Pair(Ogg!First(comments, keys[2]))
           old == IF own = <<"0", "0">> THEN other ELSE own
           Value(i) == IF Ogg!Indexes[x].fields[i] \in DOMAIN fields
                       THEN Ogg!Parsed(fields[Ogg!Indexes[x].fields[i]]) ELSE old[i]
<1>1. Ogg!First(comments, keys[1]) \in Words /\ Ogg!First(comments, keys[2]) \in Words
  BY FirstTyped
<1>2. own[1] \in Word /\ own[2] \in Word /\ other[1] \in Word /\ other[2] \in Word
  BY <1>1, PairIs
<1>3. old[1] \in Word /\ old[2] \in Word
  BY <1>2
<1>4. \A f \in DOMAIN fields : fields[f] \in Words
  BY DEF Maps
<1> HIDE DEF old
<1>5. Value(1) \in Word /\ Value(2) \in Word
  BY <1>3, <1>4, ParsedIs
<1>6. Ogg!NewIndex(comments, fields, x) = Ogg!IndexValue(Value(1), Value(2))
  BY DEF Ogg!NewIndex, old
<1> HIDE DEF Value
<1>7. \A a, b \in Word : Ogg!IndexValue(a, b) \in Words
  BY DEF Ogg!IndexValue, Words, Ogg!Empty
<1> QED
  BY <1>5, <1>6, <1>7

-----------------------------------------------------------------------------
\* The indexes that an edit changes.
EditIndexes(comments, fields) ==
    [x \in {y \in DOMAIN Ogg!Indexes : Ogg!EditsIndex(fields, y)} |->
        Ogg!NewIndex(comments, fields, x)]

\* What an edit of comments makes of them, key by key.
LEMMA EditedIs ==
  ASSUME NEW comments \in Seq(Tagged), NEW D, NEW fields \in Maps(D, Words), NEW split
  PROVE  LET edited == Ogg!EditComments(comments, fields, split)
         IN  /\ edited \in Seq(Tagged)
             /\ \A k \in D \cap DOMAIN Ogg!SimpleKeys :
                  Ogg!Values(edited, Ogg!SimpleKeys[k]) = Kept(fields[k])
             /\ \A k \in D \cap DOMAIN Ogg!Credits :
                  Ogg!Joined(edited, Ogg!Credits[k]) = Ogg!Distinct(fields[k])
             /\ "lyrics" \in D => \A key \in Ogg!Lyrics :
                       Ogg!Values(edited, key) = Kept(fields["lyrics"])
             /\ \A k \in D \cap DOMAIN Ogg!Aliases : \A key \in Ogg!Aliases[k] :
                       Ogg!Values(edited, key) = <<>>
             /\ \A x \in DOMAIN Ogg!Indexes : Ogg!EditsIndex(fields, x) =>
                  /\ Ogg!Values(edited, Ogg!Indexes[x].keys[1])
                          = Kept(Ogg!NewIndex(comments, fields, x))
                  /\ Ogg!Values(edited, Ogg!Indexes[x].keys[2]) = <<>>
             /\ \A key : \/ Owner(key) \in D \ DOMAIN Ogg!Indexes
                         \/ Owner(key) \in DOMAIN Ogg!Indexes /\ Ogg!EditsIndex(fields, Owner(key))
                         \/ Ogg!Values(edited, key) = Ogg!Values(comments, key)
<1> DEFINE X == {y \in DOMAIN Ogg!Indexes : Ogg!EditsIndex(fields, y)}
           counts == EditIndexes(comments, fields)
           keys == Ogg!Removed(fields)
           put == Ogg!Put(fields, counts, split)
           edited == Ogg!EditComments(comments, fields, split)
<1>1. D = DOMAIN fields
  BY DEF Maps
<1>2. X \in SUBSET DOMAIN Ogg!Indexes /\ \A x : x \in X
           <=> x \in DOMAIN Ogg!Indexes /\ Ogg!EditsIndex(fields, x)
  OBVIOUS
<1>3. /\ counts \in Maps(X, Words)
      /\ \A x \in X : counts[x] = Ogg!NewIndex(comments, fields, x)
  BY <1>2, NewIndexIs DEF EditIndexes, Maps
<1>4. edited = Written(comments, keys, put)
  BY DEF Ogg!EditComments, EditIndexes, Written
<1> HIDE DEF X, counts, keys
<1>5. /\ put \in Seq(Tagged)
      /\ \A k \in D \cap DOMAIN Ogg!SimpleKeys :
                Ogg!Values(put, Ogg!SimpleKeys[k]) = Kept(fields[k])
      /\ \A k \in D \cap DOMAIN Ogg!Credits :
                Ogg!Joined(put, Ogg!Credits[k]) = Ogg!Distinct(fields[k])
      /\ \A x \in X : Ogg!Values(put, Ogg!Indexes[x].keys[1]) = Kept(counts[x])
      /\ "lyrics" \in D => \A key \in Ogg!Lyrics : Ogg!Values(put, key) = Kept(fields["lyrics"])
      /\ \A key : Ogg!Values(put, key) # <<>>
                        => key \in Primary /\ Owner(key) \in (D \ DOMAIN Ogg!Indexes) \cup X
  BY <1>2, <1>3, PutIs
<1> HIDE DEF put, edited
<1>6. /\ edited \in Seq(Tagged)
      /\ \A key \in keys : Ogg!Values(edited, key) = Ogg!Values(put, key)
      /\ \A key : key \notin keys /\ Ogg!Values(put, key) = <<>>
                    => Ogg!Values(edited, key) = Ogg!Values(comments, key)
  BY <1>4, <1>5, WrittenIs
<1>7. /\ \A k \in D \cap DOMAIN Ogg!SimpleKeys : Ogg!SimpleKeys[k] \in keys
      /\ \A k \in D \cap DOMAIN Ogg!Credits : Ogg!Credits[k] \in keys
      /\ \A k \in D \cap DOMAIN Ogg!Aliases : Ogg!Aliases[k] \subseteq keys
      /\ "lyrics" \in D => Ogg!Lyrics \subseteq keys
      /\ \A x \in X : Ogg!Indexes[x].keys[1] \in keys /\ Ogg!Indexes[x].keys[2] \in keys
      /\ \A key \in keys : \/ Owner(key) \in D \ DOMAIN Ogg!Indexes
                           \/ Owner(key) \in X
  BY <1>1, <1>2, RemovedIs DEF keys
<1>8. \A k \in D \cap DOMAIN Ogg!SimpleKeys :
             Ogg!Values(edited, Ogg!SimpleKeys[k]) = Kept(fields[k])
  BY <1>5, <1>6, <1>7
<1>9. ASSUME NEW k \in D \cap DOMAIN Ogg!Credits
      PROVE  Ogg!Joined(edited, Ogg!Credits[k]) = Ogg!Distinct(fields[k])
  <2>1. Ogg!Values(edited, Ogg!Credits[k]) = Ogg!Values(put, Ogg!Credits[k])
    BY <1>6, <1>7
  <2>2. Ogg!Joined(edited, Ogg!Credits[k]) = Ogg!Joined(put, Ogg!Credits[k])
    BY <2>1 DEF Ogg!Joined
  <2> QED
    BY <1>5, <2>2
<1>10. "lyrics" \in D => \A key \in Ogg!Lyrics : Ogg!Values(edited, key) = Kept(fields["lyrics"])
  BY <1>5, <1>6, <1>7
<1>11. ASSUME NEW k \in D \cap DOMAIN Ogg!Aliases, NEW key \in Ogg!Aliases[k]
       PROVE  Ogg!Values(edited, key) = <<>>
  <2>1. key \notin Primary
    BY AliasesApart
  <2> QED
    BY <2>1, <1>5, <1>6, <1>7
<1>12. ASSUME NEW x \in X
       PROVE  /\ Ogg!Values(edited, Ogg!Indexes[x].keys[1])
                      = Kept(Ogg!NewIndex(comments, fields, x))
              /\ Ogg!Values(edited, Ogg!Indexes[x].keys[2]) = <<>>
  <2>1. Ogg!Indexes[x].keys[2] \notin Primary
    BY <1>2, AliasesApart
  <2>2. Ogg!Values(edited, Ogg!Indexes[x].keys[1]) = Kept(counts[x])
    BY <1>5, <1>6, <1>7
  <2> QED
    BY <2>1, <2>2, <1>3, <1>5, <1>6, <1>7
<1>13. ASSUME NEW key
       PROVE  \/ Owner(key) \in D \ DOMAIN Ogg!Indexes
              \/ Owner(key) \in X
              \/ Ogg!Values(edited, key) = Ogg!Values(comments, key)
  BY <1>5, <1>6, <1>7
<1> QED
  BY <1>2, <1>6, <1>8, <1>9, <1>10, <1>11, <1>12, <1>13 DEF edited

\* The fields of an edit: one word, or none, but for the credits.
Asking(D) == {fields \in Maps(D, Words) : \A k \in D \ DOMAIN Ogg!Credits : Len(fields[k]) <= 1}

\* An edit of any comments reads back: this is the first part of TagsAsAsked, for
\* all comments and all edits, in either mode of writing credits.
LEMMA EditHolds ==
  ASSUME NEW comments \in Seq(Tagged), NEW D, NEW fields \in Asking(D), NEW split
  PROVE  Ogg!EditReadsBack(comments, fields, split)
<1> DEFINE edited == Ogg!EditComments(comments, fields, split)
<1>1. fields \in Maps(D, Words) /\ \A k \in D \ DOMAIN Ogg!Credits : Len(fields[k]) <= 1
  BY DEF Asking
<1>2. D = DOMAIN fields /\ \A k \in D : fields[k] \in Words
  BY <1>1 DEF Maps
<1>3. /\ edited \in Seq(Tagged)
      /\ \A k \in D \cap DOMAIN Ogg!SimpleKeys :
                Ogg!Values(edited, Ogg!SimpleKeys[k]) = Kept(fields[k])
      /\ \A k \in D \cap DOMAIN Ogg!Credits :
                Ogg!Joined(edited, Ogg!Credits[k]) = Ogg!Distinct(fields[k])
      /\ "lyrics" \in D => \A key \in Ogg!Lyrics : Ogg!Values(edited, key) = Kept(fields["lyrics"])
      /\ \A k \in D \cap DOMAIN Ogg!Aliases : \A key \in Ogg!Aliases[k] :
                Ogg!Values(edited, key) = <<>>
      /\ \A x \in DOMAIN Ogg!Indexes : Ogg!EditsIndex(fields, x) =>
           /\ Ogg!Values(edited, Ogg!Indexes[x].keys[1]) = Kept(Ogg!NewIndex(comments, fields, x))
           /\ Ogg!Values(edited, Ogg!Indexes[x].keys[2]) = <<>>
      /\ \A key : \/ Owner(key) \in D \ DOMAIN Ogg!Indexes
                  \/ Owner(key) \in DOMAIN Ogg!Indexes /\ Ogg!EditsIndex(fields, Owner(key))
                  \/ Ogg!Values(edited, key) = Ogg!Values(comments, key)
  BY <1>1, EditedIs
<1> HIDE DEF edited
<1>4. \A k \in D : /\ Ogg!Distinct(fields[k]) = Ogg!Empty <=> fields[k] = Ogg!Empty
                   /\ k \notin DOMAIN Ogg!Credits => Ogg!Distinct(fields[k]) = fields[k]
  BY <1>1, <1>2, DistinctTwice DEF Words, Ogg!Empty
<1>5. DOMAIN Ogg!CreditSources = DOMAIN Ogg!Credits
  BY CreditSourcesOwned
<1>6. ASSUME NEW k \in Ogg!Readable \cap D, fields[k] # Ogg!Empty
      PROVE  Ogg!ReadField(edited, k) = Ogg!Distinct(fields[k])
  <2>1. CASE k \in DOMAIN Ogg!Sources \ {"lyrics"}
    <3>1. k \in DOMAIN Ogg!SimpleKeys /\ Ogg!Sources[k][1] = Ogg!SimpleKeys[k]
               /\ k \notin DOMAIN Ogg!Credits
      BY <2>1, SourcesOwned, SimpleAre, CreditsOwned
    <3>2. Ogg!First(edited, Ogg!Sources[k][1]) = fields[k]
      BY <3>1, <1>3, FirstValueIs
    <3> QED
      BY <2>1, <3>1, <3>2, <1>4, <1>6, ReadText
  <2>2. CASE k = "lyrics"
    <3>1. k \in DOMAIN Ogg!Sources /\ Ogg!Sources[k][1] = "LYRICS" /\ "LYRICS" \in Ogg!Lyrics
          /\ k \notin DOMAIN Ogg!Credits
      BY <2>2, SourcesAre, CreditsOwned DEF Ogg!Lyrics
    <3>2. Ogg!First(edited, Ogg!Sources[k][1]) = fields[k]
      BY <3>1, <2>2, <1>3, FirstValueIs
    <3> QED
      BY <3>1, <3>2, <1>4, <1>6, ReadText
  <2>3. CASE k \in DOMAIN Ogg!Credits
    <3>1. Ogg!Joined(edited, Ogg!Credits[k]) = Ogg!Distinct(fields[k])
      BY <2>3, <1>3
    <3> QED
      BY <2>3, <3>1, <1>4, <1>6, ReadCredit
  <2>4. CASE k = "album_type"
    <3>1. k \in DOMAIN Ogg!SimpleKeys /\ Ogg!SimpleKeys[k] = "RELEASETYPE"
               /\ k \notin DOMAIN Ogg!Credits
      BY <2>4, SimpleAre, CreditsOwned
    <3>2. Ogg!First(edited, "RELEASETYPE") = fields[k]
      BY <3>1, <1>3, FirstValueIs
    <3> QED
      BY <2>4, <3>1, <3>2, <1>4, <1>6 DEF Ogg!ReadField, Ogg!ReadAlbumType
  <2> QED
    BY <2>1, <2>2, <2>3, <2>4, <1>5 DEF Ogg!Readable
<1>7. ASSUME NEW k \in {"title", "label", "date", "lyrics"} \cap D, fields[k] = Ogg!Empty
      PROVE  Ogg!ReadField(edited, k) = Ogg!Empty
  <2>1. k \in DOMAIN Ogg!Sources
    BY SourcesAre DEF Once
  <2>2. Kept(fields[k]) = <<>>
    BY <1>7 DEF Kept
  <2>3. \A key \in SourceKeys(k) : Ogg!Values(edited, key) = <<>>
    <3>1. CASE k = "title"
      <4>1. SourceKeys(k) = {Ogg!SimpleKeys[k]} /\ k \in DOMAIN Ogg!SimpleKeys
        BY <3>1, SourcesOwned, SimpleAre
      <4> QED
        BY <4>1, <2>2, <1>3
    <3>2. CASE k = "label"
      <4>1. SourceKeys(k) = {Ogg!SimpleKeys[k]} \cup Ogg!Aliases[k] /\ k \in DOMAIN Ogg!SimpleKeys
            /\ k \in DOMAIN Ogg!Aliases
        BY <3>2, SourcesOwned, SimpleAre, AliasesOwned
      <4> QED
        BY <4>1, <2>2, <1>3
    <3>3. CASE k = "date"
      <4>1. SourceKeys(k) = {Ogg!SimpleKeys[k]} \cup Ogg!Aliases[k] /\ k \in DOMAIN Ogg!SimpleKeys
            /\ k \in DOMAIN Ogg!Aliases
        BY <3>3, SourcesOwned, SimpleAre, AliasesOwned
      <4> QED
        BY <4>1, <2>2, <1>3
    <3>4. CASE k = "lyrics"
      <4>1. SourceKeys(k) = Ogg!Lyrics \cup Ogg!Aliases[k] /\ k \in DOMAIN Ogg!Aliases
        BY <3>4, SourcesOwned, AliasesOwned DEF Ogg!Lyrics
      <4> QED
        BY <3>4, <4>1, <2>2, <1>3
    <3> QED
      BY <3>1, <3>2, <3>3, <3>4
  <2>4. \A key \in SourceKeys(k) : Ogg!First(edited, key) = Ogg!Empty
    BY <2>3, FirstValueIs
  <2> QED
    BY <2>1, <2>4, ReadText
<1>8. ASSUME NEW k \in Ogg!Readable \ D, ~(k = "album_type" /\ "compilation" \in D)
      PROVE  Ogg!ReadField(edited, k) = Ogg!ReadField(comments, k)
  <2>1. \A key \in SourceKeys(k) : Owner(key) \notin D /\ Owner(key) \notin DOMAIN Ogg!Indexes
    <3>1. CASE k \in DOMAIN Ogg!Sources
      <4>1. k \notin DOMAIN Ogg!Indexes
        BY <3>1, SourcesAre, IndexesAre DEF Once
      <4> QED
        BY <3>1, <4>1, SourcesOwned
    <3>2. CASE k \in DOMAIN Ogg!Credits
      <4>1. k \notin DOMAIN Ogg!Indexes
        BY <3>2, CreditsOwned, IndexesAre
      <4> QED
        BY <3>2, <4>1, CreditSourcesOwned
    <3>3. CASE k = "album_type"
      <4>1. SourceKeys(k) = {"RELEASETYPE", "COMPILATION"}
        BY <3>3 DEF SourceKeys
      <4>2. Owner("RELEASETYPE") = "album_type" /\ Owner("COMPILATION") = "compilation"
        BY OwnerIs
      <4>3. "album_type" \notin DOMAIN Ogg!Indexes /\ "compilation" \notin DOMAIN Ogg!Indexes
        BY IndexesAre
      <4> QED
        BY <3>3, <4>1, <4>2, <4>3, <1>8
    <3> QED
      BY <3>1, <3>2, <3>3, <1>5 DEF Ogg!Readable
  <2>2. \A key \in SourceKeys(k) : Ogg!Values(edited, key) = Ogg!Values(comments, key)
    BY <2>1, <1>3
  <2> QED
    BY <2>2, ReadSame
<1>9. ASSUME NEW x \in DOMAIN Ogg!Indexes, ~Ogg!EditsIndex(fields, x)
      PROVE  Ogg!ReadIndex(edited, x) = Ogg!ReadIndex(comments, x)
  <2>1. Owner(Ogg!Indexes[x].keys[1]) = x /\ Owner(Ogg!Indexes[x].keys[2]) = x
    BY IndexesAre
  <2>2. /\ Ogg!Values(edited, Ogg!Indexes[x].keys[1]) = Ogg!Values(comments, Ogg!Indexes[x].keys[1])
        /\ Ogg!Values(edited, Ogg!Indexes[x].keys[2]) = Ogg!Values(comments, Ogg!Indexes[x].keys[2])
    BY <2>1, <1>3, <1>9
  <2> QED
    BY <2>2 DEF Ogg!ReadIndex, Ogg!First
<1>10. ASSUME NEW x \in DOMAIN Ogg!Indexes, Ogg!EditsIndex(fields, x)
       PROVE  Ogg!ReadIndex(edited, x) = Ogg!Pair(Ogg!NewIndex(comments, fields, x))
  <2>1. /\ Ogg!First(edited, Ogg!Indexes[x].keys[1]) = Ogg!NewIndex(comments, fields, x)
        /\ Ogg!First(edited, Ogg!Indexes[x].keys[2]) = Ogg!Empty
    BY <1>3, <1>10, FirstValueIs
  <2> QED
    BY <2>1 DEF Ogg!ReadIndex
<1> QED
  BY <1>2, <1>6, <1>7, <1>8, <1>9, <1>10 DEF Ogg!EditReadsBack, edited

-----------------------------------------------------------------------------
\* The tags of a download: what is given, but for numbers that are none.
Given(metadata) == [k \in {l \in DOMAIN metadata : metadata[l] # Ogg!Empty} |-> metadata[k]]
GivenIndexes(metadata) ==
    {x \in DOMAIN Ogg!Indexes \cap DOMAIN Given(metadata) : Ogg!Parsed(metadata[x]) # "0"}
Compilation(metadata) ==
    "album_type" \in DOMAIN Given(metadata) /\ metadata["album_type"] = <<"compilation">>
Replaced(metadata) ==
    LET given == DOMAIN Given(metadata)
    IN  {Ogg!SimpleKeys[k] : k \in given \cap DOMAIN Ogg!SimpleKeys}
        \cup {Ogg!Credits[k] : k \in given \cap DOMAIN Ogg!Credits}
        \cup {Ogg!Indexes[x].keys[1] : x \in GivenIndexes(metadata)}
        \cup (IF "lyrics" \in given THEN Ogg!Lyrics ELSE {})
        \cup (IF Compilation(metadata) THEN {"COMPILATION"} ELSE {})
Marks(metadata) == IF Compilation(metadata) THEN Ogg!One("COMPILATION", <<"1">>) ELSE <<>>
NewTags(metadata, split) ==
    Ogg!Put(Given(metadata), [x \in GivenIndexes(metadata) |-> metadata[x]], split)

\* What a download writes: what is left, what is put, and the mark of a
\* compilation.
LEMMA EmbedWrites ==
  ASSUME NEW comments, NEW metadata, NEW split
  PROVE  Ogg!EmbedComments(comments, metadata, split)
               = Cat(Written(comments, Replaced(metadata), NewTags(metadata, split)),
                    Marks(metadata))
<1> DEFINE given == {k \in DOMAIN metadata : metadata[k] # Ogg!Empty}
<1>1. DOMAIN Given(metadata) = given
  BY DEF Given
<1>2. GivenIndexes(metadata) = {x \in DOMAIN Ogg!Indexes \cap given : Ogg!Parsed(metadata[x]) # "0"}
  BY <1>1 DEF GivenIndexes
<1>3. Given(metadata) = [k \in given |-> metadata[k]]
  BY DEF Given
<1> QED
  BY <1>1, <1>2, <1>3 DEF Ogg!EmbedComments, Cat, Written, Replaced, NewTags, Marks, Compilation

\* The keys that it takes away.
LEMMA ReplacedIs ==
  ASSUME NEW metadata
  PROVE  /\ \A k \in DOMAIN Given(metadata) \cap DOMAIN Ogg!SimpleKeys :
              Ogg!SimpleKeys[k] \in Replaced(metadata)
         /\ \A k \in DOMAIN Given(metadata) \cap DOMAIN Ogg!Credits :
                   Ogg!Credits[k] \in Replaced(metadata)
         /\ \A x \in GivenIndexes(metadata) : Ogg!Indexes[x].keys[1] \in Replaced(metadata)
         /\ "lyrics" \in DOMAIN Given(metadata) => Ogg!Lyrics \subseteq Replaced(metadata)
         /\ \A key \in Replaced(metadata) :
              \/ Owner(key) \in DOMAIN Given(metadata)
              \/ key = "COMPILATION" /\ Compilation(metadata)
<1> DEFINE D == DOMAIN Given(metadata)
           X == GivenIndexes(metadata)
           a == {Ogg!SimpleKeys[k] : k \in D \cap DOMAIN Ogg!SimpleKeys}
           b == {Ogg!Credits[k] : k \in D \cap DOMAIN Ogg!Credits}
           c == {Ogg!Indexes[x].keys[1] : x \in X}
           d == IF "lyrics" \in D THEN Ogg!Lyrics ELSE {}
           e == IF Compilation(metadata) THEN {"COMPILATION"} ELSE {}
<1>1. Replaced(metadata) = a \cup b \cup c \cup d \cup e
  BY DEF Replaced
<1>2. X \subseteq D \cap DOMAIN Ogg!Indexes
  BY DEF GivenIndexes
<1>3. \A key \in a : Owner(key) \in D
  BY SimpleOwned
<1>4. \A key \in b : Owner(key) \in D
  BY CreditsOwned
<1>5. \A key \in c : Owner(key) \in D
  <2> HIDE DEF X, D
  <2>1. \A x \in X : Owner(Ogg!Indexes[x].keys[1]) = x
    BY <1>2, IndexesAre
  <2> QED
    BY <1>2, <2>1
<1>6. \A key \in d : Owner(key) \in D
  BY LyricsOwned
<1>7. \A key \in e : key = "COMPILATION" /\ Compilation(metadata)
  OBVIOUS
<1>8. /\ \A k \in D \cap DOMAIN Ogg!SimpleKeys : Ogg!SimpleKeys[k] \in a
      /\ \A k \in D \cap DOMAIN Ogg!Credits : Ogg!Credits[k] \in b
      /\ \A x \in X : Ogg!Indexes[x].keys[1] \in c
      /\ "lyrics" \in D => Ogg!Lyrics \subseteq d
  <2> HIDE DEF X, D
  <2> QED
    OBVIOUS
<1> HIDE DEF a, b, c, d, e, D, X
<1>9. \A key \in Replaced(metadata) : \/ Owner(key) \in D
                                      \/ key = "COMPILATION" /\ Compilation(metadata)
  BY <1>1, <1>3, <1>4, <1>5, <1>6, <1>7
<1>10. /\ \A k \in D \cap DOMAIN Ogg!SimpleKeys : Ogg!SimpleKeys[k] \in Replaced(metadata)
       /\ \A k \in D \cap DOMAIN Ogg!Credits : Ogg!Credits[k] \in Replaced(metadata)
       /\ \A x \in X : Ogg!Indexes[x].keys[1] \in Replaced(metadata)
       /\ "lyrics" \in D => Ogg!Lyrics \subseteq Replaced(metadata)
  BY <1>1, <1>8
<1> QED
  BY <1>9, <1>10 DEF D, X

\* What the tags of a download make of the comments of a file, key by key.
LEMMA EmbeddedIs ==
  ASSUME NEW comments \in Seq(Tagged), NEW D, NEW metadata \in Maps(D, Words),
         "compilation" \notin D, NEW split
  PROVE  LET embedded == Ogg!EmbedComments(comments, metadata, split)
         IN  /\ \A k \in D \cap DOMAIN Ogg!SimpleKeys :
                  metadata[k] # Ogg!Empty
                       => Ogg!Values(embedded, Ogg!SimpleKeys[k]) = Kept(metadata[k])
             /\ \A k \in D \cap DOMAIN Ogg!Credits :
                  metadata[k] # Ogg!Empty
                       => Ogg!Joined(embedded, Ogg!Credits[k]) = Ogg!Distinct(metadata[k])
             /\ "lyrics" \in D /\ metadata["lyrics"] # Ogg!Empty =>
                  Ogg!Values(embedded, "LYRICS") = Kept(metadata["lyrics"])
             /\ \A x \in D \cap DOMAIN Ogg!Indexes : Ogg!Parsed(metadata[x]) # "0" =>
                  Ogg!Values(embedded, Ogg!Indexes[x].keys[1]) = Kept(metadata[x])
             /\ \A key : Owner(key) \notin D /\ (key = "COMPILATION" => "album_type" \notin D) =>
                  Ogg!Values(embedded, key) = Ogg!Values(comments, key)
<1> DEFINE given == Given(metadata)
           G == {l \in DOMAIN metadata : metadata[l] # Ogg!Empty}
           X == GivenIndexes(metadata)
           counts == [x \in X |-> metadata[x]]
           keys == Replaced(metadata)
           put == NewTags(metadata, split)
           marks == Marks(metadata)
           written == Written(comments, keys, put)
           embedded == Ogg!EmbedComments(comments, metadata, split)
<1>1. D = DOMAIN metadata /\ \A k \in D : metadata[k] \in Words
  BY DEF Maps
<1>2. /\ given \in Maps(G, Words) /\ DOMAIN given = G
      /\ \A k \in G : given[k] = metadata[k]
  BY <1>1 DEF Maps, Given
<1>3. G \subseteq D /\ \A k \in D : k \in G <=> metadata[k] # Ogg!Empty
  BY <1>1
<1> HIDE DEF G
<1>4. X \subseteq DOMAIN Ogg!Indexes /\ X \subseteq G
      /\ \A x \in D \cap DOMAIN Ogg!Indexes : Ogg!Parsed(metadata[x]) # "0" => x \in X
  <2>1. \A x \in D : Ogg!Parsed(metadata[x]) # "0" => x \in G
    BY <1>3 DEF Ogg!Parsed
  <2> QED
    BY <1>2, <2>1 DEF GivenIndexes
<1> HIDE DEF X
<1>5. counts \in Maps(X, Words) /\ \A x \in X : counts[x] = metadata[x]
  BY <1>1, <1>3, <1>4 DEF Maps
<1>6. put = Ogg!Put(given, counts, split)
  BY DEF NewTags, X
<1> HIDE DEF given, counts
<1>7. /\ put \in Seq(Tagged)
      /\ \A k \in G \cap DOMAIN Ogg!SimpleKeys : Ogg!Values(put, Ogg!SimpleKeys[k]) = Kept(given[k])
      /\ \A k \in G \cap DOMAIN Ogg!Credits :
                Ogg!Joined(put, Ogg!Credits[k]) = Ogg!Distinct(given[k])
      /\ \A x \in X : Ogg!Values(put, Ogg!Indexes[x].keys[1]) = Kept(counts[x])
      /\ "lyrics" \in G => \A key \in Ogg!Lyrics : Ogg!Values(put, key) = Kept(given["lyrics"])
      /\ \A key : Ogg!Values(put, key) # <<>>
                        => key \in Primary /\ Owner(key) \in (G \ DOMAIN Ogg!Indexes) \cup X
  <2>1. X \in SUBSET DOMAIN Ogg!Indexes
    BY <1>4
  <2> HIDE DEF put
  <2> QED
    BY <2>1, <1>2, <1>5, <1>6, PutIs
<1>8. /\ \A k \in G \cap DOMAIN Ogg!SimpleKeys : Ogg!SimpleKeys[k] \in keys
      /\ \A k \in G \cap DOMAIN Ogg!Credits : Ogg!Credits[k] \in keys
      /\ \A x \in X : Ogg!Indexes[x].keys[1] \in keys
      /\ "lyrics" \in G => Ogg!Lyrics \subseteq keys
      /\ \A key \in keys : Owner(key) \in G \/ (key = "COMPILATION" /\ Compilation(metadata))
  BY <1>2, ReplacedIs DEF given, X
<1>9. Compilation(metadata) => "album_type" \in G
  BY <1>2 DEF Compilation, given
<1>10. /\ marks \in Seq(Tagged)
       /\ \A key : ~(key = "COMPILATION" /\ Compilation(metadata)) => Ogg!Values(marks, key) = <<>>
  <2>1. "COMPILATION" \in Word /\ <<"1">> \in Words
    BY DEF Word, Words
  <2>2. /\ Ogg!One("COMPILATION", <<"1">>) \in Seq(Tagged)
        /\ \A key : key # "COMPILATION" => Ogg!Values(Ogg!One("COMPILATION", <<"1">>), key) = <<>>
    BY <2>1, OneIs
  <2>3. <<>> \in Seq(Tagged) /\ \A key : Ogg!Values(<<>>, key) = <<>>
    BY CatIs, ValuesMore
  <2> QED
    BY <2>2, <2>3 DEF Marks
<1>11. embedded = Cat(written, marks)
  BY EmbedWrites
<1> HIDE DEF keys, put
<1>12. /\ written \in Seq(Tagged)
       /\ \A key \in keys : Ogg!Values(written, key) = Ogg!Values(put, key)
       /\ \A key : key \notin keys /\ Ogg!Values(put, key) = <<>>
                     => Ogg!Values(written, key) = Ogg!Values(comments, key)
  BY <1>7, WrittenIs
<1> HIDE DEF written, marks, embedded
<1>13. ASSUME NEW key, key = "COMPILATION" => ~Compilation(metadata)
       PROVE  Ogg!Values(embedded, key) = Ogg!Values(written, key)
  <2>1. Ogg!Values(embedded, key) = Cat(Ogg!Values(written, key), Ogg!Values(marks, key))
    BY <1>10, <1>11, <1>12, ValuesCat
  <2>2. Ogg!Values(marks, key) = <<>> /\ Ogg!Values(written, key) \in Seq(Words)
    BY <1>10, <1>12, <1>13, ValuesMore
  <2> QED
    BY <2>1, <2>2, CatIs
<1>14. "compilation" \notin G
  BY <1>3
<1>15. ASSUME NEW k \in D \cap DOMAIN Ogg!SimpleKeys, metadata[k] # Ogg!Empty
       PROVE  Ogg!Values(embedded, Ogg!SimpleKeys[k]) = Kept(metadata[k])
  <2>1. k \in G
    BY <1>3, <1>15
  <2>2. Ogg!SimpleKeys[k] # "COMPILATION"
    <3>1. Owner(Ogg!SimpleKeys[k]) = k /\ Owner("COMPILATION") = "compilation"
      BY SimpleOwned, OwnerIs
    <3> QED
      BY <2>1, <3>1, <1>14
  <2>3. Ogg!Values(embedded, Ogg!SimpleKeys[k]) = Ogg!Values(written, Ogg!SimpleKeys[k])
    BY <2>2, <1>13
  <2> QED
    BY <2>1, <2>3, <1>2, <1>7, <1>8, <1>12
<1>16. ASSUME NEW k \in D \cap DOMAIN Ogg!Credits, metadata[k] # Ogg!Empty
       PROVE  Ogg!Joined(embedded, Ogg!Credits[k]) = Ogg!Distinct(metadata[k])
  <2>1. k \in G
    BY <1>3, <1>16
  <2>2. Ogg!Credits[k] # "COMPILATION"
    BY CreditsOwned
  <2>3. Ogg!Values(embedded, Ogg!Credits[k]) = Ogg!Values(put, Ogg!Credits[k])
    BY <2>1, <2>2, <1>8, <1>12, <1>13
  <2>4. Ogg!Joined(embedded, Ogg!Credits[k]) = Ogg!Joined(put, Ogg!Credits[k])
    BY <2>3 DEF Ogg!Joined
  <2> QED
    BY <2>1, <2>4, <1>2, <1>7
<1>17. ASSUME "lyrics" \in D, metadata["lyrics"] # Ogg!Empty
       PROVE  Ogg!Values(embedded, "LYRICS") = Kept(metadata["lyrics"])
  <2>1. "lyrics" \in G /\ "LYRICS" \in Ogg!Lyrics /\ "LYRICS" # "COMPILATION"
    BY <1>3, <1>17 DEF Ogg!Lyrics
  <2>2. Ogg!Values(embedded, "LYRICS") = Ogg!Values(put, "LYRICS")
    BY <2>1, <1>8, <1>12, <1>13
  <2> QED
    BY <2>1, <2>2, <1>2, <1>7
<1>18. ASSUME NEW x \in D \cap DOMAIN Ogg!Indexes, Ogg!Parsed(metadata[x]) # "0"
       PROVE  Ogg!Values(embedded, Ogg!Indexes[x].keys[1]) = Kept(metadata[x])
  <2>1. x \in X
    BY <1>4, <1>18
  <2>2. Ogg!Indexes[x].keys[1] # "COMPILATION"
    <3>1. Owner(Ogg!Indexes[x].keys[1]) = x /\ Owner("COMPILATION") = "compilation"
          /\ "compilation" \notin DOMAIN Ogg!Indexes
      BY IndexesAre, OwnerIs
    <3> QED
      BY <3>1
  <2>3. Ogg!Values(embedded, Ogg!Indexes[x].keys[1]) = Ogg!Values(put, Ogg!Indexes[x].keys[1])
    BY <2>1, <2>2, <1>8, <1>12, <1>13
  <2> QED
    BY <2>1, <2>3, <1>5, <1>7
<1>19. ASSUME NEW key, Owner(key) \notin D, key = "COMPILATION" => "album_type" \notin D
       PROVE  Ogg!Values(embedded, key) = Ogg!Values(comments, key)
  <2>1. key = "COMPILATION" => ~Compilation(metadata)
    BY <1>3, <1>9, <1>19
  <2>2. Owner(key) \notin G
    BY <1>3, <1>19
  <2>3. key \notin keys
    BY <2>1, <2>2, <1>8
  <2>4. Ogg!Values(put, key) = <<>>
    BY <2>2, <1>4, <1>7
  <2> QED
    BY <2>1, <2>3, <2>4, <1>12, <1>13
<1> QED
  BY <1>15, <1>16, <1>17, <1>18, <1>19 DEF embedded

\* The fields of a download: an index comes as its number and its total, and
\* whether it is a compilation is told by its type alone.
Tagging(D) ==
    {metadata \in Maps(D, Words) :
       \A k \in D \ (DOMAIN Ogg!Credits \cup DOMAIN Ogg!Indexes) : Len(metadata[k]) <= 1}

\* So do the tags of any download, over any comments.
LEMMA EmbedHolds ==
  ASSUME NEW comments \in Seq(Tagged), NEW D, NEW metadata \in Tagging(D),
         "compilation" \notin D, NEW split
  PROVE  Ogg!EmbedReadsBack(comments, metadata, split)
<1> DEFINE embedded == Ogg!EmbedComments(comments, metadata, split)
<1>1. /\ metadata \in Maps(D, Words)
      /\ \A k \in D \ (DOMAIN Ogg!Credits \cup DOMAIN Ogg!Indexes) : Len(metadata[k]) <= 1
  BY DEF Tagging
<1>2. D = DOMAIN metadata /\ \A k \in D : metadata[k] \in Words
  BY <1>1 DEF Maps
<1>3. /\ \A k \in D \cap DOMAIN Ogg!SimpleKeys :
           metadata[k] # Ogg!Empty => Ogg!Values(embedded, Ogg!SimpleKeys[k]) = Kept(metadata[k])
      /\ \A k \in D \cap DOMAIN Ogg!Credits :
           metadata[k] # Ogg!Empty
                => Ogg!Joined(embedded, Ogg!Credits[k]) = Ogg!Distinct(metadata[k])
      /\ "lyrics" \in D /\ metadata["lyrics"] # Ogg!Empty =>
           Ogg!Values(embedded, "LYRICS") = Kept(metadata["lyrics"])
      /\ \A x \in D \cap DOMAIN Ogg!Indexes : Ogg!Parsed(metadata[x]) # "0" =>
           Ogg!Values(embedded, Ogg!Indexes[x].keys[1]) = Kept(metadata[x])
      /\ \A key : Owner(key) \notin D /\ (key = "COMPILATION" => "album_type" \notin D) =>
           Ogg!Values(embedded, key) = Ogg!Values(comments, key)
  BY <1>1, EmbeddedIs
<1> HIDE DEF embedded
<1>4. \A k \in D : /\ Ogg!Distinct(metadata[k]) = Ogg!Empty <=> metadata[k] = Ogg!Empty
                   /\ k \notin DOMAIN Ogg!Credits /\ k \notin DOMAIN Ogg!Indexes
                        => Ogg!Distinct(metadata[k]) = metadata[k]
  BY <1>1, <1>2, DistinctTwice DEF Words, Ogg!Empty
<1>5. DOMAIN Ogg!CreditSources = DOMAIN Ogg!Credits
  BY CreditSourcesOwned
<1>6. ASSUME NEW k \in Ogg!Readable \cap D, metadata[k] # Ogg!Empty
      PROVE  Ogg!ReadField(embedded, k) = Ogg!Distinct(metadata[k])
  <2>1. CASE k \in DOMAIN Ogg!Sources \ {"lyrics"}
    <3>1. k \in DOMAIN Ogg!SimpleKeys /\ Ogg!Sources[k][1] = Ogg!SimpleKeys[k]
               /\ k \notin DOMAIN Ogg!Credits
          /\ k \notin DOMAIN Ogg!Indexes
      BY <2>1, SourcesOwned, SimpleAre, CreditsOwned, IndexesAre
    <3>2. Ogg!First(embedded, Ogg!Sources[k][1]) = metadata[k]
      BY <3>1, <1>3, <1>6, FirstValueIs
    <3> QED
      BY <2>1, <3>1, <3>2, <1>4, <1>6, ReadText
  <2>2. CASE k = "lyrics"
    <3>1. k \in DOMAIN Ogg!Sources /\ Ogg!Sources[k][1] = "LYRICS"
          /\ k \notin DOMAIN Ogg!Credits /\ k \notin DOMAIN Ogg!Indexes
      BY <2>2, SourcesAre, CreditsOwned, IndexesAre
    <3>2. Ogg!First(embedded, Ogg!Sources[k][1]) = metadata[k]
      BY <3>1, <2>2, <1>3, <1>6, FirstValueIs
    <3> QED
      BY <3>1, <3>2, <1>4, <1>6, ReadText
  <2>3. CASE k \in DOMAIN Ogg!Credits
    <3>1. Ogg!Joined(embedded, Ogg!Credits[k]) = Ogg!Distinct(metadata[k])
      BY <2>3, <1>3, <1>6
    <3> QED
      BY <2>3, <3>1, <1>4, <1>6, ReadCredit
  <2>4. CASE k = "album_type"
    <3>1. k \in DOMAIN Ogg!SimpleKeys /\ Ogg!SimpleKeys[k] = "RELEASETYPE"
          /\ k \notin DOMAIN Ogg!Credits /\ k \notin DOMAIN Ogg!Indexes
      BY <2>4, SimpleAre, CreditsOwned, IndexesAre
    <3>2. Ogg!First(embedded, "RELEASETYPE") = metadata[k]
      BY <3>1, <1>3, <1>6, FirstValueIs
    <3> QED
      BY <2>4, <3>1, <3>2, <1>4, <1>6 DEF Ogg!ReadField, Ogg!ReadAlbumType
  <2> QED
    BY <2>1, <2>2, <2>3, <2>4, <1>5 DEF Ogg!Readable
<1>7. ASSUME NEW k \in Ogg!Readable \ D
      PROVE  Ogg!ReadField(embedded, k) = Ogg!ReadField(comments, k)
  <2>1. \A key \in SourceKeys(k) :
          Owner(key) \notin D /\ (key = "COMPILATION" => "album_type" \notin D)
    <3>0. Owner("COMPILATION") = "compilation" /\ Owner("RELEASETYPE") = "album_type"
      BY OwnerIs
    <3>1. CASE k \in DOMAIN Ogg!Sources
      <4>1. k # "compilation"
        BY <3>1, SourcesAre DEF Once
      <4> QED
        BY <3>0, <3>1, <4>1, SourcesOwned
    <3>2. CASE k \in DOMAIN Ogg!Credits
      <4>1. k # "compilation"
        BY <3>2, CreditsOwned
      <4> QED
        BY <3>0, <3>2, <4>1, CreditSourcesOwned
    <3>3. CASE k = "album_type"
      <4>1. SourceKeys(k) = {"RELEASETYPE", "COMPILATION"}
        BY <3>3 DEF SourceKeys
      <4> QED
        BY <3>0, <3>3, <4>1
    <3> QED
      BY <3>1, <3>2, <3>3, <1>5 DEF Ogg!Readable
  <2>2. \A key \in SourceKeys(k) : Ogg!Values(embedded, key) = Ogg!Values(comments, key)
    BY <2>1, <1>3
  <2> QED
    BY <2>2, ReadSame
<1>8. ASSUME NEW x \in DOMAIN Ogg!Indexes \cap D, Ogg!Parsed(metadata[x]) # "0"
      PROVE  Ogg!ReadIndex(embedded, x) = Ogg!Pair(metadata[x])
  <2>1. Ogg!First(embedded, Ogg!Indexes[x].keys[1]) = metadata[x]
    BY <1>3, <1>8, FirstValueIs
  <2>2. Ogg!Pair(metadata[x])[1] = Ogg!Parsed(metadata[x])
    BY <1>2, PairIs
  <2> QED
    BY <2>1, <2>2, <1>8 DEF Ogg!ReadIndex
<1> QED
  BY <1>2, <1>6, <1>7, <1>8 DEF Ogg!EmbedReadsBack, embedded

-----------------------------------------------------------------------------
(* The blocks of a FLAC file. *)

\* Any block: its comments, if it has any, are any comments.
FlacBlock == [type : {"comments", "picture", "other"}, body : Seq(Tagged)]

\* A block of a type; one that is no picture.
BlockOf(type) == [b \in FlacBlock |-> IF b.type = type THEN <<b>> ELSE <<>>]
NoPicture == [b \in FlacBlock |-> IF b.type = "picture" THEN <<>> ELSE <<b>>]

\* The blocks of a type, and those that are no picture, are picked as comments are.
LEMMA BlockPickers ==
  /\ \A type : BlockOf(type) \in Pickers(FlacBlock, FlacBlock)
  /\ NoPicture \in Pickers(FlacBlock, FlacBlock)
  /\ \A b \in FlacBlock : /\ \A type : BlockOf(type)[b] = IF b.type = type THEN <<b>> ELSE <<>>
                          /\ NoPicture[b] = IF b.type = "picture" THEN <<>> ELSE <<b>>
<1>1. <<>> \in Seq(FlacBlock) /\ \A b \in FlacBlock : <<b>> \in Seq(FlacBlock)
  OBVIOUS
<1>2. ASSUME NEW type
      PROVE  BlockOf(type) \in Pickers(FlacBlock, FlacBlock)
  <2>1. \A b \in FlacBlock : (IF b.type = type THEN <<b>> ELSE <<>>) \in Seq(FlacBlock)
    BY <1>1
  <2> QED
    BY <2>1 DEF BlockOf, Pickers, Maps
<1>3. NoPicture \in Pickers(FlacBlock, FlacBlock)
  <2>1. \A b \in FlacBlock : (IF b.type = "picture" THEN <<>> ELSE <<b>>) \in Seq(FlacBlock)
    BY <1>1
  <2> QED
    BY <2>1 DEF NoPicture, Pickers, Maps
<1>4. \A b \in FlacBlock : /\ \A type : BlockOf(type)[b] = IF b.type = type THEN <<b>> ELSE <<>>
                           /\ NoPicture[b] = IF b.type = "picture" THEN <<>> ELSE <<b>>
  BY DEF BlockOf, NoPicture
<1> QED
  BY <1>2, <1>3, <1>4

\* The blocks of a type are picked so.
LEMMA OfTypePicked ==
  ASSUME NEW blocks \in Seq(FlacBlock), NEW type
  PROVE  Ogg!OfType(blocks, type) = Picked(blocks, BlockOf(type))
<1>1. \A i \in DOMAIN blocks : blocks[i] \in FlacBlock
  OBVIOUS
<1>2. MapSeq(blocks, BlockOf(type))
        = [i \in DOMAIN blocks |-> IF blocks[i].type = type THEN <<blocks[i]>> ELSE <<>>]
  BY <1>1 DEF MapSeq, BlockOf
<1> QED
  BY <1>2, SameOgg DEF Ogg!OfType, Picked

\* One block more, and of two lists.
LEMMA OfTypeMore ==
  ASSUME NEW type, NEW blocks \in Seq(FlacBlock)
  PROVE  /\ Ogg!OfType(<<>>, type) = <<>> /\ Ogg!OfType(blocks, type) \in Seq(FlacBlock)
         /\ \A b \in FlacBlock :
              Ogg!OfType(Append(blocks, b), type) = IF b.type = type
                                                    THEN Append(Ogg!OfType(blocks, type), b)
                                                    ELSE Ogg!OfType(blocks, type)
         /\ \A more \in Seq(FlacBlock) :
              Ogg!OfType(Cat(blocks, more), type)
                   = Cat(Ogg!OfType(blocks, type), Ogg!OfType(more, type))
<1> DEFINE of == BlockOf(type)
<1>1. of \in Pickers(FlacBlock, FlacBlock)
      /\ \A b \in FlacBlock : of[b] = IF b.type = type THEN <<b>> ELSE <<>>
  BY BlockPickers
<1>2. \A bs \in Seq(FlacBlock) : Ogg!OfType(bs, type) = Picked(bs, of)
  BY OfTypePicked
<1> HIDE DEF of
<1>3. /\ Picked(<<>>, of) = <<>>
      /\ \A bs \in Seq(FlacBlock) : Picked(bs, of) \in Seq(FlacBlock)
      /\ \A bs \in Seq(FlacBlock) : \A b \in FlacBlock :
           Picked(Append(bs, b), of) = Cat(Picked(bs, of), of[b])
  BY <1>1, PickedIs
<1>4. <<>> \in Seq(FlacBlock) /\ \A b \in FlacBlock : Append(blocks, b) \in Seq(FlacBlock)
  OBVIOUS
<1>5. ASSUME NEW s \in Seq(FlacBlock), NEW b \in FlacBlock
      PROVE  Cat(s, <<>>) = s /\ Cat(s, <<b>>) = Append(s, b)
  BY DEF Cat
<1>6. ASSUME NEW b \in FlacBlock
      PROVE  Ogg!OfType(Append(blocks, b), type) = IF b.type = type
                                                   THEN Append(Ogg!OfType(blocks, type), b)
                                                   ELSE Ogg!OfType(blocks, type)
  <2>1. Append(blocks, b) \in Seq(FlacBlock)
    BY <1>4
  <2>2. Ogg!OfType(Append(blocks, b), type) = Cat(Ogg!OfType(blocks, type), of[b])
    BY <1>2, <1>3, <2>1
  <2>3. Ogg!OfType(blocks, type) \in Seq(FlacBlock)
    BY <1>2, <1>3
  <2> QED
    BY <1>1, <1>5, <2>2, <2>3
<1>7. ASSUME NEW more \in Seq(FlacBlock)
      PROVE  Ogg!OfType(Cat(blocks, more), type)
                  = Cat(Ogg!OfType(blocks, type), Ogg!OfType(more, type))
  <2>1. Cat(blocks, more) \in Seq(FlacBlock)
    BY CatIs
  <2>2. Picked(Cat(blocks, more), of) = Cat(Picked(blocks, of), Picked(more, of))
    BY <1>1, PickedCat
  <2> QED
    BY <1>2, <2>1, <2>2
<1> QED
  BY <1>2, <1>3, <1>4, <1>6, <1>7

\* Without the pictures, the other blocks are as they were.
LEMMA PicturesGone ==
  ASSUME NEW blocks \in Seq(FlacBlock)
  PROVE  /\ Picked(blocks, NoPicture) \in Seq(FlacBlock)
         /\ Ogg!OfType(Picked(blocks, NoPicture), "other") = Ogg!OfType(blocks, "other")
         /\ Ogg!OfType(Picked(blocks, NoPicture), "picture") = <<>>
<1> DEFINE rest(bs) == Picked(bs, NoPicture)
           T == {bs \in Seq(FlacBlock) : /\ Ogg!OfType(rest(bs), "other") = Ogg!OfType(bs, "other")
                                         /\ Ogg!OfType(rest(bs), "picture") = <<>>}
<1>1. /\ rest(<<>>) = <<>>
      /\ \A bs \in Seq(FlacBlock) : rest(bs) \in Seq(FlacBlock)
      /\ \A bs \in Seq(FlacBlock) : \A b \in FlacBlock :
           rest(Append(bs, b)) = Cat(rest(bs), NoPicture[b])
  BY BlockPickers, PickedIs
<1>2. <<>> \in Seq(FlacBlock) /\ \A type : Ogg!OfType(<<>>, type) = <<>>
  BY OfTypeMore, CatIs
<1>3. <<>> \in T
  <2> HIDE DEF rest
  <2> QED
    BY <1>1, <1>2
<1>4. ASSUME NEW bs \in Seq(FlacBlock), NEW b \in FlacBlock, bs \in T
      PROVE  Append(bs, b) \in T
  <2> DEFINE kept == rest(bs)
  <2>1. kept \in Seq(FlacBlock) /\ rest(Append(bs, b)) = Cat(kept, NoPicture[b])
    BY <1>1
  <2>2. Ogg!OfType(kept, "other") = Ogg!OfType(bs, "other") /\ Ogg!OfType(kept, "picture") = <<>>
    BY <1>4
  <2>3. NoPicture[b] = IF b.type = "picture" THEN <<>> ELSE <<b>>
    BY BlockPickers
  <2> HIDE DEF kept, rest
  <2>4. Append(bs, b) \in Seq(FlacBlock) /\ Cat(kept, <<>>) = kept
             /\ Cat(kept, <<b>>) = Append(kept, b)
    BY <2>1 DEF Cat
  <2>5. rest(Append(bs, b)) = IF b.type = "picture" THEN kept ELSE Append(kept, b)
    BY <2>1, <2>3, <2>4
  <2>6. \A type : Ogg!OfType(Append(bs, b), type) = IF b.type = type
                                                    THEN Append(Ogg!OfType(bs, type), b)
                                                    ELSE Ogg!OfType(bs, type)
    BY OfTypeMore
  <2>7. \A type : Ogg!OfType(Append(kept, b), type) = IF b.type = type
                                                      THEN Append(Ogg!OfType(kept, type), b)
                                                      ELSE Ogg!OfType(kept, type)
    BY <2>1, OfTypeMore
  <2>8. Ogg!OfType(rest(Append(bs, b)), "other") = Ogg!OfType(Append(bs, b), "other")
    BY <2>2, <2>5, <2>6, <2>7
  <2>9. Ogg!OfType(rest(Append(bs, b)), "picture") = <<>>
    BY <2>2, <2>5, <2>6, <2>7
  <2> QED
    BY <2>4, <2>8, <2>9
<1>5. Seq(FlacBlock) \subseteq T
  <2> HIDE DEF T
  <2> QED
    BY <1>3, <1>4, AllSeq
<1> QED
  BY <1>1, <1>5

\* A new cover leaves the other blocks, and is the only picture.
LEMMA WithPictureIs ==
  ASSUME NEW blocks \in Seq(FlacBlock), NEW cover \in {"none", "good", "unfit"}
  PROVE  LET pictured == Ogg!WithPicture(blocks, cover)
         IN  /\ pictured \in Seq(FlacBlock)
             /\ Ogg!OfType(pictured, "other") = Ogg!OfType(blocks, "other")
             /\ Len(Ogg!OfType(pictured, "picture"))
                  = IF cover = "good" THEN 1 ELSE IF cover = "unfit" THEN 0
                    ELSE Len(Ogg!OfType(blocks, "picture"))
<1> DEFINE rest == Picked(blocks, NoPicture)
           picture == Ogg!Block("picture", Ogg!One("new", <<"new">>))
           added == IF cover = "good" THEN <<picture>> ELSE <<>>
           pictured == Ogg!WithPicture(blocks, cover)
<1>1. CASE cover = "none"
  <2>1. pictured = blocks
    BY <1>1 DEF Ogg!WithPicture
  <2> QED
    BY <1>1, <2>1
<1>2. CASE cover # "none"
  <2>1. MapSeq(blocks, NoPicture)
          = [i \in DOMAIN blocks |-> IF blocks[i].type = "picture" THEN <<>> ELSE <<blocks[i]>>]
    <3>1. \A i \in DOMAIN blocks : blocks[i] \in FlacBlock
      OBVIOUS
    <3> QED
      BY <3>1 DEF MapSeq, NoPicture
  <2>2. pictured = Cat(rest, added)
    BY <1>2, <2>1, SameOgg DEF Ogg!WithPicture, Cat, Picked
  <2>3. picture \in FlacBlock /\ picture.type = "picture"
    <3>1. "new" \in Word /\ <<"new">> \in Words
      BY DEF Word, Words
    <3>2. Ogg!One("new", <<"new">>) \in Seq(Tagged)
      BY <3>1, OneIs
    <3> HIDE DEF Tagged
    <3> QED
      BY <3>2 DEF Ogg!Block, FlacBlock
  <2> HIDE DEF picture
  <2>4. /\ rest \in Seq(FlacBlock) /\ Ogg!OfType(rest, "other") = Ogg!OfType(blocks, "other")
        /\ Ogg!OfType(rest, "picture") = <<>>
    BY PicturesGone
  <2> HIDE DEF rest, pictured
  <2>5. Cat(rest, <<>>) = rest /\ Cat(rest, <<picture>>) = Append(rest, picture)
        /\ Append(rest, picture) \in Seq(FlacBlock)
    BY <2>3, <2>4 DEF Cat
  <2>6. /\ Ogg!OfType(Append(rest, picture), "other") = Ogg!OfType(rest, "other")
        /\ Ogg!OfType(Append(rest, picture), "picture")
                = Append(Ogg!OfType(rest, "picture"), picture)
    BY <2>3, <2>4, OfTypeMore
  <2>7. Len(Append(<<>>, picture)) = 1 /\ Len(<<>>) = 0
    OBVIOUS
  <2>8. CASE cover = "good"
    <3>1. pictured = Append(rest, picture)
      BY <2>8, <2>2, <2>5
    <3> QED
      BY <2>8, <3>1, <2>4, <2>5, <2>6, <2>7 DEF pictured
  <2>9. CASE cover = "unfit"
    <3>1. pictured = rest
      BY <2>9, <2>2, <2>5
    <3> QED
      BY <2>9, <3>1, <2>4, <2>7 DEF pictured
  <2> QED
    BY <1>2, <2>8, <2>9
<1> QED
  BY <1>1, <1>2

\* The least of some numbers.
LEMMA LeastIs ==
  ASSUME NEW numbers \in SUBSET Nat, numbers # {}
  PROVE  Ogg!Least(numbers) \in numbers /\ \A i \in numbers : Ogg!Least(numbers) <= i
<1>1. \E m \in numbers : \A i \in numbers : m <= i
  <2>1. PICK n \in numbers : TRUE
    OBVIOUS
  <2> DEFINE Bound == {m \in Nat : \A i \in numbers : m <= i}
  <2>2. 0 \in Bound
    OBVIOUS
  <2>3. ASSUME \A m \in Bound : m + 1 \in Bound
        PROVE  FALSE
    <3>1. 0..(n + 1) \subseteq Bound
      <4> HIDE DEF Bound
      <4> QED
        BY <2>1, <2>2, <2>3, UpTo
    <3>2. n + 1 \in Bound
      BY <2>1, <3>1, SMTT(30)
    <3> QED
      BY <2>1, <3>2
  <2>4. PICK m \in Bound : m + 1 \notin Bound
    BY <2>3
  <2>5. PICK i \in numbers : ~(m + 1 <= i)
    BY <2>4
  <2>6. m = i
    BY <2>4, <2>5
  <2> QED
    BY <2>4, <2>6
<1> QED
  BY <1>1 DEF Ogg!Least

\* The comments of a file are rewritten, or come at its end.
LEMMA WithCommentsIs ==
  ASSUME NEW blocks \in Seq(FlacBlock), NEW comments \in Seq(Tagged)
  PROVE  LET written == Ogg!WithComments(blocks, comments)
         IN  /\ Ogg!CommentBlocks(written) # {} /\ Ogg!CommentBlocks(written) \subseteq Nat
             /\ Ogg!CommentsIn(written) = comments
             /\ \A type : type # "comments" => Ogg!OfType(written, type) = Ogg!OfType(blocks, type)
<1> DEFINE new == Ogg!Block("comments", comments)
           written == Ogg!WithComments(blocks, comments)
           old == Ogg!CommentBlocks(blocks)
           at == Ogg!Least(old)
<1>1. new \in FlacBlock /\ new.type = "comments" /\ new.body = comments
  <2> HIDE DEF Tagged
  <2> QED
    BY DEF Ogg!Block, FlacBlock
<1> HIDE DEF new
<1>2. old \subseteq Nat /\ old \subseteq 1..Len(blocks) /\ DOMAIN blocks = 1..Len(blocks)
      /\ Len(blocks) \in Nat /\ \A i \in 1..Len(blocks) : i \in old <=> blocks[i].type = "comments"
  BY DEF Ogg!CommentBlocks
<1>3. CASE old = {}
  <2>1. written = Append(blocks, new)
    BY <1>3 DEF Ogg!WithComments, new
  <2>2. /\ DOMAIN written = 1..(Len(blocks) + 1) /\ written[Len(blocks) + 1] = new
        /\ \A i \in 1..Len(blocks) : written[i] = blocks[i]
    BY <1>1, <2>1
  <2>3. Ogg!CommentBlocks(written) = {Len(blocks) + 1}
    <3> HIDE DEF written
    <3>1. \A i \in 1..(Len(blocks) + 1) : written[i].type = "comments" <=> i = Len(blocks) + 1
      BY <1>1, <1>2, <1>3, <2>2
    <3>2. Len(blocks) + 1 \in 1..(Len(blocks) + 1)
      BY <1>2
    <3> QED
      BY <2>2, <3>1, <3>2 DEF Ogg!CommentBlocks
  <2>4. Ogg!Least({Len(blocks) + 1}) = Len(blocks) + 1
    <3> DEFINE one == {Len(blocks) + 1}
    <3>1. one \in SUBSET Nat /\ one # {}
      BY <1>2
    <3>2. Ogg!Least(one) \in one
      <4> HIDE DEF one
      <4> QED
        BY <3>1, LeastIs
    <3> QED
      BY <3>2
  <2>5. Ogg!CommentsIn(written) = comments
    BY <1>1, <2>2, <2>3, <2>4 DEF Ogg!CommentsIn
  <2>6. \A type : type # "comments" => Ogg!OfType(written, type) = Ogg!OfType(blocks, type)
    BY <1>1, <2>1, OfTypeMore
  <2> QED
    BY <1>2, <2>3, <2>5, <2>6
<1>4. CASE old # {}
  <2>1. at \in old /\ at \in 1..Len(blocks)
    BY <1>2, <1>4, LeastIs
  <2>2. written = [blocks EXCEPT ![at] = new]
    BY <1>4 DEF Ogg!WithComments, new
  <2> HIDE DEF at, old
  <2>3. /\ DOMAIN written = 1..Len(blocks) /\ written[at] = new /\ written \in Seq(FlacBlock)
        /\ \A i \in 1..Len(blocks) : i # at => written[i] = blocks[i]
    BY <1>1, <1>2, <2>1, <2>2
  <2> HIDE DEF written
  <2>4. Ogg!CommentBlocks(written) = old
    <3>1. \A i \in 1..Len(blocks) : written[i].type = "comments" <=> i \in old
      BY <1>1, <1>2, <2>1, <2>3
    <3> QED
      BY <1>2, <2>3, <3>1 DEF Ogg!CommentBlocks
  <2>5. Ogg!CommentsIn(written) = comments
    BY <1>1, <1>4, <2>3, <2>4 DEF Ogg!CommentsIn, at
  <2>6. ASSUME NEW type, type # "comments"
        PROVE  Ogg!OfType(written, type) = Ogg!OfType(blocks, type)
    <3>1. blocks[at].type = "comments"
      BY <1>2, <2>1
    <3>2. ASSUME NEW i \in 1..Len(blocks)
          PROVE  (IF written[i].type = type THEN <<written[i]>> ELSE <<>>)
                   = IF blocks[i].type = type THEN <<blocks[i]>> ELSE <<>>
      <4>1. CASE i = at
        BY <4>1, <3>1, <1>1, <2>3, <2>6
      <4>2. CASE i # at
        BY <4>2, <2>3
      <4> QED
        BY <4>1, <4>2
    <3>3. [i \in DOMAIN written |-> IF written[i].type = type THEN <<written[i]>> ELSE <<>>]
            = [i \in DOMAIN blocks |-> IF blocks[i].type = type THEN <<blocks[i]>> ELSE <<>>]
      BY <1>2, <2>3, <3>2
    <3> QED
      BY <3>3 DEF Ogg!OfType
  <2> QED
    BY <1>2, <1>4, <2>4, <2>5, <2>6 DEF written, old
<1> QED
  BY <1>3, <1>4

\* An edit of a FLAC file with any blocks reads back.
LEMMA FlacHolds ==
  ASSUME NEW blocks \in Seq(FlacBlock), NEW D, NEW fields \in Asking(D), NEW split,
         NEW cover \in {"none", "good", "unfit"}
  PROVE  Ogg!FlacReadsBack(blocks, fields, split, cover)
<1> DEFINE edited == Ogg!EditFlac(blocks, fields, split, cover)
           pictured == Ogg!WithPicture(blocks, cover)
           old == Ogg!CommentsIn(blocks)
           new == Ogg!EditComments(old, fields, split)
<1>1. old \in Seq(Tagged)
  <2>1. CASE Ogg!CommentBlocks(blocks) = {}
    <3>1. old = <<>>
      BY <2>1 DEF Ogg!CommentsIn
    <3> QED
      BY <3>1, CatIs
  <2>2. CASE Ogg!CommentBlocks(blocks) # {}
    <3>1. Ogg!CommentBlocks(blocks) \subseteq Nat
               /\ Ogg!CommentBlocks(blocks) \subseteq DOMAIN blocks
      BY DEF Ogg!CommentBlocks
    <3>2. Ogg!Least(Ogg!CommentBlocks(blocks)) \in DOMAIN blocks
      BY <2>2, <3>1, LeastIs
    <3>3. blocks[Ogg!Least(Ogg!CommentBlocks(blocks))] \in FlacBlock
      BY <3>2
    <3>4. \A b \in FlacBlock : b.body \in Seq(Tagged)
      BY DEF FlacBlock
    <3> QED
      BY <2>2, <3>3, <3>4 DEF Ogg!CommentsIn
  <2> QED
    BY <2>1, <2>2
<1>2. fields \in Maps(D, Words) /\ D = DOMAIN fields
      /\ \A k \in D : fields[k] \in Words /\ (k \notin DOMAIN Ogg!Credits => Len(fields[k]) <= 1)
  BY DEF Asking, Maps
<1> HIDE DEF old
<1>3. new \in Seq(Tagged) /\ Ogg!EditReadsBack(old, fields, split)
  BY <1>1, <1>2, EditedIs, EditHolds
<1>4. edited = Ogg!WithComments(pictured, new)
  BY DEF Ogg!EditFlac, old
<1> HIDE DEF new, edited, pictured
<1>5. /\ pictured \in Seq(FlacBlock)
      /\ Ogg!OfType(pictured, "other") = Ogg!OfType(blocks, "other")
      /\ Len(Ogg!OfType(pictured, "picture"))
           = IF cover = "good" THEN 1 ELSE IF cover = "unfit" THEN 0
             ELSE Len(Ogg!OfType(blocks, "picture"))
  BY WithPictureIs DEF pictured
<1>6. /\ Ogg!CommentBlocks(edited) # {} /\ Ogg!CommentBlocks(edited) \subseteq Nat
      /\ Ogg!CommentsIn(edited) = new
      /\ Ogg!OfType(edited, "other") = Ogg!OfType(pictured, "other")
      /\ Ogg!OfType(edited, "picture") = Ogg!OfType(pictured, "picture")
  BY <1>3, <1>4, <1>5, WithCommentsIs
<1>7. ASSUME "lyrics" \in DOMAIN fields, fields["lyrics"] # Ogg!Empty
      PROVE  Ogg!FlacLyrics(edited) = fields["lyrics"]
  <2> DEFINE at == Ogg!Least(Ogg!CommentBlocks(edited))
             found == {i \in Ogg!CommentBlocks(edited) :
                    Ogg!ReadField(edited[i].body, "lyrics") # Ogg!Empty}
  <2>1. at \in Ogg!CommentBlocks(edited) /\ \A i \in Ogg!CommentBlocks(edited) : at <= i
    BY <1>6, LeastIs
  <2>2. edited[at].body = new
    BY <1>6 DEF Ogg!CommentsIn
  <2>3. "lyrics" \in Ogg!Readable /\ "lyrics" \notin DOMAIN Ogg!Credits
    BY SourcesAre, CreditsOwned DEF Ogg!Readable
  <2>4. Ogg!ReadField(new, "lyrics") = Ogg!Distinct(fields["lyrics"])
    BY <1>3, <1>7, <2>3 DEF Ogg!EditReadsBack, new
  <2>5. Ogg!Distinct(fields["lyrics"]) = fields["lyrics"]
    BY <1>2, <1>7, <2>3, DistinctTwice DEF Words
  <2>6. Ogg!FlacLyrics(edited) = IF found = {} THEN Ogg!Empty
                                 ELSE Ogg!ReadField(edited[Ogg!Least(found)].body, "lyrics")
    BY DEF Ogg!FlacLyrics
  <2> HIDE DEF at
  <2>7. at \in found /\ found \subseteq Ogg!CommentBlocks(edited)
    BY <1>7, <2>1, <2>2, <2>4, <2>5
  <2> HIDE DEF found
  <2>8. Ogg!Least(found) = at
    <3>1. found \in SUBSET Nat /\ found # {}
      BY <1>6, <2>7
    <3>2. Ogg!Least(found) \in found /\ Ogg!Least(found) <= at
      BY <3>1, <2>7, LeastIs
    <3>3. at <= Ogg!Least(found) /\ at \in Nat /\ Ogg!Least(found) \in Nat
      BY <3>1, <3>2, <2>1, <2>7
    <3> QED
      BY <3>2, <3>3
  <2> QED
    BY <2>2, <2>4, <2>5, <2>6, <2>7, <2>8
<1> QED
  BY <1>5, <1>6, <1>7 DEF Ogg!FlacReadsBack, edited, new, old

-----------------------------------------------------------------------------
(* Pages. *)

Leaf == [serial : Word, seq : Nat, continued : BOOLEAN, segments : Seq(Segment)]

SegmentsOf == [page \in Leaf |-> page.segments]

\* The segments of pages are picked of them.
LEMMA SegmentsPicked ==
  /\ SegmentsOf \in Pickers(Leaf, Segment)
  /\ \A pages \in Seq(Leaf) : Ogg!AllSegments(pages) = Picked(pages, SegmentsOf)
<1>1. \A page \in Leaf : page.segments \in Seq(Segment) /\ SegmentsOf[page] = page.segments
  BY DEF Leaf, SegmentsOf
<1>2. SegmentsOf \in Pickers(Leaf, Segment)
  BY <1>1 DEF Pickers, Maps, SegmentsOf
<1>3. ASSUME NEW pages \in Seq(Leaf)
      PROVE  Ogg!AllSegments(pages) = Picked(pages, SegmentsOf)
  <2>1. \A k \in DOMAIN pages : SegmentsOf[pages[k]] = pages[k].segments
    BY <1>1
  <2>2. MapSeq(pages, SegmentsOf) = [k \in DOMAIN pages |-> pages[k].segments]
    BY <2>1 DEF MapSeq
  <2>3. Ogg!AllSegments(pages) = Ogg!FlattenSeq([k \in DOMAIN pages |-> pages[k].segments])
    BY Zenon DEF Ogg!AllSegments
  <2> DEFINE parts == [k \in DOMAIN pages |-> pages[k].segments]
  <2> HIDE DEF parts
  <2>4. Ogg!FlattenSeq(parts) = FlattenSeq(parts)
    BY SameOgg
  <2> QED
    BY <2>2, <2>3, <2>4 DEF Picked, parts
<1> QED
  BY <1>2, <1>3

\* What pages make, one page after others.
LEMMA AllSegmentsIs ==
  /\ Ogg!AllSegments(<<>>) = <<>>
  /\ \A a \in Seq(Leaf) : Ogg!AllSegments(a) \in Seq(Segment)
  /\ \A a, b \in Seq(Leaf) :
       Ogg!AllSegments(Cat(a, b)) = Cat(Ogg!AllSegments(a), Ogg!AllSegments(b))
<1>1. Ogg!AllSegments(<<>>) = <<>>
  <2>1. <<>> \in Seq(Leaf)
    OBVIOUS
  <2>2. Ogg!AllSegments(<<>>) = Picked(<<>>, SegmentsOf)
    BY <2>1, SegmentsPicked
  <2> QED
    BY <2>2, SegmentsPicked, PickedIs
<1>2. ASSUME NEW a \in Seq(Leaf)
      PROVE  Ogg!AllSegments(a) \in Seq(Segment)
  <2>1. SegmentsOf \in Pickers(Leaf, Segment) /\ Ogg!AllSegments(a) = Picked(a, SegmentsOf)
    BY SegmentsPicked
  <2> QED
    BY <2>1, PickedIs
<1>3. ASSUME NEW a \in Seq(Leaf), NEW b \in Seq(Leaf)
      PROVE  Ogg!AllSegments(Cat(a, b)) = Cat(Ogg!AllSegments(a), Ogg!AllSegments(b))
  <2> DEFINE c == Cat(a, b)
  <2>1. c \in Seq(Leaf)
    BY CatIs
  <2> HIDE DEF c
  <2>2. /\ SegmentsOf \in Pickers(Leaf, Segment)
        /\ Ogg!AllSegments(a) = Picked(a, SegmentsOf)
        /\ Ogg!AllSegments(b) = Picked(b, SegmentsOf)
        /\ Ogg!AllSegments(c) = Picked(c, SegmentsOf)
    BY <2>1, SegmentsPicked
  <2>3. Picked(Cat(a, b), SegmentsOf) = Cat(Picked(a, SegmentsOf), Picked(b, SegmentsOf))
    BY <2>2, PickedCat
  <2> QED
    BY <2>2, <2>3 DEF c
<1> QED
  BY <1>1, <1>2, <1>3

\* What the pages are that some packets are laid out on.
PagesRight(pages, packets, serial, first) ==
    /\ pages \in Seq(Leaf) /\ Len(pages) \in Nat \ {0}
    /\ Ogg!AllSegments(pages) = Picked(packets, Cut)
    /\ \A k \in 1..Len(pages) : /\ pages[k].serial = serial /\ pages[k].seq = first + k - 1
                                /\ pages[k].segments # <<>>
    /\ pages[1].continued = FALSE
    /\ \A k \in 2..Len(pages) : pages[k].continued = ~ Ogg!Ends(Ogg!Last(pages[k - 1].segments))
    /\ Ogg!Ends(Ogg!Last(pages[Len(pages)].segments))

\* paginateOggPackets makes such pages.
LEMMA PaginateIs ==
  ASSUME NEW packets \in Seq(Segment), packets # <<>>, NEW serial \in Word, NEW first \in Nat
  PROVE  PagesRight(Ogg!Paginate(packets, serial, first), packets, serial, first)
<1> DEFINE all == Picked(packets, Cut)
           len == Len(all)
           n == PageSegments
           m == (len + n - 1) \div n
           parts == CutInto(all, n, m)
           begun(k) == k > 1 /\ ~ Ogg!Ends(all[(k - 1) * n])
           pages == Ogg!Paginate(packets, serial, first)
<1>0. n \in Nat \ {0}
  BY PageLimits
<1>1. all \in Seq(Segment) /\ LastEnds(all) /\ Cut \in Pickers(Segment, Segment)
  BY LaidIs
<1>2. len \in Nat \ {0} /\ Ogg!Ends(all[len])
  BY <1>1 DEF LastEnds
<1>3. pages = [k \in 1..m |-> Ogg!Page(serial, first + k - 1, begun(k), parts[k])]
  <2> DEFINE laid == [p \in DOMAIN packets |-> Ogg!Segments(packets[p])]
  <2>1. all = Ogg!FlattenSeq(laid)
    <3>1. \A p \in DOMAIN packets : Cut[packets[p]] = Ogg!Segments(packets[p])
      BY DEF Cut
    <3>2. MapSeq(packets, Cut) = laid
      BY <3>1 DEF MapSeq
    <3> HIDE DEF laid
    <3>3. Ogg!FlattenSeq(laid) = FlattenSeq(laid)
      BY SameOgg
    <3> QED
      BY <3>2, <3>3 DEF Picked
  <2> HIDE DEF all
  <2>2. pages = [k \in 1..m |->
                   Ogg!Page(serial, first + k - 1, begun(k),
                            SubSeq(all, (k - 1) * n + 1, Ogg!Min({k * n, Len(all)})))]
    BY <2>1, Zenon DEF Ogg!Paginate
  <2>3. \A k \in 1..m : parts[k] = SubSeq(all, (k - 1) * n + 1, Ogg!Min({k * n, Len(all)}))
    BY Zenon DEF CutInto
  <2> HIDE DEF parts, m, n, pages
  <2> QED
    BY <2>2, <2>3, Zenon
<1> HIDE DEF pages, all
<1>4. m \in Nat \ {0} /\ (m - 1) * n < len /\ len <= m * n /\ (m - 1) * n \in Nat
  <2>1. /\ m \in Nat /\ m * n <= len + n - 1 /\ len + n - 1 < (m + 1) * n
    <3> DEFINE l == len + n - 1
    <3>1. l \in Nat
      BY <1>0, <1>2
    <3> HIDE DEF l
    <3>2. l \div n \in Nat /\ (l \div n) * n <= l /\ l < (l \div n + 1) * n
      BY <1>0, <3>1, QuotientIs
    <3> QED
      BY <3>2 DEF l
  <2> HIDE DEF m, len, n
  <2>2. (m - 1) * n = m * n - n /\ (m + 1) * n = m * n + n
    BY <1>0, <2>1
  <2>3. m # 0
    <3> SUFFICES ASSUME m = 0 PROVE FALSE
      OBVIOUS
    <3>1. m * n = 0
      BY <1>0
    <3> QED
      BY <1>0, <1>2, <2>1, <2>2, <3>1
  <2>4. m * n \in Nat
    BY <1>0, <2>1, TimesLess
  <2>5. m - 1 \in Nat
    BY <2>1, <2>3
  <2>6. (m - 1) * n \in Nat
    BY <1>0, <2>5, TimesLess
  <2> QED
    BY <1>0, <1>2, <2>1, <2>2, <2>3, <2>4, <2>6
<1> HIDE DEF m
<1>5. /\ parts \in Seq(Seq(Segment)) /\ Len(parts) = m /\ FlattenSeq(parts) = all
      /\ \A k \in 1..m - 1 : Len(parts[k]) = n /\ k * n \in 1..len /\ parts[k][n] = all[k * n]
      /\ Len(parts[m]) = len - (m - 1) * n /\ parts[m][Len(parts[m])] = all[len]
  <2>1. Fits(len, n, m)
    BY <1>2, <1>4 DEF Fits
  <2>2. CutWell(Segment, all, n, m, CutInto(all, n, m))
    BY <1>0, <1>1, <1>4, <2>1, CutIntoIs
  <2> HIDE DEF parts, n
  <2> QED
    BY <2>2, <1>4 DEF CutWell, parts
<1> HIDE DEF parts, len, n
<1>6. ASSUME NEW k \in 1..m
      PROVE  /\ pages[k].serial = serial /\ pages[k].seq = first + k - 1
             /\ pages[k].segments = parts[k] /\ pages[k].segments # <<>>
             /\ pages[k].continued = begun(k) /\ pages[k] \in Leaf
  <2>1. pages[k] = Ogg!Page(serial, first + k - 1, begun(k), parts[k])
    BY <1>3
  <2>2. parts[k] \in Seq(Segment)
    BY <1>4, <1>5
  <2>3. first + k - 1 \in Nat /\ begun(k) \in BOOLEAN
    BY <1>4
  <2>4. parts[k] # <<>>
    <3>1. CASE k = m
      <4> DEFINE i == (m - 1) * n
      <4>1. i \in Nat /\ i < len /\ Len(parts[m]) = len - i
        BY <1>4, <1>5
      <4> HIDE DEF i
      <4>2. Len(parts[m]) # 0
        BY <1>2, <4>1
      <4> QED
        BY <3>1, <4>2
    <3>2. CASE k # m
      <4>1. k \in 1..m - 1
        BY <1>4, <3>2
      <4>2. Len(parts[k]) = n
        BY <1>5, <4>1
      <4> QED
        BY <1>0, <4>2
    <3> QED
      BY <3>1, <3>2
  <2> DEFINE b == begun(k)
             s == first + k - 1
             x == parts[k]
  <2>5. pages[k] = Ogg!Page(serial, s, b, x) /\ x \in Seq(Segment) /\ s \in Nat /\ b \in BOOLEAN
        /\ x # <<>>
    BY <2>1, <2>2, <2>3, <2>4
  <2> HIDE DEF b, s, x
  <2>6. /\ pages[k].serial = serial /\ pages[k].seq = s /\ pages[k].segments = x
        /\ pages[k].continued = b /\ pages[k] \in Leaf
    BY <2>5 DEF Ogg!Page, Leaf
  <2> QED
    BY <2>5, <2>6 DEF b, s, x
<1>7. pages \in Seq(Leaf) /\ Len(pages) = m
  <2>1. pages = [k \in 1..m |-> pages[k]]
    BY <1>3
  <2>2. pages \in [1..m -> Leaf]
    BY <1>6, <2>1
  <2> QED
    BY <1>4, <2>2
<1>8. Ogg!AllSegments(pages) = all
  <2>1. [k \in DOMAIN pages |-> pages[k].segments] = parts
    <3>1. DOMAIN pages = 1..m /\ parts = [k \in 1..m |-> parts[k]]
      BY <1>4, <1>5, <1>7
    <3>2. \A k \in 1..m : pages[k].segments = parts[k]
      BY <1>6
    <3> QED
      BY <3>1, <3>2
  <2>2. Ogg!AllSegments(pages) = Ogg!FlattenSeq([k \in DOMAIN pages |-> pages[k].segments])
    BY Zenon DEF Ogg!AllSegments
  <2>3. Ogg!FlattenSeq(parts) = FlattenSeq(parts)
    BY SameOgg
  <2> QED
    BY <1>5, <2>1, <2>2, <2>3
<1>9. pages[1].continued = FALSE
  <2>1. 1 \in 1..m
    BY <1>4
  <2>2. pages[1].continued = begun(1)
    BY <1>6, <2>1
  <2>3. begun(1) = FALSE
    OBVIOUS
  <2> QED
    BY <2>2, <2>3
<1>10. ASSUME NEW k \in 2..m
       PROVE  pages[k].continued = ~ Ogg!Ends(Ogg!Last(pages[k - 1].segments))
  <2>1. k \in 1..m /\ k - 1 \in 1..m /\ k - 1 \in 1..m - 1 /\ k > 1
    BY <1>4
  <2> DEFINE i == k - 1
  <2>2. i \in 1..m /\ i \in 1..m - 1
    BY <2>1
  <2>3. pages[k].continued = begun(k) /\ begun(k) = ~ Ogg!Ends(all[i * n])
    <3>1. pages[k].continued = begun(k)
      BY <1>6, <2>1
    <3>2. begun(k) = ~ Ogg!Ends(all[i * n])
      BY <2>1
    <3> QED
      BY <3>1, <3>2
  <2> HIDE DEF i
  <2>4. pages[i].segments = parts[i] /\ Len(parts[i]) = n /\ parts[i][n] = all[i * n]
    BY <1>5, <1>6, <2>2
  <2>5. Ogg!Last(pages[i].segments) = all[i * n]
    BY <2>4 DEF Ogg!Last
  <2> QED
    BY <2>3, <2>5 DEF i
<1>11. Ogg!Ends(Ogg!Last(pages[m].segments))
  <2>1. m \in 1..m
    BY <1>4
  <2>2. pages[m].segments = parts[m]
    BY <1>6, <2>1
  <2>3. Ogg!Last(pages[m].segments) = all[len]
    BY <1>5, <2>2 DEF Ogg!Last
  <2> QED
    BY <1>2, <2>3
<1>12. \A k \in 1..m : /\ pages[k].serial = serial /\ pages[k].seq = first + k - 1
                       /\ pages[k].segments # <<>>
  BY <1>6
<1> QED
  BY <1>4, <1>7, <1>8, <1>9, <1>10, <1>11, <1>12 DEF PagesRight, pages, all

-----------------------------------------------------------------------------
(* The comments of an Ogg file. *)

\* The gains of an Opus file are comments too.
LEMMA OpusGainsTyped ==
  ASSUME NEW comments \in Seq(Tagged), NEW D, NEW fields \in Maps(D, Words)
  PROVE  Ogg!OpusGains(comments, fields) \in Seq(Tagged)
<1> DEFINE S == D \cap DOMAIN Ogg!Scopes
           of == [k \in S |-> Ogg!One(Ogg!Scopes[k].gain, fields[k])]
           keys == UNION {{Ogg!Scopes[k].gain} \cup Ogg!Scopes[k].old : k \in S}
<1>1. DOMAIN fields = D /\ \A k \in D : fields[k] \in Words
  BY DEF Maps
<1>2. /\ DOMAIN Ogg!Scopes = {"replaygain_track_gain", "replaygain_album_gain"}
      /\ Ogg!Scopes["replaygain_track_gain"].gain = "R128_TRACK_GAIN"
      /\ Ogg!Scopes["replaygain_album_gain"].gain = "R128_ALBUM_GAIN"
  BY DEF Ogg!Scopes
<1>3. \A k \in S : Ogg!Scopes[k].gain \in Word
  <2>1. "R128_TRACK_GAIN" \in Word /\ "R128_ALBUM_GAIN" \in Word
    BY DEF Word
  <2> QED
    BY <1>2, <2>1
<1>4. IsFiniteSet(S)
  <2>1. {"replaygain_track_gain", "replaygain_album_gain"}
          = {"replaygain_track_gain"} \cup {"replaygain_album_gain"}
    OBVIOUS
  <2>2. IsFiniteSet({"replaygain_track_gain"}) /\ IsFiniteSet({"replaygain_album_gain"})
    BY FS_Singleton
  <2>3. IsFiniteSet({"replaygain_track_gain"} \cup {"replaygain_album_gain"})
    BY <2>2, FS_Union
  <2>4. IsFiniteSet(DOMAIN Ogg!Scopes)
    BY <1>2, <2>1, <2>3
  <2>5. S \subseteq DOMAIN Ogg!Scopes
    OBVIOUS
  <2> HIDE DEF S
  <2> QED
    BY <2>4, <2>5, FS_Subset
<1>5. Ogg!OpusGains(comments, fields) = Cat(Ogg!Without(comments, keys), Ogg!Each(of))
  BY <1>1 DEF Ogg!OpusGains, Cat
<1>6. ASSUME NEW k \in S
      PROVE  Ogg!One(Ogg!Scopes[k].gain, fields[k]) \in Seq(Tagged)
  BY <1>1, <1>3, OneIs
<1>7. of \in [S -> Seq(Tagged)]
  BY <1>6
<1> HIDE DEF of, S, keys
<1>8. Ogg!Each(of) \in Seq(Tagged)
  BY <1>4, <1>7, EachIs
<1>9. Ogg!Without(comments, keys) \in Seq(Tagged)
  BY WithoutIs
<1>10. Cat(Ogg!Without(comments, keys), Ogg!Each(of)) \in Seq(Tagged)
  BY <1>8, <1>9, CatIs
<1> QED
  BY <1>5, <1>10

\* What an edit makes of comments are comments.
LEMMA EditedTyped ==
  ASSUME NEW comments \in Seq(Tagged), NEW D, NEW fields \in Maps(D, Words), NEW codec
  PROVE  Ogg!EditedComments(comments, fields, codec) \in Seq(Tagged)
<1> DEFINE plain == Ogg!EditComments(comments, fields, FALSE)
           gained == IF codec = "opus" THEN Ogg!OpusGains(plain, fields) ELSE plain
           key == "METADATA_BLOCK_PICTURE"
<1>1. DOMAIN fields = D /\ \A k \in D : fields[k] \in Words
  BY DEF Maps
<1>2. plain \in Seq(Tagged)
  BY EditedIs
<1> HIDE DEF plain
<1>3. Ogg!OpusGains(plain, fields) \in Seq(Tagged)
  BY <1>2, OpusGainsTyped
<1>4. gained \in Seq(Tagged)
  BY <1>2, <1>3
<1>5. Ogg!EditedComments(comments, fields, codec) = Ogg!WithCover(gained, fields)
  BY Zenon DEF Ogg!EditedComments, plain
<1> HIDE DEF gained
<1>6. \/ Ogg!WithCover(gained, fields) = gained
      \/ /\ "cover_path" \in D
         /\ Ogg!WithCover(gained, fields)
              = Cat(Ogg!Without(gained, {key}), Ogg!One(key, fields["cover_path"]))
  BY <1>1, Zenon DEF Ogg!WithCover, Cat
<1>7. ASSUME "cover_path" \in D
      PROVE  Cat(Ogg!Without(gained, {key}), Ogg!One(key, fields["cover_path"])) \in Seq(Tagged)
  <2>1. fields["cover_path"] \in Words /\ key \in Word
    BY <1>1, <1>7 DEF Word
  <2> DEFINE a == Ogg!Without(gained, {key})
             b == Ogg!One(key, fields["cover_path"])
  <2>2. b \in Seq(Tagged)
    BY <2>1, OneIs
  <2>3. a \in Seq(Tagged)
    BY <1>4, WithoutIs
  <2> HIDE DEF a, b
  <2>4. Cat(a, b) \in Seq(Tagged)
    BY <2>2, <2>3, CatIs
  <2> QED
    BY <2>4 DEF a, b
<1> QED
  BY <1>4, <1>5, <1>6, <1>7

\* The comments that a packet is made of are read from it again.
LEMMA CommentPacketIs ==
  ASSUME NEW vendor \in Tagged, NEW comments \in Seq(Tagged), NEW codec \in Word
  PROVE  /\ Ogg!CommentPacket(vendor, comments, codec) \in Segment
         /\ Len(Ogg!CommentPacket(vendor, comments, codec)) >= 2
         /\ Ogg!CommentsOf(Ogg!CommentPacket(vendor, comments, codec), codec) = comments
<1> DEFINE front == <<Ogg!Mark(codec), vendor>>
           frame == Ogg!Frame(codec)
           packet == Ogg!CommentPacket(vendor, comments, codec)
           n == Len(comments)
           f == Len(frame)
<1>1. \A name \in Word : Ogg!Mark(name) \in Tagged
  <2>1. <<>> \in Words
    BY DEF Words
  <2> QED
    BY <2>1 DEF Ogg!Mark, Ogg!Comment, Ogg!Empty, Tagged
<1>2. front \in Seq(Tagged) /\ Len(front) = 2
  BY <1>1
<1>3. frame \in Seq(Tagged)
  <2>1. "frame" \in Word
    BY DEF Word
  <2>2. Ogg!Mark("frame") \in Tagged
    BY <1>1, <2>1
  <2> DEFINE m == Ogg!Mark("frame")
  <2> HIDE DEF m
  <2>3. frame = <<>> \/ frame = <<m>>
    BY Zenon DEF Ogg!Frame, m
  <2>4. m \in Tagged
    BY <2>2 DEF m
  <2>5. <<>> \in Seq(Tagged) /\ <<m>> \in Seq(Tagged)
    BY <2>4
  <2> HIDE DEF frame
  <2> QED
    BY <2>3, <2>5
<1>4. packet = Cat(Cat(front, comments), frame)
  BY Zenon DEF Ogg!CommentPacket, Cat
<1>5. Ogg!CommentsOf(packet, codec) = SubSeq(packet, 3, Len(packet) - f)
  BY Zenon DEF Ogg!CommentsOf
<1> HIDE DEF front, frame, packet
<1> DEFINE a == Cat(front, comments)
<1>6. a \in Seq(Tagged) /\ Len(a) = 2 + n /\ n \in Nat /\ \A i \in 1..n : a[2 + i] = comments[i]
  <2>1. n \in Nat
    OBVIOUS
  <2>2. /\ Cat(front, comments) \in Seq(Tagged) /\ Len(Cat(front, comments)) = 2 + Len(comments)
        /\ \A i \in 1..Len(comments) : Cat(front, comments)[2 + i] = comments[i]
    <3>1. IsBoth(Tagged, front, comments, Cat(front, comments))
      BY <1>2, CatAt
    <3> QED
      BY <1>2, <3>1 DEF IsBoth
  <2> QED
    BY <2>1, <2>2
<1> HIDE DEF a
<1>7. /\ Cat(a, frame) \in Seq(Tagged) /\ Len(Cat(a, frame)) = 2 + n + f /\ f \in Nat
      /\ \A i \in 1..2 + n : Cat(a, frame)[i] = a[i]
  BY <1>3, <1>6, SMTT(30) DEF Cat
<1>8. /\ packet \in Seq(Tagged) /\ Len(packet) = 2 + n + f
      /\ \A i \in 1..n : packet[2 + i] = comments[i]
  <2>1. \A i \in 1..n : 2 + i \in 1..2 + n
    BY <1>6
  <2>2. packet = Cat(a, frame)
    BY <1>4 DEF a
  <2> QED
    BY <1>6, <1>7, <2>1, <2>2
<1> HIDE DEF f, n
<1>9. SubSeq(packet, 3, 2 + n) = comments
  <2>1. 2 + n <= Len(packet) /\ n \in Nat
    BY <1>6, <1>7, <1>8
  <2> DEFINE part == SubSeq(packet, 3, 2 + n)
  <2>2. part = [i \in 1..n |-> packet[2 + i]]
    BY <1>8, <2>1
  <2>3. comments = [i \in 1..n |-> comments[i]]
    BY DEF n
  <2> QED
    BY <1>8, <2>2, <2>3
<1>10. Len(packet) - f = 2 + n
  BY <1>6, <1>7, <1>8
<1> QED
  BY <1>5, <1>6, <1>7, <1>8, <1>9, <1>10 DEF packet, Segment

\* The comments of a packet are comments.
LEMMA CommentsOfTyped ==
  ASSUME NEW packet \in Segment, Len(packet) >= 2, NEW codec
  PROVE  Ogg!CommentsOf(packet, codec) \in Seq(Tagged) /\ packet[2] \in Tagged
<1> DEFINE f == Len(Ogg!Frame(codec))
           n == Len(packet) - f
<1>1. packet \in Seq(Tagged) /\ Len(packet) \in Nat
  BY DEF Segment
<1>2. f = 0 \/ f = 1
  <2> DEFINE m == Ogg!Mark("frame")
  <2> HIDE DEF m
  <2>1. Ogg!Frame(codec) = <<>> \/ Ogg!Frame(codec) = <<m>>
    BY Zenon DEF Ogg!Frame, m
  <2> QED
    BY <2>1
<1>3. Ogg!CommentsOf(packet, codec) = SubSeq(packet, 3, n)
  BY Zenon DEF Ogg!CommentsOf
<1> HIDE DEF f
<1>4. n \in Int /\ n <= Len(packet) /\ n >= 1
  BY <1>1, <1>2
<1> HIDE DEF n
<1>5. SubSeq(packet, 3, n) \in Seq(Tagged)
  BY <1>1, <1>4
<1> QED
  BY <1>1, <1>3, <1>5

-----------------------------------------------------------------------------
(* What pages make. *)

Made(pages) == Ogg!Assembled(Ogg!AllSegments(pages))
Count(pages) == Len(Ogg!Packets(pages))

\* Pages make packets.
LEMMA MadeIs ==
  ASSUME NEW pages \in Seq(Leaf)
  PROVE  /\ Made(pages) \in Assembling /\ Ogg!Packets(pages) = Made(pages).packets
         /\ Ogg!Packets(pages) \in Seq(Segment) /\ Count(pages) \in Nat
<1>1. Ogg!AllSegments(pages) \in Seq(Segment)
  BY AllSegmentsIs
<1>2. Made(pages) \in Assembling
  BY <1>1, AssembledMore DEF Made
<1>3. Ogg!Packets(pages) = Made(pages).packets
  BY Zenon DEF Ogg!Packets, Made
<1>4. Ogg!Packets(pages) \in Seq(Segment)
  BY <1>2, <1>3 DEF Assembling
<1> QED
  BY <1>2, <1>3, <1>4 DEF Count

\* Pages after others that leave nothing open make what they make alone.
LEMMA PagesCat ==
  ASSUME NEW a \in Seq(Leaf), NEW b \in Seq(Leaf), Made(a).open = <<>>
  PROVE  /\ Ogg!Packets(Cat(a, b)) = Cat(Ogg!Packets(a), Ogg!Packets(b))
         /\ Made(Cat(a, b)).open = Made(b).open
<1> DEFINE x == Ogg!AllSegments(a)
           y == Ogg!AllSegments(b)
<1>1. x \in Seq(Segment) /\ y \in Seq(Segment) /\ Ogg!AllSegments(Cat(a, b)) = Cat(x, y)
  BY AllSegmentsIs
<1>2. Cat(a, b) \in Seq(Leaf)
  BY CatIs
<1>3. /\ Ogg!Packets(a) = Ogg!Assembled(x).packets /\ Ogg!Packets(b) = Ogg!Assembled(y).packets
      /\ Ogg!Packets(Cat(a, b)) = Ogg!Assembled(Cat(x, y)).packets
      /\ Made(Cat(a, b)).open = Ogg!Assembled(Cat(x, y)).open
      /\ Made(b).open = Ogg!Assembled(y).open /\ Ogg!Assembled(x).open = <<>>
  BY <1>1, Zenon DEF Ogg!Packets, Made
<1> HIDE DEF x, y
<1>4. /\ Ogg!Assembled(Cat(x, y)).packets
           = Cat(Ogg!Assembled(x).packets, Ogg!Assembled(y).packets)
      /\ Ogg!Assembled(Cat(x, y)).open = Ogg!Assembled(y).open
  BY <1>1, <1>3, AssembledCat
<1> QED
  BY <1>3, <1>4

\* More pages hold no fewer packets.
LEMMA PagesGrow ==
  ASSUME NEW a \in Seq(Leaf), NEW b \in Seq(Leaf)
  PROVE  Count(a) <= Count(Cat(a, b))
<1> DEFINE x == Ogg!AllSegments(a)
           y == Ogg!AllSegments(b)
<1>1. x \in Seq(Segment) /\ y \in Seq(Segment) /\ Ogg!AllSegments(Cat(a, b)) = Cat(x, y)
  BY AllSegmentsIs
<1>2. /\ Count(a) = Len(Ogg!Assembled(x).packets)
      /\ Count(Cat(a, b)) = Len(Ogg!Assembled(Cat(x, y)).packets)
  BY <1>1, Zenon DEF Ogg!Packets, Count
<1> HIDE DEF x, y
<1>3. Len(Ogg!Assembled(x).packets) <= Len(Ogg!Assembled(Cat(x, y)).packets)
  BY <1>1, AssembledGrows
<1> QED
  BY <1>2, <1>3

\* The first pages of a file hold no more packets than more of them.
LEMMA PrefixGrows ==
  ASSUME NEW pages \in Seq(Leaf), NEW i \in 0..Len(pages), NEW j \in 0..Len(pages), i <= j
  PROVE  /\ Count(SubSeq(pages, 1, i)) \in Nat /\ Count(SubSeq(pages, 1, j)) \in Nat
         /\ Count(SubSeq(pages, 1, i)) <= Count(SubSeq(pages, 1, j))
<1> DEFINE a == SubSeq(pages, 1, i)
           b == SubSeq(pages, i + 1, j)
           c == SubSeq(pages, 1, j)
<1>1. a \in Seq(Leaf) /\ b \in Seq(Leaf) /\ Cat(a, b) = c
  BY SubCat
<1>2. c \in Seq(Leaf)
  BY <1>1, CatIs
<1> HIDE DEF a, b, c
<1>3. Count(a) \in Nat /\ Count(c) \in Nat
  BY <1>1, <1>2, MadeIs
<1>4. Count(a) <= Count(Cat(a, b))
  BY <1>1, PagesGrow
<1> QED
  BY <1>1, <1>3, <1>4 DEF a, c

\* A page whose last segment ends a packet leaves nothing open and holds, or
\* completes, a packet.
LEMMA PageEnds ==
  ASSUME NEW a \in Seq(Leaf), NEW page \in Leaf, page.segments # <<>>,
         Ogg!Ends(Ogg!Last(page.segments))
  PROVE  /\ Made(Append(a, page)).open = <<>>
         /\ Count(a) < Count(Append(a, page))
<1> DEFINE s == page.segments
           n == Len(s)
           front == SubSeq(s, 1, n - 1)
           x == s[n]
           all == Ogg!AllSegments(a)
           b == Cat(all, front)
<1>1. s \in Seq(Segment) /\ n \in Nat \ {0} /\ Ogg!Ends(x)
  <2>1. s \in Seq(Segment)
    BY DEF Leaf
  <2>2. s # <<>> /\ Ogg!Ends(x)
    BY Zenon DEF Ogg!Last
  <2> HIDE DEF s
  <2>3. n \in Nat \ {0}
    BY <2>1, <2>2
  <2> QED
    BY <2>1, <2>2, <2>3
<1>2. Ogg!AllSegments(Append(a, page)) = Cat(all, s)
  <2>1. /\ SegmentsOf \in Pickers(Leaf, Segment) /\ Append(a, page) \in Seq(Leaf)
        /\ Ogg!AllSegments(a) = Picked(a, SegmentsOf)
    BY SegmentsPicked
  <2>2. SegmentsOf[page] = s
    BY DEF SegmentsOf
  <2> DEFINE c == Append(a, page)
  <2>3. c \in Seq(Leaf)
    BY <2>1
  <2>4. Picked(c, SegmentsOf) = Cat(Picked(a, SegmentsOf), SegmentsOf[page])
    BY <2>1, PickedIs
  <2> HIDE DEF c
  <2>5. Ogg!AllSegments(c) = Picked(c, SegmentsOf)
    BY <2>3, SegmentsPicked
  <2> QED
    BY <2>1, <2>2, <2>4, <2>5 DEF c
<1>3. all \in Seq(Segment)
  BY AllSegmentsIs
<1>4. Count(a) = Len(Ogg!Assembled(all).packets)
  BY Zenon DEF Count, Ogg!Packets
<1> HIDE DEF s, n, all
<1>5. front \in Seq(Segment) /\ x \in Segment /\ s = Append(front, x)
  <2>1. n - 1 \in 0..Len(s) /\ n - 1 < Len(s) /\ n - 1 + 1 = n
    BY <1>1 DEF n
  <2>2. s[(n - 1) + 1] \in Segment /\ SubSeq(s, 1, (n - 1) + 1) = Append(front, s[(n - 1) + 1])
    BY <1>1, <2>1, SubMore
  <2>3. front \in Seq(Segment)
    BY <1>1, <2>1
  <2>4. SubSeq(s, 1, n) = s
    BY <1>1 DEF n
  <2> QED
    BY <2>1, <2>2, <2>3, <2>4
<1> HIDE DEF front, x
<1>6. b \in Seq(Segment) /\ Cat(all, s) = Append(b, x)
  <2>1. Cat(all, Append(front, x)) = Append(Cat(all, front), x)
    BY <1>3, <1>5, CatAppend
  <2>2. Cat(all, front) \in Seq(Segment)
    BY <1>3, <1>5, CatIs
  <2> QED
    BY <2>1, <2>2, <1>5
<1>7. Len(Ogg!Assembled(all).packets) \in Nat
      /\ Len(Ogg!Assembled(all).packets) <= Len(Ogg!Assembled(b).packets)
  BY <1>3, <1>5, AssembledGrows
<1> HIDE DEF b
<1>8. /\ Ogg!Assembled(Append(b, x)).open = <<>>
      /\ Len(Ogg!Assembled(Append(b, x)).packets) = Len(Ogg!Assembled(b).packets) + 1
  BY <1>1, <1>5, <1>6, AssembledEnds
<1>9. Len(Ogg!Assembled(b).packets) \in Nat
  <2>1. <<>> \in Seq(Segment)
    BY CatIs
  <2> QED
    BY <1>6, <2>1, AssembledGrows
<1> DEFINE i == Len(Ogg!Assembled(all).packets)
           j == Len(Ogg!Assembled(b).packets)
           k == Len(Ogg!Assembled(Append(b, x)).packets)
<1>10. i < k
  <2>1. i \in Nat /\ j \in Nat /\ i <= j /\ k = j + 1
    BY <1>7, <1>8, <1>9
  <2> HIDE DEF i, j, k
  <2> QED
    BY <2>1
<1>11. /\ Made(Append(a, page)).open = Ogg!Assembled(Append(b, x)).open
       /\ Count(Append(a, page)) = k
  BY <1>2, <1>6, Zenon DEF Made, Count, Ogg!Packets
<1> QED
  BY <1>4, <1>8, <1>10, <1>11

\* The same of the first pages of a file.
LEMMA PrefixEnds ==
  ASSUME NEW pages \in Seq(Leaf), NEW k \in 1..Len(pages), pages[k].segments # <<>>,
         Ogg!Ends(Ogg!Last(pages[k].segments))
  PROVE  /\ Made(SubSeq(pages, 1, k)).open = <<>>
         /\ Count(SubSeq(pages, 1, k - 1)) < Count(SubSeq(pages, 1, k))
<1> DEFINE i == k - 1
           a == SubSeq(pages, 1, i)
           page == pages[k]
<1>1. i \in 0..Len(pages) /\ i < Len(pages) /\ i + 1 = k
  OBVIOUS
<1>2. a \in Seq(Leaf) /\ page \in Leaf
  OBVIOUS
<1> HIDE DEF i
<1>3. SubSeq(pages, 1, i + 1) = Append(SubSeq(pages, 1, i), pages[i + 1])
  BY <1>1, SubMore
<1> HIDE DEF a
<1>4. SubSeq(pages, 1, k) = Append(a, page)
  BY <1>1, <1>3 DEF a
<1> HIDE DEF page
<1>5. page.segments # <<>> /\ Ogg!Ends(Ogg!Last(page.segments))
  BY DEF page
<1>6. Made(Append(a, page)).open = <<>> /\ Count(a) < Count(Append(a, page))
  BY <1>2, <1>5, PageEnds
<1> QED
  BY <1>4, <1>6 DEF a, i

\* What the header pages are, when there are any.
LEMMA HeaderIs ==
  ASSUME NEW file \in Seq(Leaf), file # <<>>, NEW count \in Nat, Ogg!HeaderPages(file, count) # 0
  PROVE  /\ Ogg!HeaderPages(file, count) \in 1..Len(file)
         /\ Count(SubSeq(file, 1, Ogg!HeaderPages(file, count))) = count
         /\ Ogg!Ends(Ogg!Last(file[Ogg!HeaderPages(file, count)].segments))
<1> DEFINE Up(i) == Len(Ogg!Packets(SubSeq(file, 1, i))) >= count
           Here(i) == Up(i) /\ (i = 1 \/ ~ Up(i - 1))
           k == CHOOSE i \in DOMAIN file : Here(i)
           header == SubSeq(file, 1, k)
           mixed == \E i \in DOMAIN header : header[i].serial # file[1].serial
           ended == Ogg!Ends(Ogg!Last(Ogg!Last(header).segments))
<1>0. Len(file) \in Nat \ {0} /\ DOMAIN file = 1..Len(file)
  OBVIOUS
<1>1. Ogg!HeaderPages(file, count)
        = IF ~ Up(Len(file)) THEN 0
          ELSE IF mixed THEN 0
          ELSE IF Len(Ogg!Packets(header)) > count \/ ~ ended THEN 0 ELSE Len(header)
  BY Zenon DEF Ogg!HeaderPages
<1> HIDE DEF ended, mixed
<1>2. Up(Len(file)) /\ ~ (Len(Ogg!Packets(header)) > count) /\ ended
      /\ Ogg!HeaderPages(file, count) = Len(header)
  <2> HIDE DEF Up, k, header
  <2> QED
    BY <1>1
<1>3. \E i \in DOMAIN file : Here(i)
  <2> DEFINE T == {i \in 1..Len(file) : Up(i)}
  <2>1. T \in SUBSET Nat /\ Len(file) \in T
    <3> HIDE DEF Up
    <3> QED
      BY <1>0, <1>2
  <2> HIDE DEF T
  <2>2. PICK i \in T : \A j \in T : ~ (j < i)
    BY <2>1, LeastOf
  <2>3. i \in 1..Len(file) /\ Up(i)
    BY <2>2 DEF T
  <2>4. i = 1 \/ ~ Up(i - 1)
    <3> HIDE DEF Up
    <3> SUFFICES ASSUME i # 1, Up(i - 1) PROVE FALSE
      OBVIOUS
    <3>1. i - 1 \in T /\ i - 1 < i
      BY <1>0, <2>3 DEF T
    <3> QED
      BY <3>1, <2>2
  <2>5. i \in DOMAIN file
    BY <1>0, <2>3
  <2> HIDE DEF Up
  <2> QED
    BY <2>3, <2>4, <2>5
<1>4. k \in DOMAIN file /\ Here(k)
  <2> HIDE DEF Here
  <2> QED
    BY <1>3
<1> HIDE DEF k
<1>5. header \in Seq(Leaf) /\ Len(header) = k /\ header[k] = file[k]
  BY <1>0, <1>4
<1>6. Len(Ogg!Packets(header)) >= count
  BY <1>4
<1>7. ended = Ogg!Ends(Ogg!Last(file[k].segments))
  <2>1. Ogg!Last(header) = file[k]
    BY <1>5 DEF Ogg!Last
  <2> QED
    BY <2>1 DEF ended
<1> HIDE DEF header
<1>8. Len(Ogg!Packets(header)) \in Nat
  BY <1>5, MadeIs DEF Count
<1>9. Len(Ogg!Packets(header)) = count
  <2> DEFINE n == Len(Ogg!Packets(header))
  <2>1. n \in Nat /\ n >= count /\ ~ (n > count)
    BY <1>2, <1>6, <1>8
  <2> HIDE DEF n
  <2>2. n = count
    BY <2>1
  <2> QED
    BY <2>2 DEF n
<1>10. Ogg!HeaderPages(file, count) = k
  BY <1>2, <1>5
<1> QED
  BY <1>0, <1>2, <1>4, <1>7, <1>9, <1>10 DEF header, Count

\* Where pages hold some packets, and one page less does not, the header ends.
LEMMA HeaderFound ==
  ASSUME NEW file \in Seq(Leaf), NEW count \in Nat, NEW n \in 1..Len(file),
         Count(SubSeq(file, 1, n)) = count, n = 1 \/ Count(SubSeq(file, 1, n - 1)) < count,
         Ogg!Ends(Ogg!Last(file[n].segments)), \A i \in 1..n : file[i].serial = file[1].serial
  PROVE  Ogg!HeaderPages(file, count) = n
<1> DEFINE Up(i) == Len(Ogg!Packets(SubSeq(file, 1, i))) >= count
           Here(i) == Up(i) /\ (i = 1 \/ ~ Up(i - 1))
           k == CHOOSE i \in DOMAIN file : Here(i)
           header == SubSeq(file, 1, k)
           mixed == \E i \in DOMAIN header : header[i].serial # file[1].serial
           ended == Ogg!Ends(Ogg!Last(Ogg!Last(header).segments))
<1>0. Len(file) \in Nat \ {0} /\ DOMAIN file = 1..Len(file)
  OBVIOUS
<1>1. Ogg!HeaderPages(file, count)
        = IF ~ Up(Len(file)) THEN 0
          ELSE IF mixed THEN 0
          ELSE IF Len(Ogg!Packets(header)) > count \/ ~ ended THEN 0 ELSE Len(header)
  BY Zenon DEF Ogg!HeaderPages
<1> DEFINE C(i) == Count(SubSeq(file, 1, i))
<1>2. \A i \in 0..Len(file) : C(i) \in Nat /\ (Up(i) <=> C(i) >= count)
  <2> SUFFICES ASSUME NEW i \in 0..Len(file) PROVE C(i) \in Nat /\ (Up(i) <=> C(i) >= count)
    OBVIOUS
  <2>1. C(i) \in Nat
    BY PrefixGrows
  <2> QED
    BY <2>1 DEF Count
<1>3. \A i, j \in 0..Len(file) : i <= j => C(i) <= C(j)
  BY PrefixGrows
<1>4. C(n) = count /\ (n = 1 \/ C(n - 1) < count)
  OBVIOUS
<1> HIDE DEF C, Up
<1>5. Up(n) /\ Up(Len(file)) /\ (n = 1 \/ ~ Up(n - 1))
  <2>1. n \in 0..Len(file) /\ n - 1 \in 0..Len(file) /\ Len(file) \in 0..Len(file) /\ n <= Len(file)
    BY <1>0
  <2>2. C(n) \in Nat /\ C(n - 1) \in Nat /\ C(Len(file)) \in Nat /\ C(n) <= C(Len(file))
    BY <2>1, <1>2, <1>3
  <2>3. C(n) >= count /\ C(Len(file)) >= count /\ (n = 1 \/ ~ (C(n - 1) >= count))
    BY <2>2, <1>4
  <2> QED
    BY <2>1, <2>3, <1>2
<1>6. \A i \in DOMAIN file : Here(i) => i = n
  <2> SUFFICES ASSUME NEW i \in 1..Len(file), Here(i), i # n PROVE FALSE
    BY <1>0
  <2>1. i \in 0..Len(file) /\ i - 1 \in 0..Len(file) /\ n \in 0..Len(file) /\ n - 1 \in 0..Len(file)
        /\ (i < n \/ n < i)
    BY <1>0
  <2>2. C(i) \in Nat /\ C(n) \in Nat /\ C(n - 1) \in Nat /\ C(i - 1) \in Nat
    BY <2>1, <1>2
  <2>3. C(i) >= count /\ (i = 1 \/ ~ (C(i - 1) >= count))
    BY <2>1, <1>2
  <2>4. CASE i < n
    <3>1. i <= n - 1 /\ n # 1
      BY <2>4, <1>0
    <3>2. C(i) <= C(n - 1) /\ C(n - 1) < count
      BY <2>1, <3>1, <1>3, <1>4
    <3> QED
      BY <2>2, <2>3, <3>2
  <2>5. CASE n < i
    <3>1. n <= i - 1 /\ i # 1
      BY <2>5, <1>0
    <3>2. C(n) <= C(i - 1)
      BY <2>1, <3>1, <1>3
    <3> QED
      BY <2>2, <2>3, <3>1, <3>2, <1>4
  <2> QED
    BY <2>1, <2>4, <2>5
<1>7. n \in DOMAIN file /\ Here(n)
  BY <1>0, <1>5
<1>8. k = n
  <2> HIDE DEF Here
  <2> QED
    BY <1>6, <1>7
<1> HIDE DEF k
<1>9. header \in Seq(Leaf) /\ Len(header) = n /\ header[n] = file[n] /\ DOMAIN header = 1..n
      /\ \A i \in 1..n : header[i] = file[i]
  BY <1>0, <1>8
<1>10. ~ mixed
  BY <1>9
<1>11. ended
  <2>1. Ogg!Last(header) = file[n]
    BY <1>9 DEF Ogg!Last
  <2> QED
    BY <2>1
<1>12. Len(Ogg!Packets(header)) = count
  BY <1>8 DEF Count
<1> HIDE DEF header, mixed, ended
<1>13. ~ (Len(Ogg!Packets(header)) > count)
  BY <1>12
<1> QED
  BY <1>1, <1>5, <1>9, <1>10, <1>11, <1>13

\* Audio pages, numbered anew or not.
MovedRight(audio, n, k, moved) ==
    /\ moved \in Seq(Leaf) /\ Len(moved) = Len(audio)
    /\ Ogg!AllSegments(moved) = Ogg!AllSegments(audio)
    /\ \A i \in 1..Len(audio) :
         /\ moved[i].segments = audio[i].segments /\ moved[i].continued = audio[i].continued
         /\ moved[i].seq = IF n = k THEN audio[i].seq ELSE n + i - 1

\* Pages that are numbered anew hold what they held.
LEMMA RenumberedIs ==
  ASSUME NEW audio \in Seq(Leaf), NEW n \in Nat, NEW k \in Nat
  PROVE  MovedRight(audio, n, k, Ogg!Renumbered(audio, n, k))
<1> DEFINE r == Ogg!Renumbered(audio, n, k)
<1>0. /\ DOMAIN audio = 1..Len(audio) /\ Len(audio) \in Nat
      /\ \A i \in 1..Len(audio) : audio[i] \in Leaf
  OBVIOUS
<1>1. /\ n = k => r = audio
      /\ n # k => r = [i \in DOMAIN audio |-> [audio[i] EXCEPT !.seq = n + i - 1]]
  BY Zenon DEF Ogg!Renumbered
<1> HIDE DEF r
<1>2. ASSUME NEW i \in 1..Len(audio)
      PROVE  /\ r[i] \in Leaf /\ r[i].segments = audio[i].segments
             /\ r[i].continued = audio[i].continued
             /\ r[i].seq = IF n = k THEN audio[i].seq ELSE n + i - 1
  <2>1. CASE n = k
    BY <2>1, <1>0, <1>1
  <2>2. CASE n # k
    <3> DEFINE j == n + i - 1
    <3>1. r[i] = [audio[i] EXCEPT !.seq = j]
      BY <2>2, <1>0, <1>1
    <3>2. j \in Nat /\ audio[i] \in Leaf
      BY <1>0
    <3> HIDE DEF j
    <3>3. /\ r[i] \in Leaf /\ r[i].segments = audio[i].segments
          /\ r[i].continued = audio[i].continued /\ r[i].seq = j
      BY <3>1, <3>2 DEF Leaf
    <3> QED
      BY <2>2, <3>3 DEF j
  <2> QED
    BY <2>1, <2>2
<1>3. r \in Seq(Leaf) /\ Len(r) = Len(audio)
  <2>1. CASE n = k
    BY <2>1, <1>1
  <2>2. CASE n # k
    <3>1. DOMAIN r = 1..Len(audio) /\ r = [i \in 1..Len(audio) |-> r[i]]
      BY <2>2, <1>0, <1>1
    <3>2. r \in [1..Len(audio) -> Leaf]
      BY <3>1, <1>2
    <3> QED
      BY <3>2, <1>0
  <2> QED
    BY <2>1, <2>2
<1>4. Ogg!AllSegments(r) = Ogg!AllSegments(audio)
  <2>1. [i \in DOMAIN r |-> r[i].segments] = [i \in DOMAIN audio |-> audio[i].segments]
    <3>1. DOMAIN r = 1..Len(audio)
      BY <1>3
    <3> QED
      BY <3>1, <1>0, <1>2
  <2> QED
    BY <2>1, Zenon DEF Ogg!AllSegments
<1>5. MovedRight(audio, n, k, r)
  BY <1>2, <1>3, <1>4 DEF MovedRight
<1> QED
  BY <1>5 DEF r

\* A file that can be edited: no page is empty, and the first one holds the first
\* packet, its identification, and no other.
Stream(file) ==
    /\ file \in Seq(Leaf) /\ file # <<>> /\ \A i \in 1..Len(file) : file[i].segments # <<>>
    /\ Ogg!Ends(Ogg!Last(file[1].segments)) /\ Count(<<file[1]>>) = 1
    /\ Ogg!CodecOf(file) \in Word
    /\ Count(file) >= 2 => Len(Ogg!Packets(file)[2]) >= 2

\* What an edit makes of the header of a file.
NewRight(file, packets, fields, codec, header) ==
    /\ header \in Seq(Leaf) /\ Len(header) \in Nat /\ Len(header) >= 2 /\ header[1] = file[1]
    /\ \A i \in 2..Len(header) : header[i].serial = file[1].serial /\ header[i].seq = i - 1
    /\ header[2].continued = FALSE
    /\ \A i \in 3..Len(header) :
         header[i].continued = ~ Ogg!Ends(Ogg!Last(header[i - 1].segments))
    /\ header[Len(header)].segments # <<>> /\ Ogg!Ends(Ogg!Last(header[Len(header)].segments))
    /\ Made(header).open = <<>> /\ Count(header) = Len(packets)
    /\ Ogg!Packets(header)[1] = Ogg!Packets(<<file[1]>>)[1]
    /\ \A p \in 3..Len(packets) : Ogg!Packets(header)[p] = packets[p]
    /\ Ogg!CommentsOf(Ogg!Packets(header)[2], codec)
         = Ogg!EditedComments(Ogg!CommentsOf(packets[2], codec), fields, codec)

\* The first page of such a file makes one packet and leaves nothing open.
LEMMA FirstPageIs ==
  ASSUME NEW file, Stream(file)
  PROVE  /\ <<file[1]>> \in Seq(Leaf) /\ Made(<<file[1]>>).open = <<>>
         /\ Ogg!Packets(<<file[1]>>) \in Seq(Segment) /\ Len(Ogg!Packets(<<file[1]>>)) = 1
<1>1. file[1] \in Leaf /\ file[1].segments # <<>> /\ Ogg!Ends(Ogg!Last(file[1].segments))
  BY DEF Stream
<1> DEFINE page == file[1]
<1> HIDE DEF page
<1>2. <<page>> \in Seq(Leaf) /\ <<page>> = Append(<<>>, page) /\ <<>> \in Seq(Leaf)
  BY <1>1 DEF page
<1>3. Made(Append(<<>>, page)).open = <<>>
  BY <1>1, <1>2, PageEnds DEF page
<1>4. Ogg!Packets(<<page>>) \in Seq(Segment)
  BY <1>2, MadeIs
<1>5. Len(Ogg!Packets(<<page>>)) = 1
  BY DEF Stream, Count, page
<1> QED
  BY <1>2, <1>3, <1>4, <1>5 DEF page

\* NewHeader makes such a header.
LEMMA NewHeaderIs ==
  ASSUME NEW file, Stream(file), NEW packets \in Seq(Segment), Len(packets) \in {2, 3},
         Len(packets[2]) >= 2, NEW D, NEW fields \in Maps(D, Words), NEW codec \in Word,
         Len(packets) = Ogg!HeaderCount(codec)
  PROVE  NewRight(file, packets, fields, codec, Ogg!NewHeader(file, packets, fields, codec))
<1> DEFINE edited == Ogg!EditedComments(Ogg!CommentsOf(packets[2], codec), fields, codec)
           new == Ogg!CommentPacket(packets[2][2], edited, codec)
           rest == SubSeq(packets, 3, Len(packets))
           ps == Cat(<<new>>, rest)
           serial == file[1].serial
           pages == Ogg!Paginate(ps, serial, 1)
           first == <<file[1]>>
           header == Cat(first, pages)
<1>1. file[1] \in Leaf /\ serial \in Word
  <2>1. file[1] \in Leaf
    BY DEF Stream
  <2> DEFINE page == file[1]
  <2> HIDE DEF page
  <2>2. page.serial \in Word
    BY <2>1 DEF page, Leaf
  <2> QED
    BY <2>1, <2>2 DEF page
<1>2. packets[2] \in Segment /\ Len(packets[2]) >= 2
  OBVIOUS
<1>3. Ogg!CommentsOf(packets[2], codec) \in Seq(Tagged) /\ packets[2][2] \in Tagged
  BY <1>2, CommentsOfTyped
<1>4. edited \in Seq(Tagged)
  BY <1>3, EditedTyped
<1>5. Ogg!NewHeader(file, packets, fields, codec) = header
  BY Zenon DEF Ogg!NewHeader, Cat
<1> HIDE DEF edited
<1>6. new \in Segment /\ Ogg!CommentsOf(new, codec) = edited
  BY <1>3, <1>4, CommentPacketIs
<1> HIDE DEF new
<1>7. rest \in Seq(Segment) /\ Len(rest) = Len(packets) - 2
      /\ \A i \in 1..Len(rest) : rest[i] = packets[2 + i]
  OBVIOUS
<1>8. <<new>> \in Seq(Segment) /\ Len(<<new>>) = 1 /\ <<new>>[1] = new
  BY <1>6
<1> HIDE DEF rest
<1>9. /\ ps \in Seq(Segment) /\ Len(ps) = Len(packets) - 1 /\ ps[1] = new
      /\ \A i \in 1..Len(rest) : ps[1 + i] = packets[2 + i]
  <2> DEFINE one == <<new>>
  <2>1. one \in Seq(Segment) /\ Len(one) = 1 /\ one[1] = new
    BY <1>8
  <2> HIDE DEF one
  <2>2. IsBoth(Segment, one, rest, Cat(one, rest))
    BY <2>1, <1>7, CatAt
  <2>3. ps = Cat(one, rest)
    BY DEF one
  <2> HIDE DEF ps
  <2>4. IsBoth(Segment, one, rest, ps)
    BY <2>2, <2>3
  <2> QED
    BY <2>1, <2>4, <1>7 DEF IsBoth
<1>10. ps # <<>>
  <2>1. Len(ps) # 0
    BY <1>9
  <2> HIDE DEF ps
  <2> QED
    BY <2>1
<1> HIDE DEF ps, serial
<1>11. PagesRight(pages, ps, serial, 1)
  BY <1>1, <1>9, <1>10, PaginateIs
<1> HIDE DEF pages
<1>12. pages \in Seq(Leaf) /\ Len(pages) \in Nat \ {0} /\ Ogg!AllSegments(pages) = Picked(ps, Cut)
  BY <1>11 DEF PagesRight
<1>13. /\ \A i \in 1..Len(pages) : /\ pages[i].serial = serial /\ pages[i].seq = 1 + i - 1
                                   /\ pages[i].segments # <<>>
       /\ pages[1].continued = FALSE
       /\ \A i \in 2..Len(pages) : pages[i].continued = ~ Ogg!Ends(Ogg!Last(pages[i - 1].segments))
       /\ Ogg!Ends(Ogg!Last(pages[Len(pages)].segments))
  BY <1>11 DEF PagesRight
<1>14. /\ first \in Seq(Leaf) /\ Made(first).open = <<>> /\ Ogg!Packets(first) \in Seq(Segment)
       /\ Len(Ogg!Packets(first)) = 1
  BY FirstPageIs
<1>15. Len(first) = 1 /\ first[1] = file[1]
  OBVIOUS
<1> HIDE DEF first
<1>16. /\ header \in Seq(Leaf) /\ Len(header) = 1 + Len(pages) /\ header[1] = file[1]
       /\ \A i \in 1..Len(pages) : header[1 + i] = pages[i]
  <2>1. IsBoth(Leaf, first, pages, Cat(first, pages))
    BY <1>12, <1>14, CatAt
  <2> HIDE DEF header
  <2>2. IsBoth(Leaf, first, pages, header)
    BY <2>1 DEF header
  <2> QED
    BY <2>2, <1>15 DEF IsBoth
<1>17. Ogg!Packets(pages) = ps /\ Made(pages).open = <<>>
  <2>1. Ogg!Assembled(Picked(ps, Cut)).packets = ps /\ Ogg!Assembled(Picked(ps, Cut)).open = <<>>
    BY <1>9, LaidIs
  <2> QED
    BY <2>1, <1>12, Zenon DEF Ogg!Packets, Made
<1>18. Ogg!Packets(header) = Cat(Ogg!Packets(first), ps) /\ Made(header).open = <<>>
  BY <1>12, <1>14, <1>17, PagesCat
<1> HIDE DEF header
<1> DEFINE old == Ogg!Packets(first)
           made == Ogg!Packets(header)
<1>19. /\ Len(made) = Len(packets) /\ made[1] = old[1] /\ made[2] = new
       /\ \A p \in 3..Len(packets) : made[p] = packets[p]
  <2>1. made = Cat(old, ps) /\ old \in Seq(Segment) /\ Len(old) = 1
    BY <1>14, <1>18
  <2> HIDE DEF old, made
  <2>2. IsBoth(Segment, old, ps, Cat(old, ps))
    BY <2>1, <1>9, CatAt
  <2>3. Len(made) = Len(old) + Len(ps) /\ \A i \in 1..Len(old) : made[i] = old[i]
    BY <2>1, <2>2 DEF IsBoth
  <2>4. \A i \in 1..Len(ps) : made[Len(old) + i] = ps[i]
    BY <2>1, <2>2 DEF IsBoth
  <2>5. Len(packets) \in {2, 3} /\ Len(ps) = Len(packets) - 1 /\ Len(rest) = Len(packets) - 2
    BY <1>7, <1>9
  <2>6. Len(made) = Len(packets) /\ made[1] = old[1] /\ made[2] = new
    <3>1. 1 \in 1..Len(ps) /\ 1 \in 1..Len(old)
      BY <2>1, <2>5
    <3>2. made[Len(old) + 1] = ps[1] /\ made[1] = old[1]
      BY <3>1, <2>3, <2>4
    <3> QED
      BY <2>1, <2>3, <2>5, <3>2, <1>9
  <2>7. ASSUME NEW p \in 3..Len(packets)
        PROVE  made[p] = packets[p]
    <3> DEFINE i == p - 2
    <3>1. i \in 1..Len(rest) /\ 1 + i \in 1..Len(ps) /\ 2 + i = p /\ 1 + (1 + i) = p
      BY <2>5
    <3> HIDE DEF i
    <3>2. made[Len(old) + (1 + i)] = ps[1 + i] /\ ps[1 + i] = packets[2 + i]
      BY <3>1, <2>4, <1>9
    <3> QED
      BY <2>1, <3>1, <3>2
  <2> QED
    BY <2>6, <2>7
<1>20. /\ \A i \in 2..Len(header) : header[i].serial = serial /\ header[i].seq = i - 1
       /\ header[2].continued = FALSE
       /\ header[Len(header)].segments # <<>> /\ Ogg!Ends(Ogg!Last(header[Len(header)].segments))
  <2>1. ASSUME NEW i \in 2..Len(header)
        PROVE  header[i].serial = serial /\ header[i].seq = i - 1
    <3> DEFINE j == i - 1
    <3>1. j \in 1..Len(pages) /\ i = 1 + j /\ 1 + j - 1 = i - 1
      BY <1>12, <1>16
    <3> HIDE DEF j
    <3> QED
      BY <3>1, <1>13, <1>16
  <2>2. header[1 + 1] = pages[1] /\ header[1 + Len(pages)] = pages[Len(pages)]
    <3>1. 1 \in 1..Len(pages) /\ Len(pages) \in 1..Len(pages)
      BY <1>12
    <3> QED
      BY <3>1, <1>16
  <2>3. header[2] = pages[1] /\ header[Len(header)] = pages[Len(pages)]
    BY <2>2, <1>16
  <2>4. pages[Len(pages)].segments # <<>>
    <3>1. Len(pages) \in 1..Len(pages)
      BY <1>12
    <3> QED
      BY <3>1, <1>13
  <2> QED
    BY <2>1, <2>3, <2>4, <1>13
<1>21. ASSUME NEW i \in 3..Len(header)
       PROVE  header[i].continued = ~ Ogg!Ends(Ogg!Last(header[i - 1].segments))
  <2> DEFINE j == i - 1
  <2>1. j \in 2..Len(pages) /\ j \in 1..Len(pages) /\ j - 1 \in 1..Len(pages)
        /\ i = 1 + j /\ i - 1 = 1 + (j - 1)
    BY <1>12, <1>16
  <2> HIDE DEF j
  <2>2. header[1 + j] = pages[j] /\ header[1 + (j - 1)] = pages[j - 1]
    BY <2>1, <1>16
  <2>3. pages[j].continued = ~ Ogg!Ends(Ogg!Last(pages[j - 1].segments))
    BY <2>1, <1>13
  <2> QED
    BY <2>1, <2>2, <2>3
<1>22. Len(header) \in Nat /\ Len(header) >= 2
  BY <1>12, <1>16
<1>23. Count(header) = Len(packets) /\ Ogg!CommentsOf(made[2], codec) = edited
  BY <1>6, <1>19 DEF Count
<1> QED
  BY <1>5, <1>16, <1>18, <1>19, <1>20, <1>21, <1>22, <1>23 DEF NewRight, serial, first, edited

\* The header of a file, and what follows it.
FileRight(file, count, k, packets, audio) ==
    /\ k \in 1..Len(file) /\ k >= 2 /\ Ogg!Ends(Ogg!Last(file[k].segments))
    /\ packets \in Seq(Segment) /\ Len(packets) = count /\ Len(packets[2]) >= 2
    /\ packets[1] = Ogg!Packets(<<file[1]>>)[1]
    /\ audio \in Seq(Leaf) /\ Len(audio) = Len(file) - k
    /\ \A i \in 1..Len(audio) : audio[i] = file[k + i]
    /\ Ogg!Packets(file) = Cat(packets, Ogg!Packets(audio))

\* Where a file has a header, the header and the audio behind it make the file.
LEMMA HeaderOfFile ==
  ASSUME NEW file, Stream(file), NEW count \in {2, 3}, NEW k, k # 0,
         k = Ogg!HeaderPages(file, count)
  PROVE  FileRight(file, count, k, Ogg!Packets(SubSeq(file, 1, k)), SubSeq(file, k + 1, Len(file)))
<1> DEFINE head == SubSeq(file, 1, k)
           packets == Ogg!Packets(head)
           audio == SubSeq(file, k + 1, Len(file))
           first == <<file[1]>>
<1>1. file \in Seq(Leaf) /\ file # <<>> /\ \A i \in 1..Len(file) : file[i].segments # <<>>
  BY DEF Stream
<1>2. k \in 1..Len(file) /\ Count(head) = count /\ Ogg!Ends(Ogg!Last(file[k].segments))
  <2>1. Ogg!HeaderPages(file, count) # 0 /\ count \in Nat
    OBVIOUS
  <2>2. /\ Ogg!HeaderPages(file, count) \in 1..Len(file)
        /\ Count(SubSeq(file, 1, Ogg!HeaderPages(file, count))) = count
        /\ Ogg!Ends(Ogg!Last(file[Ogg!HeaderPages(file, count)].segments))
    BY <1>1, <2>1, HeaderIs
  <2> QED
    BY <2>2
<1>3. Len(file) \in Nat \ {0} /\ k \in Nat \ {0} /\ k <= Len(file)
  BY <1>1, <1>2
<1>4. head \in Seq(Leaf) /\ audio \in Seq(Leaf) /\ Cat(head, audio) = SubSeq(file, 1, Len(file))
  <2>1. k \in 0..Len(file) /\ Len(file) \in 0..Len(file)
    BY <1>3
  <2> QED
    BY <1>1, <1>3, <2>1, SubCat
<1>5. SubSeq(file, 1, Len(file)) = file
  BY <1>1
<1>6. Len(audio) = Len(file) - k /\ \A i \in 1..Len(audio) : audio[i] = file[k + i]
  BY <1>1, <1>3, SMTT(30)
<1>7. Made(head).open = <<>>
  BY <1>1, <1>2, PrefixEnds
<1>8. /\ first \in Seq(Leaf) /\ Made(first).open = <<>> /\ Ogg!Packets(first) \in Seq(Segment)
      /\ Len(Ogg!Packets(first)) = 1
  BY FirstPageIs
<1>9. SubSeq(file, 1, 1) = first
  <2> DEFINE one == SubSeq(file, 1, 1)
  <2>1. one \in Seq(Leaf) /\ Len(one) = 1 /\ one[1] = file[1]
    BY <1>1, <1>3
  <2> HIDE DEF one
  <2>2. one = <<one[1]>>
    BY <2>1
  <2> QED
    BY <2>1, <2>2 DEF one
<1>10. k >= 2
  <2> SUFFICES ASSUME k = 1 PROVE FALSE
    BY <1>3
  <2>1. Count(head) = 1
    BY <1>8, <1>9 DEF Count
  <2> QED
    BY <1>2, <2>1
<1> HIDE DEF head, audio, first
<1>11. Ogg!Packets(file) = Cat(packets, Ogg!Packets(audio))
  <2>1. Ogg!Packets(Cat(head, audio)) = Cat(Ogg!Packets(head), Ogg!Packets(audio))
    BY <1>4, <1>7, PagesCat
  <2> QED
    BY <2>1, <1>4, <1>5
<1>12. packets \in Seq(Segment) /\ Len(packets) = count
  BY <1>2, <1>4, MadeIs DEF Count
<1>13. Ogg!Packets(audio) \in Seq(Segment)
  BY <1>4, MadeIs
<1>14. packets[1] = Ogg!Packets(first)[1]
  <2> DEFINE rest == SubSeq(file, 2, k)
             old == Ogg!Packets(first)
             more == Ogg!Packets(rest)
  <2>1. rest \in Seq(Leaf) /\ Cat(first, rest) = head
    <3>1. 1 \in 0..Len(file) /\ k \in 0..Len(file) /\ 1 <= k
      BY <1>3
    <3>2. SubSeq(file, 1 + 1, k) \in Seq(Leaf)
          /\ Cat(SubSeq(file, 1, 1), SubSeq(file, 1 + 1, k)) = SubSeq(file, 1, k)
      BY <1>1, <3>1, SubCat
    <3>3. SubSeq(file, 1 + 1, k) = SubSeq(file, 2, k)
      OBVIOUS
    <3> HIDE DEF rest
    <3> QED
      BY <3>2, <3>3, <1>9 DEF rest, head
  <2> HIDE DEF rest
  <2>2. packets = Cat(old, more)
    BY <2>1, <1>8, PagesCat
  <2>3. more \in Seq(Segment) /\ old \in Seq(Segment) /\ Len(old) = 1
    BY <2>1, <1>8, MadeIs
  <2> HIDE DEF old, more, packets
  <2>4. IsBoth(Segment, old, more, packets)
    BY <2>2, <2>3, CatAt
  <2>5. \A i \in 1..Len(old) : packets[i] = old[i]
    BY <2>4 DEF IsBoth
  <2>6. packets[1] = old[1]
    BY <2>3, <2>5
  <2> QED
    BY <2>6 DEF old
<1> HIDE DEF packets
<1>15. Len(packets[2]) >= 2
  <2> DEFINE all == Ogg!Packets(file)
             more == Ogg!Packets(audio)
  <2>1. IsBoth(Segment, packets, more, all)
    BY <1>11, <1>12, <1>13, CatAt
  <2>2. more \in Seq(Segment)
    BY <1>13
  <2>3. Count(file) >= 2 => Len(all[2]) >= 2
    BY DEF Stream
  <2>4. Count(file) = Len(all)
    BY DEF Count
  <2> HIDE DEF all, more
  <2>5. Len(all) = Len(packets) + Len(more) /\ Len(more) \in Nat
        /\ \A i \in 1..Len(packets) : all[i] = packets[i]
    BY <2>1, <2>2 DEF IsBoth
  <2>6. Len(all) >= 2 /\ 2 \in 1..Len(packets)
    BY <2>5, <1>12
  <2> QED
    BY <2>3, <2>4, <2>5, <2>6
<1>16. FileRight(file, count, k, packets, audio)
  BY <1>2, <1>4, <1>6, <1>10, <1>11, <1>12, <1>14, <1>15 DEF FileRight, first
<1> QED
  BY <1>16 DEF head, packets, audio

\* An edited file: a new header of n pages, and the last m pages of the old file,
\* which followed k pages.
Laid(file, k, edited, n, m) ==
    /\ n \in Nat /\ m \in Nat /\ k \in Nat /\ n >= 2 /\ k >= 2
    /\ file \in Seq(Leaf) /\ edited \in Seq(Leaf) /\ Len(file) = k + m /\ Len(edited) = n + m
    /\ edited[1] = file[1] /\ Ogg!Ends(Ogg!Last(file[1].segments))
    /\ Ogg!Ends(Ogg!Last(file[k].segments)) /\ Ogg!Ends(Ogg!Last(edited[n].segments))
    /\ \A i \in 2..n : edited[i].seq = i - 1
    /\ edited[2].continued = FALSE
    /\ \A i \in 3..n : edited[i].continued = ~ Ogg!Ends(Ogg!Last(edited[i - 1].segments))
    /\ \A j \in 1..m : /\ edited[n + j].segments = file[k + j].segments
                       /\ edited[n + j].continued = file[k + j].continued
    /\ \A j \in 1..m : edited[n + j].seq = IF n = k THEN file[k + j].seq ELSE n + j - 1

\* The pages of an edited file are numbered one after another.
LEMMA LaidConsecutive ==
  ASSUME NEW file, NEW k, NEW edited, NEW n, NEW m, Laid(file, k, edited, n, m),
         Ogg!Consecutive(file)
  PROVE  Ogg!Consecutive(edited)
<1>1. /\ n \in Nat /\ m \in Nat /\ k \in Nat /\ n >= 2 /\ k >= 2
      /\ Len(file) = k + m /\ Len(edited) = n + m
      /\ DOMAIN file = 1..Len(file) /\ DOMAIN edited = 1..Len(edited)
      /\ edited[1] = file[1]
  BY DEF Laid
<1>2. \A i \in 1..k + m : file[i].seq = i - 1
  BY <1>1 DEF Ogg!Consecutive
<1>3. ASSUME NEW i \in 1..n + m
      PROVE  edited[i].seq = i - 1
  <2>1. CASE i = 1
    <3>1. 1 \in 1..k + m
      BY <1>1
    <3>2. file[1].seq = 1 - 1
      BY <1>2, <3>1
    <3> QED
      BY <2>1, <3>2, <1>1
  <2>2. CASE i \in 2..n
    BY <2>2 DEF Laid
  <2>3. CASE i > n
    <3> DEFINE j == i - n
    <3>1. j \in 1..m /\ n + j = i /\ k + j \in 1..k + m
      BY <2>3, <1>1
    <3> HIDE DEF j
    <3>2. edited[n + j].seq = IF n = k THEN file[k + j].seq ELSE n + j - 1
      BY <3>1 DEF Laid
    <3>3. file[k + j].seq = (k + j) - 1
      BY <3>1, <1>2
    <3>4. CASE n = k
      <4>1. edited[n + j].seq = (k + j) - 1
        BY <3>2, <3>3, <3>4
      <4>2. (k + j) - 1 = i - 1
        BY <3>1, <3>4
      <4> QED
        BY <3>1, <4>1, <4>2
    <3>5. CASE n # k
      <4>1. edited[n + j].seq = n + j - 1
        BY <3>2, <3>5
      <4>2. n + j - 1 = i - 1
        BY <3>1, <1>1
      <4> QED
        BY <3>1, <4>1, <4>2
    <3> QED
      BY <3>4, <3>5
  <2> QED
    BY <2>1, <2>2, <2>3, <1>1
<1> QED
  BY <1>1, <1>3 DEF Ogg!Consecutive

\* The pages of an edited file say rightly whether they continue a packet.
LEMMA LaidContinued ==
  ASSUME NEW file, NEW k, NEW edited, NEW n, NEW m, Laid(file, k, edited, n, m),
         Ogg!ContinuedRight(file)
  PROVE  Ogg!ContinuedRight(edited)
<1>1. /\ n \in Nat /\ m \in Nat /\ k \in Nat /\ n >= 2 /\ k >= 2
      /\ Len(file) = k + m /\ Len(edited) = n + m
      /\ edited[1] = file[1] /\ Ogg!Ends(Ogg!Last(file[1].segments))
      /\ Ogg!Ends(Ogg!Last(file[k].segments)) /\ Ogg!Ends(Ogg!Last(edited[n].segments))
      /\ edited[2].continued = FALSE
  BY DEF Laid
<1> DEFINE Old(i) == file[i].continued = ~ Ogg!Ends(Ogg!Last(file[i - 1].segments))
           New(i) == edited[i].continued = ~ Ogg!Ends(Ogg!Last(edited[i - 1].segments))
<1>2. \A i \in 2..k + m : Old(i)
  BY <1>1, Zenon DEF Ogg!ContinuedRight
<1>3. New(2)
  <2>1. 2 - 1 = 1
    OBVIOUS
  <2> QED
    BY <2>1, <1>1
<1>4. \A i \in 3..n : New(i)
  BY DEF Laid
<1>5. ASSUME NEW j \in 1..m
      PROVE  New(n + j)
  <2> DEFINE p == (k + j) - 1
             q == (n + j) - 1
  <2>1. k + j \in 2..k + m
    BY <1>1
  <2>2. file[k + j].continued = ~ Ogg!Ends(Ogg!Last(file[p].segments))
    BY <1>2, <2>1
  <2>3. edited[n + j].continued = file[k + j].continued
    BY DEF Laid
  <2>4. Ogg!Ends(Ogg!Last(file[p].segments)) <=> Ogg!Ends(Ogg!Last(edited[q].segments))
    <3>1. CASE j = 1
      <4>1. p = k /\ q = n
        BY <3>1, <1>1
      <4> QED
        BY <4>1, <1>1
    <3>2. CASE j # 1
      <4> DEFINE h == j - 1
      <4>1. h \in 1..m /\ p = k + h /\ q = n + h
        BY <3>2, <1>1
      <4> HIDE DEF h, p, q
      <4>2. edited[n + h].segments = file[k + h].segments
        BY <4>1 DEF Laid
      <4> QED
        BY <4>1, <4>2
    <3> QED
      BY <3>1, <3>2
  <2> HIDE DEF p
  <2> QED
    BY <2>2, <2>3, <2>4
<1> HIDE DEF New
<1>6. ASSUME NEW i \in 2..n + m
      PROVE  New(i)
  <2>1. i = 2 \/ i \in 3..n \/ i > n
    BY <1>1
  <2>2. CASE i > n
    <3> DEFINE j == i - n
    <3>1. j \in 1..m /\ n + j = i
      BY <2>2, <1>1
    <3> HIDE DEF j
    <3> QED
      BY <3>1, <1>5
  <2> QED
    BY <2>1, <2>2, <1>3, <1>4
<1>7. \A i \in 2..Len(edited) : New(i)
  BY <1>1, <1>6
<1> QED
  BY <1>7, Zenon DEF New, Ogg!ContinuedRight

\* A new header with the audio pages behind it is an edited file.
LEMMA LaidIsEdited ==
  ASSUME NEW file, Stream(file), NEW count, NEW k, NEW packets, NEW audio,
         FileRight(file, count, k, packets, audio), NEW codec, NEW fields, NEW header,
         NewRight(file, packets, fields, codec, header), NEW moved,
         MovedRight(audio, Len(header), k, moved)
  PROVE  Laid(file, k, Cat(header, moved), Len(header), Len(audio))
<1> DEFINE edited == Cat(header, moved)
           n == Len(header)
           m == Len(audio)
<1>1. /\ k \in 1..Len(file) /\ k >= 2 /\ Ogg!Ends(Ogg!Last(file[k].segments))
      /\ audio \in Seq(Leaf) /\ m = Len(file) - k
      /\ \A i \in 1..m : audio[i] = file[k + i]
  BY DEF FileRight
<1>2. file \in Seq(Leaf) /\ Len(file) \in Nat /\ Ogg!Ends(Ogg!Last(file[1].segments))
  BY DEF Stream
<1>3. /\ header \in Seq(Leaf) /\ n \in Nat /\ n >= 2 /\ header[1] = file[1]
      /\ \A i \in 2..n : header[i].serial = file[1].serial /\ header[i].seq = i - 1
      /\ header[2].continued = FALSE
      /\ \A i \in 3..n : header[i].continued = ~ Ogg!Ends(Ogg!Last(header[i - 1].segments))
      /\ Ogg!Ends(Ogg!Last(header[n].segments))
  BY DEF NewRight
<1>4. /\ moved \in Seq(Leaf) /\ Len(moved) = m
      /\ \A i \in 1..m :
           /\ moved[i].segments = audio[i].segments /\ moved[i].continued = audio[i].continued
           /\ moved[i].seq = IF n = k THEN audio[i].seq ELSE n + i - 1
  BY DEF MovedRight
<1>5. IsBoth(Leaf, header, moved, edited)
  BY <1>3, <1>4, CatAt
<1> HIDE DEF edited
<1>6. m \in Nat /\ k \in Nat /\ Len(file) = k + m
  BY <1>1, <1>2
<1> HIDE DEF n, m
<1>7. /\ edited \in Seq(Leaf) /\ Len(edited) = n + m
      /\ \A i \in 1..n : edited[i] = header[i]
      /\ \A i \in 1..m : edited[n + i] = moved[i]
  BY <1>4, <1>5 DEF IsBoth, n
<1>8. edited[1] = file[1] /\ edited[2].continued = FALSE
      /\ Ogg!Ends(Ogg!Last(edited[n].segments))
  <2>1. 1 \in 1..n /\ 2 \in 1..n /\ n \in 1..n
    BY <1>3
  <2>2. edited[1] = header[1] /\ edited[2] = header[2] /\ edited[n] = header[n]
    BY <1>7, <2>1
  <2> QED
    BY <2>2, <1>3
<1>9. ASSUME NEW i \in 2..n
      PROVE  edited[i].seq = i - 1
  <2>1. i \in 1..n
    BY <1>3
  <2>2. edited[i] = header[i] /\ header[i].seq = i - 1
    BY <2>1, <1>3, <1>7
  <2> QED
    BY <2>2
<1>10. ASSUME NEW i \in 3..n
       PROVE  edited[i].continued = ~ Ogg!Ends(Ogg!Last(edited[i - 1].segments))
  <2>1. i \in 1..n /\ i - 1 \in 1..n
    BY <1>3
  <2>2. edited[i] = header[i] /\ edited[i - 1] = header[i - 1]
    BY <2>1, <1>7
  <2>3. header[i].continued = ~ Ogg!Ends(Ogg!Last(header[i - 1].segments))
    BY <1>3
  <2> QED
    BY <2>2, <2>3
<1>11. ASSUME NEW j \in 1..m
       PROVE  /\ edited[n + j].segments = file[k + j].segments
              /\ edited[n + j].continued = file[k + j].continued
              /\ edited[n + j].seq = IF n = k THEN file[k + j].seq ELSE n + j - 1
  <2>1. edited[n + j] = moved[j] /\ audio[j] = file[k + j]
    BY <1>1, <1>7
  <2>2. /\ moved[j].segments = audio[j].segments /\ moved[j].continued = audio[j].continued
        /\ moved[j].seq = IF n = k THEN audio[j].seq ELSE n + j - 1
    BY <1>4
  <2> QED
    BY <2>1, <2>2
<1>12. Laid(file, k, edited, n, m)
  BY <1>1, <1>2, <1>3, <1>6, <1>7, <1>8, <1>9, <1>10, <1>11 DEF Laid
<1> QED
  BY <1>12 DEF edited, n, m

\* The header of an edited file is found again.
LEMMA HeaderKept ==
  ASSUME NEW file, NEW count \in {2, 3}, NEW packets, Len(packets) = count, NEW codec, NEW fields,
         NEW header, NewRight(file, packets, fields, codec, header), NEW moved \in Seq(Leaf)
  PROVE  Ogg!HeaderPages(Cat(header, moved), count) # 0
<1> DEFINE edited == Cat(header, moved)
           n == Len(header)
<1>1. /\ header \in Seq(Leaf) /\ n \in Nat /\ n >= 2 /\ header[1] = file[1]
      /\ \A i \in 2..n : header[i].serial = file[1].serial /\ header[i].seq = i - 1
      /\ header[n].segments # <<>> /\ Ogg!Ends(Ogg!Last(header[n].segments))
      /\ Count(header) = count
  BY DEF NewRight
<1>2. IsBoth(Leaf, header, moved, edited)
  BY <1>1, CatAt
<1> HIDE DEF edited
<1>3. /\ edited \in Seq(Leaf) /\ Len(edited) = n + Len(moved) /\ Len(moved) \in Nat
      /\ \A i \in 1..n : edited[i] = header[i]
  BY <1>2 DEF IsBoth
<1>4. SubSeq(edited, 1, n) = header
  <2> DEFINE front == SubSeq(edited, 1, n)
  <2>1. front \in Seq(Leaf) /\ Len(front) = n /\ \A i \in 1..n : front[i] = edited[i]
    BY <1>1, <1>3
  <2> HIDE DEF front
  <2>2. front = [i \in 1..n |-> front[i]] /\ header = [i \in 1..n |-> header[i]]
    BY <2>1, <1>1
  <2>3. front = header
    BY <2>1, <2>2, <1>3
  <2> QED
    BY <2>3 DEF front
<1>5. n \in 1..Len(edited) /\ edited[n] = header[n] /\ edited[1] = header[1]
  <2>1. n \in 1..n /\ 1 \in 1..n
    BY <1>1
  <2> QED
    BY <2>1, <1>1, <1>3
<1> HIDE DEF n
<1>6. Count(SubSeq(edited, 1, n - 1)) < Count(SubSeq(edited, 1, n))
  <2>1. edited[n].segments # <<>> /\ Ogg!Ends(Ogg!Last(edited[n].segments))
    BY <1>1, <1>5
  <2> QED
    BY <2>1, <1>3, <1>5, PrefixEnds
<1>7. Count(SubSeq(edited, 1, n)) = count
  BY <1>1, <1>4
<1>8. \A i \in 1..n : edited[i].serial = edited[1].serial
  <2> SUFFICES ASSUME NEW i \in 1..n PROVE edited[i].serial = edited[1].serial
    OBVIOUS
  <2>1. i = 1 \/ i \in 2..n
    BY <1>1
  <2> QED
    BY <2>1, <1>1, <1>3, <1>5
<1>9. Ogg!HeaderPages(edited, count) = n
  <2>1. count \in Nat
    OBVIOUS
  <2>2. Count(SubSeq(edited, 1, n - 1)) < count
    BY <1>6, <1>7
  <2>3. Ogg!Ends(Ogg!Last(edited[n].segments))
    BY <1>1, <1>5
  <2> QED
    BY <2>1, <2>2, <2>3, <1>3, <1>5, <1>7, <1>8, HeaderFound
<1> QED
  BY <1>1, <1>9 DEF edited

\* The packets of an edited file: those of its new header, and those of the audio.
LEMMA PacketsKept ==
  ASSUME NEW file, NEW count \in {2, 3}, NEW k, NEW packets, NEW audio,
         FileRight(file, count, k, packets, audio), NEW codec, NEW fields, NEW header,
         NewRight(file, packets, fields, codec, header), NEW moved,
         MovedRight(audio, Len(header), k, moved), NEW old, old = Ogg!Packets(file),
         NEW new, new = Ogg!Packets(Cat(header, moved))
  PROVE  /\ Len(new) = Len(old) /\ \A p \in DOMAIN old : p # 2 => new[p] = old[p]
         /\ Ogg!CommentsOf(new[2], codec)
              = Ogg!EditedComments(Ogg!CommentsOf(old[2], codec), fields, codec)
<1> DEFINE made == Ogg!Packets(header)
           more == Ogg!Packets(audio)
<1>1. /\ packets \in Seq(Segment) /\ Len(packets) = count /\ audio \in Seq(Leaf)
      /\ packets[1] = Ogg!Packets(<<file[1]>>)[1] /\ old = Cat(packets, more)
  BY DEF FileRight
<1>2. /\ header \in Seq(Leaf) /\ Made(header).open = <<>> /\ Len(made) = count
      /\ made[1] = Ogg!Packets(<<file[1]>>)[1]
      /\ \A p \in 3..count : made[p] = packets[p]
      /\ Ogg!CommentsOf(made[2], codec)
           = Ogg!EditedComments(Ogg!CommentsOf(packets[2], codec), fields, codec)
  BY <1>1 DEF NewRight, Count
<1>3. moved \in Seq(Leaf) /\ Ogg!AllSegments(moved) = Ogg!AllSegments(audio)
  BY DEF MovedRight
<1>4. new = Cat(made, more) /\ made \in Seq(Segment) /\ more \in Seq(Segment)
  <2>1. Ogg!Packets(moved) = more
    BY <1>3, Zenon DEF Ogg!Packets
  <2>2. Ogg!Packets(Cat(header, moved)) = Cat(Ogg!Packets(header), Ogg!Packets(moved))
    BY <1>2, <1>3, PagesCat
  <2>3. more \in Seq(Segment) /\ made \in Seq(Segment)
    BY <1>1, <1>2, MadeIs
  <2> QED
    BY <2>1, <2>2, <2>3
<1> HIDE DEF made, more
<1>5. IsBoth(Segment, packets, more, Cat(packets, more))
      /\ IsBoth(Segment, made, more, Cat(made, more))
  BY <1>1, <1>4, CatAt
<1>6. IsBoth(Segment, packets, more, old) /\ IsBoth(Segment, made, more, new)
  BY <1>1, <1>4, <1>5
<1>7. /\ Len(new) = Len(old) /\ Len(old) = count + Len(more) /\ Len(more) \in Nat
      /\ DOMAIN old = 1..Len(old)
      /\ \A i \in 1..count : old[i] = packets[i] /\ new[i] = made[i]
      /\ \A i \in 1..Len(more) : old[count + i] = more[i] /\ new[count + i] = more[i]
  BY <1>1, <1>2, <1>4, <1>6 DEF IsBoth
<1>8. ASSUME NEW p \in 1..Len(old), p # 2
      PROVE  new[p] = old[p]
  <2>1. p = 1 \/ p \in 3..count \/ p > count
    BY <1>7, <1>8
  <2>2. CASE p = 1
    BY <2>2, <1>1, <1>2, <1>7
  <2>3. CASE p \in 3..count
    <3>1. p \in 1..count
      BY <2>3
    <3> QED
      BY <2>3, <3>1, <1>2, <1>7
  <2>4. CASE p > count
    <3> DEFINE i == p - count
    <3>1. i \in 1..Len(more) /\ p = count + i
      BY <2>4, <1>7
    <3> HIDE DEF i
    <3> QED
      BY <3>1, <1>7
  <2> QED
    BY <2>1, <2>2, <2>3, <2>4
<1>9. old[2] = packets[2] /\ new[2] = made[2]
  <2>1. 2 \in 1..count
    OBVIOUS
  <2> QED
    BY <2>1, <1>7
<1>10. Ogg!CommentsOf(new[2], codec)
         = Ogg!EditedComments(Ogg!CommentsOf(old[2], codec), fields, codec)
  BY <1>2, <1>9
<1> QED
  BY <1>7, <1>8, <1>10

\* An edit that makes a new header keeps the stream.
LEMMA EditKept ==
  ASSUME NEW file, Stream(file), NEW codec, codec = Ogg!CodecOf(file), NEW count \in {2, 3},
         count = Ogg!HeaderCount(codec), NEW k, NEW packets, NEW audio,
         FileRight(file, count, k, packets, audio), NEW fields, NEW header,
         NewRight(file, packets, fields, codec, header), NEW moved,
         MovedRight(audio, Len(header), k, moved)
  PROVE  Ogg!EditKeepsStream(file, fields, Cat(header, moved))
<1> DEFINE edited == Cat(header, moved)
           old == Ogg!Packets(file)
           new == Ogg!Packets(edited)
<1>1. Laid(file, k, edited, Len(header), Len(audio))
  BY LaidIsEdited
<1>2. Len(packets) = count /\ moved \in Seq(Leaf)
  BY DEF FileRight, MovedRight
<1>3. Ogg!HeaderPages(edited, count) # 0
  BY <1>2, HeaderKept
<1>4. /\ Len(new) = Len(old) /\ \A p \in DOMAIN old : p # 2 => new[p] = old[p]
      /\ Ogg!CommentsOf(new[2], codec)
           = Ogg!EditedComments(Ogg!CommentsOf(old[2], codec), fields, codec)
  BY PacketsKept
<1> HIDE DEF edited
<1>5. Ogg!Consecutive(file) => Ogg!Consecutive(edited)
  BY <1>1, LaidConsecutive
<1>6. Ogg!ContinuedRight(file) => Ogg!ContinuedRight(edited)
  BY <1>1, LaidContinued
<1>7. Ogg!EditKeepsStream(file, fields, edited)
  BY <1>3, <1>4, <1>5, <1>6, Zenon DEF Ogg!EditKeepsStream
<1> QED
  BY <1>7 DEF edited

\* An edit keeps the stream of any file that can be edited.
LEMMA StreamKept ==
  ASSUME NEW file, Stream(file), NEW D, NEW fields \in Maps(D, Words)
  PROVE  Ogg!EditKeepsStream(file, fields, Ogg!EditOgg(file, fields))
<1> DEFINE codec == Ogg!CodecOf(file)
           count == Ogg!HeaderCount(codec)
           k == Ogg!HeaderPages(file, count)
           packets == Ogg!Packets(SubSeq(file, 1, k))
           header == Ogg!NewHeader(file, packets, fields, codec)
           audio == SubSeq(file, k + 1, Len(file))
           moved == Ogg!Renumbered(audio, Len(header), k)
           edited == Ogg!EditOgg(file, fields)
<1>1. codec \in Word
  BY DEF Stream
<1>2. count \in {2, 3}
  BY DEF Ogg!HeaderCount
<1>3. edited = file \/ (k # 0 /\ edited = Cat(header, moved))
  BY Zenon DEF Ogg!EditOgg, Ogg!WithHeader, Cat
<1>4. edited = file => Ogg!EditKeepsStream(file, fields, edited)
  BY Zenon DEF Ogg!EditKeepsStream
<1> HIDE DEF codec
<1>5. ASSUME k # 0
      PROVE  Ogg!EditKeepsStream(file, fields, Cat(header, moved))
  <2> HIDE DEF k, count, header
  <2>1. FileRight(file, count, k, packets, audio)
    BY <1>2, <1>5, HeaderOfFile DEF k
  <2> HIDE DEF packets, audio
  <2>2. packets \in Seq(Segment) /\ Len(packets) = count /\ Len(packets[2]) >= 2
        /\ audio \in Seq(Leaf) /\ k \in 1..Len(file)
    BY <2>1 DEF FileRight
  <2>3. NewRight(file, packets, fields, codec, header)
    <3>1. Len(packets) \in {2, 3} /\ Len(packets) = Ogg!HeaderCount(codec)
      BY <2>2, <1>2 DEF count
    <3> QED
      BY <1>1, <2>2, <3>1, NewHeaderIs DEF header
  <2>4. Len(header) \in Nat /\ k \in Nat
    <3>1. Len(header) \in Nat
      BY <2>3 DEF NewRight
    <3> QED
      BY <2>2, <3>1
  <2>5. MovedRight(audio, Len(header), k, moved)
    <3> DEFINE n == Len(header)
    <3> HIDE DEF n
    <3>1. MovedRight(audio, n, k, Ogg!Renumbered(audio, n, k))
      BY <2>2, <2>4, RenumberedIs DEF n
    <3> QED
      BY <3>1 DEF n
  <2> HIDE DEF moved
  <2>6. codec = Ogg!CodecOf(file) /\ count = Ogg!HeaderCount(codec)
    BY DEF codec, count
  <2> QED
    BY <1>2, <2>1, <2>3, <2>5, <2>6, EditKept
<1> QED
  BY <1>3, <1>4, <1>5

-----------------------------------------------------------------------------
(* The inputs of MCData. *)

\* Short texts are texts.
LEMMA WordsAre ==
  /\ <<>> \in Words /\ \A w \in Word : <<w>> \in Words
  /\ \A v, w \in Word : <<v, w>> \in Words
  /\ \A v, w, x \in Word : <<v, w, x>> \in Words
  BY DEF Words

\* The comment that V makes.
LEMMA VIs ==
  /\ <<>> \in Seq(Tagged)
  /\ \A key \in Word, value \in Words : V(key, value) \in Seq(Tagged)
  /\ \A a, b \in Seq(Tagged) : a \o b \in Seq(Tagged)
<1>1. ASSUME NEW key \in Word, NEW value \in Words
      PROVE  V(key, value) \in Seq(Tagged)
  <2>1. Ogg!Comment(key, value) \in Tagged
    BY DEF Ogg!Comment, Tagged
  <2> QED
    BY <2>1 DEF V
<1> QED
  BY <1>1

\* The comments of the inputs are comments.
LEMMA CommentListsAre == CommentLists \subseteq Seq(Tagged)
<1>0. /\ <<"old">> \in Words /\ <<"older">> \in Words /\ <<"x">> \in Words /\ <<"1">> \in Words
      /\ <<"a">> \in Words /\ <<"b">> \in Words /\ <<"1", "2">> \in Words /\ <<"a", "b">> \in Words
  BY WordsAre DEF Word
<1>1. Spelled[1] \subseteq Seq(Tagged)
  <2>1. /\ V("ORGANIZATION", <<"old">>) \in Seq(Tagged) /\ V("LABEL", <<"old">>) \in Seq(Tagged)
        /\ V("PUBLISHER", <<"older">>) \in Seq(Tagged)
    BY <1>0, VIs DEF Word
  <2>2. V("PUBLISHER", <<"older">>) \o V("ORGANIZATION", <<"old">>) \in Seq(Tagged)
    BY <2>1, VIs
  <2> QED
    BY <2>1, <2>2, VIs DEF Spelled
<1>2. Spelled[2] \subseteq Seq(Tagged)
  <2>1. V("DATE", <<"old">>) \in Seq(Tagged) /\ V("YEAR", <<"old">>) \in Seq(Tagged)
    BY <1>0, VIs DEF Word
  <2> QED
    BY <2>1, VIs DEF Spelled
<1>3. Spelled[3] \subseteq Seq(Tagged)
  <2>1. /\ V("TRACKNUMBER", <<"1", "2">>) \in Seq(Tagged)
        /\ V("TRACK", <<"1", "2">>) \in Seq(Tagged) /\ V("TRACKNUMBER", <<"x">>) \in Seq(Tagged)
        /\ V("TRACK", <<"1">>) \in Seq(Tagged)
    BY <1>0, VIs DEF Word
  <2>2. V("TRACKNUMBER", <<"x">>) \o V("TRACK", <<"1">>) \in Seq(Tagged)
    BY <2>1, VIs
  <2> QED
    BY <2>1, <2>2, VIs DEF Spelled
<1>4. Spelled[4] \subseteq Seq(Tagged)
  <2>1. /\ V("ARTIST", <<"a", "b">>) \in Seq(Tagged) /\ V("ARTIST", <<"a">>) \in Seq(Tagged)
        /\ V("ARTIST", <<"b">>) \in Seq(Tagged)
    BY <1>0, VIs DEF Word
  <2>2. V("ARTIST", <<"a">>) \o V("ARTIST", <<"b">>) \in Seq(Tagged)
    BY <2>1, VIs
  <2> QED
    BY <2>1, <2>2, VIs DEF Spelled
<1>5. Spelled[5] \subseteq Seq(Tagged)
  <2>1. /\ V("UPC", <<"old">>) \in Seq(Tagged) /\ V("BARCODE", <<"old">>) \in Seq(Tagged)
        /\ V("COMPILATION", <<"1">>) \in Seq(Tagged)
    BY <1>0, VIs, ZenonT(30) DEF Word
  <2> QED
    BY <2>1, VIs DEF Spelled
<1>6. Spelled[6] \subseteq Seq(Tagged)
  <2>1. V("LYRICS", <<"old">>) \in Seq(Tagged) /\ V("SYNCEDLYRICS", <<"old">>) \in Seq(Tagged)
    BY <1>0, VIs DEF Word
  <2> QED
    BY <2>1, VIs DEF Spelled
<1> SUFFICES ASSUME NEW list \in CommentLists PROVE list \in Seq(Tagged)
  OBVIOUS
<1> DEFINE Of(a, b, c, d, e, f) == a \o b \o c \o d \o e \o f
<1>7. PICK a \in Spelled[1], b \in Spelled[2], c \in Spelled[3], d \in Spelled[4],
           e \in Spelled[5], f \in Spelled[6] : list = a \o b \o c \o d \o e \o f
  <2>1. CommentLists = {Of(a, b, c, d, e, f) : a \in Spelled[1], b \in Spelled[2],
                            c \in Spelled[3], d \in Spelled[4], e \in Spelled[5],
                            f \in Spelled[6]}
    BY DEF CommentLists
  <2> HIDE DEF Of
  <2>2. \E a \in Spelled[1], b \in Spelled[2], c \in Spelled[3], d \in Spelled[4],
           e \in Spelled[5], f \in Spelled[6] : list = Of(a, b, c, d, e, f)
    BY <2>1
  <2> QED
    BY <2>2 DEF Of
<1>8. a \o b \in Seq(Tagged)
  BY <1>1, <1>2, VIs
<1>9. a \o b \o c \in Seq(Tagged)
  BY <1>3, <1>8, VIs
<1>10. a \o b \o c \o d \in Seq(Tagged)
  BY <1>4, <1>9, VIs
<1>11. a \o b \o c \o d \o e \in Seq(Tagged)
  BY <1>5, <1>10, VIs
<1> QED
  BY <1>6, <1>7, <1>11, VIs

\* The edits of the inputs are edits,
LEMMA EditsAre == \A e \in CommentEdits : e \in Asking(DOMAIN e)
<1> DEFINE Shorts == {v \in Words : Len(v) <= 1}
<1>1. /\ <<>> \in Shorts /\ <<"new">> \in Shorts /\ <<"c">> \in Shorts /\ <<"1">> \in Shorts
      /\ <<"2">> \in Shorts /\ <<"3">> \in Shorts /\ <<"a", "b", "a">> \in Words
  <2>1. /\ <<>> \in Words /\ <<"new">> \in Words /\ <<"c">> \in Words /\ <<"1">> \in Words
        /\ <<"2">> \in Words /\ <<"3">> \in Words /\ <<"a", "b", "a">> \in Words
    BY WordsAre DEF Word
  <2>2. Len(<<>>) = 0 /\ \A w : Len(<<w>>) = 1
    OBVIOUS
  <2> QED
    BY <2>1, <2>2
<1>2. \A v, x \in Shorts : \A w \in Words :
        [title |-> v, artist |-> w, album_artist |-> x]
          \in Asking({"title", "artist", "album_artist"})
  BY DEF Asking, Maps, Ogg!Credits
<1>3. \A v, w, x \in Shorts :
        /\ [label |-> v, upc |-> w, date |-> x] \in Asking({"label", "upc", "date"})
        /\ [label |-> v, upc |-> w, lyrics |-> x] \in Asking({"label", "upc", "lyrics"})
        /\ [track_number |-> v, disc_number |-> w, disc_total |-> x]
              \in Asking({"track_number", "disc_number", "disc_total"})
  BY DEF Asking, Maps, Ogg!Credits
<1>4. \A v, w \in Shorts :
        /\ [track_number |-> v] \in Asking({"track_number"})
        /\ [track_total |-> v, lyrics |-> w] \in Asking({"track_total", "lyrics"})
        /\ [album_type |-> v, artist |-> w] \in Asking({"album_type", "artist"})
        /\ [compilation |-> v, replaygain_track_gain |-> w]
              \in Asking({"compilation", "replaygain_track_gain"})
  BY DEF Asking, Maps, Ogg!Credits
<1>5. \A D, e : e \in Asking(D) => e \in Asking(DOMAIN e)
  BY DEF Asking, Maps
<1> HIDE DEF Shorts
<1>6. [title |-> <<"new">>, artist |-> <<"a", "b", "a">>, album_artist |-> <<"c">>]
        \in Asking({"title", "artist", "album_artist"})
  BY <1>1, <1>2
<1>7. /\ [label |-> <<"new">>, upc |-> <<"new">>, date |-> <<>>]
           \in Asking({"label", "upc", "date"})
      /\ [label |-> <<>>, upc |-> <<>>, lyrics |-> <<"new">>]
           \in Asking({"label", "upc", "lyrics"})
      /\ [track_number |-> <<>>, disc_number |-> <<"1">>, disc_total |-> <<"2">>]
           \in Asking({"track_number", "disc_number", "disc_total"})
  BY <1>1, <1>3
<1>8. /\ [track_number |-> <<"2">>] \in Asking({"track_number"})
      /\ [track_total |-> <<"3">>, lyrics |-> <<>>] \in Asking({"track_total", "lyrics"})
      /\ [album_type |-> <<>>, artist |-> <<>>] \in Asking({"album_type", "artist"})
      /\ [compilation |-> <<"1">>, replaygain_track_gain |-> <<"new">>]
           \in Asking({"compilation", "replaygain_track_gain"})
  BY <1>1, <1>4
<1>9. \A e \in CommentEdits : \E D : e \in Asking(D)
  BY <1>6, <1>7, <1>8 DEF CommentEdits
<1> QED
  BY <1>5, <1>9

\* their downloads are downloads,
LEMMA DownloadsAre ==
  \A d \in Downloads : d \in Tagging(DOMAIN d) /\ "compilation" \notin DOMAIN d
<1> DEFINE Shorts == {v \in Words : Len(v) <= 1}
<1>1. /\ <<>> \in Shorts /\ <<"new">> \in Shorts /\ <<"1">> \in Shorts
      /\ <<"compilation">> \in Shorts
      /\ <<"2", "3">> \in Words /\ <<"a", "b", "a">> \in Words
  <2>1. /\ <<>> \in Words /\ <<"new">> \in Words /\ <<"1">> \in Words
        /\ <<"compilation">> \in Words /\ <<"2", "3">> \in Words /\ <<"a", "b", "a">> \in Words
    BY WordsAre DEF Word
  <2>2. Len(<<>>) = 0 /\ \A w : Len(<<w>>) = 1
    OBVIOUS
  <2> QED
    BY <2>1, <2>2
<1>2. \A v, w, x, y : v \in Shorts /\ w \in Words /\ x \in Words /\ y \in Shorts =>
        [title |-> v, artist |-> w, track |-> x, label |-> y]
          \in Tagging({"title", "artist", "track", "label"})
  BY DEF Tagging, Maps, Ogg!Credits, Ogg!Indexes
<1>3. \A v, w, x, y \in Shorts :
        [album_type |-> v, lyrics |-> w, date |-> x, disc |-> y]
          \in Tagging({"album_type", "lyrics", "date", "disc"})
  BY DEF Tagging, Maps, Ogg!Credits, Ogg!Indexes
<1>4. \A D, d : d \in Tagging(D) => d \in Tagging(DOMAIN d) /\ DOMAIN d = D
  BY DEF Tagging, Maps
<1> HIDE DEF Shorts
<1>5. [title |-> <<"new">>, artist |-> <<"a", "b", "a">>, track |-> <<"2", "3">>,
       label |-> <<"new">>] \in Tagging({"title", "artist", "track", "label"})
  BY <1>1, <1>2
<1>6. [album_type |-> <<"compilation">>, lyrics |-> <<"new">>, date |-> <<>>, disc |-> <<"1">>]
        \in Tagging({"album_type", "lyrics", "date", "disc"})
  BY <1>1, <1>3
<1> QED
  BY <1>4, <1>5, <1>6 DEF Downloads

\* and their blocks are blocks.
LEMMA BlocksAre ==
  /\ Blocks \subseteq FlacBlock
  /\ \A n \in 0..3 : \A bs \in [1..n -> Blocks] : bs \in Seq(FlacBlock)
<1>1. /\ V("LYRICS", <<"old">>) \in Seq(Tagged) /\ V("TITLE", <<"old">>) \in Seq(Tagged)
      /\ V("old", <<"old">>) \in Seq(Tagged) /\ <<>> \in Seq(Tagged)
  <2>1. <<"old">> \in Words
    BY WordsAre DEF Word
  <2> QED
    BY <2>1, VIs DEF Word
<1>2. \A body \in Seq(Tagged) : \A type \in {"comments", "picture", "other"} :
        Ogg!Block(type, body) \in FlacBlock
  BY DEF Ogg!Block, FlacBlock
<1>3. Blocks \subseteq FlacBlock
  BY <1>1, <1>2 DEF Blocks
<1>4. \A n \in 0..3 : [1..n -> FlacBlock] \subseteq Seq(FlacBlock)
  OBVIOUS
<1> QED
  BY <1>3, <1>4

-----------------------------------------------------------------------------
(* The files of the inputs. *)

\* The first page of a file: the mark of its codec, and nothing else.
Opening(codec) == Ogg!Page("s", 0, FALSE, <<<<Ogg!Mark(codec)>>>>)

\* A page that makes one packet, the mark of the codec.
OpeningRight(page, codec) ==
    /\ page \in Leaf /\ page.segments # <<>> /\ Ogg!Ends(Ogg!Last(page.segments))
    /\ page.segments[1][1].key = codec /\ Count(<<page>>) = 1

\* Such is the first page of a file.
LEMMA OpeningIs ==
  ASSUME NEW codec \in Word
  PROVE  OpeningRight(Opening(codec), codec)
<1> DEFINE x == <<Ogg!Mark(codec)>>
           page == Opening(codec)
           one == <<page>>
<1>1. x \in Segment /\ Len(x) = 1 /\ x[1].key = codec
  <2>1. Ogg!Mark(codec) \in Tagged /\ Ogg!Mark(codec).key = codec
    BY WordsAre DEF Ogg!Mark, Ogg!Comment, Ogg!Empty, Tagged
  <2> QED
    BY <2>1 DEF Segment
<1> HIDE DEF x
<1>2. Ogg!Ends(x)
  BY <1>1, PageLimits DEF Ogg!Ends
<1>3. <<x>> \in Seq(Segment) /\ <<x>> # <<>> /\ <<x>>[1] = x /\ Len(<<x>>) = 1
      /\ <<x>> = Append(<<>>, x) /\ <<>> \in Seq(Segment)
  BY <1>1
<1>4. page = [serial |-> "s", seq |-> 0, continued |-> FALSE, segments |-> <<x>>]
  BY DEF Opening, Ogg!Page, x
<1>5. "s" \in Word
  BY DEF Word
<1> HIDE DEF page
<1>6. page \in Leaf /\ page.segments = <<x>>
  BY <1>3, <1>4, <1>5 DEF Leaf
<1>7. Ogg!Last(page.segments) = x
  BY <1>3, <1>6, Zenon DEF Ogg!Last
<1>8. Ogg!AllSegments(one) = <<x>>
  <2>1. <<>> \in Seq(Leaf) /\ one = Append(<<>>, page) /\ one \in Seq(Leaf)
    BY <1>6
  <2> HIDE DEF one
  <2>2. SegmentsOf \in Pickers(Leaf, Segment) /\ Ogg!AllSegments(one) = Picked(one, SegmentsOf)
    BY <2>1, SegmentsPicked
  <2> DEFINE none == <<>>
  <2> HIDE DEF none
  <2>3. /\ Picked(<<>>, SegmentsOf) = <<>>
        /\ Picked(Append(none, page), SegmentsOf) = Cat(Picked(none, SegmentsOf), SegmentsOf[page])
    <3>1. none \in Seq(Leaf)
      BY <2>1 DEF none
    <3> QED
      BY <1>6, <2>2, <3>1, PickedIs
  <2>4. SegmentsOf[page] = <<x>>
    BY <1>6 DEF SegmentsOf
  <2>5. Cat(<<>>, <<x>>) = <<x>>
    BY <1>3, CatIs
  <2> QED
    BY <2>1, <2>2, <2>3, <2>4, <2>5 DEF none
<1>9. Len(Ogg!Assembled(<<x>>).packets) = 1
  <2> DEFINE none == <<>>
  <2>1. none \in Seq(Segment) /\ Append(none, x) = <<x>>
    BY <1>3
  <2>2. Len(Ogg!Assembled(none).packets) = 0
    BY AssembledMore DEF Nothing
  <2> HIDE DEF none
  <2>3. Len(Ogg!Assembled(Append(none, x)).packets) = Len(Ogg!Assembled(none).packets) + 1
    BY <1>1, <1>2, <2>1, AssembledEnds
  <2> QED
    BY <2>1, <2>2, <2>3
<1>10. Count(one) = 1
  BY <1>8, <1>9, Zenon DEF Count, Ogg!Packets
<1>11. page.segments[1][1].key = codec
  <2>1. page.segments[1] = x
    BY <1>3, <1>6
  <2> QED
    BY <2>1, <1>1
<1>12. OpeningRight(page, codec)
  BY <1>2, <1>3, <1>6, <1>7, <1>10, <1>11, Zenon DEF OpeningRight, one
<1> QED
  BY <1>12 DEF page

\* The file of an encoder can be edited.
LEMMA EncodedIs ==
  ASSUME NEW codec \in Word, NEW tags \in Segment, Len(tags) >= 2, NEW setup \in Seq(Segment),
         NEW audio \in Seq(Leaf), \A i \in 1..Len(audio) : audio[i].segments # <<>>
  PROVE  Stream(Cat(Cat(<<Opening(codec)>>, Ogg!Paginate(Cat(<<tags>>, setup), "s", 1)), audio))
<1> DEFINE ps == Cat(<<tags>>, setup)
           first == <<Opening(codec)>>
           laid == Ogg!Paginate(ps, "s", 1)
           pages == Cat(first, laid)
           file == Cat(pages, audio)
<1>1. /\ first \in Seq(Leaf) /\ Len(first) = 1 /\ first[1] = Opening(codec)
      /\ Opening(codec).segments # <<>>
      /\ Ogg!Ends(Ogg!Last(Opening(codec).segments))
      /\ Opening(codec).segments[1][1].key = codec
      /\ Count(first) = 1
  <2> DEFINE page == Opening(codec)
  <2>1. OpeningRight(page, codec)
    BY OpeningIs
  <2> HIDE DEF page
  <2>2. /\ page \in Leaf /\ page.segments # <<>> /\ Ogg!Ends(Ogg!Last(page.segments))
        /\ page.segments[1][1].key = codec /\ Count(<<page>>) = 1
    BY <2>1 DEF OpeningRight
  <2>3. <<page>> \in Seq(Leaf) /\ Len(<<page>>) = 1 /\ <<page>>[1] = page
    BY <2>2
  <2> QED
    BY <2>2, <2>3 DEF page
<1>2. Made(first).open = <<>>
  <2> DEFINE page == Opening(codec)
  <2> HIDE DEF page
  <2>1. page \in Leaf /\ page.segments # <<>> /\ Ogg!Ends(Ogg!Last(page.segments))
    BY OpeningIs DEF page, OpeningRight
  <2>2. <<>> \in Seq(Leaf) /\ <<page>> = Append(<<>>, page)
    BY <2>1
  <2>3. Made(Append(<<>>, page)).open = <<>>
    BY <2>1, <2>2, PageEnds
  <2> QED
    BY <2>2, <2>3 DEF page
<1>3. ps \in Seq(Segment) /\ Len(ps) >= 1 /\ ps[1] = tags /\ Len(ps) \in Nat
  <2> DEFINE one == <<tags>>
  <2>1. one \in Seq(Segment) /\ Len(one) = 1 /\ one[1] = tags
    OBVIOUS
  <2> HIDE DEF one
  <2>2. IsBoth(Segment, one, setup, Cat(one, setup))
    BY <2>1, CatAt
  <2>3. ps = Cat(one, setup)
    BY DEF one
  <2> HIDE DEF ps
  <2>4. IsBoth(Segment, one, setup, ps)
    BY <2>2, <2>3
  <2>5. Len(setup) \in Nat /\ 1 \in 1..1
    OBVIOUS
  <2> QED
    BY <2>1, <2>4, <2>5 DEF IsBoth
<1> HIDE DEF ps, first
<1>4. "s" \in Word /\ ps # <<>>
  <2>1. "s" \in Word
    BY DEF Word
  <2> QED
    BY <2>1, <1>3
<1>5. PagesRight(laid, ps, "s", 1)
  BY <1>3, <1>4, PaginateIs
<1> HIDE DEF laid
<1>6. /\ laid \in Seq(Leaf) /\ Len(laid) \in Nat \ {0} /\ Ogg!AllSegments(laid) = Picked(ps, Cut)
      /\ \A i \in 1..Len(laid) : laid[i].segments # <<>>
  BY <1>5 DEF PagesRight
<1>7. Ogg!Packets(laid) = ps /\ Made(laid).open = <<>>
  <2>1. Ogg!Assembled(Picked(ps, Cut)).packets = ps /\ Ogg!Assembled(Picked(ps, Cut)).open = <<>>
    BY <1>3, LaidIs
  <2> QED
    BY <2>1, <1>6, Zenon DEF Ogg!Packets, Made
<1>8. Ogg!Packets(pages) = Cat(Ogg!Packets(first), ps) /\ Made(pages).open = <<>>
  BY <1>1, <1>2, <1>6, <1>7, PagesCat
<1>9. IsBoth(Leaf, first, laid, pages)
  BY <1>1, <1>6, CatAt
<1> HIDE DEF pages
<1>10. /\ pages \in Seq(Leaf) /\ Len(pages) = 1 + Len(laid) /\ pages[1] = Opening(codec)
       /\ \A i \in 1..Len(laid) : pages[1 + i] = laid[i]
  <2>1. 1 \in 1..Len(first)
    BY <1>1
  <2> QED
    BY <2>1, <1>1, <1>9 DEF IsBoth
<1>11. \A i \in 1..Len(pages) : pages[i].segments # <<>>
  <2> SUFFICES ASSUME NEW i \in 1..Len(pages) PROVE pages[i].segments # <<>>
    OBVIOUS
  <2>1. CASE i = 1
    BY <2>1, <1>1, <1>10
  <2>2. CASE i # 1
    <3> DEFINE j == i - 1
    <3>1. j \in 1..Len(laid) /\ 1 + j = i
      BY <2>2, <1>6, <1>10
    <3> HIDE DEF j
    <3> QED
      BY <3>1, <1>6, <1>10
  <2> QED
    BY <2>1, <2>2
<1>12. Ogg!Packets(file) = Cat(Ogg!Packets(pages), Ogg!Packets(audio))
  BY <1>8, <1>10, PagesCat
<1>13. IsBoth(Leaf, pages, audio, file)
  BY <1>10, CatAt
<1> HIDE DEF file
<1>14. /\ file \in Seq(Leaf) /\ Len(file) = Len(pages) + Len(audio) /\ Len(audio) \in Nat
       /\ \A i \in 1..Len(pages) : file[i] = pages[i]
       /\ \A i \in 1..Len(audio) : file[Len(pages) + i] = audio[i]
  BY <1>13 DEF IsBoth
<1>15. file[1] = Opening(codec) /\ file # <<>> /\ Len(pages) \in Nat
  <2>1. 1 \in 1..Len(pages) /\ Len(pages) \in Nat
    BY <1>6, <1>10
  <2>2. file[1] = pages[1] /\ Len(file) # 0
    BY <2>1, <1>14
  <2> QED
    BY <2>1, <2>2, <1>10, <1>14
<1>16. ASSUME NEW i \in 1..Len(file)
       PROVE  file[i].segments # <<>>
  <2>1. CASE i \in 1..Len(pages)
    BY <2>1, <1>11, <1>14
  <2>2. CASE i \notin 1..Len(pages)
    <3> DEFINE j == i - Len(pages)
    <3>1. j \in 1..Len(audio) /\ Len(pages) + j = i
      BY <2>2, <1>14, <1>15
    <3> HIDE DEF j
    <3> QED
      BY <3>1, <1>14
  <2> QED
    BY <2>1, <2>2
<1>17. Ogg!CodecOf(file) = codec
  BY <1>1, <1>15 DEF Ogg!CodecOf
<1>18. Ogg!Packets(file)[2] = tags
  <2> DEFINE a == Ogg!Packets(first)
             b == Ogg!Packets(pages)
             c == Ogg!Packets(audio)
             d == Ogg!Packets(file)
  <2>1. /\ a \in Seq(Segment) /\ c \in Seq(Segment) /\ Len(a) = 1
        /\ b = Cat(a, ps) /\ d = Cat(b, c) /\ b \in Seq(Segment)
    <3>1. a \in Seq(Segment) /\ c \in Seq(Segment) /\ b \in Seq(Segment)
      BY <1>1, <1>10, MadeIs
    <3>2. Len(a) = 1
      BY <1>1 DEF Count
    <3> QED
      BY <3>1, <3>2, <1>8, <1>12
  <2> HIDE DEF a, b, c, d
  <2>2. IsBoth(Segment, a, ps, Cat(a, ps)) /\ IsBoth(Segment, b, c, Cat(b, c))
    BY <2>1, <1>3, CatAt
  <2>3. IsBoth(Segment, a, ps, b) /\ IsBoth(Segment, b, c, d)
    BY <2>1, <2>2
  <2>4. 1 \in 1..Len(ps) /\ 2 \in 1..Len(b)
    BY <2>1, <2>3, <1>3 DEF IsBoth
  <2>5. b[Len(a) + 1] = ps[1] /\ d[2] = b[2]
    BY <2>3, <2>4 DEF IsBoth
  <2> QED
    BY <2>1, <2>5, <1>3 DEF d
<1>19. Count(<<file[1]>>) = 1
  BY <1>1, <1>15 DEF first
<1>20. Stream(file)
  BY <1>1, <1>14, <1>15, <1>16, <1>17, <1>18, <1>19 DEF Stream
<1> QED
  BY <1>20 DEF file, pages, laid, ps, first

\* The files of the inputs can be edited,
LEMMA StreamsAre == \A s \in Streams : Stream(StreamOf(s))
<1> SUFFICES ASSUME NEW s \in Streams PROVE Stream(StreamOf(s))
  OBVIOUS
<1> DEFINE codec == s.codec
           old(i) == Ogg!Comment(IF i = 1 THEN "TITLE" ELSE "OTHER", <<"old">>)
           comments == [i \in 1..s.comments |-> old(i)]
           tags == Ogg!CommentPacket(Ogg!Mark("vendor"), comments, codec)
           marks == [i \in 1..s.setup |-> Ogg!Mark("setup")]
           setup == IF codec = "opus" THEN <<>> ELSE <<marks>>
           pages == Cat(<<Opening(codec)>>, Ogg!Paginate(Cat(<<tags>>, setup), "s", 1))
           segments == <<<<Ogg!Mark("audio"), Ogg!Mark("audio")>>, <<>>>>
           audio == [i \in 1..s.audio |->
                        Ogg!Page(IF s.mixed /\ i = 2 THEN "t" ELSE "s", Len(pages) + i - 1, FALSE,
                                 segments)]
<1>1. /\ codec \in {"opus", "vorbis"} /\ s.comments \in Nat /\ s.setup \in Nat /\ s.audio \in Nat
      /\ s.mixed \in BOOLEAN
  BY DEF Streams
<1>2. codec \in Word
  BY <1>1 DEF Word
<1>3. StreamOf(s) = Cat(pages, audio)
  BY Zenon DEF StreamOf, Opening, Cat
<1>4. /\ \A key \in Word : Ogg!Mark(key) \in Tagged
      /\ \A key \in Word : Ogg!Comment(key, <<"old">>) \in Tagged
  <2>1. <<>> \in Words /\ <<"old">> \in Words
    BY WordsAre DEF Word
  <2> QED
    BY <2>1 DEF Ogg!Mark, Ogg!Comment, Ogg!Empty, Tagged
<1>5. /\ Ogg!Mark("vendor") \in Tagged /\ Ogg!Mark("setup") \in Tagged
      /\ Ogg!Mark("audio") \in Tagged
      /\ Ogg!Comment("TITLE", <<"old">>) \in Tagged /\ Ogg!Comment("OTHER", <<"old">>) \in Tagged
      /\ "s" \in Word /\ "t" \in Word
  BY <1>4 DEF Word
<1>6. comments \in Seq(Tagged)
  <2>1. \A i : old(i) \in Tagged
    BY <1>5
  <2> HIDE DEF old
  <2> QED
    BY <1>1, <2>1
<1> HIDE DEF comments, codec
<1>7. tags \in Segment /\ Len(tags) >= 2
  BY <1>2, <1>5, <1>6, CommentPacketIs
<1> HIDE DEF tags
<1>8. setup \in Seq(Segment)
  <2> DEFINE mark == Ogg!Mark("setup")
  <2>1. mark \in Tagged /\ marks = [i \in 1..s.setup |-> mark]
    BY <1>5
  <2> HIDE DEF mark, marks
  <2>2. marks \in Seq(Tagged)
    BY <1>1, <2>1
  <2> QED
    BY <2>2 DEF Segment
<1> HIDE DEF setup
<1>9. Len(pages) \in Nat \ {0}
  <2> DEFINE ps == Cat(<<tags>>, setup)
             laid == Ogg!Paginate(ps, "s", 1)
             first == <<Opening(codec)>>
  <2>1. ps \in Seq(Segment) /\ ps # <<>>
    <3> DEFINE one == <<tags>>
    <3>1. one \in Seq(Segment) /\ Len(one) = 1
      BY <1>7
    <3> HIDE DEF one
    <3>2. IsBoth(Segment, one, setup, Cat(one, setup))
      BY <1>8, <3>1, CatAt
    <3>3. Cat(one, setup) \in Seq(Segment) /\ Len(Cat(one, setup)) = 1 + Len(setup)
          /\ Len(setup) \in Nat
      BY <1>8, <3>1, <3>2 DEF IsBoth
    <3> QED
      BY <3>3 DEF one
  <2> HIDE DEF ps
  <2>2. PagesRight(laid, ps, "s", 1)
    BY <1>5, <2>1, PaginateIs
  <2> HIDE DEF laid
  <2>3. laid \in Seq(Leaf) /\ Len(laid) \in Nat
    BY <2>2 DEF PagesRight
  <2>4. first \in Seq(Leaf) /\ Len(first) = 1
    <3>1. Opening(codec) \in Leaf
      BY <1>2, OpeningIs DEF OpeningRight
    <3> QED
      BY <3>1
  <2> HIDE DEF first
  <2>5. IsBoth(Leaf, first, laid, Cat(first, laid))
    BY <2>3, <2>4, CatAt
  <2>6. Len(Cat(first, laid)) = 1 + Len(laid)
    BY <2>4, <2>5 DEF IsBoth
  <2>7. Len(Cat(first, laid)) \in Nat \ {0}
    BY <2>3, <2>6
  <2> QED
    BY <2>7 DEF first, laid, ps
<1> HIDE DEF pages, segments
<1>10. segments \in Seq(Segment) /\ segments # <<>>
  <2> DEFINE mark == Ogg!Mark("audio")
  <2>1. mark \in Tagged
    BY <1>5
  <2> HIDE DEF mark
  <2> DEFINE full == <<mark, mark>>
             end == <<>>
  <2>2. full \in Segment /\ end \in Segment
    BY <2>1 DEF Segment
  <2> HIDE DEF full, end
  <2>3. <<full, end>> \in Seq(Segment) /\ <<full, end>> # <<>>
    BY <2>2
  <2> QED
    BY <2>3 DEF full, end, mark, segments
<1>11. ASSUME NEW i \in 1..s.audio
       PROVE  audio[i] \in Leaf /\ audio[i].segments # <<>>
  <2> DEFINE serial == IF s.mixed /\ i = 2 THEN "t" ELSE "s"
             seq == Len(pages) + i - 1
  <2>1. audio[i] = Ogg!Page(serial, seq, FALSE, segments)
    OBVIOUS
  <2>2. serial \in Word /\ seq \in Nat
    BY <1>1, <1>5, <1>9
  <2> HIDE DEF serial, seq, audio
  <2>3. audio[i] = [serial |-> serial, seq |-> seq, continued |-> FALSE, segments |-> segments]
    BY <2>1 DEF Ogg!Page
  <2> QED
    BY <2>2, <2>3, <1>10 DEF Leaf
<1>12. audio \in Seq(Leaf) /\ \A i \in 1..Len(audio) : audio[i].segments # <<>>
  <2>1. audio = [i \in 1..s.audio |-> audio[i]] /\ s.audio \in Nat
    BY <1>1
  <2> HIDE DEF audio
  <2>2. audio \in [1..s.audio -> Leaf]
    BY <2>1, <1>11
  <2>3. audio \in Seq(Leaf) /\ Len(audio) = s.audio
    BY <2>1, <2>2
  <2> QED
    BY <2>3, <1>11
<1> HIDE DEF audio
<1>13. Stream(Cat(pages, audio))
  BY <1>2, <1>7, <1>8, <1>12, EncodedIs DEF pages
<1> QED
  BY <1>3, <1>13

\* and their edits are edits.
LEMMA StreamEditsAre == \A e \in StreamEdits : e \in Maps(DOMAIN e, Words)
<1>1. /\ <<>> \in Words /\ <<"new">> \in Words /\ <<"a">> \in Words /\ <<"b">> \in Words
      /\ <<"c">> \in Words /\ <<"d">> \in Words
  BY WordsAre DEF Word
<1>2. \A v, w \in Words :
        /\ [title |-> v] \in Maps({"title"}, Words)
        /\ [genre |-> v, cover_path |-> w] \in Maps({"genre", "cover_path"}, Words)
        /\ [title |-> v, replaygain_track_gain |-> w]
             \in Maps({"title", "replaygain_track_gain"}, Words)
  BY DEF Maps
<1>3. \A v, w, x, y \in Words :
        [artist |-> v, album |-> w, lyrics |-> x, cover_path |-> y]
          \in Maps({"artist", "album", "lyrics", "cover_path"}, Words)
  BY DEF Maps
<1>4. \A D, e : e \in Maps(D, Words) => e \in Maps(DOMAIN e, Words)
  BY DEF Maps
<1> HIDE DEF Words
<1>5. /\ [title |-> <<"new">>] \in Maps({"title"}, Words)
      /\ [title |-> <<>>] \in Maps({"title"}, Words)
  BY <1>1, <1>2
<1>6. /\ [genre |-> <<"new">>, cover_path |-> <<"new">>] \in Maps({"genre", "cover_path"}, Words)
      /\ [title |-> <<>>, replaygain_track_gain |-> <<"new">>]
           \in Maps({"title", "replaygain_track_gain"}, Words)
  BY <1>1, <1>2
<1>7. [artist |-> <<"a">>, album |-> <<"b">>, lyrics |-> <<"c">>, cover_path |-> <<"d">>]
        \in Maps({"artist", "album", "lyrics", "cover_path"}, Words)
  BY <1>1, <1>3
<1> QED
  BY <1>4, <1>5, <1>6, <1>7 DEF StreamEdits

\* An edit of an Ogg file is of such a file, and made of what it asks for.
LEMMA OggInputIs ==
  ASSUME MCInit, input[1] = "ogg"
  PROVE  Ogg!EditKeepsStream(before, input[2], after)
<1>1. PICK s \in Streams, e \in StreamEdits :
        input = <<"ogg", e>> /\ before = StreamOf(s) /\ after = Ogg!EditOgg(before, e)
  BY DEF MCInit, Algorithms
<1>2. Stream(before) /\ e \in Maps(DOMAIN e, Words)
  BY <1>1, StreamsAre, StreamEditsAre
<1>3. Ogg!EditKeepsStream(before, e, Ogg!EditOgg(before, e))
  BY <1>2, StreamKept
<1> QED
  BY <1>1, <1>3

\* TagsAsAsked: an edit of the comments of a file, and the tags of a download,
\* read back as they were asked for, however other taggers have spelled what the
\* file had, and what they do not name reads as it did (applyVorbisFieldEdits,
\* writeVorbisMetadata, metadataFromParsedFlac); an edit of a FLAC file leaves its
\* other blocks, and shows its new cover alone (updateFlacVorbis); an edit of an Ogg
\* file keeps its other packets and its audio, and numbers and marks its pages
\* rightly (EditOggFields).
THEOREM TagsAsAskedHolds == MCSpec => []TagsAsAsked
<1>1. ASSUME MCInit, input[1] = "comments"
      PROVE  Ogg!EditReadsBack(input[2], input[3], input[4])
  <2>1. PICK c \in CommentLists, e \in CommentEdits, split \in BOOLEAN :
          input = <<"comments", c, e, split>>
    BY <1>1, InputsAre
  <2>2. c \in Seq(Tagged) /\ e \in Asking(DOMAIN e)
    BY CommentListsAre, EditsAre
  <2>3. Ogg!EditReadsBack(c, e, split)
    BY <2>2, EditHolds
  <2> QED
    BY <2>1, <2>3
<1>2. ASSUME MCInit, input[1] = "download"
      PROVE  Ogg!EmbedReadsBack(input[2], input[3], input[4])
  <2>1. PICK c \in CommentLists, d \in Downloads, split \in BOOLEAN :
          input = <<"download", c, d, split>>
    BY <1>2, InputsAre
  <2>2. c \in Seq(Tagged) /\ d \in Tagging(DOMAIN d) /\ "compilation" \notin DOMAIN d
    BY CommentListsAre, DownloadsAre
  <2>3. Ogg!EmbedReadsBack(c, d, split)
    BY <2>2, EmbedHolds
  <2> QED
    BY <2>1, <2>3
<1>3. ASSUME MCInit, input[1] = "flac"
      PROVE  Ogg!FlacReadsBack(input[2], input[3], FALSE, input[4])
  <2>1. PICK n \in 0..3 : \E bs \in [1..n -> Blocks], e \in CommentEdits, cover \in Covers :
          input = <<"flac", bs, e, cover>>
    BY <1>3, InputsAre
  <2>2. PICK bs \in [1..n -> Blocks], e \in CommentEdits, cover \in Covers :
          input = <<"flac", bs, e, cover>>
    BY <2>1
  <2>3. bs \in Seq(FlacBlock) /\ e \in Asking(DOMAIN e) /\ cover \in {"none", "good", "unfit"}
    BY BlocksAre, EditsAre DEF Covers
  <2>4. Ogg!FlacReadsBack(bs, e, FALSE, cover)
    BY <2>3, FlacHolds
  <2> QED
    BY <2>2, <2>4
<1>4. MCInit => TagsAsAsked
  BY <1>1, <1>2, <1>3, OggInputIs DEF TagsAsAsked
<1>5. TagsAsAsked /\ [MCNext]_<<edit, indexing>> => TagsAsAsked'
  <2>1. [MCNext]_<<edit, indexing>> => input' = input /\ before' = before /\ after' = after
    BY DEF MCNext, edit
  <2> QED
    BY <2>1 DEF TagsAsAsked
<1> QED
  BY <1>4, <1>5, PTL DEF MCSpec

=============================================================================
