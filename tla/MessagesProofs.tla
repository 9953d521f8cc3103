--------------------------- MODULE MessagesProofs ---------------------------
(***************************************************************************)
(* Proofs about Messages, for frames and messages of any length.  What      *)
(* generateSegments and genTextSegments compute is shown by induction over  *)
(* the length of their argument.  The library's induction theorems take the *)
(* statement as a parameter; here it is a set of numbers instead.           *)
(***************************************************************************)
EXTENDS Messages, SequenceTheorems, WellFoundedInduction, TLAPS

(* Induction, and the functions that are defined by it.                    *)

\* Every set of natural numbers that is not empty has a least element.
LEMMA LeastElement ==
    ASSUME NEW B, B \subseteq Nat, B # {}
    PROVE  \E x \in B : \A y \in B : x <= y
<1>. DEFINE R == {ss \in Nat \X Nat : ss[1] < ss[2]}
<1>1. IsWellFoundedOn(R, Nat)
  BY NatLessThanWellFounded DEF OpToRel
<1>. HIDE DEF R
<1>2. PICK x \in B : \A y \in B : ~(<<y, x>> \in R)
  BY <1>1, WFMin
<1>3. \A y \in B : ~(y < x)
  BY <1>2 DEF R
<1>. QED  BY <1>3

\* A set with 0, and with the successor of each of its numbers, has them all.
LEMMA Induction ==
    ASSUME NEW S, 0 \in S, \A n \in Nat : n \in S => n + 1 \in S
    PROVE  Nat \subseteq S
<1>1. SUFFICES ASSUME Nat \ S # {} PROVE FALSE
  OBVIOUS
<1>2. PICK x \in Nat \ S : \A y \in Nat \ S : x <= y
  BY <1>1, LeastElement
<1>3. x - 1 \in Nat /\ (x - 1) + 1 = x
  BY <1>2
<1>4. x - 1 \in S
  BY <1>2, <1>3
<1>. QED  BY <1>2, <1>3, <1>4

\* A function on 0..N that takes each value from the one before exists: F[n]
\* is what it does at n.
Iterates(T, base, N, F) ==
    \E g \in [0..N -> T] :
        g[0] = base /\ \A n \in 1..N : g[n] = F[n][g[n-1]]

\* A recursion over 0..N that stays in T has a value.
LEMMA RecursionExists ==
    ASSUME NEW T, NEW base \in T, NEW N \in Nat, NEW F \in [1..N -> [T -> T]]
    PROVE  Iterates(T, base, N, F)
<1>. DEFINE Good(g, k) == g[0] = base /\ \A n \in 1..k : g[n] = F[n][g[n-1]]
            S == {k \in Nat : k <= N => \E g \in [0..k -> T] : Good(g, k)}
<1>1. 0 \in S
  <2>1. Good([n \in 0..0 |-> base], 0)
    OBVIOUS
  <2>2. [n \in 0..0 |-> base] \in [0..0 -> T]
    OBVIOUS
  <2>. QED  BY <2>1, <2>2
<1>2. ASSUME NEW k \in Nat, k \in S
      PROVE  k + 1 \in S
  <2>. SUFFICES ASSUME k + 1 <= N
                PROVE  \E g \in [0..(k+1) -> T] : Good(g, k + 1)
    OBVIOUS
  <2>1. PICK h \in [0..k -> T] : Good(h, k)
    BY <1>2
  <2>. DEFINE g == [n \in 0..(k+1) |-> IF n = k + 1 THEN F[n][h[k]] ELSE h[n]]
  <2>2. F[k+1][h[k]] \in T
    OBVIOUS
  <2>3. g \in [0..(k+1) -> T]
    BY <2>2
  <2>4. ASSUME NEW n \in 1..(k+1)
        PROVE  g[n] = F[n][g[n-1]]
    <3>1. CASE n = k + 1
      BY <3>1
    <3>2. CASE n \in 1..k
      <4>1. g[n] = h[n] /\ g[n-1] = h[n-1]
        BY <3>2
      <4>. QED  BY <2>1, <3>2, <4>1
    <3>. QED  BY <3>1, <3>2
  <2>5. g[0] = base
    BY <2>1
  <2>. QED  BY <2>3, <2>4, <2>5
<1>. HIDE DEF S
<1>3. N \in S
  BY <1>1, <1>2, Induction
<1>. QED  BY <1>3 DEF S, Iterates
-----------------------------------------------------------------------------
(* Flattening.                                                             *)

\* The first n of the sequences e, flattened.
Flat(e, n) == FlattenSeq([k \in 1..n |-> e[k]])

\* Sums g of the sequences e, up to each of the first N.
SumsOf(D, e, N, g) ==
    /\ g \in [0..N -> Seq(D)]
    /\ g[0] = <<>>
    /\ \A n \in 1..N : g[n] = g[n-1] \o e[n]

\* Flattening no sequences gives none.
LEMMA FlatEmpty ==
    ASSUME NEW e
    PROVE  Flat(e, 0) = <<>>
<1>1. [k \in 1..0 |-> e[k]] = <<>>
  OBVIOUS
<1>2. FlattenSeq(<<>>) = <<>>
  BY DEF FlattenSeq
<1>. QED  BY <1>1, <1>2 DEF Flat

\* What FlattenSeq gives is the sum of the sequences, one after the other.
LEMMA FlatSums ==
    ASSUME NEW D, NEW e, NEW N \in Nat, NEW g, SumsOf(D, e, N, g),
           \A n \in 1..N : e[n] \in Seq(D)
    PROVE  \A n \in 0..N : Flat(e, n) = g[n]
<1>. SUFFICES ASSUME NEW n \in 0..N PROVE Flat(e, n) = g[n]
  OBVIOUS
<1>1. /\ g \in [0..N -> Seq(D)] /\ g[0] = <<>>
      /\ \A k \in 1..N : g[k] = g[k-1] \o e[k]
  BY DEF SumsOf
<1>2. CASE n = 0
  BY <1>1, <1>2, FlatEmpty
<1>3. CASE n # 0
  <2>1. n \in Nat /\ n \in 1..n /\ 1..n \subseteq 1..N
    BY <1>3
  <2>. DEFINE ss == [k \in 1..n |-> e[k]]
              IsFlat(h) == h = [k \in 1..Len(ss) |->
                               IF k = 1 THEN ss[k] ELSE h[k-1] \o ss[k]]
              flatten == CHOOSE h : IsFlat(h)
  <2>2. ss \in Seq(Seq(D)) /\ Len(ss) = n
    BY <2>1
  <2>3. FlattenSeq(ss) = flatten[n]
    BY <1>3, <2>2 DEF FlattenSeq
  <2>4. \A h : IsFlat(h) <=>
            h = [k \in 1..n |-> IF k = 1 THEN e[1] ELSE h[k-1] \o e[k]]
    <3>1. \A h, k \in 1..n : (IF k = 1 THEN ss[k] ELSE h[k-1] \o ss[k])
                           = (IF k = 1 THEN e[1] ELSE h[k-1] \o e[k])
      OBVIOUS
    <3>. QED  BY <2>2, <3>1
  <2>. HIDE DEF flatten, IsFlat
  <2>5. IsFlat([k \in 1..n |-> g[k]])
    <3>. DEFINE h == [k \in 1..n |-> g[k]]
    <3>1. ASSUME NEW k \in 1..n
          PROVE  g[k] = IF k = 1 THEN e[1] ELSE h[k-1] \o e[k]
      <4>1. k \in 1..N /\ g[k] = g[k-1] \o e[k] /\ e[k] \in Seq(D)
        BY <1>1, <2>1
      <4>2. CASE k = 1
        <5>1. <<>> \o e[1] = e[1]
          BY <4>1, <4>2, ConcatEmptySeq
        <5>2. k - 1 = 0 /\ g[k-1] = <<>>
          BY <1>1, <4>2
        <5>3. g[k] = <<>> \o e[k]
          BY <4>1, <5>2
        <5>. QED  BY <4>2, <5>1, <5>3
      <4>3. CASE k # 1
        <5>1. k - 1 \in 1..n
          BY <4>3
        <5>2. h[k-1] = g[k-1]
          BY <5>1
        <5>. QED  BY <4>1, <4>3, <5>2
      <4>. QED  BY <4>2, <4>3
    <3>. QED  BY <2>4, <3>1
  <2>6. IsFlat(flatten)
    BY <2>5 DEF flatten
  <2>7. /\ flatten[1] = e[1]
        /\ \A k \in 1..n : k # 1 => flatten[k] = flatten[k-1] \o e[k]
    <3>1. \A k \in 1..n :
              flatten[k] = IF k = 1 THEN e[1] ELSE flatten[k-1] \o e[k]
      BY <2>4, <2>6
    <3>2. 1 \in 1..n
      BY <2>1
    <3>. QED  BY <3>1, <3>2
  <2>. DEFINE S == {k \in Nat : k \in 1..n => flatten[k] = g[k]}
  <2>8. 0 \in S
    OBVIOUS
  <2>9. ASSUME NEW k \in Nat, k \in S
        PROVE  k + 1 \in S
    <3>. SUFFICES ASSUME k + 1 \in 1..n PROVE flatten[k+1] = g[k+1]
      OBVIOUS
    <3>1. k + 1 \in 1..N /\ (k + 1) - 1 = k /\ e[k+1] \in Seq(D)
      BY <2>1
    <3>2. g[k+1] = g[k] \o e[k+1]
      BY <1>1, <3>1
    <3>3. CASE k = 0
      <4>1. <<>> \o e[1] = e[1]
        BY <3>1, <3>3, ConcatEmptySeq
      <4>2. g[k] = <<>> /\ k + 1 = 1
        BY <1>1, <3>3
      <4>3. g[k+1] = <<>> \o e[k+1]
        BY <3>2, <4>2
      <4>4. g[1] = e[1]
        BY <4>1, <4>2, <4>3
      <4>. QED  BY <2>7, <3>3, <4>4
    <3>4. CASE k # 0
      <4>1. flatten[k] = g[k]
        BY <2>9, <3>4
      <4>2. k + 1 # 1
        BY <3>4
      <4>3. flatten[k+1] = flatten[k] \o e[k+1]
        BY <2>7, <3>1, <4>2
      <4>. QED  BY <3>2, <4>1, <4>3
    <3>. QED  BY <3>3, <3>4
  <2>. HIDE DEF S
  <2>10. n \in S
    BY <2>1, <2>8, <2>9, Induction
  <2>. QED  BY <2>1, <2>3, <2>10 DEF Flat, S
<1>. QED  BY <1>2, <1>3

\* Flattening one sequence more.
LEMMA FlatGrows ==
    ASSUME NEW D, NEW e, NEW n \in Nat, \A k \in 1..(n+1) : e[k] \in Seq(D)
    PROVE  Flat(e, n) \in Seq(D) /\ Flat(e, n + 1) = Flat(e, n) \o e[n+1]
<1>. DEFINE F == [k \in 1..(n+1) |-> [t \in Seq(D) |-> t \o e[k]]]
<1>1. F \in [1..(n+1) -> [Seq(D) -> Seq(D)]]
  <2>1. \A k \in 1..(n+1), t \in Seq(D) : t \o e[k] \in Seq(D)
    BY ConcatProperties
  <2>. QED  BY <2>1
<1>2. <<>> \in Seq(D) /\ n + 1 \in Nat
  OBVIOUS
<1>. HIDE DEF F
<1>3. Iterates(Seq(D), <<>>, n + 1, F)
  BY <1>1, <1>2, RecursionExists
<1>4. PICK g \in [0..(n+1) -> Seq(D)] :
          g[0] = <<>> /\ \A k \in 1..(n+1) : g[k] = F[k][g[k-1]]
  BY <1>3 DEF Iterates
<1>5. SumsOf(D, e, n + 1, g)
  <2>1. ASSUME NEW k \in 1..(n+1)
        PROVE  g[k] = g[k-1] \o e[k]
    <3>1. g[k-1] \in Seq(D)
      BY <1>4
    <3>. QED  BY <1>4, <3>1 DEF F
  <2>. QED  BY <1>4, <2>1 DEF SumsOf
<1>6. \A k \in 0..(n+1) : Flat(e, k) = g[k]
  BY <1>2, <1>5, FlatSums
<1>7. g[n+1] = g[n] \o e[n+1]
  <2>1. n + 1 \in 1..(n+1) /\ (n + 1) - 1 = n
    OBVIOUS
  <2>. QED  BY <1>5, <2>1 DEF SumsOf
<1>8. n \in 0..(n+1) /\ n + 1 \in 0..(n+1)
  OBVIOUS
<1>9. Flat(e, n) = g[n] /\ Flat(e, n + 1) = g[n+1] /\ g[n] \in Seq(D)
  BY <1>4, <1>6, <1>8
<1>. QED  BY <1>7, <1>9

\* Only the sequences that are flattened matter.
LEMMA FlatSame ==
    ASSUME NEW e, NEW f, NEW n \in Nat, \A k \in 1..n : e[k] = f[k]
    PROVE  Flat(e, n) = Flat(f, n)
<1>1. [k \in 1..n |-> e[k]] = [k \in 1..n |-> f[k]]
  OBVIOUS
<1>. QED  BY <1>1 DEF Flat
-----------------------------------------------------------------------------
(* Segments are sequences of segments.                                     *)

\* What generateSegments keeps of the first segments of d.
KeptOf(d, kept) ==
    /\ kept[0] = <<>>
    /\ \A n \in 1..Len(d) :
           kept[n] = IF d[n].type \in SegmentTypes THEN Append(kept[n-1], d[n])
                                                  ELSE kept[n-1]
    /\ generateSegments(d) = kept[Len(d)]

KeepsInSteps(d) == \E kept : KeptOf(d, kept)

\* The recursion of generateSegments has a value.
LEMMA GeneratedInSteps ==
    ASSUME NEW D, NEW d \in Seq(D)
    PROVE  KeepsInSteps(d)
<1>1. PICK T : T = Seq({s \in D : s.type \in SegmentTypes})
  OBVIOUS
<1>2. PICK N \in Nat : N = Len(d)
  OBVIOUS
<1>3. PICK F : F = [n \in 1..N |-> [t \in T |->
                       IF d[n].type \in SegmentTypes THEN Append(t, d[n]) ELSE t]]
  OBVIOUS
<1>4. <<>> \in T
  BY <1>1
<1>5. F \in [1..N -> [T -> T]]
  <2>1. ASSUME NEW n \in 1..N, NEW t \in T
        PROVE  (IF d[n].type \in SegmentTypes THEN Append(t, d[n]) ELSE t) \in T
    <3>1. d[n] \in D
      BY <1>2
    <3>. QED  BY <1>1, <3>1
  <2>. QED  BY <1>3, <2>1
<1>6. PICK g \in [0..N -> T] :
          g[0] = <<>> /\ \A n \in 1..N : g[n] = F[n][g[n-1]]
  <2>1. Iterates(T, <<>>, N, F)
    BY <1>4, <1>5, RecursionExists
  <2>. QED  BY <2>1 DEF Iterates
<1>. DEFINE IsKept(h) == h = [n \in 0..Len(d) |->
                IF n = 0 THEN <<>>
                ELSE IF d[n].type \in SegmentTypes THEN Append(h[n-1], d[n])
                                                   ELSE h[n-1]]
            kept == CHOOSE h : IsKept(h)
<1>7. generateSegments(d) = kept[Len(d)]
  BY DEF generateSegments
<1>8. \A h : IsKept(h) => \A n \in 0..N : h[n] = IF n = 0 THEN <<>> ELSE
                IF d[n].type \in SegmentTypes THEN Append(h[n-1], d[n]) ELSE h[n-1]
  BY <1>2
<1>9. IsKept(g)
  <2>1. ASSUME NEW n \in 1..N
        PROVE  F[n][g[n-1]] = IF d[n].type \in SegmentTypes
                              THEN Append(g[n-1], d[n]) ELSE g[n-1]
    <3>1. g[n-1] \in T
      BY <1>6
    <3>. QED  BY <1>3, <3>1
  <2>2. ASSUME NEW n \in 0..N
        PROVE  g[n] = IF n = 0 THEN <<>> ELSE
            IF d[n].type \in SegmentTypes THEN Append(g[n-1], d[n]) ELSE g[n-1]
    <3>1. CASE n = 0
      BY <1>6, <3>1
    <3>2. CASE n \in 1..N
      BY <1>6, <2>1, <3>2
    <3>. QED  BY <3>1, <3>2
  <2>3. g = [n \in 0..N |-> g[n]]
    OBVIOUS
  <2>4. g = [n \in 0..N |-> IF n = 0 THEN <<>> ELSE
            IF d[n].type \in SegmentTypes THEN Append(g[n-1], d[n]) ELSE g[n-1]]
    BY <2>2, <2>3
  <2>. QED  BY <1>2, <2>4
<1>10. IsKept(kept)
  BY <1>9
<1>. HIDE DEF kept, IsKept
<1>11. kept[0] = <<>> /\ \A n \in 1..N : kept[n] =
           IF d[n].type \in SegmentTypes THEN Append(kept[n-1], d[n]) ELSE kept[n-1]
  BY <1>8, <1>10
<1>12. KeptOf(d, kept)
  BY <1>2, <1>7, <1>11 DEF KeptOf
<1>. QED  BY <1>12 DEF KeepsInSteps

\* generateSegments keeps segments of the types it knows, and no others.
LEMMA Generated ==
    ASSUME NEW D, NEW d \in Seq(D)
    PROVE  generateSegments(d) \in Seq({s \in D : s.type \in SegmentTypes})
<1>1. PICK T : T = Seq({s \in D : s.type \in SegmentTypes})
  OBVIOUS
<1>2. PICK N \in Nat : N = Len(d)
  OBVIOUS
<1>3. KeepsInSteps(d)
  BY GeneratedInSteps
<1>4. PICK kept : KeptOf(d, kept)
  BY <1>3 DEF KeepsInSteps
<1>. DEFINE S == {n \in Nat : n <= N => kept[n] \in T}
<1>5. 0 \in S
  <2>1. kept[0] = <<>>
    BY <1>4 DEF KeptOf
  <2>2. <<>> \in T
    BY <1>1
  <2>. QED  BY <2>1, <2>2
<1>6. ASSUME NEW n \in Nat, n \in S
      PROVE  n + 1 \in S
  <2>. SUFFICES ASSUME n + 1 <= N PROVE kept[n + 1] \in T
    OBVIOUS
  <2>1. kept[n] \in T /\ n + 1 \in 1..N
    BY <1>6
  <2>2. kept[n + 1] = IF d[n+1].type \in SegmentTypes
                      THEN Append(kept[n], d[n+1]) ELSE kept[n]
    BY <1>2, <1>4, <2>1 DEF KeptOf
  <2>3. d[n+1] \in D
    BY <1>2, <2>1
  <2>. QED  BY <1>1, <2>1, <2>2, <2>3
<1>7. N \in S
  <2>. HIDE DEF S
  <2>. QED  BY <1>5, <1>6, Induction
<1>. QED  BY <1>1, <1>2, <1>4, <1>7 DEF KeptOf

\* generateSegments keeps all, when it knows the types of all.
LEMMA AllKept ==
    ASSUME NEW D, NEW d \in Seq(D), \A n \in 1..Len(d) : d[n].type \in SegmentTypes
    PROVE  generateSegments(d) = d
<1>1. PICK N \in Nat : N = Len(d)
  OBVIOUS
<1>2. KeepsInSteps(d)
  BY GeneratedInSteps
<1>3. PICK kept : KeptOf(d, kept)
  BY <1>2 DEF KeepsInSteps
<1>. DEFINE S == {n \in Nat : n <= N =>
                     /\ kept[n] \in Seq(D) /\ Len(kept[n]) = n
                     /\ \A k \in 1..n : kept[n][k] = d[k]}
<1>4. 0 \in S
  <2>1. kept[0] = <<>>
    BY <1>3 DEF KeptOf
  <2>2. <<>> \in Seq(D) /\ Len(<<>>) = 0 /\ 1..0 = {}
    OBVIOUS
  <2>. QED  BY <2>1, <2>2
<1>5. ASSUME NEW n \in Nat, n \in S
      PROVE  n + 1 \in S
  <2>. SUFFICES ASSUME n + 1 <= N
                PROVE  /\ kept[n + 1] \in Seq(D) /\ Len(kept[n + 1]) = n + 1
                       /\ \A k \in 1..(n + 1) : kept[n + 1][k] = d[k]
    OBVIOUS
  <2>1. PICK t \in Seq(D) : t = kept[n]
    BY <1>5
  <2>2. Len(t) = n /\ \A k \in 1..n : t[k] = d[k]
    BY <1>5, <2>1
  <2>3. n + 1 \in 1..N /\ d[n+1] \in D /\ (n + 1) - 1 = n
    BY <1>1
  <2>4. kept[n + 1] = Append(t, d[n+1])
    BY <1>1, <1>3, <2>1, <2>3 DEF KeptOf
  <2>5. \A k \in 1..(n + 1) : k = n + 1 \/ k \in 1..n
    OBVIOUS
  <2>. QED  BY <2>2, <2>3, <2>4, <2>5
<1>6. N \in S
  <2>. HIDE DEF S
  <2>. QED  BY <1>4, <1>5, Induction
<1>7. kept[N] \in Seq(D) /\ Len(kept[N]) = N /\ \A k \in 1..N : kept[N][k] = d[k]
  BY <1>6
<1>8. kept[N] = d
  BY <1>1, <1>7, SeqEqual
<1>. QED  BY <1>1, <1>3, <1>8 DEF KeptOf

\* The segments that text makes: Words is what may be in them, Names whom.
TextSegments(Words, Names) ==
    [type : {"text", "at"}, what : Names \cup {"", "all"}, text : Seq(Words),
     url : {FALSE}]

\* A segment whose text is replaced is still one.
LEMMA TextReplaced ==
    ASSUME NEW A, NEW B, NEW C, NEW E,
           NEW r \in [type : A, what : B, text : C, url : E], NEW t \in C
    PROVE  [r EXCEPT !.text = t] \in [type : A, what : B, text : C, url : E]
OBVIOUS

\* AppendText makes text segments of text segments.
LEMMA AppendTextTyped ==
    ASSUME NEW Words, NEW Names, NEW s \in Seq(TextSegments(Words, Names)),
           NEW token \in Words
    PROVE  AppendText(s, token) \in Seq(TextSegments(Words, Names))
<1>. DEFINE U == TextSegments(Words, Names)
<1>1. CASE s # <<>> /\ Last(s).type = "text"
  <2>1. PICK n \in 1..Len(s) : n = Len(s)
    BY <1>1
  <2>2. s[n] \in U
    BY <2>1
  <2>3. Append(s[n].text, token) \in Seq(Words)
    <3>1. PICK t \in Seq(Words) : t = s[n].text
      BY <2>2 DEF TextSegments
    <3>2. Append(t, token) \in Seq(Words)
      OBVIOUS
    <3>. QED  BY <3>1, <3>2
  <2>4. [s[n] EXCEPT !.text = Append(s[n].text, token)] \in U
    <3>1. PICK r \in U, t \in Seq(Words) : r = s[n] /\ t = Append(s[n].text, token)
      BY <2>2, <2>3
    <3>2. [r EXCEPT !.text = t] \in U
      BY TextReplaced DEF TextSegments
    <3>. QED  BY <3>1, <3>2
  <2>5. AppendText(s, token)
            = [s EXCEPT ![n] = [s[n] EXCEPT !.text = Append(s[n].text, token)]]
    BY <1>1, <2>1 DEF AppendText
  <2>6. \A u \in U : [s EXCEPT ![n] = u] \in Seq(U)
    <3>. HIDE DEF U
    <3>1. s \in Seq(U)
      BY DEF U
    <3>. QED  BY <2>1, <3>1, ExceptSeq
  <2>. QED  BY <2>4, <2>5, <2>6
<1>2. CASE ~(s # <<>> /\ Last(s).type = "text")
  <2>1. NewText(<<token>>) \in U
    <3>1. PICK t \in Seq(Words) : t = <<token>>
      BY <<token>> \in Seq(Words)
    <3>2. NewText(t) \in U
      BY DEF NewText, Segment, TextSegments
    <3>. QED  BY <3>1, <3>2
  <2>2. AppendText(s, token) = Append(s, NewText(<<token>>))
    BY <1>2 DEF AppendText
  <2>. QED  BY <2>1, <2>2
<1>. QED  BY <1>1, <1>2

\* So does AppendToken.
LEMMA AppendTokenTyped ==
    ASSUME NEW Words, NEW Names, NEW s \in Seq(TextSegments(Words, Names)),
           NEW token \in Words, NEW mentions \in Seq(Names),
           \A m \in Names : <<m, token[2]>> \in Words
    PROVE  AppendToken(s, token, mentions) \in Seq(TextSegments(Words, Names))
<1>. DEFINE fitting == IF token[1] = "@" THEN Fitting(mentions, token[2]) ELSE {}
            k  == CHOOSE x \in fitting : \A l \in fitting : x <= l
            m  == mentions[k]
            at == Append(s, NewAt(IF m = "room" THEN "all" ELSE m))
<1>1. AppendToken(s, token, mentions) =
          IF fitting = {}      THEN AppendText(s, token)
          ELSE IF m = token[2] THEN at
                               ELSE AppendText(at, <<m, token[2]>>)
  BY DEF AppendToken
<1>2. CASE fitting = {}
  <2>1. AppendToken(s, token, mentions) = AppendText(s, token)
    <3>. HIDE DEF fitting, m, at
    <3>. QED  BY <1>1, <1>2
  <2>. QED  BY <2>1, AppendTextTyped
<1>3. CASE fitting # {}
  <2>1. fitting \subseteq DOMAIN mentions
    BY DEF Fitting
  <2>2. DOMAIN mentions \subseteq Nat
    OBVIOUS
  <2>3. k \in fitting
    <3>1. \E x \in fitting : \A l \in fitting : x <= l
      <4>. HIDE DEF fitting
      <4>. QED  BY <1>3, <2>1, <2>2, LeastElement
    <3>. HIDE DEF fitting
    <3>. QED  BY <3>1
  <2>4. m \in Names
    BY <2>1, <2>3
  <2>. HIDE DEF k, fitting
  <2>5. at \in Seq(TextSegments(Words, Names))
    <3>1. NewAt(IF m = "room" THEN "all" ELSE m) \in TextSegments(Words, Names)
      <4>1. PICK who \in Names \cup {"", "all"} :
                     who = IF m = "room" THEN "all" ELSE m
        BY <2>4
      <4>2. PICK none \in Seq(Words) : none = <<>>
        BY EmptySeq
      <4>3. NewAt(who) \in TextSegments(Words, Names)
        BY <4>2 DEF NewAt, Segment, TextSegments
      <4>. QED  BY <4>1, <4>3
    <3>. QED  BY <3>1
  <2>6. AppendText(at, <<m, token[2]>>) \in Seq(TextSegments(Words, Names))
    BY <2>4, <2>5, AppendTextTyped
  <2>. QED  BY <1>1, <1>3, <2>5, <2>6
<1>. QED  BY <1>2, <1>3

\* What genTextSegments has made of the first tokens of content.
UpTo(content, mentions, upTo) ==
    /\ upTo[0] = <<>>
    /\ \A n \in 1..Len(content) :
           upTo[n] = AppendToken(upTo[n-1], content[n], mentions)
    /\ genTextSegments(content, mentions) = upTo[Len(content)]

MakesInSteps(content, mentions) == \E upTo : UpTo(content, mentions, upTo)

\* The recursion of genTextSegments has a value.
LEMMA TextInSteps ==
    ASSUME NEW T, <<>> \in T, NEW content, NEW N \in Nat, N = Len(content),
           NEW mentions, mentions # <<>>,
           \A n \in 1..N, t \in T : AppendToken(t, content[n], mentions) \in T
    PROVE  MakesInSteps(content, mentions)
<1>1. PICK F : F = [n \in 1..N |->
                       [t \in T |-> AppendToken(t, content[n], mentions)]]
  OBVIOUS
<1>2. F \in [1..N -> [T -> T]]
  BY <1>1
<1>3. PICK g \in [0..N -> T] :
          g[0] = <<>> /\ \A n \in 1..N : g[n] = F[n][g[n-1]]
  <2>1. Iterates(T, <<>>, N, F)
    BY <1>2, RecursionExists
  <2>. QED  BY <2>1 DEF Iterates
<1>. DEFINE IsUpTo(h) == h = [n \in 0..Len(content) |->
                IF n = 0 THEN <<>>
                         ELSE AppendToken(h[n-1], content[n], mentions)]
            upTo == CHOOSE h : IsUpTo(h)
<1>4. genTextSegments(content, mentions) = upTo[Len(content)]
  BY DEF genTextSegments
<1>5. \A h : IsUpTo(h) => \A n \in 0..N : h[n] =
          IF n = 0 THEN <<>> ELSE AppendToken(h[n-1], content[n], mentions)
  OBVIOUS
<1>6. IsUpTo(g)
  <2>1. ASSUME NEW n \in 1..N
        PROVE  F[n][g[n-1]] = AppendToken(g[n-1], content[n], mentions)
    <3>1. g[n-1] \in T
      BY <1>3
    <3>. QED  BY <1>1, <3>1
  <2>2. ASSUME NEW n \in 0..N
        PROVE  g[n] = IF n = 0 THEN <<>>
                      ELSE AppendToken(g[n-1], content[n], mentions)
    <3>1. CASE n = 0
      BY <1>3, <3>1
    <3>2. CASE n \in 1..N
      BY <1>3, <2>1, <3>2
    <3>. QED  BY <3>1, <3>2
  <2>3. g = [n \in 0..N |-> g[n]]
    OBVIOUS
  <2>4. g = [n \in 0..N |-> IF n = 0 THEN <<>> ELSE
                            AppendToken(g[n-1], content[n], mentions)]
    BY <2>2, <2>3
  <2>. QED  BY <2>4
<1>7. IsUpTo(upTo)
  BY <1>6
<1>. HIDE DEF upTo, IsUpTo
<1>8. upTo[0] = <<>>
      /\ \A n \in 1..N : upTo[n] = AppendToken(upTo[n-1], content[n], mentions)
  BY <1>5, <1>7
<1>9. UpTo(content, mentions, upTo)
  BY <1>4, <1>8 DEF UpTo
<1>. QED  BY <1>9 DEF MakesInSteps

\* It has what every step keeps: T.
LEMMA TextKeeps ==
    ASSUME NEW T, <<>> \in T, NEW content, NEW N \in Nat, N = Len(content),
           NEW mentions, mentions # <<>>,
           \A n \in 1..N, t \in T : AppendToken(t, content[n], mentions) \in T
    PROVE  genTextSegments(content, mentions) \in T
<1>1. MakesInSteps(content, mentions)
  BY TextInSteps
<1>2. PICK upTo : UpTo(content, mentions, upTo)
  BY <1>1 DEF MakesInSteps
<1>. DEFINE S == {n \in Nat : n <= N => upTo[n] \in T}
<1>3. 0 \in S
  BY <1>2 DEF UpTo
<1>4. ASSUME NEW n \in Nat, n \in S
      PROVE  n + 1 \in S
  <2>. SUFFICES ASSUME n + 1 <= N PROVE upTo[n + 1] \in T
    OBVIOUS
  <2>1. upTo[n] \in T /\ n + 1 \in 1..N
    BY <1>4
  <2>2. upTo[n + 1] = AppendToken(upTo[n], content[n+1], mentions)
    BY <1>2, <2>1 DEF UpTo
  <2>. QED  BY <2>1, <2>2
<1>5. N \in S
  <2>. HIDE DEF S
  <2>. QED  BY <1>3, <1>4, Induction
<1>. QED  BY <1>2, <1>5 DEF UpTo

\* genTextSegments makes text and mentions of any content.
LEMMA TextGenerated ==
    ASSUME NEW Words, NEW Names, NEW content \in Seq(Words),
           NEW mentions \in Seq(Names),
           \A n \in DOMAIN content, m \in Names : <<m, content[n][2]>> \in Words
    PROVE  genTextSegments(content, mentions) \in Seq(TextSegments(Words, Names))
<1>. DEFINE T == Seq(TextSegments(Words, Names))
<1>1. ASSUME mentions = <<>>
      PROVE  genTextSegments(content, mentions) \in T
  <2>1. NewText(content) \in TextSegments(Words, Names)
    BY DEF NewText, Segment, TextSegments
  <2>2. genTextSegments(content, mentions) = <<NewText(content)>>
    BY <1>1 DEF genTextSegments
  <2>. QED  BY <2>1, <2>2
<1>2. ASSUME NEW n \in 1..Len(content), NEW t \in T
      PROVE  AppendToken(t, content[n], mentions) \in T
  <2>1. content[n] \in Words /\ \A m \in Names : <<m, content[n][2]>> \in Words
    OBVIOUS
  <2>. QED  BY <2>1, AppendTokenTyped
<1>3. <<>> \in T /\ Len(content) \in Nat
  OBVIOUS
<1>4. ASSUME mentions # <<>>
      PROVE  genTextSegments(content, mentions) \in T
  <2>. HIDE DEF T
  <2>. QED  BY <1>2, <1>3, <1>4, TextKeeps
<1>. QED  BY <1>1, <1>4

\* A sequence is one over its own range.
LEMMA OwnRange ==
    ASSUME NEW D, NEW s \in Seq(D)
    PROVE  s \in Seq(Range(s))
BY DEF Range

\* A function on 1..n with values in D is a sequence over D.
LEMMA SequenceOf ==
    ASSUME NEW D, NEW n \in Nat, NEW s, DOMAIN s = 1..n,
           s = [k \in 1..n |-> s[k]], \A k \in 1..n : s[k] \in D
    PROVE  s \in Seq(D)
OBVIOUS

\* A sequence over a set is one over a larger set.
LEMMA SequenceGrows ==
    ASSUME NEW D, NEW E, D \subseteq E, NEW s \in Seq(D)
    PROVE  s \in Seq(E)
OBVIOUS

\* One value n times is a sequence.
LEMMA Repeated ==
    ASSUME NEW D, NEW x \in D, NEW n \in Nat
    PROVE  [k \in 1..n |-> x] \in Seq(D)
OBVIOUS

\* So is one value.
LEMMA Singleton ==
    ASSUME NEW D, NEW x \in D
    PROVE  <<x>> \in Seq(D)
OBVIOUS

\* The tokens, and the segments, that m is made into.
TokensOf(m) ==
    Range(m.content) \cup {<<n, t[2]>> : n \in Range(m.mentions), t \in Range(m.content)}

BodySegments(m) ==
    TextSegments(TokensOf(m), Range(m.mentions))
        \cup {NewMedia("image", ""), NewJSON("LocationShare"),
              NewMedia(SegmentOf(m.type), "")}

\* A text has tokens, each a pair.
ContentAs(m, Words, Names) ==
    /\ m.content \in Seq(Words)
    /\ m.mentions \in Seq(Names)
    /\ \A n \in DOMAIN m.content, k \in Names : <<k, m.content[n][2]>> \in Words
    /\ \A n \in DOMAIN m.content :
           m.content[n] = <<m.content[n][1], m.content[n][2]>>

\* The content of a message of the bridge is a text over its own tokens.
LEMMA ContentTyped ==
    ASSUME MessagesAssumption, NEW m \in Outgoing
    PROVE  ContentAs(m, TokensOf(m), Range(m.mentions))
<1>. DEFINE Words == TokensOf(m)
<1>1. m.content \in Seq(Words)
  <2>1. PICK C : C = Range(m.content)
    OBVIOUS
  <2>2. m.content \in Seq(C)
    BY <2>1 DEF MessagesAssumption
  <2>3. C \subseteq Words
    BY <2>1 DEF TokensOf
  <2>. HIDE DEF Words
  <2>. QED  BY <2>2, <2>3
<1>2. m.mentions \in Seq(Range(m.mentions))
  BY DEF MessagesAssumption
<1>3. \A n \in DOMAIN m.content, k \in Range(m.mentions) :
          <<k, m.content[n][2]>> \in Words
  BY DEF Range, TokensOf
<1>4. \A n \in DOMAIN m.content : m.content[n] = <<m.content[n][1], m.content[n][2]>>
  <2>1. \A n \in DOMAIN m.content : m.content[n] \in Range(m.content)
    BY DEF Range
  <2>. QED  BY <2>1 DEF MessagesAssumption
<1>. QED  BY <1>1, <1>2, <1>3, <1>4 DEF ContentAs

\* What the body of a message is made of.
BodyIs(m) ==
    /\ \A k \in 1..Len(Body(m)) :
           /\ m.type = "text" => Body(m)[k].type \in {"text", "at"}
           /\ m.type \in {"image", "sticker"} =>
                  Body(m)[k].type = "image" /\ Body(m)[k].what = ""
           /\ m.type = "audio" => Body(m)[k].type = "record"
           /\ m.type \in {"video", "file"} => Body(m)[k].type = m.type
           /\ m.type = "location" => /\ Body(m)[k].type = "json"
                                     /\ Body(m)[k].what = "LocationShare"
    /\ m.type = "image" => Len(Body(m)) = m.blobs
    /\ m.type \in Supported \ {"text", "image"} => Len(Body(m)) = 1

\* What SendMessage makes of a message of each type: how many segments, of
\* which type.
LEMMA BodyTyped ==
    ASSUME MessagesAssumption, NEW m \in Outgoing
    PROVE  Body(m) \in Seq(BodySegments(m)) /\ BodyIs(m)
<1>. DEFINE Names == Range(m.mentions)
            Words == TokensOf(m)
            D == BodySegments(m)
<1>1. genTextSegments(m.content, m.mentions) \in Seq(TextSegments(Words, Names))
  <2>1. ContentAs(m, Words, Names)
    BY ContentTyped
  <2>. HIDE DEF Words, Names
  <2>. QED  BY <2>1, TextGenerated DEF ContentAs
<1>2. genTextSegments(m.content, m.mentions) \in Seq(D)
  <2>1. TextSegments(Words, Names) \subseteq D
    BY DEF BodySegments
  <2>. HIDE DEF D, Words, Names
  <2>. QED  BY <1>1, <2>1, SequenceGrows
<1>3. [b \in 1..m.blobs |-> NewMedia("image", "")] \in Seq(D)
  <2>1. NewMedia("image", "") \in D
    BY DEF BodySegments
  <2>2. m.blobs \in Nat
    BY DEF MessagesAssumption
  <2>. HIDE DEF D
  <2>. QED  BY <2>1, <2>2, Repeated
<1>4. <<NewJSON("LocationShare")>> \in Seq(D) /\ <<NewMedia(SegmentOf(m.type), "")>> \in Seq(D)
  <2>1. NewJSON("LocationShare") \in D /\ NewMedia(SegmentOf(m.type), "") \in D
    BY DEF BodySegments
  <2>. HIDE DEF D
  <2>. QED  BY <2>1, Singleton
<1>. HIDE DEF D
<1>5. Body(m) \in Seq(D)
  BY <1>2, <1>3, <1>4 DEF Body
<1>6. CASE m.type = "text"
  <2>1. Body(m) \in Seq(TextSegments(Words, Names))
    BY <1>1, <1>6 DEF Body
  <2>2. \A k \in 1..Len(Body(m)) : Body(m)[k] \in TextSegments(Words, Names)
    <3>1. PICK U : U = TextSegments(Words, Names)
      OBVIOUS
    <3>. QED  BY <2>1, <3>1
  <2>3. \A k \in 1..Len(Body(m)) : Body(m)[k].type \in {"text", "at"}
    BY <2>2 DEF TextSegments
  <2>. QED  BY <1>5, <1>6, <2>3 DEF BodyIs, D
<1>7. CASE m.type = "image"
  <2>1. Body(m) = [b \in 1..m.blobs |-> NewMedia("image", "")] /\ m.blobs \in Nat
    BY <1>7 DEF Body, MessagesAssumption
  <2>2. PICK x : x = NewMedia("image", "")
    OBVIOUS
  <2>3. PICK n \in Nat : n = m.blobs
    BY <2>1
  <2>4. Body(m) = [b \in 1..n |-> x]
    BY <2>1, <2>3, <2>2
  <2>5. Len(Body(m)) = m.blobs
    <3>1. PICK b : b = [k \in 1..n |-> x]
      OBVIOUS
    <3>2. b \in Seq({x}) /\ DOMAIN b = 1..n
      BY <3>1, Repeated
    <3>3. Len(b) = n
      BY <3>2
    <3>. QED  BY <2>3, <2>4, <3>1, <3>3
  <2>6. \A k \in 1..m.blobs : Body(m)[k].type = "image" /\ Body(m)[k].what = ""
    <3>1. x.type = "image" /\ x.what = ""
      BY <2>2 DEF NewMedia, Segment
    <3>. QED  BY <2>3, <2>4, <3>1
  <2>. QED  BY <1>5, <1>7, <2>5, <2>6 DEF BodyIs, D
<1>8. CASE m.type = "location"
  <2>1. PICK x : x = NewJSON("LocationShare")
    OBVIOUS
  <2>2. Body(m) = <<x>> /\ x.type = "json" /\ x.what = "LocationShare"
    BY <1>8, <2>1 DEF Body, NewJSON, Segment
  <2>3. Len(Body(m)) = 1 /\ \A k \in 1..1 : Body(m)[k] = x
    <3>1. Len(<<x>>) = 1 /\ \A k \in 1..1 : k = 1 /\ <<x>>[k] = x
      OBVIOUS
    <3>. QED  BY <2>2, <3>1
  <2>. QED  BY <1>5, <1>8, <2>2, <2>3 DEF BodyIs, D
<1>9. CASE m.type \notin {"text", "image", "location"}
  <2>1. PICK x : x = NewMedia(SegmentOf(m.type), "")
    OBVIOUS
  <2>2. Body(m) = <<x>> /\ x.type = SegmentOf(m.type) /\ x.what = ""
    BY <1>9, <2>1 DEF Body, NewMedia, Segment
  <2>3. Len(Body(m)) = 1 /\ \A k \in 1..1 : Body(m)[k] = x
    <3>1. Len(<<x>>) = 1 /\ \A k \in 1..1 : k = 1 /\ <<x>>[k] = x
      OBVIOUS
    <3>. QED  BY <2>2, <3>1
  <2>4. /\ m.type = "sticker" => SegmentOf(m.type) = "image"
        /\ m.type = "audio" => SegmentOf(m.type) = "record"
        /\ m.type \in {"video", "file"} => SegmentOf(m.type) = m.type
    BY DEF SegmentOf
  <2>. QED  BY <1>5, <1>9, <2>2, <2>3, <2>4 DEF BodyIs, D
<1>. QED  BY <1>6, <1>7, <1>8, <1>9

\* What arrives at a receiver: a reply or not, and the body, whose urls may
\* be other ones.
DeliveredAs(m) ==
    /\ Delivered(m) \in Seq(Range(Delivered(m)))
    /\ Len(Body(m)) \in Nat
    /\ Len(Delivered(m)) = Len(Body(m)) + Replies(m)
    /\ m.reply => Delivered(m)[1].type = "reply"
    /\ \A k \in 1..Len(Body(m)) :
           /\ Delivered(m)[k + Replies(m)].type = Body(m)[k].type
           /\ Delivered(m)[k + Replies(m)].what = Body(m)[k].what
           /\ Delivered(m)[k + Replies(m)].text = Body(m)[k].text

\* A url changes nothing else of a segment.
LEMMA UrlReplaced ==
    ASSUME NEW A, NEW B, NEW C, NEW x, x = Segment(A, B, C, x.url), NEW u
    PROVE  /\ [x EXCEPT !.url = u].type = A
           /\ [x EXCEPT !.url = u].what = B
           /\ [x EXCEPT !.url = u].text = C
BY DEF Segment

\* What arrives is the reply, if there is one, and the parts as they were sent.
LEMMA DeliveredParts ==
    ASSUME MessagesAssumption, NEW m \in Outgoing
    PROVE  DeliveredAs(m)
<1>. DEFINE D    == BodySegments(m) \cup {NewReply}
            head == IF m.reply THEN <<NewReply>> ELSE <<>>
            ss   == Segments(m)
<1>1. Body(m) \in Seq(D)
  <2>1. BodySegments(m) \subseteq D
    OBVIOUS
  <2>. HIDE DEF D
  <2>. QED  BY <2>1, BodyTyped, SequenceGrows
<1>2. /\ head \in Seq(D) /\ Len(head) = Replies(m)
      /\ m.reply => head[1] = NewReply
  <2>1. NewReply \in D
    OBVIOUS
  <2>. HIDE DEF D
  <2>. QED  BY <2>1 DEF Replies
<1>3. ss = head \o Body(m)
  BY DEF Segments
<1>4. PICK n \in Nat, h \in Nat : n = Len(Body(m)) /\ h = Replies(m)
  BY <1>1 DEF Replies
<1>. HIDE DEF D, head
<1>5. /\ ss \in Seq(D) /\ Len(ss) = h + n
      /\ \A k \in 1..h : ss[k] = head[k]
      /\ \A k \in 1..n : ss[k + h] = Body(m)[k]
  <2>. HIDE DEF ss
  <2>1. PICK b \in Seq(D), hh \in Seq(D) : b = Body(m) /\ hh = head
    BY <1>1, <1>2
  <2>2. ss = hh \o b /\ Len(b) = n /\ Len(hh) = h
    BY <1>2, <1>3, <1>4, <2>1
  <2>3. ss \in Seq(D) /\ Len(ss) = h + n
    <3>1. (hh \o b) \in Seq(D) /\ Len(hh \o b) = Len(hh) + Len(b)
      BY ConcatProperties
    <3>. QED  BY <2>2, <3>1
  <2>4. \A k \in 1..h : ss[k] = hh[k]
    <3>1. \A k \in 1..h : k \in 1..(h + n) /\ k <= h
      OBVIOUS
    <3>. QED  BY <2>2, <3>1
  <2>5. \A k \in 1..n : ss[k + h] = b[k]
    <3>1. ASSUME NEW k \in 1..n PROVE ss[k + h] = b[k]
      <4>1. k + h \in 1..(h + n) /\ k + h > h /\ (k + h) - h = k
        OBVIOUS
      <4>. QED  BY <2>2, <4>1
    <3>. QED  BY <3>1
  <2>. QED  BY <2>1, <2>3, <2>4, <2>5
<1>6. DOMAIN ss = 1..(n + h) /\ n + h = h + n
  <2>. HIDE DEF ss
  <2>. QED  BY <1>5
<1>7. \A s \in 1..(n + h) : Delivered(m)[s] =
          [ss[s] EXCEPT !.url = @ \/ ss[s].type \in {"image", "video"}]
  BY <1>6 DEF Delivered
<1>8. Delivered(m) \in Seq(Range(Delivered(m))) /\ Len(Delivered(m)) = n + h
  <2>1. DOMAIN Delivered(m) = 1..(n + h)
    BY <1>6 DEF Delivered
  <2>2. Delivered(m) = [s \in 1..(n + h) |-> Delivered(m)[s]]
    BY <2>1 DEF Delivered
  <2>3. \A s \in 1..(n + h) : Delivered(m)[s] \in Range(Delivered(m))
    BY <2>1 DEF Range
  <2>4. Delivered(m) \in Seq(Range(Delivered(m)))
    <3>1. PICK N \in Nat : N = n + h
      OBVIOUS
    <3>. QED  BY <2>1, <2>2, <2>3, <3>1, SequenceOf
  <2>. QED  BY <2>1, <2>4, LenProperties
<1>9. m.reply => Delivered(m)[1].type = "reply"
  <2>. SUFFICES ASSUME m.reply PROVE Delivered(m)[1].type = "reply"
    OBVIOUS
  <2>1. 1 \in 1..(n + h) /\ 1 \in 1..h
    BY <1>4 DEF Replies
  <2>2. ss[1] = NewReply
    BY <1>2, <1>5, <2>1
  <2>3. PICK u : Delivered(m)[1] = [NewReply EXCEPT !.url = u]
    BY <1>7, <2>1, <2>2
  <2>. QED  BY <2>3 DEF NewReply, Segment
<1>10. ASSUME NEW k \in 1..n
       PROVE  /\ Delivered(m)[k + h].type = Body(m)[k].type
              /\ Delivered(m)[k + h].what = Body(m)[k].what
              /\ Delivered(m)[k + h].text = Body(m)[k].text
  <2>1. PICK x : x = Body(m)[k]
    OBVIOUS
  <2>2. x \in BodySegments(m)
    <3>1. Body(m) \in Seq(BodySegments(m))
      BY BodyTyped
    <3>. QED  BY <1>4, <2>1, <3>1
  <2>3. x = Segment(x.type, x.what, x.text, x.url)
    <3>1. CASE x \in TextSegments(TokensOf(m), Range(m.mentions))
      BY <3>1 DEF TextSegments, Segment
    <3>2. CASE x = NewJSON("LocationShare")
      BY <3>2 DEF NewJSON, Segment
    <3>3. CASE \E type : x = NewMedia(type, "")
      BY <3>3 DEF NewMedia, Segment
    <3>. QED  BY <2>2, <3>1, <3>2, <3>3 DEF BodySegments
  <2>4. k + h \in 1..(n + h) /\ ss[k + h] = x
    BY <1>5, <2>1
  <2>5. PICK u : Delivered(m)[k + h] = [x EXCEPT !.url = u]
    BY <1>7, <2>4
  <2>. HIDE DEF ss
  <2>6. /\ [x EXCEPT !.url = u].type = x.type
        /\ [x EXCEPT !.url = u].what = x.what
        /\ [x EXCEPT !.url = u].text = x.text
    BY <2>3, UrlReplaced
  <2>. QED  BY <2>1, <2>5, <2>6
<1>. QED  BY <1>4, <1>8, <1>9, <1>10 DEF DeliveredAs

\* What arrives is a sequence.
LEMMA DeliveredSequence ==
    ASSUME MessagesAssumption, NEW m \in Outgoing
    PROVE  Delivered(m) \in Seq(Range(Delivered(m)))
BY DeliveredParts DEF DeliveredAs

\* What populateMessage goes through, of any frame it is given.
LEMMA SegmentsTyped ==
    ASSUME frame.segments \in Seq(Range(frame.segments))
    PROVE  /\ Len(segments) \in Nat
           /\ DOMAIN segments = 1..Len(segments)
           /\ \A s \in 1..Len(segments) : segments[s].type \in SegmentTypes
<1>1. PICK D : D = Range(frame.segments)
  OBVIOUS
<1>2. segments \in Seq({s \in D : s.type \in SegmentTypes})
  BY <1>1, Generated DEF segments
<1>. QED  BY <1>2
-----------------------------------------------------------------------------
(* The key, and the media.                                                 *)

\* Every step keeps KeyInv.
LEMMA KeyKept ==
    ASSUME KeyInv, [Next]_vars
    PROVE  KeyInv'
<1>. USE DEF KeyInv, Building, MsgFields
<1>1. CASE SendMessage
  BY <1>1 DEF SendMessage, building
<1>2. CASE handleEvent
  <2>1. CASE UnmarshalPayload(frame) \in {"error", "Request", "Response"}
    BY <1>2, <2>1 DEF handleEvent
  <2>2. CASE EventType(frame) = "message_private"
    BY <1>2, <2>2 DEF handleEvent, getEventKey, TargetID, ChatID, EmptyMessage
  <2>3. CASE EventType(frame) = "message_group"
    BY <1>2, <2>3 DEF handleEvent, getEventKey, EmptyMessage
  <2>4. CASE EventType(frame) = "notice_group_recall"
    BY <1>2, <2>4 DEF handleEvent, getEventKey, EmptyMessage
  <2>5. CASE EventType(frame) = "notice_friend_recall"
    BY <1>2, <2>5 DEF handleEvent, getEventKey, EmptyMessage
  <2>6. CASE pc' = "handled"
    BY <2>6
  <2>. QED  BY <1>2, <2>1, <2>2, <2>3, <2>4, <2>5, <2>6 DEF handleEvent
<1>3. CASE populateMessage
  <2>. USE DEF unmoved, building, Past, At, Attach, Notice
  <2>1. Building /\ key' = key
    BY <1>3 DEF populateMessage, TextSegment, LabelSegment, AtSegment,
        ReplySegment, ForwardSegment, JSONSegment, getMedia, DownloadFails,
        AskFails, AskUndecodable, FallbackFails, MediaArrives, MediaFails, Finish
  <2>2. CASE msg' = msg
    BY <2>1, <2>2
  <2>3. CASE AtSegment
    BY <2>1, <2>3 DEF AtSegment
  <2>4. CASE ReplySegment
    BY <2>1, <2>4 DEF ReplySegment
  <2>5. CASE ForwardSegment
    BY <2>1, <2>5 DEF ForwardSegment
  <2>6. CASE JSONSegment
    BY <2>1, <2>6 DEF JSONSegment
  <2>7. CASE MediaArrives
    BY <2>1, <2>7 DEF MediaArrives
  <2>8. CASE MediaFails
    BY <2>1, <2>8 DEF MediaFails
  <2>9. CASE Finish
    BY <2>1, <2>9 DEF Finish
  <2>. QED  BY <1>3, <2>2, <2>3, <2>4, <2>5, <2>6, <2>7, <2>8, <2>9
         DEF populateMessage, TextSegment, LabelSegment, getMedia,
             DownloadFails, AskFails, AskUndecodable, FallbackFails
<1>4. CASE Terminated \/ UNCHANGED vars
  BY <1>4 DEF Terminated, vars
<1>. QED  BY <1>1, <1>2, <1>3, <1>4 DEF Next

\* The sources getMedia can have tried, one after the other.
LEMMA Sources ==
    ASSUME NEW x
    PROVE  /\ Append(<<>>, x) = <<x>>
           /\ Append(<<"url">>, x) = <<"url", x>>
           /\ Append(<<"napcat">>, x) = <<"napcat", x>>
           /\ Append(<<"url", "napcat">>, x) = <<"url", "napcat", x>>
           /\ Last(<<x>>) = x /\ Last(<<"url", x>>) = x
           /\ Last(<<"napcat", x>>) = x /\ Last(<<"url", "napcat", x>>) = x
<1>1. Append(<<>>, x) = <<x>>
  OBVIOUS
<1>2. \A y : Append(<<y>>, x) = <<y, x>>
  <2>. TAKE y
  <2>. DEFINE s == Append(<<y>>, x)
              t == <<y, x>>
  <2>1. s \in Seq({x, y}) /\ t \in Seq({x, y}) /\ Len(s) = 2 /\ Len(t) = 2
    OBVIOUS
  <2>2. s[1] = y /\ s[2] = x /\ t[1] = y /\ t[2] = x
    OBVIOUS
  <2>3. \A n \in 1..Len(s) : s[n] = t[n]
    BY <2>1, <2>2
  <2>. HIDE DEF s, t
  <2>4. s = t
    BY <2>1, <2>3, SeqEqual
  <2>. QED  BY <2>4 DEF s, t
<1>3. Append(<<"url", "napcat">>, x) = <<"url", "napcat", x>>
  <2>. DEFINE s == Append(<<"url", "napcat">>, x)
              t == <<"url", "napcat", x>>
              D == {"url", "napcat", x}
  <2>1. s \in Seq(D) /\ t \in Seq(D) /\ Len(s) = 3 /\ Len(t) = 3
    OBVIOUS
  <2>2. s[1] = t[1] /\ s[2] = t[2] /\ s[3] = t[3]
    OBVIOUS
  <2>3. \A n \in 1..Len(s) : s[n] = t[n]
    BY <2>1, <2>2
  <2>. HIDE DEF s, t, D
  <2>4. s = t
    BY <2>1, <2>3, SeqEqual
  <2>. QED  BY <2>4 DEF s, t
<1>4. /\ Last(<<x>>) = x /\ Last(<<"url", x>>) = x
      /\ Last(<<"napcat", x>>) = x /\ Last(<<"url", "napcat", x>>) = x
  BY DEF Last
<1>. QED  BY <1>1, <1>2, <1>3, <1>4

\* Every step keeps MediaInv.
LEMMA MediaKept ==
    ASSUME MediaInv, [Next]_vars
    PROVE  MediaInv'
<1>. USE DEF MediaInv
<1>1. CASE SendMessage
  BY <1>1 DEF SendMessage
<1>2. CASE handleEvent
  BY <1>2 DEF handleEvent
<1>3. CASE populateMessage
  <2>1. segments' = segments
    BY <1>3 DEF segments, populateMessage, TextSegment, LabelSegment, AtSegment,
        ReplySegment, ForwardSegment, JSONSegment, getMedia, DownloadFails,
        AskFails, AskUndecodable, FallbackFails, MediaArrives, MediaFails, Finish,
        unmoved
  <2>2. \A g \in gaveUp : TriedAll(g)'
    BY <2>1 DEF TriedAll
  <2>3. CASE TextSegment \/ LabelSegment \/ AtSegment \/ ReplySegment
                 \/ ForwardSegment \/ JSONSegment
    BY <2>2, <2>3 DEF TextSegment, LabelSegment, AtSegment, ReplySegment,
                      ForwardSegment, JSONSegment, At, Past, unmoved
  <2>4. CASE getMedia
    BY <2>2, <2>4 DEF getMedia, At
  <2>5. CASE DownloadFails
    BY <2>2, <2>5 DEF DownloadFails
  <2>6. CASE AskFails
    <3>1. tried' \in {<<"napcat">>, <<"url", "napcat">>}
      BY <2>6, Sources DEF AskFails
    <3>2. CASE segment.url
      BY <2>1, <2>2, <2>6, <3>1, <3>2 DEF AskFails, segment
    <3>3. CASE ~segment.url
      <4>1. "napcat" \in Range(tried')
        <5>1. CASE tried' = <<"napcat">>
          BY <5>1 DEF Range
        <5>2. CASE tried' = <<"url", "napcat">>
          BY <5>2 DEF Range
        <5>. QED  BY <3>1, <5>1, <5>2
      <4>2. pc' = "nothing" /\ gaveUp' = gaveUp /\ i' = i
        BY <2>6, <3>3 DEF AskFails
      <4>3. TriedAll([seg |-> i, tried |-> tried])'
        BY <2>1, <3>3, <4>1, <4>2 DEF TriedAll, segment
      <4>. QED  BY <2>2, <4>2, <4>3
    <3>. QED  BY <3>2, <3>3
  <2>7. CASE AskUndecodable
    <3>1. Last(tried') = "undecodable"
      <4>1. tried' = <<"undecodable">> \/ tried' = <<"url", "undecodable">>
        BY <2>7, Sources DEF AskUndecodable
      <4>. QED  BY <4>1, Sources
    <3>. QED  BY <2>2, <2>7, <3>1 DEF AskUndecodable, TriedAll
  <2>8. CASE FallbackFails
    <3>1. tried' = <<"napcat", "url">> \/ tried' = <<"url", "napcat", "url">>
      BY <2>8, Sources DEF FallbackFails
    <3>2. Last(tried') = "url" /\ Len(tried') > 1
      BY <3>1 DEF Last
    <3>3. "napcat" \in Range(tried')
      <4>1. CASE tried' = <<"napcat", "url">>
        BY <4>1 DEF Range
      <4>2. CASE tried' = <<"url", "napcat", "url">>
        BY <4>2 DEF Range
      <4>. QED  BY <3>1, <4>1, <4>2
    <3>. QED  BY <2>2, <2>8, <3>2, <3>3 DEF FallbackFails, TriedAll
  <2>9. CASE MediaArrives
    BY <2>2, <2>9 DEF MediaArrives, Past
  <2>10. CASE MediaFails
    <3>1. TriedAll([seg |-> i, tried |-> tried])
      BY <2>10 DEF MediaFails
    <3>2. \A g \in gaveUp' : TriedAll(g)'
      BY <2>1, <2>2, <2>10, <3>1 DEF MediaFails, TriedAll
    <3>. QED  BY <2>10, <3>2 DEF MediaFails, Past
  <2>11. CASE Finish
    BY <2>2, <2>11 DEF Finish
  <2>. QED  BY <1>3, <2>3, <2>4, <2>5, <2>6, <2>7, <2>8, <2>9, <2>10, <2>11
            DEF populateMessage
<1>4. CASE Terminated \/ UNCHANGED vars
  BY <1>4 DEF Terminated, vars, TriedAll, segments, segment
<1>. QED  BY <1>1, <1>2, <1>3, <1>4 DEF Next
-----------------------------------------------------------------------------
(* The message that is built.                                              *)

\* Pieces for segments below k, in their order; and what a piece for k makes
\* of them.
Ordered(pieces, k) ==
    /\ pieces \in Seq(Range(pieces))
    /\ \A c \in DOMAIN pieces : pieces[c].seg \in 1..(k - 1)
    /\ \A c \in 2..Len(pieces) : pieces[c-1].seg < pieces[c].seg

Grown(old, piece, k, new) ==
    /\ new \in Seq(Range(new))
    /\ \A c \in DOMAIN new : \/ new[c] = piece
                             \/ c \in DOMAIN old /\ new[c] = old[c]
    /\ \A c \in 2..Len(new) : new[c-1].seg < new[c].seg
    /\ \A s \in 1..(k - 1) : Shows(old, s) => Shows(new, s)
    /\ Shows(new, k)

\* A piece of segment k at the end keeps the order, hides nothing, and shows k.
LEMMA PiecesGrow ==
    ASSUME NEW k \in Nat \ {0}, NEW old, NEW piece, Ordered(old, k), piece.seg = k
    PROVE  Grown(old, piece, k, Append(old, piece))
<1>. USE DEF Ordered
<1>. DEFINE new == Append(old, piece)
<1>1. PICK D : D = Range(old) \cup {piece}
  OBVIOUS
<1>2. old \in Seq(D)
  BY <1>1, SequenceGrows
<1>3. PICK n \in Nat : n = Len(old)
  BY <1>2
<1>4. /\ new \in Seq(D) /\ Len(new) = n + 1
      /\ new[n+1] = piece
      /\ \A c \in 1..n : new[c] = old[c]
  BY <1>1, <1>2, <1>3
<1>5. DOMAIN old = 1..n /\ DOMAIN new = 1..(n+1)
  BY <1>2, <1>3, <1>4
<1>. HIDE DEF new
<1>6. new \in Seq(Range(new))
  BY <1>4, OwnRange
<1>7. \A c \in DOMAIN new : c = n + 1 \/ c \in DOMAIN old
  BY <1>5
<1>8. ASSUME NEW c \in 2..Len(new)
      PROVE  new[c-1].seg < new[c].seg
  <2>1. CASE c = n + 1
    <3>1. n \in 1..n /\ c - 1 = n
      BY <2>1
    <3>2. new[n] = old[n] /\ old[n].seg \in 1..(k - 1)
      BY <1>4, <1>5, <3>1
    <3>. QED  BY <1>4, <2>1, <3>1, <3>2
  <2>2. CASE c \in 2..n
    <3>1. c \in 1..n /\ c - 1 \in 1..n
      BY <2>2
    <3>2. new[c] = old[c] /\ new[c-1] = old[c-1]
      BY <1>4, <3>1
    <3>. QED  BY <1>3, <2>2, <3>2
  <2>3. c = n + 1 \/ c \in 2..n
    BY <1>4
  <2>. QED  BY <2>1, <2>2, <2>3
<1>9. \A s \in 1..(k - 1) : Shows(old, s) => Shows(new, s)
  <2>1. \A c \in DOMAIN old : c \in DOMAIN new /\ new[c] = old[c]
    BY <1>4, <1>5
  <2>. QED  BY <2>1 DEF Shows
<1>10. Shows(new, k)
  <2>1. n + 1 \in DOMAIN new
    BY <1>5
  <2>. QED  BY <1>4, <2>1 DEF Shows
<1>11. \A c \in DOMAIN new : \/ new[c] = piece
                             \/ c \in DOMAIN old /\ new[c] = old[c]
  BY <1>4, <1>5, <1>7
<1>. QED  BY <1>6, <1>8, <1>9, <1>10, <1>11 DEF new, Grown

\* populateMessage leaves segment i: the summary and the images.
LEMMA SummaryGrows ==
    ASSUME SummaryInv, Len(segments) \in Nat, i \in 1..Len(segments),
           i' = i + 1, segments' = segments,
           \/ /\ segment.type \in Summarised
              /\ \E tokens : summary' = Append(summary, Piece(tokens))
           \/ segment.type \notin Summarised /\ summary' = summary,
           images' \in {images, Append(images, i)}
    PROVE  SummaryInv'
<1>1. i \in Nat \ {0} /\ i' - 1 = i /\ segment = segments[i]
  BY DEF segment
<1>2. images' \in Seq(1..i)
  <2>1. images \in Seq(1..(i - 1)) /\ 1..(i - 1) \subseteq 1..i
    BY DEF SummaryInv
  <2>2. images \in Seq(1..i)
    BY <2>1, SequenceGrows
  <2>3. i \in 1..i
    BY <1>1
  <2>4. Append(images, i) \in Seq(1..i)
    BY <2>2, <2>3, AppendProperties
  <2>. QED  BY <2>2, <2>4
<1>3. /\ summary \in Seq(Range(summary))
      /\ \A c \in DOMAIN summary :
             /\ summary[c].seg \in 1..(i - 1)
             /\ segments[summary[c].seg].type \in Summarised
      /\ \A c \in 2..Len(summary) : summary[c-1].seg < summary[c].seg
      /\ \A s \in 1..(i - 1) :
             segments[s].type \in Summarised => Shows(summary, s)
  BY DEF SummaryInv
<1>4. SUFFICES
        /\ summary' \in Seq(Range(summary'))
        /\ \A c \in DOMAIN summary' :
               /\ summary'[c].seg \in 1..i
               /\ segments[summary'[c].seg].type \in Summarised
        /\ \A c \in 2..Len(summary') : summary'[c-1].seg < summary'[c].seg
        /\ \A s \in 1..i :
               segments[s].type \in Summarised => Shows(summary', s)
  BY <1>1, <1>2 DEF SummaryInv, Shows
<1>5. 1..i = 1..(i - 1) \cup {i}
  BY <1>1
<1>6. CASE segment.type \notin Summarised /\ summary' = summary
  BY <1>1, <1>3, <1>5, <1>6
<1>7. ASSUME NEW tokens, segment.type \in Summarised,
             summary' = Append(summary, Piece(tokens))
      PROVE  /\ summary' \in Seq(Range(summary'))
             /\ \A c \in DOMAIN summary' :
                    /\ summary'[c].seg \in 1..i
                    /\ segments[summary'[c].seg].type \in Summarised
             /\ \A c \in 2..Len(summary') : summary'[c-1].seg < summary'[c].seg
             /\ \A s \in 1..i :
                    segments[s].type \in Summarised => Shows(summary', s)
  <2>1. PICK piece : piece = Piece(tokens)
    OBVIOUS
  <2>2. summary' = Append(summary, piece) /\ piece.seg = i
    BY <1>7, <2>1 DEF Piece
  <2>3. Ordered(summary, i)
    BY <1>3 DEF Ordered
  <2>4. Grown(summary, piece, i, summary')
    BY <1>1, <2>2, <2>3, PiecesGrow
  <2>5. /\ summary' \in Seq(Range(summary'))
        /\ \A c \in 2..Len(summary') : summary'[c-1].seg < summary'[c].seg
    BY <2>4 DEF Grown
  <2>6. \A c \in DOMAIN summary' : \/ summary'[c] = piece
                                   \/ c \in DOMAIN summary /\ summary'[c] = summary[c]
    BY <2>4 DEF Grown
  <2>7. \A c \in DOMAIN summary' : /\ summary'[c].seg \in 1..i
                                   /\ segments[summary'[c].seg].type \in Summarised
    BY <1>1, <1>3, <1>5, <1>7, <2>2, <2>6
  <2>8. \A s \in 1..i : segments[s].type \in Summarised => Shows(summary', s)
    BY <1>3, <1>5, <2>4 DEF Grown
  <2>. QED  BY <2>5, <2>7, <2>8
<1>. QED  BY <1>6, <1>7

\* The same of the message: what it has of segment i besides the summary.
LEMMA MessageGrows ==
    ASSUME MessageInv, MsgFields, Len(segments) \in Nat, i \in 1..Len(segments),
           i' = i + 1, segments' = segments,
           \/ /\ msg' = msg
              /\ segment.type \notin Noticed \cup {"json", "reply"}
           \/ /\ msg' = msg
              /\ segment.type = "json" /\ segment.what \notin Cards
           \/ segment.type = "at" /\ \E m : msg' = [msg EXCEPT !.Mentions = m]
           \/ segment.type = "reply" /\ msg' = [msg EXCEPT !.Reply = i]
           \/ segment.type # "reply" /\ msg' = Notice
           \/ /\ segment.type # "reply"
              /\ \E type, form : /\ msg' = Attach(type, form)
                                 /\ AttachmentOf(type) \in {"raw", form}
    PROVE  MessageInv'
<1>1. i \in Nat \ {0} /\ i' - 1 = i /\ segment = segments[i]
  BY DEF segment
<1>. PICK k : k = i
  OBVIOUS
<1>2. /\ AttachmentOf(msg.Type) # "raw" =>
             msg.Attachment.form = AttachmentOf(msg.Type)
      /\ msg.Content \in Seq(Range(msg.Content)) /\ Len(msg.Content) <= 1
      /\ \A s \in 1..(i - 1) :
             segments[s].type = "reply" => msg.Reply \in s..(i - 1)
      /\ msg.Reply # 0 => /\ msg.Reply \in 1..(i - 1)
                          /\ segments[msg.Reply].type = "reply"
  BY DEF MessageInv
<1>3. msg = [Type |-> msg.Type, Chat |-> msg.Chat, Content |-> msg.Content,
             Mentions |-> msg.Mentions, Reply |-> msg.Reply,
             Attachment |-> msg.Attachment]
  BY DEF MsgFields
<1>4. SUFFICES
        /\ AttachmentOf(msg'.Type) # "raw" =>
               msg'.Attachment.form = AttachmentOf(msg'.Type)
        /\ msg'.Content \in Seq(Range(msg'.Content)) /\ Len(msg'.Content) <= 1
        /\ IF segment.type = "reply" THEN msg'.Reply = i
                                     ELSE msg'.Reply = msg.Reply
        /\ \/ segment.type \notin Noticed \cup {"json"}
           \/ segment.type = "json" /\ segment.what \notin Cards
           \/ Told(k)'
  <2>1. \A s \in 1..i : s = i \/ s \in 1..(i - 1)
    BY <1>1
  <2>2. \A s \in 1..i : segments[s].type = "reply" => msg'.Reply \in s..i
    BY <1>1, <1>2, <1>4, <2>1
  <2>3. msg'.Reply # 0 => /\ msg'.Reply \in 1..i
                          /\ segments[msg'.Reply].type = "reply"
    BY <1>1, <1>2, <1>4
  <2>. QED  BY <1>1, <1>4, <2>2, <2>3 DEF MessageInv
<1>5. CASE /\ msg' = msg
           /\ \/ segment.type \notin Noticed \cup {"json", "reply"}
              \/ segment.type = "json" /\ segment.what \notin Cards
  BY <1>2, <1>5
<1>6. CASE segment.type = "at" /\ \E m : msg' = [msg EXCEPT !.Mentions = m]
  <2>1. /\ msg'.Content = msg.Content /\ msg'.Type = msg.Type
        /\ msg'.Reply = msg.Reply /\ msg'.Attachment = msg.Attachment
    BY <1>3, <1>6
  <2>. QED  BY <1>2, <1>6, <2>1 DEF Noticed
<1>7. CASE segment.type = "reply" /\ msg' = [msg EXCEPT !.Reply = i]
  <2>1. /\ msg'.Content = msg.Content /\ msg'.Type = msg.Type
        /\ msg'.Reply = i /\ msg'.Attachment = msg.Attachment
    BY <1>3, <1>7
  <2>. QED  BY <1>2, <1>7, <2>1 DEF Noticed
<1>8. CASE segment.type # "reply" /\ msg' = Notice
  <2>1. PICK piece : piece = Piece(<<<<"text", segment.type>>>>)
    OBVIOUS
  <2>2. /\ msg'.Content = <<piece>> /\ msg'.Type = msg.Type
        /\ msg'.Reply = msg.Reply /\ msg'.Attachment = msg.Attachment
    BY <1>3, <1>8, <2>1 DEF Notice
  <2>3. <<piece>> \in Seq(Range(<<piece>>)) /\ Len(<<piece>>) = 1
    <3>1. <<piece>> \in Seq({piece})
      BY Singleton
    <3>. QED  BY <3>1, OwnRange
  <2>4. Told(k)'
    <3>1. piece.seg = i
      BY <2>1 DEF Piece
    <3>2. \E c \in DOMAIN msg'.Content : msg'.Content[c].seg = i
      BY <2>2, <3>1
    <3>. QED  BY <3>2 DEF Told
  <2>. QED  BY <1>2, <1>8, <2>2, <2>3, <2>4
<1>9. ASSUME segment.type # "reply",
             NEW type, NEW form, msg' = Attach(type, form),
             AttachmentOf(type) \in {"raw", form}
      PROVE  /\ AttachmentOf(msg'.Type) # "raw" =>
                    msg'.Attachment.form = AttachmentOf(msg'.Type)
             /\ msg'.Content = msg.Content /\ msg'.Reply = msg.Reply
             /\ Told(k)'
  <2>1. /\ msg'.Content = msg.Content /\ msg'.Type = type
        /\ msg'.Reply = msg.Reply
        /\ msg'.Attachment = [form |-> form, of |-> <<i>>]
    BY <1>3, <1>9 DEF Attach
  <2>2. Told(k)'
    <3>1. i \in Range(<<i>>)
      BY DEF Range
    <3>2. i \in Range(msg'.Attachment.of)
      BY <2>1, <3>1
    <3>. QED  BY <3>2 DEF Told
  <2>. QED  BY <1>9, <2>1, <2>2
<1>10. CASE /\ segment.type # "reply"
            /\ \E type, form : /\ msg' = Attach(type, form)
                               /\ AttachmentOf(type) \in {"raw", form}
  BY <1>2, <1>9, <1>10
<1>. QED  BY <1>5, <1>6, <1>7, <1>8, <1>10

\* Of a composed message, a segment is the reply, or one of text, faces,
\* mentions and images, or one thing after the reply.
LEMMA ComposedOf ==
    ASSUME MessageInv, NEW N \in Nat, N = Len(segments), i = N + 1, Composed,
           NEW s \in 1..N
    PROVE  \/ segments[s].type = "reply" /\ msg.Reply = s
           \/ /\ segments[s].type \in {"text", "face", "at", "image"}
              /\ \A r \in 1..N : segments[r].type \in
                                     {"reply", "text", "face", "at", "image"}
           \/ /\ segments[s].type # "reply" /\ s = N
              /\ \A r \in 1..N : r # s => segments[r].type = "reply"
<1>1. segments # <<>>
  BY DEF Composed
<1>. DEFINE first == IF segments[1].type = "reply" THEN 2 ELSE 1
            Inline == {"text", "face", "at", "image"}
<1>2. \/ first = N /\ segments[first].type # "reply"
      \/ \A r \in first..N : segments[r].type \in Inline
  BY <1>1 DEF Composed
<1>3. /\ \A r \in 1..N : segments[r].type = "reply" => msg.Reply \in r..N
      /\ msg.Reply # 0 => /\ msg.Reply \in 1..N
                          /\ segments[msg.Reply].type = "reply"
  BY DEF MessageInv
<1>4. ASSUME segments[1].type = "reply",
             \A r \in 2..N : segments[r].type # "reply"
      PROVE  msg.Reply = 1
  BY <1>3, <1>4
<1>5. CASE first = N /\ segments[first].type # "reply"
  <2>1. \A r \in 2..N : segments[r].type # "reply"
    BY <1>5
  <2>. QED  BY <1>4, <1>5, <2>1
<1>6. CASE \A r \in first..N : segments[r].type \in Inline
  <2>1. \A r \in 2..N : segments[r].type # "reply"
    BY <1>6
  <2>2. CASE segments[1].type = "reply"
    <3>1. \A r \in 1..N : r = 1 \/ r \in first..N
      BY <2>2
    <3>. QED  BY <1>4, <1>6, <2>1, <2>2, <3>1
  <2>3. CASE segments[1].type # "reply"
    <3>1. \A r \in 1..N : r \in first..N
      BY <2>3
    <3>. QED  BY <1>6, <3>1
  <2>. QED  BY <2>2, <2>3
<1>. QED  BY <1>2, <1>5, <1>6

\* When populateMessage ends, the message tells what it should.
LEMMA Finished ==
    ASSUME SummaryInv, MessageInv, MsgFields, NEW N \in Nat, N = Len(segments),
           DOMAIN segments = 1..N,
           \A s \in 1..N : segments[s].type \in SegmentTypes,
           i = N + 1, Finish, segments' = segments
    PROVE  NothingUntold'
<1>1. /\ \A c \in DOMAIN summary : /\ summary[c].seg \in 1..N
                                   /\ segments[summary[c].seg].type \in Summarised
      /\ \A c \in 2..Len(summary) : summary[c-1].seg < summary[c].seg
      /\ \A s \in 1..N : segments[s].type \in Summarised => Shows(summary, s)
      /\ images \in Seq(1..N)
      /\ summary \in Seq(Range(summary))
  BY DEF SummaryInv
<1>2. /\ AttachmentOf(msg.Type) # "raw" =>
             msg.Attachment.form = AttachmentOf(msg.Type)
      /\ msg.Content \in Seq(Range(msg.Content)) /\ Len(msg.Content) <= 1
      /\ \A s \in 1..N : s = N =>
             \/ segments[s].type \notin Noticed \cup {"json"}
             \/ segments[s].type = "json" /\ segments[s].what \notin Cards
             \/ Told(s)
  BY DEF MessageInv
<1>3. msg = [Type |-> msg.Type, Chat |-> msg.Chat, Content |-> msg.Content,
             Mentions |-> msg.Mentions, Reply |-> msg.Reply,
             Attachment |-> msg.Attachment]
  BY DEF MsgFields
<1>4. /\ summary' = summary /\ images' = images
      /\ LET pictures == [form |-> "blobs", of |-> images] IN
         msg' = CASE LoneImage ->
                         [msg EXCEPT !.Attachment = pictures, !.Type =
                             IF segments[1].what = "sticker" /\ Len(images) = 1
                             THEN "sticker" ELSE "image"]
                  [] summary # <<>> /\ ~LoneImage ->
                         IF images = <<>> THEN [msg EXCEPT !.Content = summary]
                         ELSE [msg EXCEPT !.Content = summary, !.Type = "image",
                                          !.Attachment = pictures]
                  [] OTHER -> msg
  BY DEF Finish
<1>5. \A s \in 1..N : Untold(s) => Untold(s)'
  BY <1>4 DEF Untold
<1>6. Composed' => Composed
  BY DEF Composed
<1>7. SUFFICES
        /\ AttachmentOf(msg'.Type) # "raw" =>
               msg'.Attachment.form = AttachmentOf(msg'.Type)
        /\ Composed => \A s \in 1..N : Told(s)' \/ Untold(s)'
        /\ \A c \in 2..Len(msg'.Content) :
               msg'.Content[c-1].seg <= msg'.Content[c].seg
  BY <1>6 DEF NothingUntold
<1>8. CASE LoneImage
  <2>1. /\ msg'.Content = msg.Content /\ msg'.Type \in {"image", "sticker"}
        /\ msg'.Attachment = [form |-> "blobs", of |-> images]
    BY <1>3, <1>4, <1>8
  <2>2. ASSUME Composed, NEW s \in 1..N
        PROVE  Told(s)' \/ Untold(s)'
    <3>1. DOMAIN summary = {1} /\ segments[1].type = "image"
      BY <1>1, <1>8 DEF LoneImage
    <3>2. \A r \in 1..N : segments[r].type \in Summarised => r = 1
      <4>1. 1 \in 1..N /\ segments[1].type \in Summarised
        BY <3>1 DEF Summarised
      <4>2. \A r \in 1..N : segments[r].type \in Summarised =>
                                summary[1].seg = r
        BY <1>1, <3>1 DEF Shows
      <4>. QED  BY <4>1, <4>2
    <3>3. \A r \in 1..N : r = 1
      <4>1. 1 \in 1..N
        OBVIOUS
      <4>2. \A r \in 1..N : segments[r].type \in {"text", "face", "at", "image"}
                                => segments[r].type \in Summarised
        BY DEF Summarised
      <4>3. 1 = N \/ \A r \in 1..N : segments[r].type \in
                         {"reply", "text", "face", "at", "image"}
        BY <2>2, <3>1, <4>1, ComposedOf
      <4>4. ASSUME NEW r \in 1..N PROVE r = 1
        <5>1. \/ segments[r].type = "reply" /\ msg.Reply = r
              \/ segments[r].type \in {"text", "face", "at", "image"}
              \/ \A q \in 1..N : q # r => segments[q].type = "reply"
          BY <2>2, ComposedOf
        <5>2. CASE segments[r].type = "reply"
          <6>1. segments[1].type # "reply"
            BY <3>1
          <6>2. segments # <<>>
            OBVIOUS
          <6>3. \/ N = 1 \/ \A q \in 1..N : segments[q].type # "reply"
            BY <2>2, <6>1, <6>2 DEF Composed
          <6>. QED  BY <5>2, <6>3
        <5>. QED  BY <3>1, <3>2, <4>1, <4>2, <5>1, <5>2
      <4>. QED  BY <4>4
    <3>4. s = 1 /\ N = 1
      BY <3>3
    <3>5. CASE images = <<>>
      BY <1>5, <3>1, <3>4, <3>5 DEF Untold
    <3>6. CASE images # <<>>
      <4>1. 1 \in DOMAIN images /\ images[1] = 1
        BY <1>1, <3>4, <3>6
      <4>2. 1 \in Range(images)
        BY <4>1 DEF Range
      <4>. QED  BY <2>1, <3>4, <4>2 DEF Told
    <3>. QED  BY <3>5, <3>6
  <2>. QED  BY <1>2, <2>1, <2>2 DEF AttachmentOf
<1>9. CASE summary # <<>> /\ ~LoneImage
  <2>1. /\ msg'.Content = summary /\ msg'.Reply = msg.Reply
        /\ \/ msg'.Type = msg.Type /\ msg'.Attachment = msg.Attachment
           \/ msg'.Type = "image" /\ msg'.Attachment.form = "blobs"
    BY <1>3, <1>4, <1>9
  <2>2. ASSUME Composed, NEW s \in 1..N
        PROVE  Told(s)' \/ Untold(s)'
    <3>1. CASE segments[s].type = "reply" /\ msg.Reply = s
      BY <2>1, <3>1 DEF Told
    <3>2. CASE segments[s].type \in Summarised
      <4>1. PICK c \in DOMAIN summary : summary[c].seg = s
        BY <1>1, <3>2 DEF Shows
      <4>. QED  BY <2>1, <4>1 DEF Told
    <3>3. CASE /\ segments[s].type \notin Summarised
               /\ \A r \in 1..N : r # s => segments[r].type = "reply"
      <4>1. 1 \in DOMAIN summary
        BY <1>1, <1>9
      <4>2. summary[1].seg \in 1..N /\ segments[summary[1].seg].type \in Summarised
        BY <1>1, <4>1
      <4>. QED  BY <3>3, <4>2 DEF Summarised
    <3>4. {"text", "face", "at", "image"} \subseteq Summarised
      BY DEF Summarised
    <3>. QED  BY <2>2, <3>1, <3>2, <3>3, <3>4, ComposedOf
  <2>. QED  BY <1>1, <1>2, <2>1, <2>2 DEF AttachmentOf
<1>10. CASE summary = <<>>
  <2>1. msg' = msg
    BY <1>4, <1>10 DEF LoneImage
  <2>2. ASSUME Composed, NEW s \in 1..N
        PROVE  Told(s)' \/ Untold(s)'
    <3>1. CASE segments[s].type = "reply" /\ msg.Reply = s
      BY <2>1, <3>1 DEF Told
    <3>2. segments[s].type \notin Summarised
      BY <1>1, <1>10 DEF Shows
    <3>3. CASE s = N /\ segments[s].type # "reply"
      <4>1. segments[s].type \in Noticed \cup {"json"}
        BY <3>2, <3>3 DEF SegmentTypes, Summarised, Noticed
      <4>2. CASE segments[s].type = "json" /\ segments[s].what \notin Cards
        BY <1>5, <4>2 DEF Untold
      <4>3. CASE Told(s)
        BY <2>1, <4>3 DEF Told
      <4>. QED  BY <1>2, <3>3, <4>1, <4>2, <4>3
    <3>4. {"text", "face", "at", "image"} \subseteq Summarised
      BY DEF Summarised
    <3>. QED  BY <2>2, <3>1, <3>2, <3>3, <3>4, ComposedOf
  <2>. QED  BY <1>2, <2>1, <2>2
<1>. QED  BY <1>8, <1>9, <1>10

\* A step that leaves segment i, by what it does to the summary, the images
\* and the message.
LEMMA SegmentLeft ==
    ASSUME BuildInv, MsgFields, Building, i <= Len(segments),
           pc' = "segments", i' = i + 1, frame' = frame,
           \/ /\ segment.type \in Summarised
              /\ \E tokens : summary' = Append(summary, Piece(tokens))
           \/ segment.type \notin Summarised /\ summary' = summary,
           images' \in {images, Append(images, i)},
           \/ /\ msg' = msg
              /\ segment.type \notin Noticed \cup {"json", "reply"}
           \/ /\ msg' = msg
              /\ segment.type = "json" /\ segment.what \notin Cards
           \/ segment.type = "at" /\ \E m : msg' = [msg EXCEPT !.Mentions = m]
           \/ segment.type = "reply" /\ msg' = [msg EXCEPT !.Reply = i]
           \/ segment.type # "reply" /\ msg' = Notice
           \/ /\ segment.type # "reply"
              /\ \E type, form : /\ msg' = Attach(type, form)
                                 /\ AttachmentOf(type) \in {"raw", form}
    PROVE  BuildInv'
<1>1. frame.segments \in Seq(Range(frame.segments))
  BY DEF BuildInv, Building
<1>2. Len(segments) \in Nat
  BY <1>1, SegmentsTyped
<1>3. SummaryInv /\ MessageInv /\ i \in 1..Len(segments)
  BY <1>2 DEF BuildInv
<1>4. segments' = segments
  BY DEF segments
<1>5. SummaryInv'
  BY <1>2, <1>3, <1>4, SummaryGrows
<1>6. MessageInv'
  BY <1>2, <1>3, <1>4, MessageGrows
<1>7. i' \in 1..(Len(segments') + 1)
  BY <1>2, <1>3, <1>4
<1>8. (frame.segments \in Seq(Range(frame.segments)))'
  BY <1>1
<1>. QED  BY <1>5, <1>6, <1>7, <1>8 DEF BuildInv

\* Every step keeps BuildInv.
LEMMA BuildKept ==
    ASSUME MessagesAssumption, KeyInv, BuildInv, [Next]_vars
    PROVE  BuildInv'
<1>1. CASE SendMessage
  <2>1. out \in Outgoing /\ ~Building' /\ pc' \in {"read", "refused"}
        /\ i' = 1 /\ summary' = <<>> /\ images' = <<>>
    BY <1>1 DEF SendMessage, BuildInv, Building, building
  <2>2. CASE pc' = "read"
    <3>1. frame'.segments = Delivered(out)
      BY <1>1, <2>2 DEF SendMessage
    <3>2. frame'.segments \in Seq(Range(frame'.segments))
      BY <2>1, <3>1, DeliveredSequence
    <3>. QED  BY <2>1, <2>2, <3>2 DEF BuildInv
  <2>. QED  BY <2>1, <2>2 DEF BuildInv
<1>2. CASE handleEvent
  <2>1. /\ frame' = frame /\ i' = 1 /\ summary' = <<>> /\ images' = <<>>
        /\ frame.segments \in Seq(Range(frame.segments))
        /\ pc' \in {"dropped", "segments", "transmitted", "handled"}
    BY <1>2 DEF handleEvent, BuildInv
  <2>2. CASE pc' = "segments"
    <3>1. \E chat : msg' = EmptyMessage(chat)
      BY <1>2, <2>2 DEF handleEvent
    <3>2. /\ msg'.Type = "text" /\ msg'.Content = <<>> /\ msg'.Reply = 0
      BY <3>1 DEF EmptyMessage
    <3>3. MessageInv'
      <4>1. AttachmentOf(msg'.Type) = "raw"
        BY <3>2 DEF AttachmentOf
      <4>2. msg'.Content \in Seq(Range(msg'.Content)) /\ Len(msg'.Content) <= 1
        BY <3>2
      <4>3. 1..(i' - 1) = {}
        BY <2>1
      <4>. QED  BY <3>2, <4>1, <4>2, <4>3 DEF MessageInv
    <3>4. SummaryInv'
      <4>1. 1..(i' - 1) = {} /\ DOMAIN summary' = {} /\ Len(summary') = 0
        BY <2>1
      <4>2. summary' \in Seq(Range(summary')) /\ images' \in Seq(1..(i' - 1))
        BY <2>1
      <4>. QED  BY <4>1, <4>2 DEF SummaryInv
    <3>5. i' \in 1..(Len(segments') + 1)
      <4>1. (frame.segments \in Seq(Range(frame.segments)))'
        BY <2>1
      <4>2. Len(segments') \in Nat
        BY <2>1, SegmentsTyped DEF segments
      <4>. QED  BY <2>1, <4>2
    <3>. QED  BY <2>1, <2>2, <3>3, <3>4, <3>5 DEF BuildInv
  <2>3. CASE pc' # "segments"
    <3>1. ~Building' /\ pc' \notin {"send", "read"}
      BY <2>1, <2>3 DEF Building
    <3>. QED  BY <2>1, <3>1 DEF BuildInv
  <2>. QED  BY <2>2, <2>3
<1>3. CASE populateMessage
  <2>. USE DEF unmoved, building
  <2>1. Building /\ MsgFields /\ frame' = frame
    BY <1>3 DEF KeyInv, Building, populateMessage, TextSegment, LabelSegment,
        AtSegment, ReplySegment, ForwardSegment, JSONSegment, getMedia,
        DownloadFails, AskFails, AskUndecodable, FallbackFails, MediaArrives,
        MediaFails, Finish, At
  <2>2. /\ frame.segments \in Seq(Range(frame.segments))
        /\ pc # "segments" =>
               i <= Len(segments) /\ segment.type \in MediaTypes
        /\ SummaryInv /\ MessageInv /\ i \in 1..(Len(segments) + 1)
    BY <2>1 DEF BuildInv, Building
  <2>3. CASE TextSegment \/ LabelSegment
    <3>1. /\ pc' = "segments" /\ i' = i + 1 /\ i <= Len(segments)
          /\ msg' = msg /\ images' = images
          /\ segment.type \in {"text", "face", "share", "location", "node", "xml"}
          /\ \E tokens : summary' = Append(summary, Piece(tokens))
      BY <2>3 DEF TextSegment, LabelSegment, At, Past, Add
    <3>2. segment.type \in Summarised \ (Noticed \cup {"json", "reply"})
      BY <3>1 DEF Summarised, Noticed
    <3>. QED  BY <2>1, <3>1, <3>2, SegmentLeft
  <2>4. CASE AtSegment
    <3>1. /\ pc' = "segments" /\ i' = i + 1 /\ i <= Len(segments)
          /\ images' = images /\ segment.type = "at"
          /\ \E tokens : summary' = Append(summary, Piece(tokens))
          /\ \E m : msg' = [msg EXCEPT !.Mentions = m]
      BY <2>4 DEF AtSegment, At, Past, Add
    <3>2. segment.type \in Summarised
      BY <3>1 DEF Summarised
    <3>. QED  BY <2>1, <3>1, <3>2, SegmentLeft
  <2>5. CASE ReplySegment
    <3>1. /\ pc' = "segments" /\ i' = i + 1 /\ i <= Len(segments)
          /\ images' = images /\ segment.type = "reply" /\ summary' = summary
          /\ msg' = [msg EXCEPT !.Reply = i]
      BY <2>5 DEF ReplySegment, At, Past
    <3>2. segment.type \notin Summarised
      BY <3>1 DEF Summarised
    <3>. QED  BY <2>1, <3>1, <3>2, SegmentLeft
  <2>6. CASE ForwardSegment
    <3>1. /\ pc' = "segments" /\ i' = i + 1 /\ i <= Len(segments)
          /\ images' = images /\ segment.type = "forward" /\ summary' = summary
          /\ msg' = Notice
      BY <2>6 DEF ForwardSegment, At, Past
    <3>2. segment.type \notin Summarised
      BY <3>1 DEF Summarised
    <3>. QED  BY <2>1, <3>1, <3>2, SegmentLeft
  <2>7. CASE JSONSegment
    <3>1. /\ pc' = "segments" /\ i' = i + 1 /\ i <= Len(segments)
          /\ images' = images /\ segment.type = "json" /\ summary' = summary
          /\ \/ msg' = Attach("location", "location")
             \/ msg' = Attach("app", "app")
             \/ msg' = msg /\ segment.what \notin Cards
      BY <2>7 DEF JSONSegment, At, Past, Cards
    <3>2. /\ segment.type \notin Summarised
          /\ AttachmentOf("location") = "location" /\ AttachmentOf("app") = "app"
      BY <3>1 DEF Summarised, AttachmentOf
    <3>. QED  BY <2>1, <3>1, <3>2, SegmentLeft
  <2>8. CASE getMedia \/ DownloadFails \/ AskFails \/ AskUndecodable \/ FallbackFails
    <3>1. /\ pc' \in {"download", "ask", "fallback", "nothing"}
          /\ i <= Len(segments) /\ segment.type \in MediaTypes
          /\ UNCHANGED <<i, frame, msg, summary, images>>
      BY <2>2, <2>8 DEF getMedia, DownloadFails, AskFails, AskUndecodable,
                        FallbackFails, At
    <3>2. segments' = segments /\ segment' = segment
      BY <3>1 DEF segments, segment
    <3>3. SummaryInv' /\ MessageInv'
      BY <2>2, <3>1, <3>2 DEF SummaryInv, MessageInv, Shows, Told
    <3>. QED  BY <2>2, <3>1, <3>2, <3>3 DEF BuildInv, Building
  <2>9. CASE MediaArrives
    <3>1. /\ pc' = "segments" /\ i' = i + 1 /\ i <= Len(segments)
          /\ segment.type \in MediaTypes
      BY <2>2, <2>9 DEF MediaArrives, Past
    <3>2. CASE segment.type = "image"
      <4>1. /\ images' = Append(images, i) /\ msg' = msg
            /\ \E tokens : summary' = Append(summary, Piece(tokens))
        BY <2>9, <3>2 DEF MediaArrives, Add
      <4>2. segment.type \in Summarised \ (Noticed \cup {"json", "reply"})
        BY <3>2 DEF Summarised, Noticed
      <4>. QED  BY <2>1, <3>1, <4>1, <4>2, SegmentLeft
    <3>3. CASE segment.type = "mface"
      <4>1. /\ images' = images /\ msg' = Attach("sticker", "blobs")
            /\ \E tokens : summary' = Append(summary, Piece(tokens))
        BY <2>9, <3>3 DEF MediaArrives, Add
      <4>2. /\ segment.type \in Summarised /\ segment.type # "reply"
            /\ AttachmentOf("sticker") = "blobs"
        BY <3>3 DEF Summarised, AttachmentOf
      <4>. QED  BY <2>1, <3>1, <4>1, <4>2, SegmentLeft
    <3>4. CASE segment.type \in {"video", "file", "record"}
      <4>1. /\ images' = images /\ msg' = Attach(TypeOfMedia, "blobs")
            /\ summary' = summary
        BY <2>9, <3>4 DEF MediaArrives
      <4>2. /\ segment.type \notin Summarised /\ segment.type # "reply"
            /\ AttachmentOf(TypeOfMedia) = "blobs"
        BY <3>4 DEF Summarised, AttachmentOf, TypeOfMedia
      <4>. QED  BY <2>1, <3>1, <4>1, <4>2, SegmentLeft
    <3>. QED  BY <3>1, <3>2, <3>3, <3>4 DEF MediaTypes
  <2>10. CASE MediaFails
    <3>1. /\ pc' = "segments" /\ i' = i + 1 /\ i <= Len(segments)
          /\ segment.type \in MediaTypes /\ images' = images
      BY <2>2, <2>10 DEF MediaFails, Past
    <3>2. CASE segment.type \in {"image", "mface"}
      <4>1. /\ msg' = msg
            /\ \E tokens : summary' = Append(summary, Piece(tokens))
        BY <2>10, <3>2 DEF MediaFails, Add
      <4>2. segment.type \in Summarised \ (Noticed \cup {"json", "reply"})
        BY <3>2 DEF Summarised, Noticed
      <4>. QED  BY <2>1, <3>1, <4>1, <4>2, SegmentLeft
    <3>3. CASE segment.type \in {"video", "file", "record"}
      <4>1. summary' = summary /\ msg' = Notice
        BY <2>10, <3>3 DEF MediaFails
      <4>2. segment.type \notin Summarised /\ segment.type # "reply"
        BY <3>3 DEF Summarised
      <4>. QED  BY <2>1, <3>1, <4>1, <4>2, SegmentLeft
    <3>. QED  BY <3>1, <3>2, <3>3 DEF MediaTypes
  <2>11. CASE Finish
    <3>1. pc' = "transmitted"
      BY <2>11 DEF Finish
    <3>. QED  BY <2>1, <2>2, <3>1 DEF BuildInv, Building
  <2>. QED  BY <1>3, <2>3, <2>4, <2>5, <2>6, <2>7, <2>8, <2>9, <2>10, <2>11
            DEF populateMessage
<1>4. CASE Terminated \/ UNCHANGED vars
  <2>1. UNCHANGED vars
    BY <1>4 DEF Terminated
  <2>. QED  BY <2>1 DEF vars, BuildInv, Building, SummaryInv, MessageInv, Shows,
                        Told, segments, segment
<1>. QED  BY <1>1, <1>2, <1>3, <1>4 DEF Next

\* Only Finish transmits a message that was built.
LEMMA UntoldKept ==
    ASSUME KeyInv, BuildInv, NothingUntold, [Next]_vars
    PROVE  NothingUntold'
<1>1. CASE SendMessage
  BY <1>1 DEF SendMessage, NothingUntold, Transmitted
<1>2. CASE handleEvent
  <2>1. pc' = "transmitted" => msg'.Type = "revoke"
    BY <1>2 DEF handleEvent, EmptyMessage
  <2>. QED  BY <2>1 DEF NothingUntold, Transmitted
<1>3. CASE Finish
  <2>1. Building /\ frame' = frame /\ pc = "segments" /\ i > Len(segments)
    BY <1>3 DEF Finish, Building
  <2>2. /\ frame.segments \in Seq(Range(frame.segments)) /\ MsgFields
        /\ SummaryInv /\ MessageInv /\ i \in 1..(Len(segments) + 1)
    BY <2>1 DEF BuildInv, KeyInv, Building
  <2>3. PICK N \in Nat : N = Len(segments)
    BY <2>2, SegmentsTyped
  <2>4. /\ DOMAIN segments = 1..N
        /\ \A s \in 1..N : segments[s].type \in SegmentTypes
    BY <2>2, <2>3, SegmentsTyped
  <2>5. i = N + 1 /\ segments' = segments
    BY <2>1, <2>2, <2>3 DEF segments
  <2>. QED  BY <1>3, <2>2, <2>3, <2>4, <2>5, Finished
<1>4. CASE populateMessage /\ ~Finish
  <2>1. pc' # "transmitted"
    BY <1>4 DEF populateMessage, TextSegment, LabelSegment, AtSegment,
        ReplySegment, ForwardSegment, JSONSegment, getMedia, DownloadFails,
        AskFails, AskUndecodable, FallbackFails, MediaArrives, MediaFails, Past
  <2>. QED  BY <2>1 DEF NothingUntold, Transmitted
<1>5. CASE Terminated \/ UNCHANGED vars
  <2>1. UNCHANGED vars
    BY <1>5 DEF Terminated
  <2>. QED  BY <2>1 DEF vars, NothingUntold, Transmitted, Composed, Told, Untold,
                        segments
<1>. QED  BY <1>1, <1>2, <1>3, <1>4, <1>5 DEF Next
-----------------------------------------------------------------------------
(* What is read back of a text.                                            *)

SaidOf(ss)    == [k \in DOMAIN ss |-> SaidBy(ss[k])]
NamedOf(ss)   == [k \in DOMAIN ss |-> MentionedBy(ss[k])]
ReadWords(ss) == Flat(SaidOf(ss), Len(ss))
ReadNames(ss) == Flat(NamedOf(ss), Len(ss))

Spoken(Words, Names) == Words \cup {<<"@", x>> : x \in Names \cup {"", "room"}}
Called(Names)        == Names \cup {"", "room"}

\* What one text segment says, and whom it mentions.
LEMMA SaidTyped ==
    ASSUME NEW Words, NEW Names, NEW s \in TextSegments(Words, Names)
    PROVE  /\ SaidBy(s) \in Seq(Spoken(Words, Names))
           /\ MentionedBy(s) \in Seq(Called(Names))
<1>1. CASE s.type = "text"
  <2>1. PICK t \in Seq(Words) : t = s.text
    BY DEF TextSegments
  <2>2. t \in Seq(Spoken(Words, Names))
    <3>1. PICK E : E = Spoken(Words, Names)
      OBVIOUS
    <3>2. Words \subseteq E
      BY <3>1 DEF Spoken
    <3>. QED  BY <3>1, <3>2
  <2>3. <<>> \in Seq(Called(Names))
    OBVIOUS
  <2>. QED  BY <1>1, <2>1, <2>2, <2>3 DEF SaidBy, MentionedBy
<1>2. CASE s.type # "text"
  <2>1. PICK x : x = Room(s.what)
    OBVIOUS
  <2>2. x \in Called(Names)
    BY <2>1 DEF TextSegments, Room, Called
  <2>3. <<"@", x>> \in Spoken(Words, Names)
    BY <2>2 DEF Called, Spoken
  <2>4. <<x>> \in Seq(Called(Names)) /\ <<<<"@", x>>>> \in Seq(Spoken(Words, Names))
    <3>1. PICK w, S, C :
              w = <<"@", x>> /\ S = Spoken(Words, Names) /\ C = Called(Names)
      OBVIOUS
    <3>2. <<x>> \in Seq(C)
      BY <2>2, <3>1
    <3>3. <<w>> \in Seq(S)
      BY <2>3, <3>1
    <3>. QED  BY <3>1, <3>2, <3>3
  <2>. QED  BY <1>2, <2>1, <2>4 DEF SaidBy, MentionedBy
<1>. QED  BY <1>1, <1>2

\* f begins with the first n of e; the first n of f are sequences of D.
Begins(e, n, f)  == \A k \in 1..n : f[k] = e[k]
AllSeqs(f, n, D) == \A k \in 1..n : f[k] \in Seq(D)

\* Flattening f, which begins like e and has one sequence more.
OneMore(D, e, n, f, x) ==
    Flat(e, n) \in Seq(D) /\ Flat(f, n + 1) = Flat(e, n) \o x

\* The sum of one sequence more is the sum before it and that sequence.
LEMMA FlatAppended ==
    ASSUME NEW D, NEW n \in Nat, NEW e, NEW f, NEW x, Begins(e, n, f),
           AllSeqs(f, n + 1, D), f[n+1] = x
    PROVE  OneMore(D, e, n, f, x)
<1>1. Flat(f, n) = Flat(e, n)
  BY FlatSame DEF Begins
<1>2. Flat(f, n) \in Seq(D) /\ Flat(f, n + 1) = Flat(f, n) \o f[n+1]
  BY FlatGrows DEF AllSeqs
<1>. QED  BY <1>1, <1>2 DEF OneMore

\* The sum of sequences over D is a sequence over D.
LEMMA FlatTyped ==
    ASSUME NEW D, NEW n \in Nat, NEW e, AllSeqs(e, n, D)
    PROVE  Flat(e, n) \in Seq(D)
<1>1. CASE n = 0
  <2>1. Flat(e, 0) = <<>> /\ <<>> \in Seq(D)
    BY FlatEmpty
  <2>. QED  BY <1>1, <2>1
<1>2. CASE n # 0
  <2>1. PICK k \in Nat : n = k + 1
    <3>1. n - 1 \in Nat /\ n = (n - 1) + 1
      BY <1>2
    <3>. QED  BY <3>1
  <2>2. Begins(e, k, e) /\ AllSeqs(e, k + 1, D)
    BY <2>1 DEF Begins
  <2>3. OneMore(D, e, k, e, e[k+1])
    BY <2>2, FlatAppended
  <2>4. e[k+1] \in Seq(D)
    BY <2>1 DEF AllSeqs
  <2>5. (Flat(e, k) \o e[k+1]) \in Seq(D)
    BY <2>3, <2>4, ConcatProperties DEF OneMore
  <2>. QED  BY <2>1, <2>3, <2>5 DEF OneMore
<1>. QED  BY <1>1, <1>2

\* What is read of text segments is typed.
ReadTyped(Words, Names, ss) ==
    /\ ReadWords(ss) \in Seq(Spoken(Words, Names))
    /\ ReadNames(ss) \in Seq(Called(Names))

\* What is read of text segments is words and names.
LEMMA Reads ==
    ASSUME NEW Words, NEW Names, NEW ss \in Seq(TextSegments(Words, Names))
    PROVE  ReadTyped(Words, Names, ss)
<1>1. PICK n \in Nat : n = Len(ss)
  OBVIOUS
<1>2. DOMAIN ss = 1..n /\ \A k \in 1..n : ss[k] \in TextSegments(Words, Names)
  BY <1>1
<1>3. /\ AllSeqs(SaidOf(ss), n, Spoken(Words, Names))
      /\ AllSeqs(NamedOf(ss), n, Called(Names))
  BY <1>2, SaidTyped DEF SaidOf, NamedOf, AllSeqs
<1>. QED  BY <1>1, <1>3, FlatTyped DEF ReadTyped, ReadWords, ReadNames

\* What is read of one segment more.
ReadsMore(ss, tt, words, names) ==
    /\ ReadWords(tt) = ReadWords(ss) \o words
    /\ ReadNames(tt) = ReadNames(ss) \o names

\* One segment more adds what it says and whom it mentions.
LEMMA ReadAppended ==
    ASSUME NEW Words, NEW Names, NEW ss \in Seq(TextSegments(Words, Names)),
           NEW x \in TextSegments(Words, Names)
    PROVE  ReadsMore(ss, Append(ss, x), SaidBy(x), MentionedBy(x))
<1>. DEFINE U == TextSegments(Words, Names)
<1>1. PICK n \in Nat : n = Len(ss)
  OBVIOUS
<1>2. PICK tt : tt = Append(ss, x)
  OBVIOUS
<1>3. /\ tt \in Seq(U) /\ Len(tt) = n + 1 /\ tt[n+1] = x
      /\ \A k \in 1..n : tt[k] = ss[k]
      /\ DOMAIN tt = 1..(n+1) /\ DOMAIN ss = 1..n
  <2>. HIDE DEF U
  <2>1. ss \in Seq(U) /\ x \in U
    BY DEF U
  <2>. QED  BY <1>1, <1>2, <2>1
<1>4. \A k \in 1..(n+1) : tt[k] \in U
  <2>. HIDE DEF U
  <2>. QED  BY <1>3
<1>5. /\ Begins(SaidOf(ss), n, SaidOf(tt)) /\ Begins(NamedOf(ss), n, NamedOf(tt))
      /\ SaidOf(tt)[n+1] = SaidBy(x) /\ NamedOf(tt)[n+1] = MentionedBy(x)
  BY <1>3 DEF SaidOf, NamedOf, Begins
<1>6. /\ AllSeqs(SaidOf(tt), n + 1, Spoken(Words, Names))
      /\ AllSeqs(NamedOf(tt), n + 1, Called(Names))
  BY <1>3, <1>4, SaidTyped DEF SaidOf, NamedOf, AllSeqs
<1>7. /\ OneMore(Spoken(Words, Names), SaidOf(ss), n, SaidOf(tt), SaidBy(x))
      /\ OneMore(Called(Names), NamedOf(ss), n, NamedOf(tt), MentionedBy(x))
  BY <1>5, <1>6, FlatAppended
<1>. QED  BY <1>1, <1>2, <1>3, <1>7 DEF ReadsMore, ReadWords, ReadNames, OneMore

\* AppendText adds the token to what is read, and mentions nobody.
LEMMA ReadText ==
    ASSUME NEW Words, NEW Names, NEW ss \in Seq(TextSegments(Words, Names)),
           NEW token \in Words
    PROVE  /\ ReadWords(AppendText(ss, token)) = Append(ReadWords(ss), token)
           /\ ReadNames(AppendText(ss, token)) = ReadNames(ss)
<1>. DEFINE U == TextSegments(Words, Names)
            S == Spoken(Words, Names)
            C == Called(Names)
<1>1. <<token>> \in Seq(Words)
  OBVIOUS
<1>2. PICK new : new = NewText(<<token>>)
  OBVIOUS
<1>3. new \in U /\ SaidBy(new) = <<token>> /\ MentionedBy(new) = <<>>
  <2>1. PICK t \in Seq(Words) : t = <<token>>
    BY <1>1
  <2>2. NewText(t) \in U /\ NewText(t).type = "text" /\ NewText(t).text = t
    BY DEF NewText, Segment, TextSegments
  <2>. QED  BY <1>2, <2>1, <2>2 DEF SaidBy, MentionedBy
<1>4. ReadWords(ss) \in Seq(S) /\ ReadNames(ss) \in Seq(C)
  BY Reads DEF ReadTyped
<1>5. token \in S
  BY DEF Spoken
<1>6. \A w \in Seq(S) : Append(w, token) = w \o <<token>>
  <2>. HIDE DEF S
  <2>. QED  BY <1>5, AppendIsConcat
<1>7. CASE ~(ss # <<>> /\ Last(ss).type = "text")
  <2>1. AppendText(ss, token) = Append(ss, new)
    BY <1>2, <1>7 DEF AppendText
  <2>2. /\ ReadWords(Append(ss, new)) = ReadWords(ss) \o <<token>>
        /\ ReadNames(Append(ss, new)) = ReadNames(ss) \o <<>>
    <3>1. ReadsMore(ss, Append(ss, new), <<token>>, <<>>)
      BY <1>3, ReadAppended
    <3>. QED  BY <3>1 DEF ReadsMore
  <2>3. ReadNames(ss) \o <<>> = ReadNames(ss)
    BY <1>4, ConcatEmptySeq
  <2>. QED  BY <1>4, <1>6, <2>1, <2>2, <2>3
<1>8. CASE ss # <<>> /\ Last(ss).type = "text"
  <2>1. PICK n \in Nat : Len(ss) = n + 1
    <3>1. Len(ss) \in Nat \ {0}
      BY <1>8
    <3>2. Len(ss) - 1 \in Nat /\ Len(ss) = (Len(ss) - 1) + 1
      BY <3>1
    <3>. QED  BY <3>2
  <2>2. n + 1 \in 1..(n+1) /\ DOMAIN ss = 1..(n+1) /\ \A k \in 1..(n+1) : ss[k] \in U
    <3>. HIDE DEF U
    <3>1. ss \in Seq(U)
      BY DEF U
    <3>. QED  BY <2>1, <3>1
  <2>3. PICK x \in U : x = ss[n+1]
    BY <2>2
  <2>4. x.type = "text"
    BY <1>8, <2>1, <2>3 DEF Last
  <2>5. PICK t \in Seq(Words) : t = x.text
    BY DEF TextSegments
  <2>6. PICK u \in Seq(Words) : u = Append(t, token)
    BY AppendProperties
  <2>7. PICK y : y = [x EXCEPT !.text = u]
    OBVIOUS
  <2>8. y \in U /\ y.type = "text" /\ y.text = u
    <3>1. y \in U
      BY <2>7, TextReplaced DEF TextSegments
    <3>2. y.type = "text" /\ y.text = u
      BY <2>4, <2>7 DEF TextSegments
    <3>. QED  BY <3>1, <3>2
  <2>9. PICK tt : tt = AppendText(ss, token)
    OBVIOUS
  <2>10. tt = [ss EXCEPT ![n+1] = y]
    <3>1. tt = [ss EXCEPT ![n+1] = [x EXCEPT !.text = Append(x.text, token)]]
      BY <1>8, <2>1, <2>2, <2>3, <2>9 DEF AppendText
    <3>. QED  BY <2>5, <2>6, <2>7, <3>1
  <2>11. /\ DOMAIN tt = 1..(n+1) /\ tt[n+1] = y
         /\ \A k \in 1..n : tt[k] = ss[k]
    BY <2>2, <2>10
  <2>12. Len(tt) = n + 1
    <3>1. tt \in Seq(U)
      BY <2>9, AppendTextTyped
    <3>. HIDE DEF U
    <3>. QED  BY <2>11, <3>1, LenProperties
  <2>13. /\ Begins(SaidOf(ss), n, SaidOf(tt)) /\ Begins(SaidOf(ss), n, SaidOf(ss))
         /\ Begins(NamedOf(ss), n, NamedOf(tt)) /\ Begins(NamedOf(ss), n, NamedOf(ss))
    BY <2>2, <2>11 DEF SaidOf, NamedOf, Begins
  <2>14. SaidOf(ss)[n+1] = SaidBy(x) /\ NamedOf(ss)[n+1] = MentionedBy(x)
    BY <2>2, <2>3 DEF SaidOf, NamedOf
  <2>15. SaidOf(tt)[n+1] = SaidBy(y) /\ NamedOf(tt)[n+1] = MentionedBy(y)
    BY <2>2, <2>11 DEF SaidOf, NamedOf
  <2>16. /\ SaidBy(x) = t /\ MentionedBy(x) = <<>>
         /\ SaidBy(y) = u /\ MentionedBy(y) = <<>>
    BY <2>4, <2>5, <2>8 DEF SaidBy, MentionedBy
  <2>17. /\ AllSeqs(SaidOf(ss), n + 1, S) /\ AllSeqs(NamedOf(ss), n + 1, C)
         /\ AllSeqs(SaidOf(tt), n + 1, S) /\ AllSeqs(NamedOf(tt), n + 1, C)
    <3>1. \A k \in 1..(n+1) : tt[k] \in U
      <4>1. \A k \in 1..(n+1) : k = n + 1 \/ k \in 1..n
        OBVIOUS
      <4>. HIDE DEF U
      <4>. QED  BY <2>2, <2>8, <2>11, <4>1
    <3>. QED  BY <2>2, <2>11, <3>1, SaidTyped DEF SaidOf, NamedOf, AllSeqs
  <2>18. /\ OneMore(S, SaidOf(ss), n, SaidOf(ss), t)
         /\ OneMore(S, SaidOf(ss), n, SaidOf(tt), u)
    BY <2>13, <2>14, <2>15, <2>16, <2>17, FlatAppended
  <2>19. /\ OneMore(C, NamedOf(ss), n, NamedOf(ss), <<>>)
         /\ OneMore(C, NamedOf(ss), n, NamedOf(tt), <<>>)
    BY <2>13, <2>14, <2>15, <2>16, <2>17, FlatAppended
  <2>20. Flat(SaidOf(ss), n) \o u = Append(Flat(SaidOf(ss), n) \o t, token)
    <3>1. Flat(SaidOf(ss), n) \in Seq(S)
      BY <2>18 DEF OneMore
    <3>2. t \in Seq(S)
      <4>1. PICK E : E = S
        OBVIOUS
      <4>2. Words \subseteq E
        BY <4>1 DEF Spoken
      <4>. QED  BY <4>1, <4>2
    <3>3. u = t \o <<token>> /\ <<token>> \in Seq(S)
      <4>1. u = t \o <<token>>
        BY <1>6, <2>6, <3>2
      <4>2. PICK E : E = S
        OBVIOUS
      <4>3. <<token>> \in Seq(E)
        BY <1>5, <4>2
      <4>. QED  BY <4>1, <4>2, <4>3
    <3>4. (Flat(SaidOf(ss), n) \o t) \in Seq(S)
      <4>. HIDE DEF S
      <4>. QED  BY <3>1, <3>2, ConcatProperties
    <3>5. Append(Flat(SaidOf(ss), n) \o t, token)
              = (Flat(SaidOf(ss), n) \o t) \o <<token>>
      BY <1>6, <3>4
    <3>6. (Flat(SaidOf(ss), n) \o t) \o <<token>>
              = Flat(SaidOf(ss), n) \o (t \o <<token>>)
      <4>. HIDE DEF S
      <4>. QED  BY <3>1, <3>2, <3>3, ConcatAssociative
    <3>. QED  BY <3>3, <3>5, <3>6
  <2>. QED  BY <2>1, <2>9, <2>12, <2>18, <2>19, <2>20
            DEF ReadWords, ReadNames, OneMore
<1>. QED  BY <1>7, <1>8

\* Who is mentioned by a token, and by all of content.
NamedIn(token, mentions) ==
    IF token[1] = "@" /\ token[2] \in Range(mentions) THEN <<token[2]>> ELSE <<>>

AllNamed(content, mentions) ==
    [c \in DOMAIN content |-> NamedIn(content[c], mentions)]

\* AppendToken adds a token, and mentions whom it names.
LEMMA ReadToken ==
    ASSUME NEW Words, NEW Names, NEW ss \in Seq(TextSegments(Words, Names)),
           NEW token \in Words, token = <<token[1], token[2]>>,
           NEW mentions \in Seq(Names), "all" \notin Range(mentions),
           \A m \in Range(mentions) : <<m, token[2]>> \notin prefix
    PROVE  /\ ReadWords(AppendToken(ss, token, mentions))
                  = Append(ReadWords(ss), token)
           /\ ReadNames(AppendToken(ss, token, mentions))
                  = ReadNames(ss) \o NamedIn(token, mentions)
<1>. DEFINE fitting == IF token[1] = "@" THEN Fitting(mentions, token[2]) ELSE {}
            k  == CHOOSE x \in fitting : \A l \in fitting : x <= l
            m  == mentions[k]
            at == Append(ss, NewAt(IF m = "room" THEN "all" ELSE m))
<1>1. AppendToken(ss, token, mentions) =
          IF fitting = {}      THEN AppendText(ss, token)
          ELSE IF m = token[2] THEN at
                               ELSE AppendText(at, <<m, token[2]>>)
  BY DEF AppendToken
<1>2. \A x \in DOMAIN mentions : mentions[x] \in Range(mentions)
  BY DEF Range
<1>3. Fitting(mentions, token[2]) = {x \in DOMAIN mentions : mentions[x] = token[2]}
  BY <1>2 DEF Fitting
<1>4. CASE fitting = {}
  <2>1. AppendToken(ss, token, mentions) = AppendText(ss, token)
    <3>. HIDE DEF fitting, m, at
    <3>. QED  BY <1>1, <1>4
  <2>2. NamedIn(token, mentions) = <<>>
    <3>1. ~(token[1] = "@" /\ token[2] \in Range(mentions))
      BY <1>3, <1>4 DEF Range
    <3>. QED  BY <3>1 DEF NamedIn
  <2>3. /\ ReadWords(AppendText(ss, token)) = Append(ReadWords(ss), token)
        /\ ReadNames(AppendText(ss, token)) = ReadNames(ss)
    BY ReadText
  <2>4. ReadNames(ss) \o <<>> = ReadNames(ss)
    <3>1. ReadNames(ss) \in Seq(Called(Names))
      BY Reads DEF ReadTyped
    <3>. QED  BY <3>1, ConcatEmptySeq
  <2>. QED  BY <2>1, <2>2, <2>3, <2>4
<1>5. CASE fitting # {}
  <2>1. token[1] = "@" /\ fitting = {x \in DOMAIN mentions : mentions[x] = token[2]}
    BY <1>3, <1>5
  <2>2. k \in fitting
    <3>1. fitting \subseteq Nat
      BY <2>1
    <3>2. \E x \in fitting : \A l \in fitting : x <= l
      <4>. HIDE DEF fitting
      <4>. QED  BY <1>5, <3>1, LeastElement
    <3>. HIDE DEF fitting
    <3>. QED  BY <3>2
  <2>3. k \in DOMAIN mentions /\ m = token[2]
    <3>. HIDE DEF k, fitting
    <3>. QED  BY <2>1, <2>2
  <2>. HIDE DEF k, fitting, m
  <2>4. m \in Names /\ m \in Range(mentions) /\ m # "all"
    BY <1>2, <2>3 DEF m
  <2>5. PICK x : x = IF m = "room" THEN "all" ELSE m
    OBVIOUS
  <2>6. PICK new : new = NewAt(x)
    OBVIOUS
  <2>7. AppendToken(ss, token, mentions) = Append(ss, new)
    BY <1>1, <1>5, <2>3, <2>5, <2>6
  <2>8. Room(x) = m /\ x \in Names \cup {"", "all"}
    BY <2>4, <2>5 DEF Room
  <2>9. new.type = "at" /\ new.what = x /\ new \in TextSegments(Words, Names)
    <3>1. PICK none \in Seq(Words) : none = <<>>
      BY EmptySeq
    <3>. QED  BY <2>6, <2>8, <3>1 DEF NewAt, Segment, TextSegments
  <2>10. SaidBy(new) = <<token>> /\ MentionedBy(new) = <<m>>
    BY <2>1, <2>3, <2>8, <2>9 DEF SaidBy, MentionedBy
  <2>11. NamedIn(token, mentions) = <<m>>
    BY <2>1, <2>3, <2>4 DEF NamedIn
  <2>12. /\ ReadWords(ss) \in Seq(Spoken(Words, Names))
         /\ ReadWords(Append(ss, new)) = ReadWords(ss) \o <<token>>
         /\ ReadNames(Append(ss, new)) = ReadNames(ss) \o <<m>>
    <3>1. ReadsMore(ss, Append(ss, new), <<token>>, <<m>>)
      BY <2>9, <2>10, ReadAppended
    <3>. QED  BY <3>1, Reads DEF ReadsMore, ReadTyped
  <2>13. ReadWords(ss) \o <<token>> = Append(ReadWords(ss), token)
    <3>1. token \in Spoken(Words, Names)
      BY DEF Spoken
    <3>. QED  BY <2>12, <3>1, AppendIsConcat
  <2>. QED  BY <2>7, <2>11, <2>12, <2>13
<1>. QED  BY <1>4, <1>5

\* Flattening empty sequences gives an empty one.
LEMMA FlatNothing ==
    ASSUME NEW e, NEW n \in Nat, \A k \in 1..n : e[k] = <<>>
    PROVE  Flat(e, n) = <<>>
<1>. DEFINE g == [k \in 0..n |-> <<>>]
<1>1. <<>> \o <<>> = <<>> /\ <<>> \in Seq({})
  OBVIOUS
<1>2. SumsOf({}, e, n, g)
  BY <1>1 DEF SumsOf
<1>3. \A k \in 1..n : e[k] \in Seq({})
  BY <1>1
<1>. HIDE DEF g
<1>4. \A k \in 0..n : Flat(e, k) = g[k]
  BY <1>2, <1>3, FlatSums
<1>5. n \in 0..n
  OBVIOUS
<1>. QED  BY <1>4, <1>5 DEF g

\* Nothing is read of no segments.
LEMMA ReadNothing == ReadWords(<<>>) = <<>> /\ ReadNames(<<>>) = <<>>
<1>1. Len(<<>>) = 0
  OBVIOUS
<1>. QED  BY <1>1, FlatEmpty DEF ReadWords, ReadNames

\* The text that genTextSegments makes of content reads as content, and
\* mentions whom content names, if no mention is a prefix of another name.
ReadsAs(ss, content, mentions) ==
    /\ ReadWords(ss) = content
    /\ ReadNames(ss) = Flat(AllNamed(content, mentions), Len(content))

\* What genTextSegments makes of a text reads back as that text.
LEMMA TextRead ==
    ASSUME NEW Words, NEW Names, NEW content \in Seq(Words),
           NEW mentions \in Seq(Names),
           \A n \in DOMAIN content, m \in Names : <<m, content[n][2]>> \in Words,
           \A n \in DOMAIN content : content[n] = <<content[n][1], content[n][2]>>,
           \A n \in DOMAIN content, m \in Range(mentions) :
               <<m, content[n][2]>> \notin prefix,
           "all" \notin Range(mentions)
    PROVE  ReadsAs(genTextSegments(content, mentions), content, mentions)
<1>. DEFINE T == Seq(TextSegments(Words, Names))
            w == AllNamed(content, mentions)
<1>1. PICK N \in Nat : N = Len(content) /\ DOMAIN content = 1..N
  OBVIOUS
<1>2. CASE mentions = <<>>
  <2>1. PICK new : new = NewText(content)
    OBVIOUS
  <2>2. /\ new \in TextSegments(Words, Names)
        /\ SaidBy(new) = content /\ MentionedBy(new) = <<>>
    BY <2>1 DEF NewText, Segment, TextSegments, SaidBy, MentionedBy
  <2>3. genTextSegments(content, mentions) = Append(<<>>, new)
    BY <1>2, <2>1 DEF genTextSegments
  <2>4. PICK none \in T : none = <<>>
    BY EmptySeq
  <2>5. ReadsMore(<<>>, Append(<<>>, new), content, <<>>)
    <3>1. ReadsMore(none, Append(none, new), SaidBy(new), MentionedBy(new))
      BY <2>2, ReadAppended
    <3>. QED  BY <2>2, <2>4, <3>1
  <2>6. <<>> \o content = content /\ <<>> \o <<>> = <<>>
    BY ConcatEmptySeq
  <2>7. Flat(w, N) = <<>>
    <3>1. Range(mentions) = {}
      BY <1>2 DEF Range
    <3>2. \A k \in 1..N : w[k] = <<>>
      BY <1>1, <3>1 DEF AllNamed, NamedIn
    <3>. HIDE DEF w
    <3>. QED  BY <3>2, FlatNothing
  <2>. QED  BY <1>1, <2>3, <2>5, <2>6, <2>7, ReadNothing DEF ReadsMore, ReadsAs
<1>3. CASE mentions # <<>>
  <2>1. \A n \in 1..N, t \in T : AppendToken(t, content[n], mentions) \in T
    <3>1. ASSUME NEW n \in 1..N, NEW t \in T
          PROVE  AppendToken(t, content[n], mentions) \in T
      <4>1. content[n] \in Words /\ \A m \in Names : <<m, content[n][2]>> \in Words
        BY <1>1
      <4>. QED  BY <4>1, AppendTokenTyped
    <3>. QED  BY <3>1
  <2>2. MakesInSteps(content, mentions)
    <3>1. <<>> \in T
      OBVIOUS
    <3>. HIDE DEF T
    <3>. QED  BY <1>1, <1>3, <2>1, <3>1, TextInSteps
  <2>3. PICK upTo : UpTo(content, mentions, upTo)
    BY <2>2 DEF MakesInSteps
  <2>4. /\ upTo[0] = <<>>
        /\ \A n \in 1..N : upTo[n] = AppendToken(upTo[n-1], content[n], mentions)
        /\ genTextSegments(content, mentions) = upTo[N]
    BY <1>1, <2>3 DEF UpTo
  <2>. DEFINE S == {n \in Nat : n <= N =>
                        /\ upTo[n] \in T
                        /\ ReadWords(upTo[n]) = SubSeq(content, 1, n)
                        /\ ReadNames(upTo[n]) = Flat(w, n)}
  <2>5. 0 \in S
    <3>1. <<>> \in T /\ SubSeq(content, 1, 0) = <<>>
      OBVIOUS
    <3>2. Flat(w, 0) = <<>>
      BY FlatEmpty
    <3>. HIDE DEF T, w
    <3>. QED  BY <2>4, <3>1, <3>2, ReadNothing
  <2>6. ASSUME NEW n \in Nat, n \in S
        PROVE  n + 1 \in S
    <3>. SUFFICES ASSUME n + 1 <= N
                  PROVE  /\ upTo[n + 1] \in T
                         /\ ReadWords(upTo[n + 1]) = SubSeq(content, 1, n + 1)
                         /\ ReadNames(upTo[n + 1]) = Flat(w, n + 1)
      OBVIOUS
    <3>1. PICK t \in T : t = upTo[n]
      BY <2>6
    <3>2. ReadWords(t) = SubSeq(content, 1, n) /\ ReadNames(t) = Flat(w, n)
      <4>. HIDE DEF T, w
      <4>. QED  BY <2>6, <3>1
    <3>3. n + 1 \in 1..N /\ (n + 1) - 1 = n
      OBVIOUS
    <3>4. PICK token : token = content[n+1]
      OBVIOUS
    <3>5. upTo[n+1] = AppendToken(t, token, mentions)
      BY <2>4, <3>1, <3>3, <3>4
    <3>6. /\ token \in Words /\ token = <<token[1], token[2]>>
          /\ \A m \in Range(mentions) : <<m, token[2]>> \notin prefix
      BY <1>1, <3>3, <3>4
    <3>7. /\ ReadWords(upTo[n+1]) = Append(ReadWords(t), token)
          /\ ReadNames(upTo[n+1]) = ReadNames(t) \o NamedIn(token, mentions)
      BY <3>5, <3>6, ReadToken
    <3>8. SubSeq(content, 1, n + 1) = Append(SubSeq(content, 1, n), token)
      BY <1>1, <3>3, <3>4, SubSeqRecursiveSecond
    <3>9. Flat(w, n + 1) = Flat(w, n) \o NamedIn(token, mentions)
      <4>1. w[n+1] = NamedIn(token, mentions)
        BY <1>1, <3>3, <3>4 DEF AllNamed
      <4>2. Begins(w, n, w) /\ AllSeqs(w, n + 1, Range(mentions))
        <5>1. \A tok : NamedIn(tok, mentions) \in Seq(Range(mentions))
          BY DEF NamedIn
        <5>2. \A k \in 1..(n+1) : w[k] = NamedIn(content[k], mentions)
          BY <1>1, <3>3 DEF AllNamed
        <5>. HIDE DEF w
        <5>. QED  BY <5>1, <5>2 DEF Begins, AllSeqs
      <4>. HIDE DEF w
      <4>3. OneMore(Range(mentions), w, n, w, NamedIn(token, mentions))
        BY <4>1, <4>2, FlatAppended
      <4>. QED  BY <4>3 DEF OneMore
    <3>10. upTo[n+1] \in T
      BY <2>1, <3>3, <3>4, <3>5
    <3>. HIDE DEF T, w
    <3>. QED  BY <3>2, <3>7, <3>8, <3>9, <3>10
  <2>7. N \in S
    <3>. HIDE DEF S
    <3>. QED  BY <2>5, <2>6, Induction
  <2>8. SubSeq(content, 1, N) = content
    BY <1>1, SubSeqFull
  <2>9. ReadWords(upTo[N]) = content /\ ReadNames(upTo[N]) = Flat(w, N)
    <3>. HIDE DEF T, w
    <3>. QED  BY <2>7, <2>8
  <2>. QED  BY <1>1, <2>4, <2>9 DEF ReadsAs
<1>. QED  BY <1>2, <1>3
-----------------------------------------------------------------------------
(* What the agent reads back of what it sent.                              *)

\* What populateMessage goes through, of a message an agent sent.
SegmentsAre ==
    /\ Len(Body(out)) \in Nat /\ Replies(out) \in {0, 1}
    /\ Len(segments) = Len(Body(out)) + Replies(out)
    /\ \A k \in 1..Len(segments) :
           (segments[k].type = "reply") <=> (k = 1 /\ out.reply)
    /\ \A k \in 1..Len(Body(out)) : /\ Part(k).type = Body(out)[k].type
                                    /\ Part(k).what = Body(out)[k].what
                                    /\ Part(k).text = Body(out)[k].text

\* populateMessage goes through exactly the segments SendMessage made.
LEMMA SegmentsSent ==
    ASSUME MessagesAssumption, out \in Outgoing, out.type \in Supported,
           frame.segments = Delivered(out)
    PROVE  SegmentsAre
<1>1. PICK n \in Nat, h \in {0, 1} : n = Len(Body(out)) /\ h = Replies(out)
  BY DeliveredParts DEF DeliveredAs, Replies
<1>2. /\ Delivered(out) \in Seq(Range(Delivered(out)))
      /\ Len(Delivered(out)) = n + h
      /\ out.reply => Delivered(out)[1].type = "reply"
      /\ \A k \in 1..n : /\ Delivered(out)[k + h].type = Body(out)[k].type
                         /\ Delivered(out)[k + h].what = Body(out)[k].what
                         /\ Delivered(out)[k + h].text = Body(out)[k].text
  BY <1>1, DeliveredParts DEF DeliveredAs
<1>3. h = 1 <=> out.reply
  BY <1>1 DEF Replies
<1>4. \A k \in 1..n :
          Body(out)[k].type \in {"text", "at", "image", "record", "video",
                                 "file", "json"}
  <2>1. BodyIs(out)
    BY BodyTyped
  <2>. QED  BY <1>1, <2>1 DEF BodyIs, Supported
<1>5. \A k \in 1..(n + h) : (k = 1 /\ out.reply) \/ k - h \in 1..n
  BY <1>3
<1>6. \A k \in 1..(n + h) :
          /\ (k = 1 /\ out.reply) => Delivered(out)[k].type = "reply"
          /\ ~(k = 1 /\ out.reply) =>
                 Delivered(out)[k].type \in {"text", "at", "image", "record",
                                             "video", "file", "json"}
  <2>1. ASSUME NEW k \in 1..(n + h), ~(k = 1 /\ out.reply)
        PROVE  Delivered(out)[k].type \in {"text", "at", "image", "record",
                                           "video", "file", "json"}
    <3>1. PICK l \in 1..n : l = k - h
      BY <1>5, <2>1
    <3>2. k = l + h
      BY <3>1
    <3>. QED  BY <1>2, <1>4, <3>2
  <2>. QED  BY <1>2, <2>1
<1>7. segments = Delivered(out)
  <2>1. PICK d, D : d = Delivered(out) /\ D = Range(Delivered(out))
    OBVIOUS
  <2>2. d \in Seq(D) /\ Len(d) = n + h
    BY <1>2, <2>1
  <2>3. \A k \in 1..Len(d) : d[k].type \in SegmentTypes
    BY <1>6, <2>1, <2>2 DEF SegmentTypes
  <2>4. generateSegments(d) = d
    BY <2>2, <2>3, AllKept
  <2>. QED  BY <2>1, <2>4 DEF segments
<1>8. \A k \in 1..(n + h) : (segments[k].type = "reply") <=> (k = 1 /\ out.reply)
  BY <1>6, <1>7
<1>9. \A k \in 1..n : Part(k) = Delivered(out)[k + h]
  BY <1>1, <1>7 DEF Part
<1>. QED  BY <1>1, <1>2, <1>7, <1>8, <1>9 DEF SegmentsAre

\* A step past a segment is a step past a part of the body, or past the reply.
Advances ==
    /\ Done(i) \in Nat
    /\ segment.type = "reply" => Done(i + 1) = Done(i)
    /\ segment.type # "reply" =>
           /\ Done(i + 1) = Done(i) + 1 /\ Done(i) + 1 \in 1..Len(Body(out))
           /\ segment = Part(Done(i) + 1)

\* Past the reply no part is done; past any other segment one more is.
LEMMA DoneGrows ==
    ASSUME SegmentsAre, i \in 1..Len(segments)
    PROVE  Advances
<1>1. PICK h \in {0, 1} : h = Replies(out)
  BY DEF SegmentsAre
<1>2. PICK n \in Nat : n = Len(Body(out))
  BY DEF SegmentsAre
<1>3. PICK k \in 1..(n + h) : k = i
  BY <1>1, <1>2 DEF SegmentsAre
<1>4. (segment.type = "reply") <=> (k = 1 /\ h = 1)
  BY <1>1, <1>2, <1>3 DEF SegmentsAre, segment, Replies
<1>5. Done(i) = (IF k = 1 THEN 0 ELSE k - 1 - h) /\ Done(i + 1) = k - h
  BY <1>1, <1>3 DEF Done
<1>6. CASE k = 1 /\ h = 1
  BY <1>4, <1>5, <1>6 DEF Advances
<1>7. CASE ~(k = 1 /\ h = 1)
  <2>1. Done(i) = k - 1 - h
    BY <1>5, <1>7
  <2>2. Done(i) \in Nat /\ Done(i) + 1 = k - h /\ k - h \in 1..n
    BY <1>7, <2>1
  <2>3. segment = Part(Done(i) + 1)
    <3>1. (k - h) + h = k
      OBVIOUS
    <3>. QED  BY <1>1, <1>3, <2>2, <3>1 DEF Part, segment
  <2>. QED  BY <1>2, <1>4, <1>5, <1>7, <2>2, <2>3 DEF Advances
<1>. QED  BY <1>6, <1>7

\* Whom the first n parts mention.
Mentions(n) == FlattenSeq([k \in 1..n |-> MentionedBy(Part(k))])

\* One part more adds whom it mentions.
LEMMA MentionsGrow ==
    ASSUME NEW d \in Nat, NEW x, MentionedBy(Part(d + 1)) = x
    PROVE  Mentions(d + 1) = Mentions(d) \o x /\ Mentions(d) \o <<>> = Mentions(d)
           /\ \A y : x = <<y>> => Mentions(d + 1) = Append(Mentions(d), y)
<1>. DEFINE e == [k \in 1..(d+1) |-> MentionedBy(Part(k))]
            D == {Room(Part(k).what) : k \in 1..(d+1)}
<1>1. \A k \in 1..(d+1) : MentionedBy(Part(k)) \in Seq(D)
  <2>1. ASSUME NEW k \in 1..(d+1)
        PROVE  MentionedBy(Part(k)) \in Seq(D)
    <3>1. PICK y : y = Room(Part(k).what)
      OBVIOUS
    <3>2. y \in D
      BY <3>1
    <3>. HIDE DEF D
    <3>3. <<y>> \in Seq(D) /\ <<>> \in Seq(D)
      BY <3>2
    <3>. QED  BY <3>1, <3>3 DEF MentionedBy
  <2>. QED  BY <2>1
<1>2. Begins(e, d, e) /\ AllSeqs(e, d + 1, D)
  BY <1>1 DEF Begins, AllSeqs
<1>3. e[d+1] = x /\ x \in Seq(D)
  BY <1>1
<1>4. [k \in 1..d |-> e[k]] = [k \in 1..d |-> MentionedBy(Part(k))]
      /\ [k \in 1..(d+1) |-> e[k]] = [k \in 1..(d+1) |-> MentionedBy(Part(k))]
  OBVIOUS
<1>. HIDE DEF e, D
<1>5. Flat(e, d) = Mentions(d) /\ Flat(e, d + 1) = Mentions(d + 1)
  BY <1>4 DEF Flat, Mentions
<1>6. OneMore(D, e, d, e, x)
  BY <1>2, <1>3, FlatAppended
<1>7. Mentions(d) \in Seq(D) /\ Mentions(d + 1) = Mentions(d) \o x
  BY <1>5, <1>6 DEF OneMore
<1>8. \A y : x = <<y>> => Mentions(d) \o x = Append(Mentions(d), y)
  <2>. TAKE y
  <2>. SUFFICES ASSUME x = <<y>> PROVE Mentions(d) \o x = Append(Mentions(d), y)
    OBVIOUS
  <2>1. y \in D
    BY <1>3
  <2>. QED  BY <1>7, <2>1, AppendIsConcat
<1>. QED  BY <1>7, <1>8, ConcatEmptySeq

\* TextSoFar after one segment of a text more, the reply among them.
LEMMA TextGrows ==
    ASSUME MsgFields, NEW d \in Nat, NEW e \in Nat, TextSoFar(d),
           summary \in Seq(Range(summary)),
           segments' = segments, out' = out, images' = images,
           \/ e = d /\ msg' = [msg EXCEPT !.Reply = i] /\ summary' = summary
           \/ /\ e = d + 1 /\ segment = Part(d + 1)
              /\ summary' = Append(summary, Piece(SaidBy(segment)))
              /\ \/ segment.type = "text" /\ msg' = msg
                 \/ /\ segment.type # "text"
                    /\ msg' = [msg EXCEPT !.Mentions = Append(@, Room(segment.what))]
    PROVE  TextSoFar(e)'
<1>1. /\ msg.Type = "text" /\ msg.Content = <<>> /\ images = <<>>
      /\ Len(summary) = d
      /\ \A k \in 1..d : summary[k].shows = SaidBy(Part(k))
      /\ msg.Mentions = Mentions(d)
  BY DEF TextSoFar, Mentions
<1>2. msg = [Type |-> msg.Type, Chat |-> msg.Chat, Content |-> msg.Content,
             Mentions |-> msg.Mentions, Reply |-> msg.Reply,
             Attachment |-> msg.Attachment]
  BY DEF MsgFields
<1>3. SUFFICES
        /\ msg'.Type = "text" /\ msg'.Content = <<>>
        /\ Len(summary') = e
        /\ \A k \in 1..e : summary'[k].shows = SaidBy(Part(k))
        /\ msg'.Mentions = Mentions(e)
  <2>1. \A k : Part(k)' = Part(k)
    BY DEF Part
  <2>. QED  BY <1>1, <1>3, <2>1 DEF TextSoFar, Mentions
<1>4. CASE e = d /\ msg' = [msg EXCEPT !.Reply = i] /\ summary' = summary
  <2>1. /\ msg'.Type = msg.Type /\ msg'.Content = msg.Content
        /\ msg'.Mentions = msg.Mentions
    BY <1>2, <1>4
  <2>. QED  BY <1>1, <1>4, <2>1
<1>5. CASE /\ e = d + 1 /\ segment = Part(d + 1)
           /\ summary' = Append(summary, Piece(SaidBy(segment)))
           /\ \/ segment.type = "text" /\ msg' = msg
              \/ /\ segment.type # "text"
                 /\ msg' = [msg EXCEPT !.Mentions = Append(@, Room(segment.what))]
  <2>1. Len(summary') = e /\ \A k \in 1..e : summary'[k].shows = SaidBy(Part(k))
    <3>1. PICK piece : piece = Piece(SaidBy(segment))
      OBVIOUS
    <3>2. piece.shows = SaidBy(Part(d + 1))
      BY <1>5, <3>1 DEF Piece
    <3>3. PICK D : D = Range(summary) \cup {piece}
      OBVIOUS
    <3>4. summary \in Seq(D) /\ piece \in D
      BY <3>3, SequenceGrows
    <3>5. /\ Len(summary') = d + 1 /\ summary'[d + 1] = piece
          /\ \A k \in 1..d : summary'[k] = summary[k]
      BY <1>1, <1>5, <3>1, <3>4
    <3>6. \A k \in 1..(d + 1) : k = d + 1 \/ k \in 1..d
      OBVIOUS
    <3>. QED  BY <1>1, <1>5, <3>2, <3>5, <3>6
  <2>2. CASE segment.type = "text" /\ msg' = msg
    <3>1. MentionedBy(Part(d + 1)) = <<>>
      BY <1>5, <2>2 DEF MentionedBy
    <3>2. Mentions(d + 1) = Mentions(d)
      BY <3>1, MentionsGrow
    <3>. QED  BY <1>1, <1>5, <2>1, <2>2, <3>2
  <2>3. CASE /\ segment.type # "text"
             /\ msg' = [msg EXCEPT !.Mentions = Append(@, Room(segment.what))]
    <3>1. MentionedBy(Part(d + 1)) = <<Room(segment.what)>>
      BY <1>5, <2>3 DEF MentionedBy
    <3>2. Mentions(d + 1) = Append(Mentions(d), Room(segment.what))
      BY <3>1, MentionsGrow
    <3>3. /\ msg'.Type = msg.Type /\ msg'.Content = msg.Content
          /\ msg'.Mentions = Append(msg.Mentions, Room(segment.what))
      BY <1>2, <2>3
    <3>. QED  BY <1>1, <1>5, <2>1, <3>2, <3>3
  <2>. QED  BY <1>5, <2>2, <2>3
<1>. QED  BY <1>4, <1>5

\* A step that goes on to the next segment, of a message an agent sent, with
\* all media at hand.
LEMMA SoFarKept ==
    ASSUME SegmentsAre, BodyIs(out), out.type \in Supported, MsgFields,
           summary \in Seq(Range(summary)), images \in Seq(1..(i - 1)),
           i \in 1..Len(segments), SoFar,
           segments' = segments, out' = out, i' = i + 1,
           \/ /\ segment.type = "reply"
              /\ msg' = [msg EXCEPT !.Reply = i]
              /\ summary' = summary /\ images' = images
           \/ /\ segment.type = "text" /\ msg' = msg
              /\ summary' = Append(summary, Piece(segment.text))
              /\ images' = images
           \/ /\ segment.type = "at"
              /\ summary' = Append(summary, Piece(<<<<"@", Room(segment.what)>>>>))
              /\ msg' = [msg EXCEPT !.Mentions = Append(@, Room(segment.what))]
              /\ images' = images
           \/ /\ segment.type = "image" /\ msg' = msg
              /\ \E tokens : summary' = Append(summary, Piece(tokens))
              /\ images' = Append(images, i)
           \/ /\ segment.type \in {"video", "file", "record"}
              /\ msg' = Attach(TypeOfMedia, "blobs")
              /\ summary' = summary /\ images' = images
           \/ /\ segment.type = "json" /\ segment.what = "LocationShare"
              /\ msg' = Attach("location", "location")
              /\ summary' = summary /\ images' = images
           \/ segment.type \notin {"reply", "text", "at", "image", "video",
                                   "file", "record", "json"}
           \/ segment.type = "json" /\ segment.what # "LocationShare"
    PROVE  SoFar'
<1>1. Advances
  BY DoneGrows
<1>2. PICK d \in Nat : d = Done(i)
  BY <1>1 DEF Advances
<1>3. PICK e : e = Done(i + 1)
  OBVIOUS
<1>4. /\ segment.type = "reply" => e = d
      /\ segment.type # "reply" =>
             /\ e = d + 1 /\ d + 1 \in 1..Len(Body(out))
             /\ segment = Part(d + 1)
             /\ segment.type = Body(out)[d + 1].type
             /\ segment.what = Body(out)[d + 1].what
  <2>1. \A k \in 1..Len(Body(out)) : /\ Part(k).type = Body(out)[k].type
                                     /\ Part(k).what = Body(out)[k].what
    BY DEF SegmentsAre
  <2>. QED  BY <1>1, <1>2, <1>3, <2>1 DEF Advances
<1>5. Done(i)' = e
  BY <1>3 DEF Done, Replies
<1>6. e \in Nat
  BY <1>4
<1>7. msg = [Type |-> msg.Type, Chat |-> msg.Chat, Content |-> msg.Content,
             Mentions |-> msg.Mentions, Reply |-> msg.Reply,
             Attachment |-> msg.Attachment]
  BY DEF MsgFields
<1>8. CASE out.type = "text"
  <2>1. TextSoFar(d)
    BY <1>2, <1>8 DEF SoFar
  <2>2. segment.type \in {"reply", "text", "at"}
    BY <1>4, <1>8 DEF BodyIs
  <2>3. \/ e = d /\ msg' = [msg EXCEPT !.Reply = i] /\ summary' = summary
        \/ /\ e = d + 1 /\ segment = Part(d + 1)
           /\ summary' = Append(summary, Piece(SaidBy(segment)))
           /\ \/ segment.type = "text" /\ msg' = msg
              \/ /\ segment.type # "text"
                 /\ msg' = [msg EXCEPT !.Mentions = Append(@, Room(segment.what))]
    BY <1>4, <2>2 DEF SaidBy
  <2>4. images' = images
    BY <2>2
  <2>5. TextSoFar(e)'
    BY <1>6, <2>1, <2>3, <2>4, TextGrows
  <2>. QED  BY <1>5, <1>8, <2>5 DEF SoFar
<1>9. CASE out.type \in {"image", "sticker"}
  <2>1. Len(images) = d /\ Len(summary) = d
    BY <1>2, <1>9 DEF SoFar, ImagesSoFar
  <2>2. segment.type \in {"reply", "image"}
    BY <1>4, <1>9 DEF BodyIs
  <2>3. Len(images') = e /\ Len(summary') = e
    <3>1. CASE segment.type = "reply"
      BY <1>4, <2>1, <3>1
    <3>2. CASE segment.type = "image"
      <4>1. PICK tokens : summary' = Append(summary, Piece(tokens))
        BY <3>2
      <4>2. Len(Append(summary, Piece(tokens))) = Len(summary) + 1
        BY SequenceGrows
      <4>3. Len(Append(images, i)) = Len(images) + 1
        OBVIOUS
      <4>. QED  BY <1>4, <2>1, <3>2, <4>1, <4>2, <4>3
    <3>. QED  BY <2>2, <3>1, <3>2
  <2>. QED  BY <1>5, <1>9, <2>3 DEF SoFar, ImagesSoFar
<1>10. CASE out.type \in {"audio", "video", "file", "location"}
  <2>1. OneThingSoFar(d)
    BY <1>2, <1>10 DEF SoFar
  <2>2. \/ segment.type = "reply"
        \/ out.type = "audio" /\ segment.type = "record"
        \/ out.type \in {"video", "file"} /\ segment.type = out.type
        \/ /\ out.type = "location" /\ segment.type = "json"
           /\ segment.what = "LocationShare"
    BY <1>4, <1>10 DEF BodyIs
  <2>3. summary' = summary /\ images' = images
    BY <2>2
  <2>4. e > 0 => /\ msg'.Type = out.type
                 /\ out.type # "location" => Len(msg'.Attachment.of) = 1
    <3>1. CASE segment.type = "reply"
      <4>1. msg'.Type = msg.Type /\ msg'.Attachment = msg.Attachment
        BY <1>7, <3>1
      <4>. QED  BY <1>4, <2>1, <3>1, <4>1 DEF OneThingSoFar
    <3>2. CASE segment.type \in {"video", "file", "record"}
      <4>1. /\ msg'.Type = TypeOfMedia
            /\ msg'.Attachment = [form |-> "blobs", of |-> <<i>>]
        BY <1>7, <3>2 DEF Attach
      <4>2. msg'.Type = TypeOfMedia /\ msg'.Attachment.of = <<i>>
        BY <4>1
      <4>3. Len(<<i>>) = 1 /\ TypeOfMedia = out.type
        BY <2>2, <3>2 DEF TypeOfMedia
      <4>. QED  BY <4>2, <4>3
    <3>3. CASE segment.type = "json"
      <4>1. msg'.Type = "location" /\ out.type = "location"
        BY <1>7, <2>2, <3>3 DEF Attach
      <4>. QED  BY <4>1
    <3>. QED  BY <2>2, <3>1, <3>2, <3>3
  <2>5. OneThingSoFar(e)'
    BY <2>1, <2>3, <2>4 DEF OneThingSoFar
  <2>. QED  BY <1>5, <1>10, <2>5 DEF SoFar
<1>. QED  BY <1>8, <1>9, <1>10 DEF Supported

\* When populateMessage ends, the message is the one that was sent.
LEMMA SentFinished ==
    ASSUME MessagesAssumption, out \in Outgoing, SegmentsAre, BodyIs(out),
           out.type \in Supported, MsgFields, MessageInv,
           summary \in Seq(Range(summary)), SoFar,
           i = Len(segments) + 1, Finish
    PROVE  SentIsUnderstood'
<1>1. PICK n \in Nat : n = Len(Body(out))
  BY DEF SegmentsAre
<1>2. PICK h \in {0, 1} : h = Replies(out)
  BY DEF SegmentsAre
<1>3. Len(segments) = n + h
  BY <1>1, <1>2 DEF SegmentsAre
<1>4. i = n + h + 1 /\ Done(i) = n
  BY <1>2, <1>3 DEF Done
<1>5. /\ summary' = summary /\ images' = images /\ out' = out
      /\ LET pictures == [form |-> "blobs", of |-> images] IN
         msg' = CASE LoneImage ->
                         [msg EXCEPT !.Attachment = pictures, !.Type =
                             IF segments[1].what = "sticker" /\ Len(images) = 1
                             THEN "sticker" ELSE "image"]
                  [] summary # <<>> /\ ~LoneImage ->
                         IF images = <<>> THEN [msg EXCEPT !.Content = summary]
                         ELSE [msg EXCEPT !.Content = summary, !.Type = "image",
                                          !.Attachment = pictures]
                  [] OTHER -> msg
  BY DEF Finish
<1>6. msg = [Type |-> msg.Type, Chat |-> msg.Chat, Content |-> msg.Content,
             Mentions |-> msg.Mentions, Reply |-> msg.Reply,
             Attachment |-> msg.Attachment]
  BY DEF MsgFields
<1>7. (msg'.Reply # 0) = out.reply
  <2>1. msg'.Reply = msg.Reply
    BY <1>5, <1>6
  <2>2. \A k \in 1..(n + h) : (segments[k].type = "reply") <=> (k = 1 /\ out.reply)
    BY <1>3 DEF SegmentsAre
  <2>3. \A s \in 1..(n + h) : segments[s].type = "reply" => msg.Reply \in s..(n + h)
    BY <1>4 DEF MessageInv
  <2>4. msg.Reply # 0 => /\ msg.Reply \in 1..(n + h)
                         /\ segments[msg.Reply].type = "reply"
    BY <1>4 DEF MessageInv
  <2>5. out.reply \in BOOLEAN
    BY DEF MessagesAssumption
  <2>6. out.reply => msg.Reply # 0
    <3>. SUFFICES ASSUME out.reply PROVE msg.Reply # 0
      OBVIOUS
    <3>1. 1 \in 1..(n + h)
      BY <1>2 DEF Replies
    <3>. QED  BY <2>2, <2>3, <3>1
  <2>7. msg.Reply # 0 => out.reply
    BY <2>2, <2>4
  <2>. QED  BY <2>1, <2>5, <2>6, <2>7
<1>8. SUFFICES
        /\ msg'.Type = IF out.type = "sticker" THEN "image" ELSE out.type
        /\ out.type \notin {"text", "location"} =>
               Len(msg'.Attachment.of) = out.blobs
        /\ (out.type = "text" /\ Unambiguous) =>
               /\ Shown' = out.content
               /\ msg'.Mentions = Mentioned(out)
  BY <1>5, <1>7 DEF SentIsUnderstood, Unambiguous, Mentioned
<1>9. CASE out.type = "text"
  <2>1. /\ msg.Type = "text" /\ msg.Content = <<>> /\ images = <<>>
        /\ Len(summary) = n
        /\ \A k \in 1..n : summary[k].shows = SaidBy(Part(k))
        /\ msg.Mentions = Mentions(n)
    BY <1>4, <1>9 DEF SoFar, TextSoFar, Mentions
  <2>2. ~LoneImage
    <3>1. SUFFICES ASSUME n = 1, segments[1].type = "image" PROVE FALSE
      BY <2>1 DEF LoneImage
    <3>2. CASE h = 1
      <4>1. out.reply /\ 1 \in 1..(n + h)
        BY <1>2, <3>1, <3>2 DEF Replies
      <4>. QED  BY <1>3, <3>1, <4>1 DEF SegmentsAre
    <3>3. CASE h = 0
      <4>1. segments[1] = Part(1) /\ 1 \in 1..n
        BY <1>2, <3>1, <3>3 DEF Part
      <4>2. Part(1).type = Body(out)[1].type
        BY <1>1, <4>1 DEF SegmentsAre
      <4>. QED  BY <1>1, <1>9, <3>1, <4>1, <4>2 DEF BodyIs
    <3>. QED  BY <3>2, <3>3
  <2>3. msg'.Content = summary /\ msg'.Type = "text" /\ msg'.Mentions = msg.Mentions
    <3>1. CASE summary = <<>>
      <4>1. msg' = msg
        BY <1>5, <2>2, <3>1
      <4>. QED  BY <2>1, <3>1, <4>1
    <3>2. CASE summary # <<>>
      <4>1. msg' = [msg EXCEPT !.Content = summary]
        BY <1>5, <2>1, <2>2, <3>2
      <4>. QED  BY <1>6, <2>1, <4>1
    <3>. QED  BY <3>1, <3>2
  <2>4. ASSUME Unambiguous
        PROVE  Shown' = out.content /\ msg'.Mentions = Mentioned(out)
    <3>1. ContentAs(out, TokensOf(out), Range(out.mentions))
      BY ContentTyped
    <3>2. ReadsAs(Body(out), out.content, out.mentions)
      <4>1. \A c \in DOMAIN out.content, m \in Range(out.mentions) :
                <<m, out.content[c][2]>> \notin prefix
        BY <2>4 DEF Unambiguous
      <4>2. "all" \notin Range(out.mentions)
        BY DEF MessagesAssumption
      <4>3. ReadsAs(genTextSegments(out.content, out.mentions),
                    out.content, out.mentions)
        BY <3>1, <4>1, <4>2, TextRead DEF ContentAs
      <4>. QED  BY <1>9, <4>3 DEF Body
    <3>3. DOMAIN Body(out) = 1..n /\ DOMAIN summary = 1..n
      <4>1. Body(out) \in Seq(BodySegments(out))
        BY BodyTyped
      <4>. QED  BY <1>1, <2>1, <4>1
    <3>4. \A k \in 1..n : /\ SaidBy(Part(k)) = SaidBy(Body(out)[k])
                          /\ MentionedBy(Part(k)) = MentionedBy(Body(out)[k])
      <4>1. \A k \in 1..n : /\ Part(k).type = Body(out)[k].type
                            /\ Part(k).what = Body(out)[k].what
                            /\ Part(k).text = Body(out)[k].text
        BY <1>1 DEF SegmentsAre
      <4>. QED  BY <4>1 DEF SaidBy, MentionedBy
    <3>5. Shown' = FlattenSeq([k \in 1..n |-> SaidBy(Body(out)[k])])
      <4>1. Shown' = FlattenSeq([c \in 1..n |-> summary[c].shows])
        BY <2>3, <3>3 DEF Shown
      <4>2. [c \in 1..n |-> summary[c].shows] = [k \in 1..n |-> SaidBy(Body(out)[k])]
        BY <2>1, <3>4
      <4>. QED  BY <4>1, <4>2
    <3>6. ReadWords(Body(out)) = FlattenSeq([k \in 1..n |-> SaidBy(Body(out)[k])])
      <4>1. [k \in 1..n |-> SaidOf(Body(out))[k]] = [k \in 1..n |-> SaidBy(Body(out)[k])]
        BY <3>3 DEF SaidOf
      <4>. QED  BY <1>1, <4>1 DEF ReadWords, Flat
    <3>7. msg'.Mentions = ReadNames(Body(out))
      <4>1. [k \in 1..n |-> NamedOf(Body(out))[k]] = [k \in 1..n |-> MentionedBy(Part(k))]
        BY <3>3, <3>4 DEF NamedOf
      <4>. QED  BY <1>1, <2>1, <2>3, <4>1 DEF ReadNames, Flat, Mentions
    <3>8. Mentioned(out) = Flat(AllNamed(out.content, out.mentions), Len(out.content))
      <4>1. PICK l \in Nat : l = Len(out.content) /\ DOMAIN out.content = 1..l
        BY <3>1 DEF ContentAs
      <4>2. Mentioned(out) = FlattenSeq(AllNamed(out.content, out.mentions))
        BY DEF Mentioned, AllNamed, NamedIn
      <4>3. AllNamed(out.content, out.mentions)
                = [c \in 1..l |-> AllNamed(out.content, out.mentions)[c]]
        BY <4>1 DEF AllNamed
      <4>. QED  BY <4>1, <4>2, <4>3 DEF Flat
    <3>. QED  BY <3>2, <3>5, <3>6, <3>7, <3>8 DEF ReadsAs
  <2>. QED  BY <1>9, <2>3, <2>4
<1>10. CASE out.type \in {"image", "sticker"}
  <2>1. Len(images) = n /\ Len(summary) = n
    BY <1>4, <1>10 DEF SoFar, ImagesSoFar
  <2>2. n > 0 /\ n = out.blobs
    <3>1. out.type = "image" => n = out.blobs /\ out.blobs > 0
      BY <1>1 DEF BodyIs, MessagesAssumption
    <3>2. out.type = "sticker" => n = 1 /\ out.blobs = 1
      BY <1>1 DEF BodyIs, MessagesAssumption, Supported
    <3>. QED  BY <1>10, <3>1, <3>2
  <2>3. summary # <<>> /\ images # <<>>
    BY <2>1, <2>2
  <2>4. LoneImage => segments[1].what = ""
    <3>. SUFFICES ASSUME LoneImage PROVE segments[1].what = ""
      OBVIOUS
    <3>1. n = 1 /\ segments[1].type = "image"
      BY <2>1 DEF LoneImage
    <3>2. h = 0
      <4>1. 1 \in 1..(n + h)
        BY <3>1
      <4>2. ~out.reply
        BY <1>3, <3>1, <4>1 DEF SegmentsAre
      <4>. QED  BY <1>2, <4>2 DEF Replies
    <3>3. segments[1] = Part(1) /\ 1 \in 1..n
      BY <1>2, <3>1, <3>2 DEF Part
    <3>4. Part(1).what = Body(out)[1].what
      BY <1>1, <3>3 DEF SegmentsAre
    <3>. QED  BY <1>1, <1>10, <3>3, <3>4 DEF BodyIs
  <2>5. msg'.Type = "image" /\ msg'.Attachment = [form |-> "blobs", of |-> images]
    <3>1. CASE LoneImage
      BY <1>5, <1>6, <2>4, <3>1
    <3>2. CASE ~LoneImage
      <4>1. msg' = [msg EXCEPT !.Content = summary, !.Type = "image",
                               !.Attachment = [form |-> "blobs", of |-> images]]
        BY <1>5, <2>3, <3>2
      <4>. QED  BY <1>6, <4>1
    <3>. QED  BY <3>1, <3>2
  <2>6. msg'.Attachment.of = images
    BY <2>5
  <2>. QED  BY <1>10, <2>1, <2>2, <2>5, <2>6
<1>11. CASE out.type \in {"audio", "video", "file", "location"}
  <2>1. /\ summary = <<>> /\ msg.Type = out.type
        /\ out.type # "location" => Len(msg.Attachment.of) = 1
    <3>1. n = 1
      BY <1>1, <1>11 DEF BodyIs, Supported
    <3>. QED  BY <1>4, <1>11, <3>1 DEF SoFar, OneThingSoFar
  <2>2. msg' = msg
    BY <1>5, <2>1 DEF LoneImage
  <2>3. out.type # "location" => out.blobs = 1
    BY <1>11 DEF MessagesAssumption
  <2>. QED  BY <1>11, <2>1, <2>2, <2>3
<1>. QED  BY <1>9, <1>10, <1>11 DEF Supported

\* Every step keeps SentInv, and the last one establishes SentIsUnderstood.
LEMMA SentKept ==
    ASSUME MessagesAssumption, KeyInv, MediaInv, BuildInv, SentInv,
           SentIsUnderstood, [Next]_vars
    PROVE  SentInv' /\ SentIsUnderstood'
<1>1. /\ out \in Outgoing \/ out = NoOut
      /\ (out.type # "" /\ pc \notin {"send", "refused"}) =>
             out.type \in Supported /\ frame.segments = Delivered(out)
      /\ (out.type # "" /\ Building /\ gaveUp = {}) => SoFar
  BY DEF SentInv
<1>2. out' = out
  BY DEF Next, SendMessage, handleEvent, populateMessage, TextSegment,
      LabelSegment, AtSegment, ReplySegment, ForwardSegment, JSONSegment,
      getMedia, DownloadFails, AskFails, AskUndecodable, FallbackFails,
      MediaArrives, MediaFails, Finish, Terminated, unmoved, vars
<1>3. CASE SendMessage
  <2>1. /\ pc' \in {"read", "refused"}
        /\ pc' = "read" => out.type \in Supported /\ frame'.segments = Delivered(out)
    BY <1>3 DEF SendMessage
  <2>2. Delivered(out)' = Delivered(out)
    BY <1>2
  <2>. QED  BY <1>1, <1>2, <2>1, <2>2
            DEF SentInv, SentIsUnderstood, Building, Transmitted
<1>4. CASE handleEvent
  <2>1. /\ frame' = frame /\ pc = "read" /\ i = 1
        /\ i' = i /\ summary' = summary /\ images' = images
        /\ pc' \in {"dropped", "segments", "transmitted", "handled"}
        /\ pc' = "transmitted" => msg'.Type = "revoke"
        /\ pc' = "segments" => \E chat : msg' = EmptyMessage(chat)
    BY <1>4 DEF handleEvent, EmptyMessage, BuildInv
  <2>2. summary = <<>> /\ images = <<>>
    BY <2>1 DEF BuildInv
  <2>3. (out.type # "" /\ pc' \notin {"send", "refused"}) =>
            out.type \in Supported /\ frame'.segments = Delivered(out)
    BY <1>1, <2>1
  <2>4. pc' = "segments" => SoFar'
    <3>. SUFFICES ASSUME pc' = "segments" PROVE SoFar'
      OBVIOUS
    <3>1. /\ msg'.Type = "text" /\ msg'.Content = <<>> /\ msg'.Mentions = <<>>
      BY <2>1 DEF EmptyMessage
    <3>2. Done(i)' = 0
      BY <2>1 DEF Done
    <3>3. FlattenSeq([k \in 1..0 |-> MentionedBy(Part(k))']) = <<>>
      <4>1. [k \in 1..0 |-> MentionedBy(Part(k))'] = <<>>
        OBVIOUS
      <4>2. FlattenSeq(<<>>) = <<>>
        BY DEF FlattenSeq
      <4>. QED  BY <4>1, <4>2
    <3>4. /\ summary' = <<>> /\ images' = <<>>
          /\ Len(summary') = 0 /\ Len(images') = 0
      BY <2>1, <2>2
    <3>5. TextSoFar(0)'
      BY <3>1, <3>3, <3>4 DEF TextSoFar
    <3>6. ImagesSoFar(0)' /\ OneThingSoFar(0)'
      BY <3>4 DEF ImagesSoFar, OneThingSoFar
    <3>. QED  BY <3>2, <3>5, <3>6 DEF SoFar
  <2>5. Building' => pc' = "segments"
    BY <2>1 DEF Building
  <2>. QED  BY <1>1, <1>2, <2>1, <2>3, <2>4, <2>5
            DEF SentInv, SentIsUnderstood, Transmitted
<1>5. CASE populateMessage
  <2>. USE DEF unmoved, building
  <2>1. /\ Building /\ MsgFields /\ frame' = frame /\ segments' = segments
        /\ gaveUp \subseteq gaveUp'
    BY <1>5 DEF KeyInv, Building, populateMessage, TextSegment, LabelSegment,
        AtSegment, ReplySegment, ForwardSegment, JSONSegment, getMedia,
        DownloadFails, AskFails, AskUndecodable, FallbackFails, MediaArrives,
        MediaFails, Finish, At, segments
  <2>2. /\ frame.segments \in Seq(Range(frame.segments))
        /\ pc # "segments" =>
               i <= Len(segments) /\ segment.type \in MediaTypes
        /\ SummaryInv /\ MessageInv /\ i \in 1..(Len(segments) + 1)
    BY <2>1 DEF BuildInv, Building
  <2>3. pc' \notin {"send", "refused"} /\ pc \notin {"send", "refused"}
    BY <1>5, <2>1 DEF Building, populateMessage, TextSegment, LabelSegment,
        AtSegment, ReplySegment, ForwardSegment, JSONSegment, getMedia,
        DownloadFails, AskFails, AskUndecodable, FallbackFails, MediaArrives,
        MediaFails, Finish, Past
  <2>4. SUFFICES ASSUME out.type # "", gaveUp' = {}
                 PROVE  /\ Building' => SoFar'
                        /\ SentIsUnderstood'
    <3>1. (out.type # "" /\ pc' \notin {"send", "refused"}) =>
              out.type \in Supported /\ frame'.segments = Delivered(out)
      BY <1>1, <2>1, <2>3
    <3>. QED  BY <1>1, <1>2, <2>4, <3>1 DEF SentInv, SentIsUnderstood
  <2>5. /\ out \in Outgoing /\ out.type \in Supported
        /\ frame.segments = Delivered(out) /\ SoFar
    <3>1. gaveUp = {}
      BY <2>1, <2>4
    <3>2. NoOut.type = ""
      BY DEF NoOut
    <3>. QED  BY <1>1, <2>1, <2>3, <2>4, <3>1, <3>2
  <2>6. SegmentsAre /\ BodyIs(out)
    BY <2>5, SegmentsSent, BodyTyped
  <2>7. summary \in Seq(Range(summary)) /\ images \in Seq(1..(i - 1))
    BY <2>2 DEF SummaryInv
  <2>8. CASE Finish
    <3>1. pc' = "transmitted" /\ i = Len(segments) + 1
      <4>1. Len(segments) \in Nat
        BY <2>2, SegmentsTyped
      <4>. QED  BY <2>2, <2>8, <4>1 DEF Finish
    <3>2. SentIsUnderstood'
      BY <2>1, <2>2, <2>5, <2>6, <2>7, <2>8, <3>1, SentFinished
    <3>. QED  BY <3>1, <3>2 DEF Building
  <2>9. CASE getMedia \/ DownloadFails \/ AskFails \/ AskUndecodable \/ FallbackFails
    <3>1. /\ pc' \in {"download", "ask", "fallback", "nothing"}
          /\ UNCHANGED <<i, frame, msg, summary, images>>
      BY <2>9 DEF getMedia, DownloadFails, AskFails, AskUndecodable, FallbackFails
    <3>2. SoFar'
      BY <1>2, <2>1, <2>5, <3>1 DEF SoFar, TextSoFar, ImagesSoFar, OneThingSoFar,
                                    Done, Part, Replies
    <3>. QED  BY <3>1, <3>2 DEF SentIsUnderstood, Transmitted
  <2>10. CASE MediaFails
    <3>1. gaveUp' # {}
      BY <2>10 DEF MediaFails
    <3>. QED  BY <2>4, <3>1
  <2>11. CASE TextSegment \/ LabelSegment \/ AtSegment \/ ReplySegment
                  \/ ForwardSegment \/ JSONSegment \/ MediaArrives
    <3>1. /\ pc' = "segments" /\ i' = i + 1 /\ i \in 1..Len(segments)
      <4>1. Len(segments) \in Nat
        BY <2>2, SegmentsTyped
      <4>2. pc' = "segments" /\ i' = i + 1 /\ i <= Len(segments)
        BY <2>2, <2>11 DEF TextSegment, LabelSegment, AtSegment, ReplySegment,
            ForwardSegment, JSONSegment, MediaArrives, At, Past
      <4>. QED  BY <2>2, <4>1, <4>2
    <3>2. SoFar'
      <4>1. CASE TextSegment
        <5>1. /\ segment.type = "text" /\ msg' = msg /\ images' = images
              /\ summary' = Append(summary, Piece(segment.text))
          BY <4>1 DEF TextSegment, At, Add
        <5>. QED  BY <1>2, <2>1, <2>5, <2>6, <2>7, <3>1, <5>1, SoFarKept
      <4>2. CASE LabelSegment \/ ForwardSegment
        <5>1. segment.type \notin {"reply", "text", "at", "image", "video",
                                   "file", "record", "json"}
          BY <4>2 DEF LabelSegment, ForwardSegment, At
        <5>. QED  BY <1>2, <2>1, <2>5, <2>6, <2>7, <3>1, <5>1, SoFarKept
      <4>3. CASE AtSegment
        <5>1. /\ segment.type = "at" /\ images' = images
              /\ summary' = Append(summary, Piece(<<<<"@", Room(segment.what)>>>>))
              /\ msg' = [msg EXCEPT !.Mentions = Append(@, Room(segment.what))]
          BY <4>3 DEF AtSegment, At, Add
        <5>. QED  BY <1>2, <2>1, <2>5, <2>6, <2>7, <3>1, <5>1, SoFarKept
      <4>4. CASE ReplySegment
        <5>1. /\ segment.type = "reply" /\ images' = images
              /\ summary' = summary /\ msg' = [msg EXCEPT !.Reply = i]
          BY <4>4 DEF ReplySegment, At
        <5>. QED  BY <1>2, <2>1, <2>5, <2>6, <2>7, <3>1, <5>1, SoFarKept
      <4>5. CASE JSONSegment
        <5>1. /\ segment.type = "json" /\ images' = images /\ summary' = summary
              /\ \/ /\ segment.what = "LocationShare"
                    /\ msg' = Attach("location", "location")
                 \/ segment.what # "LocationShare"
          BY <4>5 DEF JSONSegment, At
        <5>. QED  BY <1>2, <2>1, <2>5, <2>6, <2>7, <3>1, <5>1, SoFarKept
      <4>6. CASE MediaArrives
        <5>1. segment.type \in MediaTypes
          BY <2>2, <4>6 DEF MediaArrives
        <5>2. CASE segment.type = "image"
          <6>1. /\ images' = Append(images, i) /\ msg' = msg
                /\ \E tokens : summary' = Append(summary, Piece(tokens))
            BY <4>6, <5>2 DEF MediaArrives, Add
          <6>. QED  BY <1>2, <2>1, <2>5, <2>6, <2>7, <3>1, <5>2, <6>1, SoFarKept
        <5>3. CASE segment.type \in {"video", "file", "record"}
          <6>1. /\ images' = images /\ msg' = Attach(TypeOfMedia, "blobs")
                /\ summary' = summary
            BY <4>6, <5>3 DEF MediaArrives
          <6>. QED  BY <1>2, <2>1, <2>5, <2>6, <2>7, <3>1, <5>3, <6>1, SoFarKept
        <5>4. CASE segment.type = "mface"
          <6>1. segment.type \notin {"reply", "text", "at", "image", "video",
                                     "file", "record", "json"}
            BY <5>4
          <6>. QED  BY <1>2, <2>1, <2>5, <2>6, <2>7, <3>1, <6>1, SoFarKept
        <5>. QED  BY <5>1, <5>2, <5>3, <5>4 DEF MediaTypes
      <4>. QED  BY <2>11, <4>1, <4>2, <4>3, <4>4, <4>5, <4>6
    <3>. QED  BY <3>1, <3>2 DEF SentIsUnderstood, Transmitted
  <2>. QED  BY <1>5, <2>8, <2>9, <2>10, <2>11 DEF populateMessage
<1>6. CASE Terminated \/ UNCHANGED vars
  <2>1. UNCHANGED vars
    BY <1>6 DEF Terminated
  <2>. QED  BY <2>1 DEF vars, SentInv, SoFar, TextSoFar, ImagesSoFar,
      OneThingSoFar, Done, Part, Replies, segments, Building, SentIsUnderstood,
      Transmitted, Shown, Unambiguous
<1>. QED  BY <1>3, <1>4, <1>5, <1>6 DEF Next

\* The inductive invariant holds at first.
LEMMA InitIInv ==
    ASSUME MessagesAssumption, Init
    PROVE  IInv
<1>1. pc \in {"send", "read"} /\ gaveUp = {} /\ tried = <<>>
  BY DEF Init
<1>2. KeyInv /\ MediaInv /\ NothingUntold
  BY <1>1 DEF KeyInv, Building, MediaInv, NothingUntold, Transmitted
<1>3. BuildInv
  BY DEF Init, BuildInv, Building, MessagesAssumption
<1>4. SentInv /\ SentIsUnderstood
  <2>1. pc # "send" => out.type = ""
    <3>1. NoOut.type = "" /\ (pc = "send" \/ out = NoOut)
      BY DEF Init, NoOut
    <3>. QED  BY <3>1
  <2>2. out \in Outgoing \/ out = NoOut
    BY DEF Init
  <2>. QED  BY <1>1, <2>1, <2>2 DEF SentInv, Building, SentIsUnderstood, Transmitted
<1>. QED  BY <1>2, <1>3, <1>4 DEF IInv
-----------------------------------------------------------------------------
(* The theorems.                                                           *)

\* The inductive invariant of a message on its way: the key is that of the
\* chat, a source of a medium is tried after those before it, what was built
\* so far tells the segments so far, and what is transmitted tells them all;
\* if an agent sent it, what was built is what was sent so far.
THEOREM Inductive == Spec => []IInv
<1>1. Init => IInv
  BY MessagesAssumption, InitIInv
<1>2. IInv /\ [Next]_vars => IInv'
  BY MessagesAssumption, KeyKept, MediaKept, BuildKept, UntoldKept, SentKept
     DEF IInv
<1>. QED  BY <1>1, <1>2, PTL DEF Spec

\* The mutex handleEvent holds is that of the chat the message is for.
THEOREM KeyIsChatCorrect == Spec => []KeyIsChat
<1>1. IInv => KeyIsChat
  BY DEF IInv, KeyInv, KeyIsChat
<1>. QED  BY <1>1, Inductive, PTL

\* getMedia gives a medium up only when it has tried what it could.
THEOREM GivesUpLastCorrect == Spec => []GivesUpLast
<1>1. IInv => GivesUpLast
  BY DEF IInv, MediaInv, TriedAll, GivesUpLast
<1>. QED  BY <1>1, Inductive, PTL

\* populateMessage tells the bridge every segment of a composed message, in
\* a form the bridge reads.
THEOREM NothingUntoldCorrect == Spec => []NothingUntold
<1>1. IInv => NothingUntold
  BY DEF IInv
<1>. QED  BY <1>1, Inductive, PTL

\* What one agent sends, of any length, another understands: the type, the
\* reply, the number of blobs, the words and the mentions.
THEOREM SentIsUnderstoodCorrect == Spec => []SentIsUnderstood
<1>1. IInv => SentIsUnderstood
  BY DEF IInv
<1>. QED  BY <1>1, Inductive, PTL
=============================================================================
