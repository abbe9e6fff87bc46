--------------------------- MODULE TextCodeProofs ---------------------------
(***************************************************************************)
(* Theorems about the code over texts, for texts of any length: date_check *)
(* lets every good date pass and no bad month or day; the decoder of text  *)
(* arrays stays in the memory it allocated and gives words back as they    *)
(* were; db_json_entries stays in its string and writes the JSON of the    *)
(* rows; http1_parse gives the handlers the requests that were sent.       *)
(***************************************************************************)
EXTENDS TextCode, FiniteSetTheorems, SequenceTheorems, WellFoundedInduction, TLAPS

-----------------------------------------------------------------------------
(* Induction. *)

Below == {p \in Nat \X Nat : p[1] < p[2]}

LEMMA BelowWF == IsWellFoundedOn(Below, Nat)
BY NatLessThanWellFounded DEF Below, OpToRel

(* A set of numbers that is not empty has a least one.                     *)
LEMMA NatMin ==
  ASSUME NEW T \in SUBSET Nat, T # {}
  PROVE  \E n \in T : \A m \in T : n <= m
<1>1. PICK n \in T : \A m \in T : <<m, n>> \notin Below
  BY BelowWF, WFMin
<1>2. ASSUME NEW m \in T PROVE n <= m
  <2>1. <<m, n>> \in Nat \X Nat /\ <<m, n>> \notin Below
    BY <1>1
  <2>2. ~(<<m, n>>[1] < <<m, n>>[2])
    BY <2>1 DEF Below
  <2> QED
    BY <2>2
<1> QED
  BY <1>2

(* Induction: a set with 0 and with the successor of each number in it has *)
(* them all.                                                               *)
LEMMA Induction ==
  ASSUME NEW S, 0 \in S, \A n \in Nat : n \in S => n + 1 \in S
  PROVE  Nat \subseteq S
<1> SUFFICES ASSUME Nat \ S # {} PROVE FALSE
  OBVIOUS
<1>1. PICK n \in Nat \ S : \A m \in Nat \ S : n <= m
  BY NatMin
<1>2. n # 0 /\ n - 1 \in Nat
  BY <1>1
<1>3. n - 1 \in S
  BY <1>1, <1>2
<1> QED
  BY <1>1, <1>2, <1>3

(* Induction over the subsets of a finite set, from the empty one.         *)
LEMMA SetInduction ==
  ASSUME NEW T, IsFiniteSet(T), NEW S, {} \in S,
         \A s \in SUBSET T : s # {} /\ (\A x \in s : s \ {x} \in S) => s \in S
  PROVE  SUBSET T \subseteq S
<1> DEFINE N == {n \in Nat : \A s \in SUBSET T : Cardinality(s) = n => s \in S}
<1>1. \A s \in SUBSET T : IsFiniteSet(s) /\ Cardinality(s) \in Nat
  BY FS_Subset, FS_CardinalityType
<1>2. 0 \in N
  BY <1>1, FS_EmptySet
<1>3. ASSUME NEW n \in Nat, n \in N PROVE n + 1 \in N
  <2> SUFFICES ASSUME NEW s \in SUBSET T, Cardinality(s) = n + 1 PROVE s \in S
    OBVIOUS
  <2>1. s # {}
    <3>1. n + 1 # 0 /\ Cardinality({}) = 0
      BY FS_EmptySet
    <3> QED
      BY <3>1
  <2>2. ASSUME NEW x \in s PROVE s \ {x} \in S
    <3>1. Cardinality(s \ {x}) = n
      BY <1>1, FS_RemoveElement
    <3> QED
      BY <1>3, <3>1
  <2> QED
    BY <2>1, <2>2
<1>4. Nat \subseteq N
  <2> HIDE DEF N
  <2> QED
    BY <1>2, <1>3, Induction
<1> QED
  BY <1>1, <1>4

(***************************************************************************)
(* Sums: what a fold that adds gives, in whatever order it takes them.     *)
(***************************************************************************)
Some(s) == CHOOSE x \in s : TRUE

Adds(it, T, g, first) ==
  it = [s \in SUBSET T |-> IF s = {} THEN first ELSE g[Some(s)] + it[s \ {Some(s)}]]

(* There is but one such function.                                         *)
LEMMA AddsSame ==
  ASSUME NEW T, IsFiniteSet(T), NEW R \in SUBSET T, NEW g, NEW h, NEW first,
         \A x \in R : g[x] = h[x], NEW a, NEW b, Adds(a, R, g, first), Adds(b, T, h, first)
  PROVE  \A r \in SUBSET R : a[r] = b[r]
<1> DEFINE E == {u \in SUBSET R : a[u] = b[u]}
<1>1. \A u \in SUBSET R : /\ a[u] = IF u = {} THEN first ELSE g[Some(u)] + a[u \ {Some(u)}]
                          /\ b[u] = IF u = {} THEN first ELSE h[Some(u)] + b[u \ {Some(u)}]
  BY DEF Adds
<1>2. {} \in E
  BY <1>1
<1>3. ASSUME NEW u \in SUBSET R, u # {}, \A x \in u : u \ {x} \in E PROVE u \in E
  <2>1. Some(u) \in u
    BY <1>3 DEF Some
  <2> QED
    BY <1>1, <1>3, <2>1
<1>4. SUBSET R \subseteq E
  <2>1. IsFiniteSet(R)
    BY FS_Subset
  <2> HIDE DEF E
  <2> QED
    BY <1>2, <1>3, <2>1, SetInduction
<1> QED
  BY <1>4

(* There is such a function, step by step from the empty set.              *)
LEMMA AddsExists ==
  ASSUME NEW T, IsFiniteSet(T), NEW g, NEW first
  PROVE  \E it : Adds(it, T, g, first)
<1> DEFINE S == {s \in SUBSET T : \E it : Adds(it, s, g, first)}
<1>1. {} \in S
  <2> DEFINE a == [s \in SUBSET {} |-> first]
  <2>1. Adds(a, {}, g, first)
    BY DEF Adds
  <2> HIDE DEF a
  <2> QED
    BY <2>1
<1>2. ASSUME NEW s \in SUBSET T, s # {}, \A x \in s : s \ {x} \in S PROVE s \in S
  <2> DEFINE of(r) == CHOOSE it : Adds(it, r, g, first)
             a == [r \in SUBSET s |->
                     IF r = {} THEN first
                     ELSE g[Some(r)] + of(r \ {Some(r)})[r \ {Some(r)}]]
  <2>1. ASSUME NEW r \in SUBSET s, r # s PROVE Adds(of(r), r, g, first)
    <3>1. PICK x \in s : r \subseteq s \ {x}
      BY <2>1
    <3>2. PICK it : Adds(it, s \ {x}, g, first)
      BY <1>2
    <3>3. Adds([u \in SUBSET r |-> it[u]], r, g, first)
      <4>1. ASSUME NEW u \in SUBSET r, u # {}
            PROVE  u \ {Some(u)} \in SUBSET r
        OBVIOUS
      <4> QED
        BY <3>1, <3>2, <4>1 DEF Adds
    <3> QED
      BY <3>3
  <2>2. ASSUME NEW r \in SUBSET s, r # s PROVE a[r] = of(r)[r]
    <3>1. Adds(of(r), r, g, first)
      BY <2>1, <2>2
    <3>2. of(r)[r] = IF r = {} THEN first ELSE g[Some(r)] + of(r)[r \ {Some(r)}]
      BY <3>1 DEF Adds
    <3>3. CASE r = {}
      BY <3>2, <3>3
    <3>4. CASE r # {}
      <4>1. Some(r) \in r
        BY <3>4 DEF Some
      <4>2. PICK q \in SUBSET r : q = r \ {Some(r)}
        OBVIOUS
      <4>3. Adds(of(q), q, g, first)
        <5>1. q \in SUBSET s /\ q # s
          BY <4>1, <4>2
        <5> QED
          BY <2>1, <5>1
      <4>4. IsFiniteSet(r)
        BY FS_Subset
      <4>5. of(q)[q] = of(r)[q]
        <5>1. PICK it : it = of(q)
          OBVIOUS
        <5>2. PICK all : all = of(r)
          OBVIOUS
        <5>3. Adds(it, q, g, first) /\ Adds(all, r, g, first) /\ \A x \in q : g[x] = g[x]
          BY <3>1, <4>3, <5>1, <5>2
        <5> HIDE DEF of, a
        <5>4. \A u \in SUBSET q : it[u] = all[u]
          BY ONLY <4>4, <5>3, AddsSame
        <5>5. q \in SUBSET q
          OBVIOUS
        <5>6. it[q] = all[q]
          BY <5>4, <5>5
        <5> QED
          BY <5>1, <5>2, <5>6
      <4> QED
        BY <3>2, <3>4, <4>2, <4>5
    <3> QED
      BY <3>3, <3>4
  <2>3. Adds(a, s, g, first)
    <3>1. ASSUME NEW r \in SUBSET s, r # {}
          PROVE  a[r] = g[Some(r)] + a[r \ {Some(r)}]
      <4>1. Some(r) \in r
        BY <3>1 DEF Some
      <4>2. r \ {Some(r)} \in SUBSET s /\ r \ {Some(r)} # s
        BY <4>1
      <4>3. a[r \ {Some(r)}] = of(r \ {Some(r)})[r \ {Some(r)}]
        BY <2>2, <4>2
      <4> QED
        BY <3>1, <4>3
    <3>2. a[{}] = first /\ a = [r \in SUBSET s |-> a[r]]
      OBVIOUS
    <3> HIDE DEF a
    <3>3. \A r \in SUBSET s : a[r] = IF r = {} THEN first ELSE g[Some(r)] + a[r \ {Some(r)}]
      BY <3>1, <3>2
    <3> QED
      BY <3>2, <3>3 DEF Adds
  <2> HIDE DEF a
  <2> QED
    BY <2>3
<1>3. SUBSET T \subseteq S
  <2> HIDE DEF S
  <2> QED
    BY <1>1, <1>2, SetInduction
<1> QED
  BY <1>3

(* Any element can be taken out of the sum.                                *)
LEMMA AddsUp ==
  ASSUME NEW T, IsFiniteSet(T), NEW g \in [T -> Nat], NEW first \in Nat,
         NEW it, Adds(it, T, g, first)
  PROVE  /\ it[{}] = first
         /\ \A s \in SUBSET T : it[s] \in Nat /\ \A y \in s : it[s] = g[y] + it[s \ {y}]
<1> DEFINE N == {s \in SUBSET T : it[s] \in Nat}
           S == {s \in SUBSET T : \A y \in s : it[s] = g[y] + it[s \ {y}]}
<1>1. \A s \in SUBSET T : it[s] = IF s = {} THEN first ELSE g[Some(s)] + it[s \ {Some(s)}]
  BY DEF Adds
<1>2. it[{}] = first /\ {} \in S /\ {} \in N
  BY <1>1
<1>3. SUBSET T \subseteq N
  <2>1. ASSUME NEW s \in SUBSET T, s # {}, \A x \in s : s \ {x} \in N PROVE s \in N
    <3>1. Some(s) \in s
      BY <2>1 DEF Some
    <3>2. it[s \ {Some(s)}] \in Nat /\ g[Some(s)] \in Nat
      BY <2>1, <3>1
    <3>3. it[s] = g[Some(s)] + it[s \ {Some(s)}]
      BY <1>1, <2>1
    <3> HIDE DEF Some
    <3>4. it[s] \in Nat
      BY <3>2, <3>3
    <3> QED
      BY <3>4
  <2> HIDE DEF N
  <2> QED
    BY <1>2, <2>1, SetInduction
<1>4. ASSUME NEW s \in SUBSET T, s # {}, \A x \in s : s \ {x} \in S PROVE s \in S
  <2> DEFINE x == Some(s)
  <2>1. x \in s /\ s \ {x} \in S /\ it[s] = g[x] + it[s \ {x}]
    BY <1>1, <1>4 DEF Some
  <2> HIDE DEF x
  <2>2. ASSUME NEW y \in s PROVE it[s] = g[y] + it[s \ {y}]
    <3>1. CASE y = x
      BY <2>1, <3>1
    <3>2. CASE y # x
      <4>1. s \ {y} \in S /\ (s \ {x}) \ {y} = (s \ {y}) \ {x}
        BY <1>4
      <4>2. it[s \ {x}] = g[y] + it[(s \ {x}) \ {y}]
        BY <2>1, <3>2
      <4>3. it[s \ {y}] = g[x] + it[(s \ {y}) \ {x}]
        BY <2>1, <3>2, <4>1
      <4>4. it[(s \ {y}) \ {x}] \in Nat /\ g[x] \in Nat /\ g[y] \in Nat
        BY <1>3, <2>1
      <4>5. it[s] = g[x] + (g[y] + it[(s \ {y}) \ {x}])
        BY <2>1, <4>1, <4>2
      <4>6. it[s \ {y}] = g[x] + it[(s \ {y}) \ {x}]
        BY <4>3
      <4> QED
        BY ONLY <4>4, <4>5, <4>6
    <3> QED
      BY <3>1, <3>2
  <2> QED
    BY <2>2
<1>5. SUBSET T \subseteq S
  <2> HIDE DEF S
  <2> QED
    BY <1>2, <1>4, SetInduction
<1> QED
  BY <1>2, <1>3, <1>5

(***************************************************************************)
(* Texts put one behind the other.                                         *)
(***************************************************************************)
Flattens(f, s, n) ==
  f = [i \in 1 .. n |-> IF i = 1 THEN s[i] ELSE f[i - 1] \o s[i]]

LEMMA FlattensAt ==
  ASSUME NEW s, NEW n \in Nat, NEW f, Flattens(f, s, n)
  PROVE  \A i \in 1 .. n : f[i] = IF i = 1 THEN s[i] ELSE f[i - 1] \o s[i]
BY DEF Flattens

LEMMA FlattensExists ==
  ASSUME NEW s, NEW n \in Nat
  PROVE  \E f : Flattens(f, s, n)
<1> DEFINE N == {m \in Nat : \E f : Flattens(f, s, m)}
<1>1. 0 \in N
  <2> DEFINE f == [i \in 1 .. 0 |-> s[i]]
  <2>1. f = [i \in 1 .. 0 |-> IF i = 1 THEN s[i] ELSE f[i - 1] \o s[i]]
    OBVIOUS
  <2> HIDE DEF f
  <2>2. Flattens(f, s, 0)
    BY <2>1 DEF Flattens
  <2> QED
    BY <2>2
<1>2. ASSUME NEW m \in Nat, m \in N PROVE m + 1 \in N
  <2>1. PICK f : \A i \in 1 .. m : f[i] = IF i = 1 THEN s[i] ELSE f[i - 1] \o s[i]
    BY <1>2, FlattensAt
  <2> DEFINE g == [i \in 1 .. m + 1 |-> IF i = 1 THEN s[i] ELSE f[i - 1] \o s[i]]
  <2>2. \A i \in 1 .. m : g[i] = f[i]
    BY <2>1
  <2>3. ASSUME NEW i \in 1 .. m + 1, i # 1 PROVE g[i] = g[i - 1] \o s[i]
    <3>1. i - 1 \in 1 .. m
      BY <2>3
    <3>2. g[i - 1] = f[i - 1]
      BY <2>2, <3>1
    <3>3. g[i] = f[i - 1] \o s[i]
      BY <2>3
    <3> QED
      BY <3>2, <3>3
  <2>4. 1 \in 1 .. m + 1 => g[1] = s[1]
    OBVIOUS
  <2>5. g = [i \in 1 .. m + 1 |-> g[i]]
    OBVIOUS
  <2> HIDE DEF g
  <2>6. g = [i \in 1 .. m + 1 |-> IF i = 1 THEN s[i] ELSE g[i - 1] \o s[i]]
    BY <2>3, <2>4, <2>5
  <2>7. Flattens(g, s, m + 1)
    BY <2>6 DEF Flattens
  <2> QED
    BY <2>7
<1>3. Nat \subseteq N
  <2> HIDE DEF N
  <2> QED
    BY <1>1, <1>2, Induction
<1> QED
  BY <1>3

(* There is but one, and more texts do not change what the first make.     *)
LEMMA FlattensSame ==
  ASSUME NEW s, NEW n \in Nat, NEW m \in Nat, m <= n,
         NEW f, Flattens(f, s, m), NEW g, Flattens(g, s, n)
  PROVE  \A i \in 1 .. m : f[i] = g[i]
<1> DEFINE N == {k \in Nat : k \in 1 .. m => f[k] = g[k]}
<1>1. \A i \in 1 .. m : f[i] = IF i = 1 THEN s[i] ELSE f[i - 1] \o s[i]
  BY FlattensAt
<1>2. \A i \in 1 .. m : g[i] = IF i = 1 THEN s[i] ELSE g[i - 1] \o s[i]
  <2>1. \A i \in 1 .. n : g[i] = IF i = 1 THEN s[i] ELSE g[i - 1] \o s[i]
    BY FlattensAt
  <2> QED
    BY <2>1
<1>3. 0 \in N
  OBVIOUS
<1>4. ASSUME NEW k \in Nat, k \in N PROVE k + 1 \in N
  <2> SUFFICES ASSUME k + 1 \in 1 .. m PROVE f[k + 1] = g[k + 1]
    OBVIOUS
  <2>1. CASE k = 0
    <3>1. 1 \in 1 .. m /\ k + 1 = 1
      BY <2>1
    <3> QED
      BY <1>1, <1>2, <3>1
  <2>2. CASE k # 0
    <3>1. k \in 1 .. m /\ (k + 1) - 1 = k /\ k + 1 # 1
      BY <2>2
    <3>2. f[k + 1] = f[k] \o s[k + 1] /\ g[k + 1] = g[k] \o s[k + 1]
      BY <1>1, <1>2, <3>1
    <3>3. f[k] = g[k]
      BY <1>4, <3>1
    <3> QED
      BY <3>2, <3>3
  <2> QED
    BY <2>1, <2>2
<1>5. Nat \subseteq N
  <2> HIDE DEF N
  <2> QED
    BY <1>3, <1>4, Induction
<1> QED
  BY <1>5

(* The first k texts of some, one behind the other.                        *)
UpTo(s, k) == FlattenSeq(SubSeq(s, 1, k))

LEMMA FlattenIs ==
  ASSUME NEW s, Len(s) \in Nat \ {0}
  PROVE  \E f : Flattens(f, s, Len(s)) /\ FlattenSeq(s) = f[Len(s)]
<1> DEFINE f == CHOOSE f : f = [i \in 1 .. Len(s) |-> IF i = 1 THEN s[i] ELSE f[i - 1] \o s[i]]
<1>1. FlattenSeq(s) = f[Len(s)]
  BY DEF FlattenSeq
<1>2. Flattens(f, s, Len(s))
  BY FlattensExists DEF Flattens
<1> HIDE DEF f
<1> QED
  BY <1>1, <1>2

LEMMA FlattenNext ==
  ASSUME NEW P, NEW s \in Seq(Seq(P))
  PROVE  /\ UpTo(s, 0) = <<>> /\ UpTo(s, Len(s)) = FlattenSeq(s)
         /\ \A k \in 0 .. Len(s) : UpTo(s, k) \in Seq(P)
         /\ \A k \in 1 .. Len(s) : UpTo(s, k) = UpTo(s, k - 1) \o s[k]
<1>1. PICK n \in Nat : n = Len(s)
  OBVIOUS
<1>2. PICK f : Flattens(f, s, n)
  BY FlattensExists
<1>3. ASSUME NEW k \in 1 .. n PROVE UpTo(s, k) = f[k]
  <2>1. PICK t : t = SubSeq(s, 1, k) /\ Len(t) = k /\ \A i \in 1 .. k : t[i] = s[i]
    <3>1. Len(SubSeq(s, 1, k)) = k /\ \A i \in 1 .. k : SubSeq(s, 1, k)[i] = s[i]
      BY <1>1
    <3> QED
      BY <3>1
  <2>2. PICK g : Flattens(g, t, k) /\ FlattenSeq(t) = g[k]
    <3>1. Len(t) \in Nat \ {0}
      BY <2>1
    <3>2. PICK g : Flattens(g, t, Len(t)) /\ FlattenSeq(t) = g[Len(t)]
      BY <3>1, FlattenIs
    <3> QED
      BY <2>1, <3>2
  <2>3. \A i \in 1 .. k : g[i] = f[i]
    <3>1. Flattens(g, s, k)
      BY <2>1, <2>2 DEF Flattens
    <3>2. k \in Nat /\ n \in Nat /\ k <= n /\ Flattens(f, s, n)
      BY <1>2
    <3> QED
      BY ONLY <3>1, <3>2, FlattensSame
  <2> QED
    BY <2>1, <2>2, <2>3 DEF UpTo
<1>4. UpTo(s, 0) = <<>>
  <2>1. SubSeq(s, 1, 0) = <<>>
    BY SubSeqEmpty
  <2> QED
    BY <2>1 DEF UpTo, FlattenSeq
<1>5. UpTo(s, Len(s)) = FlattenSeq(s)
  BY SubSeqFull DEF UpTo
<1>6. \A k \in 1 .. n : s[k] \in Seq(P)
  BY <1>1, ElementOfSeq
<1>7. ASSUME NEW k \in 1 .. n PROVE UpTo(s, k) = UpTo(s, k - 1) \o s[k]
  <2>1. f[k] = IF k = 1 THEN s[k] ELSE f[k - 1] \o s[k]
    BY <1>2 DEF Flattens
  <2>2. CASE k = 1
    <3>1. k - 1 = 0 /\ <<>> \o s[k] = s[k]
      BY <1>6, <2>2, ConcatEmptySeq
    <3> QED
      BY <1>3, <1>4, <2>1, <2>2, <3>1
  <2>3. CASE k # 1
    <3>1. k - 1 \in 1 .. n
      BY <2>3
    <3> QED
      BY <1>3, <2>1, <2>3, <3>1
  <2> QED
    BY <2>2, <2>3
<1>8. \A k \in 0 .. n : UpTo(s, k) \in Seq(P)
  <2> DEFINE N == {k \in Nat : k <= n => UpTo(s, k) \in Seq(P)}
  <2>1. 0 \in N
    <3>1. <<>> \in Seq(P)
      OBVIOUS
    <3> QED
      BY <1>4, <3>1
  <2>2. ASSUME NEW k \in Nat, k \in N PROVE k + 1 \in N
    <3> SUFFICES ASSUME k + 1 <= n PROVE UpTo(s, k + 1) \in Seq(P)
      OBVIOUS
    <3>1. k + 1 \in 1 .. n /\ (k + 1) - 1 = k /\ k <= n
      OBVIOUS
    <3>2. UpTo(s, k + 1) = UpTo(s, k) \o s[k + 1]
      BY <1>7, <3>1
    <3>3. UpTo(s, k) \in Seq(P) /\ s[k + 1] \in Seq(P)
      BY <1>6, <2>2, <3>1
    <3> QED
      BY <3>2, <3>3, ConcatProperties
  <2>3. Nat \subseteq N
    <3> HIDE DEF N
    <3> QED
      BY <2>1, <2>2, Induction
  <2> QED
    BY <2>3
<1> QED
  BY <1>1, <1>4, <1>5, <1>7, <1>8

(* Where a text begins behind those before it, and what is there.          *)
LEMMA FlattenAt ==
  ASSUME NEW P, NEW s \in Seq(Seq(P))
  PROVE  /\ \A j \in 1 .. Len(s) : /\ s[j] \in Seq(P)
                                   /\ Len(UpTo(s, j)) = Len(UpTo(s, j - 1)) + Len(s[j])
                                   /\ Len(UpTo(s, j)) <= Len(UpTo(s, Len(s)))
         /\ \A j \in 1 .. Len(s) : \A i \in 1 .. Len(s[j]) :
              UpTo(s, Len(s))[Len(UpTo(s, j - 1)) + i] = s[j][i]
<1>1. PICK n \in Nat : n = Len(s)
  OBVIOUS
<1>2. PICK u : u = [k \in 0 .. n |-> UpTo(s, k)]
  OBVIOUS
<1>3. \A k \in 0 .. n : u[k] \in Seq(P) /\ Len(u[k]) \in Nat
  <2> TAKE k \in 0 .. n
  <2>1. u[k] = UpTo(s, k)
    BY <1>2
  <2>2. UpTo(s, k) \in Seq(P)
    BY <1>1, FlattenNext
  <2> QED
    BY <2>1, <2>2
<1>4. \A j \in 1 .. n : s[j] \in Seq(P) /\ Len(s[j]) \in Nat
  BY <1>1, ElementOfSeq
<1>5. ASSUME NEW j \in 1 .. n
      PROVE  /\ u[j] = u[j - 1] \o s[j] /\ Len(u[j]) = Len(u[j - 1]) + Len(s[j])
             /\ j - 1 \in 0 .. n /\ j \in 0 .. n
  <2>1. j - 1 \in 0 .. n /\ j \in 0 .. n
    OBVIOUS
  <2>2. u[j] = u[j - 1] \o s[j]
    BY <1>1, <1>2, <2>1, FlattenNext
  <2>3. u[j - 1] \in Seq(P) /\ s[j] \in Seq(P)
    BY <1>3, <1>4, <2>1
  <2> QED
    BY <2>1, <2>2, <2>3, ConcatProperties
<1>6. ASSUME NEW j \in 1 .. n
      PROVE  \A m \in Nat : m \in j .. n =>
               /\ Len(u[j]) <= Len(u[m])
               /\ \A i \in 1 .. Len(s[j]) : u[m][Len(u[j - 1]) + i] = s[j][i]
  <2> DEFINE N == {m \in Nat : m \in j .. n =>
                     /\ Len(u[j]) <= Len(u[m])
                     /\ \A i \in 1 .. Len(s[j]) : u[m][Len(u[j - 1]) + i] = s[j][i]}
  <2>1. 0 \in N
    OBVIOUS
  <2>2. ASSUME NEW m \in Nat, m \in N PROVE m + 1 \in N
    <3> SUFFICES ASSUME m + 1 \in j .. n
                 PROVE  /\ Len(u[j]) <= Len(u[m + 1])
                        /\ \A i \in 1 .. Len(s[j]) : u[m + 1][Len(u[j - 1]) + i] = s[j][i]
      OBVIOUS
    <3>1. m + 1 \in 1 .. n /\ (m + 1) - 1 = m
      OBVIOUS
    <3>2. /\ u[m + 1] = u[m] \o s[m + 1] /\ Len(u[m + 1]) = Len(u[m]) + Len(s[m + 1])
          /\ m \in 0 .. n
      BY <1>5, <3>1
    <3>3. PICK a \in Seq(P), b \in Seq(P) : a = u[m] /\ b = s[m + 1]
      BY <1>3, <1>4, <3>1, <3>2
    <3>4. \A i \in 1 .. Len(a) + Len(b) : (a \o b)[i] = IF i <= Len(a) THEN a[i] ELSE b[i - Len(a)]
      BY ConcatProperties
    <3>5. CASE m + 1 = j
      <4>1. ASSUME NEW i \in 1 .. Len(s[j]) PROVE u[m + 1][Len(u[j - 1]) + i] = s[j][i]
        <5>1. j - 1 = m
          BY <3>5
        <5>2. Len(a) \in Nat /\ Len(b) \in Nat /\ i \in 1 .. Len(b)
          BY <3>3, <3>5
        <5>3. Len(a) + i \in 1 .. Len(a) + Len(b) /\ ~(Len(a) + i <= Len(a)) /\ (Len(a) + i) - Len(a) = i
          BY <5>2
        <5>4. (a \o b)[Len(a) + i] = b[i]
          BY <3>4, <5>3
        <5> QED
          BY <3>2, <3>3, <3>5, <5>1, <5>4
      <4>2. Len(u[j]) <= Len(u[m + 1])
        <5>1. PICK w \in Nat : w = Len(u[j])
          BY <1>3, <1>5
        <5>2. w <= w
          OBVIOUS
        <5> QED
          BY <3>5, <5>1, <5>2, Zenon
      <4> QED
        BY <4>1, <4>2
    <3>6. CASE m + 1 # j
      <4>1. m \in j .. n
        BY <3>6
      <4>2. /\ Len(u[j]) <= Len(u[m])
            /\ \A i \in 1 .. Len(s[j]) : u[m][Len(u[j - 1]) + i] = s[j][i]
        BY <2>2, <4>1
      <4>3. /\ Len(u[j]) \in Nat /\ Len(u[m]) \in Nat /\ Len(s[m + 1]) \in Nat
            /\ Len(u[j - 1]) \in Nat /\ Len(s[j]) \in Nat
            /\ Len(u[j]) = Len(u[j - 1]) + Len(s[j])
        BY <1>3, <1>4, <1>5, <3>1, <3>2
      <4>4. ASSUME NEW i \in 1 .. Len(s[j]) PROVE u[m + 1][Len(u[j - 1]) + i] = s[j][i]
        <5>1. Len(u[j - 1]) + i \in 1 .. Len(a) + Len(b) /\ Len(u[j - 1]) + i <= Len(a)
          <6>1. PICK w \in Nat, x \in Nat, y \in Nat, z \in Nat :
                  w = Len(u[j - 1]) /\ x = Len(s[j]) /\ y = Len(a) /\ z = Len(b)
            BY <3>3, <4>3
          <6>2. i \in 1 .. x /\ w + x <= y /\ w \in Nat /\ x \in Nat /\ y \in Nat /\ z \in Nat
            BY <3>3, <4>2, <4>3, <6>1
          <6>3. w + i \in 1 .. y + z /\ w + i <= y
            BY ONLY <6>2
          <6> QED
            BY <6>1, <6>3
        <5>2. (a \o b)[Len(u[j - 1]) + i] = a[Len(u[j - 1]) + i]
          BY <3>4, <5>1
        <5> QED
          BY <3>2, <3>3, <4>2, <5>2
      <4>5. Len(u[j]) <= Len(u[m + 1])
        <5>1. PICK w \in Nat, x \in Nat, y \in Nat :
                w = Len(u[j]) /\ x = Len(u[m]) /\ y = Len(s[m + 1])
          BY <1>3, <1>5, <4>3
        <5>2. Len(u[m + 1]) = x + y /\ w <= x /\ w \in Nat /\ x \in Nat /\ y \in Nat
          BY <3>2, <4>2, <5>1
        <5>3. w <= x + y
          BY ONLY <5>2
        <5> QED
          BY <5>1, <5>2, <5>3
      <4> QED
        BY <4>4, <4>5
    <3> QED
      BY <3>5, <3>6
  <2>3. Nat \subseteq N
    <3> HIDE DEF N
    <3> QED
      BY <2>1, <2>2, Induction
  <2> QED
    BY <2>3
<1>7. \A j \in 1 .. n : n \in j .. n
  OBVIOUS
<1>8. \A j \in 1 .. n : /\ Len(u[j]) = Len(u[j - 1]) + Len(s[j]) /\ Len(u[j]) <= Len(u[n])
                        /\ u[j] = UpTo(s, j) /\ u[j - 1] = UpTo(s, j - 1) /\ u[n] = UpTo(s, n)
                        /\ \A i \in 1 .. Len(s[j]) : u[n][Len(u[j - 1]) + i] = s[j][i]
  <2> TAKE j \in 1 .. n
  <2>1. j \in 0 .. n /\ j - 1 \in 0 .. n /\ n \in 0 .. n
    OBVIOUS
  <2>2. u[j] = UpTo(s, j) /\ u[j - 1] = UpTo(s, j - 1) /\ u[n] = UpTo(s, n)
    BY <1>2, <2>1
  <2> QED
    BY <1>5, <1>6, <1>7, <2>2
<1> QED
  BY <1>1, <1>4, <1>8

-----------------------------------------------------------------------------
(* DateCheck. *)

(* The fields the loop passed are digits, of a value it allows.            *)
LoopInv ==
  /\ date \in Seq(Field)
  /\ part \in 0 .. Len(date)
  /\ check = "accepted" => part = Len(date)
  /\ \A k \in 1 .. part : ~date[k].junk /\ Allowed(k - 1, date[k].value)

(* What date_check accepts has a month and a day in their ranges when it   *)
(* has them, and digits only (NoBadMonthOrDay).                            *)
THEOREM NoBadDatePasses == DateSpec => []NoBadMonthOrDay
<1>1. DateInit => LoopInv
  BY DateAssumption DEF DateInit, DateStart, LoopInv
<1>2. LoopInv /\ [DateNext]_datevars => LoopInv'
  <2> SUFFICES ASSUME LoopInv, [DateNext]_datevars PROVE LoopInv'
    OBVIOUS
  <2>1. CASE EndField
    <3>1. date' = date /\ check = "loop" /\ check' # "accepted" /\ part < Len(date)
      BY <2>1 DEF EndField
    <3>2. CASE part' = part
      BY <3>1, <3>2 DEF LoopInv
    <3>3. CASE part' = part + 1 /\ Allowed(part, date[part + 1].value) /\ ~date[part + 1].junk
      <4>1. ASSUME NEW k \in 1 .. part'
            PROVE  ~date[k].junk /\ Allowed(k - 1, date[k].value)
        <5>1. CASE k \in 1 .. part
          BY <5>1 DEF LoopInv
        <5>2. CASE k = part + 1
          <6>1. k - 1 = part
            BY <5>2 DEF LoopInv
          <6> QED
            BY <3>3, <5>2, <6>1
        <5> QED
          BY <3>3, <5>1, <5>2 DEF LoopInv
      <4>2. Len(date) \in Nat
        BY DEF LoopInv
      <4>3. part' \in 0 .. Len(date)
        BY <3>1, <3>3, <4>2 DEF LoopInv
      <4>4. \A k \in 1 .. part' : (~date[k].junk /\ Allowed(k - 1, date[k].value))'
        BY <3>1, <4>1 DEF Allowed
      <4> QED
        BY <3>1, <4>3, <4>4 DEF LoopInv
    <3> QED
      BY <2>1, <3>2, <3>3 DEF EndField
  <2>2. CASE CheckLength \/ JunkField \/ AcceptDate \/ UNCHANGED datevars
    <3>1. date' = date /\ part' = part /\ (check' = "accepted" => part = Len(date))
      BY <2>2 DEF LoopInv, CheckLength, JunkField, AcceptDate, datevars
    <3> QED
      BY <3>1 DEF LoopInv, Allowed
  <2> QED
    BY <2>1, <2>2 DEF DateNext
<1>3. LoopInv => NoBadMonthOrDay
  <2> SUFFICES ASSUME LoopInv, check = "accepted" PROVE NoBadMonthOrDay
    BY DEF NoBadMonthOrDay
  <2>1. Len(date) \in Nat /\ part = Len(date)
    BY DEF LoopInv
  <2>2. Len(date) > 1 => Allowed(1, date[2].value)
    BY <2>1 DEF LoopInv
  <2>3. Len(date) > 2 => Allowed(2, date[3].value)
    BY <2>1 DEF LoopInv
  <2>4. \A value : (Allowed(1, value) => value \in 1 .. 12)
                   /\ (Allowed(2, value) => value \in 1 .. 31)
    BY DEF Allowed
  <2> QED
    BY <2>1, <2>2, <2>3, <2>4 DEF LoopInv, NoBadMonthOrDay
<1> QED
  BY <1>1, <1>2, <1>3, PTL DEF DateSpec

(* The length of a text is a sum over its fields.                          *)
LEMMA LengthAdds ==
  ASSUME NEW t, IsFiniteSet(DOMAIN t)
  PROVE  \E it : /\ Adds(it, DOMAIN t, [i \in DOMAIN t |-> t[i].digits], Len(t) - 1)
                 /\ TextLength(t) = it[DOMAIN t]
<1> DEFINE g == [i \in DOMAIN t |-> t[i].digits]
           Rec(it) == it = [s \in SUBSET DOMAIN t |->
                              IF s = {} THEN Len(t) - 1
                              ELSE t[CHOOSE x \in s : TRUE].digits + it[s \ {CHOOSE x \in s : TRUE}]]
           sum == CHOOSE it : Rec(it)
<1>1. TextLength(t) = sum[DOMAIN t]
  BY DEF TextLength, FoldSeq, FoldFunction, FoldFunctionOnSet, MapThenFoldSet
<1>2. ASSUME NEW it PROVE Adds(it, DOMAIN t, g, Len(t) - 1) <=> Rec(it)
  <2>1. ASSUME NEW s \in SUBSET DOMAIN t, s # {} PROVE g[Some(s)] = t[Some(s)].digits
    BY <2>1 DEF Some
  <2> QED
    BY <2>1 DEF Adds, Some
<1>3. PICK it : Adds(it, DOMAIN t, g, Len(t) - 1)
  BY AddsExists
<1> HIDE DEF g, Rec
<1>4. Adds(sum, DOMAIN t, g, Len(t) - 1)
  BY <1>2, <1>3
<1> HIDE DEF sum
<1> QED
  BY <1>1, <1>4 DEF g

LEMMA LengthOfThree ==
  ASSUME NEW t \in Seq(Field), Len(t) = 3
  PROVE  TextLength(t) = t[1].digits + t[2].digits + t[3].digits + 2
<1>1. DOMAIN t = {1, 2, 3} /\ DOMAIN t = 1 .. 3 /\ Len(t) - 1 = 2
  <2>1. DOMAIN t = 1 .. 3 /\ 1 .. 3 = {1, 2, 3}
    OBVIOUS
  <2> QED
    BY <2>1
<1>2. IsFiniteSet(DOMAIN t)
  BY <1>1, FS_Interval
<1>3. PICK g : g = [i \in DOMAIN t |-> t[i].digits]
  OBVIOUS
<1>4. /\ t[1].digits \in Nat /\ t[2].digits \in Nat /\ t[3].digits \in Nat
      /\ g[1] = t[1].digits /\ g[2] = t[2].digits /\ g[3] = t[3].digits
  <2>1. t[1] \in Field /\ t[2] \in Field /\ t[3] \in Field
    <3>1. 1 \in 1 .. Len(t) /\ 2 \in 1 .. Len(t) /\ 3 \in 1 .. Len(t)
      OBVIOUS
    <3> QED
      BY <3>1, ElementOfSeq
  <2> QED
    BY <1>1, <1>3, <2>1 DEF Field
<1>5. g \in [DOMAIN t -> Nat]
  BY <1>1, <1>3, <1>4
<1>6. PICK it, two : two = 2 /\ Adds(it, DOMAIN t, g, two) /\ TextLength(t) = it[DOMAIN t]
  BY <1>1, <1>2, <1>3, LengthAdds
<1>7. /\ it[{}] = two
      /\ \A s \in SUBSET DOMAIN t : it[s] \in Nat /\ \A y \in s : it[s] = g[y] + it[s \ {y}]
  <2>1. two \in Nat /\ Adds(it, DOMAIN t, g, two)
    BY <1>6
  <2>2. PICK T : T = DOMAIN t
    OBVIOUS
  <2>3. IsFiniteSet(T) /\ g \in [T -> Nat] /\ two \in Nat /\ Adds(it, T, g, two)
    BY <1>2, <1>5, <2>1, <2>2
  <2>4. /\ it[{}] = two
        /\ \A s \in SUBSET T : it[s] \in Nat /\ \A y \in s : it[s] = g[y] + it[s \ {y}]
    BY ONLY <2>3, AddsUp
  <2> QED
    BY ONLY <2>2, <2>4
<1>8. it[{1}] = g[1] + it[{}]
  <2>1. {1} \in SUBSET DOMAIN t /\ 1 \in {1} /\ {1} \ {1} = {}
    BY <1>1
  <2> QED
    BY <1>7, <2>1
<1>9. it[{1, 2}] = g[2] + it[{1}]
  <2>1. {1, 2} \in SUBSET DOMAIN t /\ 2 \in {1, 2} /\ {1, 2} \ {2} = {1}
    BY <1>1
  <2> QED
    BY <1>7, <2>1
<1>10. it[{1, 2, 3}] = g[3] + it[{1, 2}]
  <2>1. {1, 2, 3} \in SUBSET DOMAIN t /\ 3 \in {1, 2, 3} /\ {1, 2, 3} \ {3} = {1, 2}
    BY <1>1
  <2> QED
    BY <1>7, <2>1
<1> QED
  BY <1>1, <1>4, <1>6, <1>7, <1>8, <1>9, <1>10

DateInv ==
  /\ date \in Seq(Field)
  /\ check \in {"length", "loop", "accepted", "refused"}
  /\ part \in 0 .. Len(date)
  /\ passed = date \/ passed = SubSeq(date, 1, 1)
  /\ DatesAccepted

LEMMA DateStarts ==
  ASSUME NEW t \in Seq(Field), DateStart(t)
  PROVE  DateInv
BY DEF DateStart, DateInv, DatesAccepted

LEMMA DateKept ==
  ASSUME DateInv, [DateNext]_datevars
  PROVE  DateInv'
<1> USE DEF DateInv
<1>1. ASSUME Shaped, date[2].value \in 1 .. 12, date[3].value \in 1 .. 31
      PROVE  /\ TextLength(date) = 10
             /\ \A k \in 1 .. Len(date) : ~date[k].junk /\ Allowed(k - 1, date[k].value)
  <2>1. Len(date) = 3 /\ Digits(1, 4) /\ Digits(2, 2) /\ Digits(3, 2)
    BY <1>1 DEF Shaped
  <2>2. TextLength(date) = 4 + 2 + 2 + 2
    BY <2>1, LengthOfThree DEF Digits
  <2>3. ASSUME NEW k \in 1 .. Len(date) PROVE ~date[k].junk /\ Allowed(k - 1, date[k].value)
    <3>1. k = 1 \/ k = 2 \/ k = 3
      BY <2>1
    <3>2. k = 1 => Allowed(0, date[k].value)
      BY DEF Allowed
    <3>3. k = 2 => Allowed(1, date[k].value)
      BY <1>1 DEF Allowed
    <3>4. k = 3 => Allowed(2, date[k].value)
      BY <1>1 DEF Allowed
    <3> QED
      BY <2>1, <3>1, <3>2, <3>3, <3>4 DEF Digits
  <2> QED
    BY <2>2, <2>3
<1>2. ASSUME date' = date, ~DatesAccepted' PROVE
        /\ Shaped /\ date[2].value \in 1 .. 12 /\ date[3].value \in 1 .. 31
        /\ check # "refused" /\ check' = "refused"
  BY <1>2 DEF DatesAccepted, Shaped, Digits
<1>3. date' = date
  BY DEF DateNext, CheckLength, JunkField, EndField, AcceptDate, datevars
<1>4. part' \in 0 .. Len(date)
  BY DEF DateNext, CheckLength, JunkField, EndField, AcceptDate, datevars
<1>5. check' \in {"length", "loop", "accepted", "refused"}
  BY DEF DateNext, CheckLength, JunkField, EndField, AcceptDate, datevars
<1>6. passed' = date \/ passed' = SubSeq(date, 1, 1)
  <2>1. passed' = passed \/ (passed' = SubSeq(passed, 1, 1) /\ 1 <= Len(date))
    BY DEF DateNext, CheckLength, JunkField, EndField, AcceptDate, datevars
  <2>2. 1 <= Len(date) => SubSeq(SubSeq(date, 1, 1), 1, 1) = SubSeq(date, 1, 1)
    <3> SUFFICES ASSUME 1 <= Len(date) PROVE SubSeq(SubSeq(date, 1, 1), 1, 1) = SubSeq(date, 1, 1)
      OBVIOUS
    <3>1. 1 \in 1 .. Len(date) /\ 1 \in 1 .. 1 - 1 + 1
      OBVIOUS
    <3> QED
      BY <3>1, SubSeqOfSubSeq
  <2> QED
    BY <2>1, <2>2
<1>7. DatesAccepted'
  <2> SUFFICES ASSUME ~DatesAccepted' PROVE FALSE
    OBVIOUS
  <2>1. /\ TextLength(date) = 10 /\ check # "refused" /\ check' = "refused"
        /\ \A k \in 1 .. Len(date) : ~date[k].junk /\ Allowed(k - 1, date[k].value)
    BY <1>1, <1>2, <1>3
  <2>2. part < Len(date) => ~date[part + 1].junk /\ Allowed(part, date[part + 1].value)
    <3> SUFFICES ASSUME part < Len(date)
                 PROVE  ~date[part + 1].junk /\ Allowed(part, date[part + 1].value)
      OBVIOUS
    <3>1. part + 1 \in 1 .. Len(date) /\ (part + 1) - 1 = part
      OBVIOUS
    <3> QED
      BY <2>1, <3>1
  <2> QED
    BY <2>1, <2>2 DEF DateNext, CheckLength, JunkField, EndField, AcceptDate, datevars
<1> QED
  BY <1>3, <1>4, <1>5, <1>6, <1>7

(* Every text YYYY-MM-DD of a month and a day in their ranges passes       *)
(* date_check, whatever its year (DatesAccepted).                          *)
THEOREM GoodDatesPass == DateSpec => []DatesAccepted
<1>1. DateInit => DateInv
  BY DateStarts, DateAssumption DEF DateInit
<1>2. DateInv => DatesAccepted
  BY DEF DateInv
<1> QED
  BY <1>1, <1>2, DateKept, PTL DEF DateSpec

-----------------------------------------------------------------------------
(* StackArray. *)

(* What Postgres prints starts with a brace.                               *)
Opened(out) == Len(out) \in Nat /\ Len(out) >= 1 /\ out[1] = "open"

Signs == Words \cup Special

ScanInv ==
  /\ DOMAIN scan = {"ok", "last", "depth", "leaves", "items", "lengths", "quoted", "out"}
  /\ scan.quoted \in Seq(Signs) /\ scan.out \in Seq(Signs)
  /\ scan.ok => \/ scan.last = "start" /\ scan.out = <<>>
                \/ scan.last # "start" /\ Opened(scan.out)

(* The first n tokens of the text that are one of some.                    *)
Marks(n, tokens) == {k \in 1 .. n : text[k] \in tokens}

(* The count is that of commas and opening braces; the text has a brace    *)
(* more of these than commas, so that elem is below it.                    *)
CountInv ==
  /\ stage \in {"sent", "stored"} => count = 0
  /\ stage \in {"sent", "stored", "count"} => elem = 0
  /\ stage \in {"count", "get", "done"} => Opened(text)
  /\ stage \in {"count", "get"} => cursor \in 1 .. Len(text) + 1
  /\ stage = "count" => count = Cardinality(Marks(cursor - 1, {"comma", "open"}))
  /\ stage \in {"get", "done"} => /\ count = Cardinality(Marks(Len(text), {"comma", "open"}))
                                  /\ DOMAIN values = 0 .. count - 1
  /\ stage = "get" => elem = Cardinality(Marks(cursor - 1, {"comma"}))

StackInv == ScanInv /\ CountInv

(* The cursor stays in the text, which is one of tokens.                   *)
TextInv ==
  /\ stack \in Seq(Seq(Signs)) /\ text \in Seq(Signs)
  /\ stage \in {"sent", "stored", "rejected", "count", "get", "done"}
  /\ cursor \in 1 .. Len(text) + 1 /\ current \in 0 .. Len(text) + 1
  /\ count \in Nat /\ elem \in Nat
  /\ stage = "sent" => cursor = 1
  /\ stage \in {"sent", "stored", "count"} => current = 0

LEMMA MarksFinite ==
  ASSUME NEW n \in Nat, NEW tokens
  PROVE  IsFiniteSet(Marks(n, tokens)) /\ Cardinality(Marks(n, tokens)) \in Nat
<1>1. IsFiniteSet(1 .. n)
  BY FS_Interval
<1>2. Marks(n, tokens) \subseteq 1 .. n
  BY DEF Marks
<1> QED
  BY <1>1, <1>2, FS_Subset, FS_CardinalityType

(* The count of one token more.                                            *)
LEMMA MarksNext ==
  ASSUME NEW n \in Nat \ {0}, NEW tokens
  PROVE  Cardinality(Marks(n, tokens))
           = Cardinality(Marks(n - 1, tokens)) + IF text[n] \in tokens THEN 1 ELSE 0
<1>1. IsFiniteSet(Marks(n - 1, tokens)) /\ Cardinality(Marks(n - 1, tokens)) \in Nat
  BY MarksFinite
<1>2. CASE text[n] \in tokens
  <2>1. Marks(n, tokens) = Marks(n - 1, tokens) \cup {n} /\ n \notin Marks(n - 1, tokens)
    BY <1>2 DEF Marks
  <2> QED
    BY <1>1, <1>2, <2>1, FS_AddElement
<1>3. CASE text[n] \notin tokens
  <2>1. Marks(n, tokens) = Marks(n - 1, tokens)
    BY <1>3 DEF Marks
  <2> QED
    BY <1>1, <1>3, <2>1
<1> QED
  BY <1>2, <1>3

(* The value that is set is one of those that were counted.                *)
LEMMA ElemCounted ==
  ASSUME StackInv, stage = "get", cursor <= Len(text)
  PROVE  elem \in 0 .. count - 1
<1> DEFINE before == Marks(cursor - 1, {"comma"})
           all == Marks(Len(text), {"comma", "open"})
<1>1. /\ Len(text) \in Nat /\ Len(text) >= 1 /\ text[1] = "open"
      /\ cursor \in 1 .. Len(text) /\ cursor - 1 \in Nat
  <2>1. /\ Len(text) \in Nat /\ Len(text) >= 1 /\ text[1] = "open"
        /\ cursor \in 1 .. Len(text) + 1 /\ cursor <= Len(text)
    BY DEF StackInv, CountInv, Opened
  <2> HIDE DEF StackInv
  <2>2. cursor \in 1 .. Len(text) /\ cursor - 1 \in Nat
    BY ONLY <2>1
  <2> QED
    BY <2>1, <2>2
<1>2. /\ IsFiniteSet(before) /\ Cardinality(before) \in Nat
      /\ IsFiniteSet(all) /\ Cardinality(all) \in Nat
  BY <1>1, MarksFinite
<1>3. 1 \notin before /\ before \cup {1} \subseteq all
  <2>1. \A k \in before : k \in 1 .. Len(text) /\ text[k] = "comma"
    BY ONLY <1>1 DEF Marks
  <2>2. \A k : k \in all <=> k \in 1 .. Len(text) /\ text[k] \in {"comma", "open"}
    BY ONLY DEF Marks
  <2>3. 1 \in 1 .. Len(text) /\ text[1] # "comma"
    BY ONLY <1>1
  <2> HIDE DEF before, all
  <2> QED
    BY ONLY <1>1, <2>1, <2>2, <2>3
<1>4. elem = Cardinality(before) /\ count = Cardinality(all)
  BY DEF StackInv, CountInv
<1> HIDE DEF before, all
<1>5. IsFiniteSet(before \cup {1}) /\ Cardinality(before \cup {1}) = Cardinality(before) + 1
  BY <1>2, <1>3, FS_AddElement
<1>6. Cardinality(before \cup {1}) <= Cardinality(all)
  BY <1>2, <1>3, FS_Subset
<1> QED
  BY <1>2, <1>4, <1>5, <1>6

-----------------------------------------------------------------------------
(* Texts that grow at their end.                                           *)
LEMMA StaysOpened ==
  ASSUME NEW T, NEW out \in Seq(T), NEW more \in Seq(T), Opened(out)
  PROVE  Opened(out \o more)
<1>1. Len(out) \in Nat /\ Len(more) \in Nat /\ Len(out \o more) = Len(out) + Len(more)
  OBVIOUS
<1>2. Len(out) >= 1
  BY DEF Opened
<1>3. 1 \in 1 .. Len(out) + Len(more) /\ 1 <= Len(out)
  BY <1>1, <1>2
<1>4. (out \o more)[1] = out[1]
  BY <1>3
<1> QED
  BY <1>1, <1>2, <1>4 DEF Opened

LEMMA AppendOpened ==
  ASSUME NEW T, NEW s \in Seq(T), NEW k \in T, Opened(s)
  PROVE  Opened(Append(s, k))
<1>2. Len(s) \in Nat /\ Len(Append(s, k)) = Len(s) + 1
  OBVIOUS
<1>3. Len(s) >= 1
  BY DEF Opened
<1>4. 1 \in 1 .. Len(s) /\ 1 # Len(s) + 1
  BY <1>2, <1>3
<1>5. Append(s, k)[1] = s[1]
  BY <1>4
<1> QED
  BY <1>2, <1>3, <1>5 DEF Opened

LEMMA ScanKeeps ==
  ASSUME ScanInv, NEW token \in Signs, scan' = Scan(scan, token)
  PROVE  ScanInv'
<1>1. scan.quoted \in Seq(Signs) /\ scan.out \in Seq(Signs)
  BY DEF ScanInv
<1>2. CASE scan' = scan
  BY <1>2 DEF ScanInv, Opened
<1>3. CASE scan' = Malformed(scan)
  BY <1>1, <1>3 DEF ScanInv, Malformed
<1>4. CASE scan.ok /\ scan.last = "quoting"
  <2>1. CASE token = "quote"
    <3>1. scan' = [scan EXCEPT !.last = "quoted", !.leaves = @ \cup {scan.depth}, !.items = @ + 1,
                               !.out = @ \o Printed(scan.quoted)]
      BY <1>4, <2>1 DEF Scan
    <3>2. "quote" \in Signs
      BY DEF Signs, Special
    <3>3. <<"quote">> \in Seq(Signs)
      BY <3>2
    <3>4. Printed(scan.quoted) \in Seq(Signs)
      BY <1>1, <3>3 DEF Printed
    <3>5. scan.out \o Printed(scan.quoted) \in Seq(Signs) /\ Opened(scan.out \o Printed(scan.quoted))
      BY <1>1, <1>4, <3>4, StaysOpened DEF ScanInv
    <3>6. /\ DOMAIN scan' = DOMAIN scan /\ scan'.last = "quoted"
          /\ scan'.quoted = scan.quoted /\ scan'.out = scan.out \o Printed(scan.quoted)
      BY <3>1 DEF ScanInv
    <3> QED
      BY <1>1, <3>5, <3>6 DEF ScanInv
  <2>2. CASE token # "quote"
    <3>1. scan' = [scan EXCEPT !.quoted = Append(@, token)]
      BY <1>4, <2>2 DEF Scan
    <3>2. scan.out \in Seq(Signs) /\ Append(scan.quoted, token) \in Seq(Signs)
      BY <1>1
    <3>3. /\ DOMAIN scan' = DOMAIN scan /\ scan'.last = scan.last /\ scan'.ok = scan.ok
          /\ scan'.quoted = Append(scan.quoted, token) /\ scan'.out = scan.out
      BY <3>1 DEF ScanInv
    <3> QED
      BY <1>4, <3>2, <3>3 DEF ScanInv
  <2> QED
    BY <2>1, <2>2
<1>5. CASE /\ scan.last # "start" /\ scan.ok
           /\ DOMAIN scan' = DOMAIN scan /\ scan'.last # "start"
           /\ scan'.out = Append(scan.out, token) /\ scan'.quoted = scan.quoted
  <2>1. scan'.quoted \in Seq(Signs) /\ scan'.out \in Seq(Signs)
    BY <1>1, <1>5
  <2>2. Opened(scan'.out)
    BY <1>1, <1>5, AppendOpened DEF ScanInv
  <2> QED
    BY <1>5, <2>1, <2>2 DEF ScanInv
<1>6. CASE /\ scan.last # "start" /\ scan.ok
           /\ DOMAIN scan' = DOMAIN scan /\ scan'.last # "start"
           /\ scan'.out = scan.out /\ scan'.quoted = <<>>
  <2>1. scan'.quoted \in Seq(Signs) /\ Opened(scan'.out) /\ scan'.out \in Seq(Signs)
    BY <1>1, <1>6 DEF ScanInv
  <2> QED
    BY <1>6, <2>1 DEF ScanInv
<1>7. CASE /\ scan.last = "start" /\ scan.ok /\ token = "open"
           /\ DOMAIN scan' = DOMAIN scan /\ scan'.last # "start"
           /\ scan'.out = Append(scan.out, token) /\ scan'.quoted = scan.quoted
  <2>1. scan'.out = <<"open">>
    <3>1. scan.out = <<>>
      BY <1>7 DEF ScanInv
    <3> QED
      BY <1>7, <3>1
  <2>2. Opened(scan'.out)
    BY <2>1 DEF Opened
  <2>3. scan'.quoted \in Seq(Signs) /\ scan'.out \in Seq(Signs)
    <3>1. Append(scan.out, token) \in Seq(Signs)
      BY <1>1
    <3> QED
      BY <1>1, <1>7, <3>1
  <2> QED
    BY <1>7, <2>2, <2>3 DEF ScanInv
<1>8. DOMAIN scan = {"ok", "last", "depth", "leaves", "items", "lengths", "quoted", "out"}
  BY DEF ScanInv
<1>9. CASE /\ scan.ok /\ token = "open" /\ scan.last \in {"start", "open", "comma"}
           /\ scan' = [scan EXCEPT !.last = "open", !.depth = @ + 1, !.items = 0,
                                   !.out = Append(@, token)]
  <2>1. /\ DOMAIN scan' = DOMAIN scan /\ scan'.last = "open"
        /\ scan'.out = Append(scan.out, token) /\ scan'.quoted = scan.quoted
    BY <1>8, <1>9
  <2> QED
    BY <1>5, <1>7, <1>9, <2>1
<1>10. CASE /\ scan.ok /\ scan.last \in {"open", "comma"}
            /\ scan' = [scan EXCEPT !.last = "quoting", !.quoted = <<>>]
  <2>1. /\ DOMAIN scan' = DOMAIN scan /\ scan'.last = "quoting"
        /\ scan'.out = scan.out /\ scan'.quoted = <<>>
    BY <1>8, <1>10
  <2> QED
    BY <1>6, <1>10, <2>1
<1>11. CASE /\ scan.ok /\ scan.last \in {"word", "quoted", "close"}
            /\ scan' = [scan EXCEPT !.last = "comma", !.out = Append(@, token)]
  <2>1. /\ DOMAIN scan' = DOMAIN scan /\ scan'.last = "comma"
        /\ scan'.out = Append(scan.out, token) /\ scan'.quoted = scan.quoted
    BY <1>8, <1>11
  <2> QED
    BY <1>5, <1>11, <2>1
<1>12. CASE /\ scan.ok /\ scan.last \in {"open", "word", "quoted", "close"}
            /\ scan' = [scan EXCEPT !.last = "close", !.depth = @ - 1, !.out = Append(@, token),
                          !.lengths = IF scan.last \in {"word", "quoted"} THEN @ \cup {scan.items}
                                                                          ELSE @]
  <2>1. /\ DOMAIN scan' = DOMAIN scan /\ scan'.last = "close"
        /\ scan'.out = Append(scan.out, token) /\ scan'.quoted = scan.quoted
    BY <1>8, <1>12
  <2> QED
    BY <1>5, <1>12, <2>1
<1>13. CASE /\ scan.ok /\ scan.last \in {"open", "comma", "word"}
            /\ scan' = [scan EXCEPT !.last = "word", !.leaves = @ \cup {scan.depth},
                          !.out = Append(@, token),
                          !.items = IF scan.last = "word" THEN @ ELSE @ + 1]
  <2>1. /\ DOMAIN scan' = DOMAIN scan /\ scan'.last = "word"
        /\ scan'.out = Append(scan.out, token) /\ scan'.quoted = scan.quoted
    BY <1>8, <1>13
  <2> QED
    BY <1>5, <1>13, <2>1
<1>14. CASE scan.ok /\ scan.last # "quoting"
  BY <1>3, <1>9, <1>10, <1>11, <1>12, <1>13, <1>14 DEF Scan
<1>15. CASE ~scan.ok
  BY <1>2, <1>15 DEF Scan
<1> QED
  BY <1>4, <1>14, <1>15
-----------------------------------------------------------------------------
(* The steps, and the decoder over any number of them.                     *)
LEMMA StackStarts ==
  ASSUME NEW texts \in Seq(Seq(Signs)), StackStart(texts)
  PROVE  StackInv /\ TextInv
<1>1. ScanInv
  BY DEF StackStart, ScanInv, Scanner
<1>2. CountInv
  BY DEF StackStart, CountInv
<1>3. TextInv
  BY DEF StackStart, TextInv
<1> QED
  BY <1>1, <1>2, <1>3 DEF StackInv

LEMMA LiteralTyped ==
  ASSUME NEW elements \in Seq(Seq(Signs))
  PROVE  Literal(elements) \in Seq(Signs)
<1>1. PICK n \in Nat : n = Len(elements)
  OBVIOUS
<1> DEFINE parts == [j \in 1 .. n |-> IF j = 1 THEN elements[j] ELSE <<"comma">> \o elements[j]]
<1>2. "open" \in Signs /\ "comma" \in Signs /\ "close" \in Signs
  BY DEF Signs, Special
<1>3. <<"open">> \in Seq(Signs) /\ <<"comma">> \in Seq(Signs) /\ <<"close">> \in Seq(Signs)
  BY <1>2
<1>4. \A j \in 1 .. n : (IF j = 1 THEN elements[j] ELSE <<"comma">> \o elements[j]) \in Seq(Signs)
  <2>1. \A j \in 1 .. n : elements[j] \in Seq(Signs)
    BY <1>1, ElementOfSeq
  <2> QED
    BY <1>3, <2>1, ConcatProperties
<1>5. parts \in Seq(Seq(Signs))
  BY <1>4
<1>6. Literal(elements) = (<<"open">> \o FlattenSeq(parts)) \o <<"close">>
  BY <1>1 DEF Literal
<1> HIDE DEF parts
<1>7. FlattenSeq(parts) \in Seq(Signs)
  <2>1. Len(parts) \in 0 .. Len(parts)
    BY <1>5
  <2> QED
    BY <1>5, <2>1, FlattenNext
<1>8. <<"open">> \o FlattenSeq(parts) \in Seq(Signs)
  BY <1>3, <1>7, ConcatProperties
<1> QED
  BY <1>3, <1>6, <1>8, ConcatProperties

LEMMA TextKept ==
  ASSUME ScanInv, TextInv, [StackNext]_stackvars
  PROVE  TextInv'
<1> USE DEF TextInv
<1>1. Len(text) \in Nat
  OBVIOUS
<1>2. CASE SendStack
  <2>1. text' \in Seq(Signs)
    BY <1>2, LiteralTyped DEF SendStack
  <2> QED
    BY <1>2, <2>1 DEF SendStack
<1>3. CASE ReadToken
  BY <1>1, <1>3 DEF ReadToken
<1>4. CASE Store
  BY <1>4 DEF Store, ScanInv
<1>5. CASE Reject
  BY <1>5 DEF Reject
<1>6. CASE CountToken
  BY <1>1, <1>6 DEF CountToken
<1>7. CASE Allocate
  BY <1>1, <1>7 DEF Allocate
<1>8. CASE OpenBrace
  BY <1>1, <1>8 DEF OpenBrace, At
<1>9. CASE CloseBrace
  BY <1>9 DEF CloseBrace, At
<1>10. CASE Comma
  BY <1>1, <1>10 DEF Comma, At
<1>11. CASE Skip
  BY <1>1, <1>11 DEF Skip, At
<1>12. CASE UNCHANGED stackvars
  BY <1>12 DEF stackvars
<1> QED
  BY <1>2, <1>3, <1>4, <1>5, <1>6, <1>7, <1>8, <1>9, <1>10, <1>11, <1>12 DEF StackNext

LEMMA StackTyped == TextInv => StackTypeOK
BY DEF TextInv, StackTypeOK, Signs

LEMMA StackKept ==
  ASSUME StackInv, TextInv, [StackNext]_stackvars
  PROVE  StackInv'
<1>1. CASE SendStack
  BY <1>1 DEF SendStack, StackInv, ScanInv, CountInv
<1>2. CASE ReadToken
  <2>1. ScanInv'
    <3>1. cursor \in 1 .. Len(text)
      BY <1>2 DEF ReadToken, TextInv
    <3>2. text[cursor] \in Signs
      BY <3>1, ElementOfSeq DEF TextInv
    <3> QED
      BY <1>2, <3>2, ScanKeeps DEF ReadToken, StackInv
  <2>2. CountInv'
    BY <1>2 DEF ReadToken, StackInv, CountInv
  <2> QED
    BY <2>1, <2>2 DEF StackInv
<1>3. CASE Store
  <2>1. Opened(scan.out)
    BY <1>3 DEF Store, WellFormed, StackInv, ScanInv
  <2>2. /\ Opened(text)' /\ cursor' \in 1 .. Len(text') + 1 /\ cursor' = 1
        /\ count' = 0 /\ elem' = 0 /\ stage' = "count" /\ scan' = scan
    BY <1>3, <2>1 DEF Store, StackInv, CountInv, Opened
  <2>3. Marks(cursor - 1, {"comma", "open"})' = {}
    BY <2>2 DEF Marks
  <2>4. Cardinality({}) = 0
    BY FS_EmptySet
  <2> QED
    BY <2>2, <2>3, <2>4 DEF StackInv, ScanInv, CountInv
<1>4. CASE Reject
  BY <1>4 DEF Reject, StackInv, ScanInv, CountInv
<1>5. CASE CountToken
  <2>1. /\ Opened(text) /\ cursor \in 1 .. Len(text) + 1 /\ cursor <= Len(text) /\ elem = 0
        /\ count = Cardinality(Marks(cursor - 1, {"comma", "open"}))
    BY <1>5 DEF CountToken, StackInv, CountInv
  <2>2. cursor \in Nat \ {0} /\ cursor + 1 \in 1 .. Len(text) + 1 /\ cursor + 1 - 1 = cursor
    BY <2>1 DEF Opened
  <2>3. Marks(cursor - 1, {"comma", "open"})' = Marks(cursor, {"comma", "open"})
    BY <1>5, <2>2 DEF CountToken, Marks
  <2>4. /\ Cardinality(Marks(cursor - 1, {"comma", "open"})) \in Nat
        /\ Cardinality(Marks(cursor, {"comma", "open"}))
             = Cardinality(Marks(cursor - 1, {"comma", "open"}))
                 + IF text[cursor] \in {"comma", "open"} THEN 1 ELSE 0
    <3>1. cursor - 1 \in Nat
      BY <2>2
    <3> QED
      BY <2>2, <3>1, MarksFinite, MarksNext
  <2>5. count' = Cardinality(Marks(cursor, {"comma", "open"}))
    BY <1>5, <2>1, <2>4 DEF CountToken
  <2>6. /\ stage' = "count" /\ text' = text /\ cursor' = cursor + 1 /\ elem' = 0 /\ scan' = scan
    BY <1>5, <2>1 DEF CountToken
  <2> QED
    BY <2>1, <2>2, <2>3, <2>5, <2>6 DEF StackInv, ScanInv, CountInv, Opened
<1>6. CASE Allocate
  <2>1. /\ Opened(text) /\ cursor \in 1 .. Len(text) + 1 /\ cursor > Len(text) /\ elem = 0
        /\ count = Cardinality(Marks(cursor - 1, {"comma", "open"}))
    BY <1>6 DEF Allocate, StackInv, CountInv
  <2>2. cursor - 1 = Len(text) /\ 1 \in 1 .. Len(text) + 1
    BY <2>1 DEF Opened
  <2>3. /\ stage' = "get" /\ text' = text /\ cursor' = 1 /\ elem' = 0 /\ scan' = scan
        /\ count' = count /\ DOMAIN values' = 0 .. count - 1
    BY <1>6, <2>1 DEF Allocate
  <2>4. Marks(cursor - 1, {"comma"})' = {}
    BY <2>3 DEF Marks
  <2>5. Marks(Len(text), {"comma", "open"})' = Marks(Len(text), {"comma", "open"})
    BY <2>3 DEF Marks
  <2>6. Cardinality({}) = 0
    BY FS_EmptySet
  <2> QED
    BY <2>1, <2>2, <2>3, <2>4, <2>5, <2>6 DEF StackInv, ScanInv, CountInv, Opened
<1>7. ASSUME StackInv, stage = "get", cursor <= Len(text),
             text' = text, scan' = scan, count' = count, stage' \in {"get", "done"},
             DOMAIN values' = DOMAIN values,
             stage' = "get" => /\ cursor' = cursor + 1
                               /\ elem' = IF text[cursor] = "comma" THEN elem + 1 ELSE elem
      PROVE  StackInv'
  <2>1. /\ Opened(text) /\ cursor \in 1 .. Len(text) + 1
        /\ count = Cardinality(Marks(Len(text), {"comma", "open"}))
        /\ DOMAIN values = 0 .. count - 1
        /\ elem = Cardinality(Marks(cursor - 1, {"comma"}))
    BY <1>7 DEF StackInv, CountInv
  <2>2. cursor \in Nat \ {0} /\ cursor + 1 \in 1 .. Len(text) + 1 /\ cursor + 1 - 1 = cursor
    BY <1>7, <2>1 DEF Opened
  <2>3. Marks(Len(text), {"comma", "open"})' = Marks(Len(text), {"comma", "open"})
    BY <1>7 DEF Marks
  <2>4. stage' = "get" => Marks(cursor - 1, {"comma"})' = Marks(cursor, {"comma"})
    BY <1>7, <2>2 DEF Marks
  <2>5. /\ Cardinality(Marks(cursor - 1, {"comma"})) \in Nat
        /\ Cardinality(Marks(cursor, {"comma"}))
             = Cardinality(Marks(cursor - 1, {"comma"}))
                 + IF text[cursor] \in {"comma"} THEN 1 ELSE 0
    <3>1. cursor - 1 \in Nat
      BY <2>2
    <3> QED
      BY <2>2, <3>1, MarksFinite, MarksNext
  <2>6. stage' = "get" => elem' = Cardinality(Marks(cursor - 1, {"comma"}))'
    BY <1>7, <2>1, <2>4, <2>5
  <2>7. Opened(text)'
    BY <1>7, <2>1 DEF Opened
  <2>8. count' = Cardinality(Marks(Len(text), {"comma", "open"}))' /\ DOMAIN values' = 0 .. count' - 1
    BY <1>7, <2>1, <2>3
  <2>9. ScanInv'
    BY <1>7 DEF StackInv, ScanInv
  <2>10. stage' = "get" => cursor' \in 1 .. Len(text') + 1
    BY <1>7, <2>2
  <2>11. CountInv'
    BY <1>7, <2>6, <2>7, <2>8, <2>10 DEF CountInv
  <2> QED
    BY <2>9, <2>11 DEF StackInv
(* A value that is set is one that was allocated.                          *)
<1>8. ASSUME stage = "get", cursor <= Len(text), SetValue
      PROVE  DOMAIN values' = DOMAIN values
  <2>1. elem \in DOMAIN values
    BY <1>8, ElemCounted DEF StackInv, CountInv
  <2> QED
    BY <1>8, <2>1 DEF SetValue
<1>9. CASE OpenBrace
  BY <1>7, <1>9 DEF OpenBrace, At
<1>10. CASE CloseBrace
  BY <1>7, <1>8, <1>10 DEF CloseBrace, At
<1>11. CASE Comma
  BY <1>7, <1>8, <1>11 DEF Comma, At
<1>12. CASE Skip
  BY <1>7, <1>12, StackAssumption DEF Skip, At, Special
<1>13. CASE UNCHANGED stackvars
  <2>1. /\ scan' = scan /\ stage' = stage /\ text' = text /\ cursor' = cursor
        /\ count' = count /\ elem' = elem /\ values' = values
    BY <1>13 DEF stackvars
  <2>2. /\ Marks(cursor - 1, {"comma", "open"})' = Marks(cursor - 1, {"comma", "open"})
        /\ Marks(Len(text), {"comma", "open"})' = Marks(Len(text), {"comma", "open"})
        /\ Marks(cursor - 1, {"comma"})' = Marks(cursor - 1, {"comma"})
    BY <2>1 DEF Marks
  <2> QED
    BY <2>1, <2>2 DEF StackInv, ScanInv, CountInv, Opened
<1> QED
  BY <1>1, <1>2, <1>3, <1>4, <1>5, <1>6, <1>9, <1>10, <1>11, <1>12, <1>13 DEF StackNext

(* For stacks of any length and content, and any text Postgres returns of  *)
(* them, the loop that takes the values apart writes no value outside the  *)
(* memory allocated for the count (db_process_entries_postgres).           *)
THEOREM DecoderInBounds == StackSpec => []ValuesInBounds
<1>1. StackInit => StackInv /\ TextInv
  BY StackStarts, StackAssumption DEF StackInit, Signs
<1>2. StackInv /\ TextInv /\ [StackNext]_stackvars => (StackInv /\ TextInv)'
  BY StackKept, TextKept DEF StackInv
<1>3. StackInv => ValuesInBounds
  BY DEF StackInv, CountInv, ValuesInBounds
<1> QED
  BY <1>1, <1>2, <1>3, PTL DEF StackSpec

(* A closing brace ends what Postgres prints.                              *)
Closed(out) == Len(out) \in Nat \ {0} /\ out[Len(out)] = "close"

ClosedInv ==
  /\ scan.ok /\ scan.last = "close" => Closed(scan.out)
  /\ stage \in {"count", "get"} => Closed(text)
  /\ stage = "get" => cursor <= Len(text)

(* The loop over the values reads tokens of the text, never its end, with  *)
(* a closing brace before it, and one of its branches takes each token.    *)
ReadsToBrace ==
  stage = "get" => /\ cursor \in DOMAIN text
                   /\ text[cursor] \in Words \cup Special
                   /\ \E i \in cursor .. Len(text) : text[i] = "close"

(* A step of the loop takes the next token or is its last.                 *)
Advances ==
  stage = "get" => \/ stage' = "done"
                   \/ stage' = "get" /\ text' = text /\ cursor' = cursor + 1

LEMMA ScanCloses ==
  ASSUME ScanInv, ClosedInv, NEW token \in Signs, scan' = Scan(scan, token)
  PROVE  (scan.ok /\ scan.last = "close" => Closed(scan.out))'
<1> SUFFICES ASSUME scan'.ok, scan'.last = "close" PROVE Closed(scan'.out)
  BY DEF Closed
<1>1. scan.out \in Seq(Signs)
      /\ DOMAIN scan = {"ok", "last", "depth", "leaves", "items", "lengths", "quoted", "out"}
  BY DEF ScanInv
<1>2. CASE scan' = scan
  BY <1>2 DEF ClosedInv, Closed
<1>3. CASE scan' = Malformed(scan)
  BY <1>1, <1>3 DEF Malformed
<1>4. CASE scan.ok /\ scan.last = "quoting"
  <2>1. CASE token = "quote"
    <3>1. scan' = [scan EXCEPT !.last = "quoted", !.leaves = @ \cup {scan.depth}, !.items = @ + 1,
                               !.out = @ \o Printed(scan.quoted)]
      BY <1>4, <2>1 DEF Scan
    <3> QED
      BY <1>1, <3>1
  <2>2. CASE token # "quote"
    <3>1. scan' = [scan EXCEPT !.quoted = Append(@, token)]
      BY <1>4, <2>2 DEF Scan
    <3> QED
      BY <1>1, <1>4, <3>1
  <2> QED
    BY <2>1, <2>2
<1>5. CASE scan' = [scan EXCEPT !.last = "open", !.depth = @ + 1, !.items = 0,
                                !.out = Append(@, token)]
  BY <1>1, <1>5
<1>6. CASE scan' = [scan EXCEPT !.last = "quoting", !.quoted = <<>>]
  BY <1>1, <1>6
<1>7. CASE scan' = [scan EXCEPT !.last = "comma", !.out = Append(@, token)]
  BY <1>1, <1>7
<1>8. CASE /\ token = "close"
           /\ scan' = [scan EXCEPT !.last = "close", !.depth = @ - 1, !.out = Append(@, token),
                         !.lengths = IF scan.last \in {"word", "quoted"} THEN @ \cup {scan.items}
                                                                         ELSE @]
  <2>1. scan'.out = Append(scan.out, "close")
    BY <1>1, <1>8
  <2>2. "close" \in Signs
    BY DEF Signs, Special
  <2> QED
    BY <1>1, <2>1, <2>2 DEF Closed
<1>9. CASE scan' = [scan EXCEPT !.last = "word", !.leaves = @ \cup {scan.depth},
                      !.out = Append(@, token),
                      !.items = IF scan.last = "word" THEN @ ELSE @ + 1]
  BY <1>1, <1>9
<1>10. CASE scan.ok /\ scan.last # "quoting"
  BY <1>3, <1>5, <1>6, <1>7, <1>8, <1>9, <1>10 DEF Scan
<1>11. CASE ~scan.ok
  BY <1>2, <1>11 DEF Scan
<1> QED
  BY <1>4, <1>10, <1>11

LEMMA ClosedKept ==
  ASSUME ScanInv, TextInv, ClosedInv, [StackNext]_stackvars
  PROVE  ClosedInv'
<1>1. CASE ReadToken
  <2>1. cursor \in 1 .. Len(text)
    BY <1>1 DEF ReadToken, TextInv
  <2>2. text[cursor] \in Signs
    BY <2>1, ElementOfSeq DEF TextInv
  <2>3. (scan.ok /\ scan.last = "close" => Closed(scan.out))'
    BY <1>1, <2>2, ScanCloses DEF ReadToken
  <2> QED
    BY <1>1, <2>3 DEF ReadToken, ClosedInv
<1>2. CASE Store
  <2>1. Closed(scan.out)
    BY <1>2 DEF Store, WellFormed, ClosedInv
  <2>2. Closed(text') /\ stage' = "count" /\ scan' = scan
    BY <1>2, <2>1 DEF Store
  <2> QED
    BY <2>1, <2>2 DEF ClosedInv, Closed
<1>3. CASE SendStack \/ Reject \/ CountToken
  BY <1>3 DEF SendStack, Reject, CountToken, ClosedInv, Closed
<1>4. CASE Allocate
  <2>1. Len(text) \in Nat \ {0} /\ cursor' = 1 /\ text' = text /\ scan' = scan /\ stage' = "get"
    BY <1>4 DEF Allocate, ClosedInv, Closed
  <2> QED
    BY <1>4, <2>1 DEF Allocate, ClosedInv, Closed
<1>5. CASE CloseBrace
  BY <1>5 DEF CloseBrace, ClosedInv, Closed
<1>6. CASE OpenBrace \/ Comma \/ Skip
  <2>1. /\ stage = "get" /\ stage' = "get" /\ text' = text /\ scan' = scan /\ cursor' = cursor + 1
        /\ text[cursor] \in {"open", "comma", "quote"} \cup Words
    BY <1>6 DEF OpenBrace, Comma, Skip, At
  <2>2. "close" \notin Words
    BY StackAssumption DEF Special
  <2>3. cursor # Len(text)
    BY <2>1, <2>2 DEF ClosedInv, Closed
  <2>4. cursor \in Nat /\ Len(text) \in Nat /\ cursor <= Len(text)
    BY <2>1 DEF ClosedInv, Closed, TextInv
  <2>5. cursor + 1 <= Len(text)
    BY <2>3, <2>4
  <2> QED
    BY <2>1, <2>5 DEF ClosedInv, Closed
<1>7. CASE UNCHANGED stackvars
  BY <1>7 DEF stackvars, ClosedInv, Closed
<1> QED
  BY <1>1, <1>2, <1>3, <1>4, <1>5, <1>6, <1>7 DEF StackNext

(* The loop that takes the values apart reads only tokens of the text and  *)
(* goes on with each until the closing brace, for any text Postgres        *)
(* returns: what DecodeEnds needs beside the fairness of the code.         *)
THEOREM DecoderGoesOn == StackSpec => []ReadsToBrace /\ [][Advances]_stackvars
<1> DEFINE Inv == ScanInv /\ StackInv /\ TextInv /\ ClosedInv
<1>1. StackInit => Inv
  <2> SUFFICES ASSUME NEW texts \in Stacks, StackStart(texts) PROVE Inv
    BY DEF StackInit
  <2>1. StackInv /\ TextInv
    BY StackStarts, StackAssumption DEF Signs
  <2>2. ClosedInv
    BY DEF StackStart, Scanner, ClosedInv
  <2> QED
    BY <2>1, <2>2 DEF StackInv
<1>2. Inv /\ [StackNext]_stackvars => Inv'
  BY StackKept, TextKept, ClosedKept DEF StackInv
<1>3. Inv => ReadsToBrace
  <2> SUFFICES ASSUME Inv, stage = "get"
               PROVE  /\ cursor \in DOMAIN text /\ text[cursor] \in Words \cup Special
                      /\ \E i \in cursor .. Len(text) : text[i] = "close"
    BY DEF ReadsToBrace
  <2>1. cursor \in Nat /\ cursor >= 1 /\ Len(text) \in Nat /\ cursor <= Len(text)
    BY DEF ClosedInv, Closed, TextInv
  <2>2. cursor \in 1 .. Len(text) /\ Len(text) \in cursor .. Len(text)
    BY <2>1
  <2>3. text[cursor] \in Signs /\ DOMAIN text = 1 .. Len(text)
    BY <2>2, ElementOfSeq DEF TextInv
  <2> QED
    BY <2>2, <2>3 DEF ClosedInv, Closed, Signs
<1>4. Inv /\ [StackNext]_stackvars => [Advances]_stackvars
  BY DEF StackNext, SendStack, ReadToken, Store, Reject, CountToken, Allocate, OpenBrace, CloseBrace,
         Comma, Skip, At, Advances
<1> QED
  BY <1>1, <1>2, <1>3, <1>4, PTL DEF StackSpec

-----------------------------------------------------------------------------
(* A stack of words.                                                       *)

(* Where the brace or comma before each element is in a literal, and where *)
(* its end is.                                                             *)
LaidOut(sep, t, elements) ==
  /\ sep \in [1 .. Len(elements) + 1 -> Nat \ {0}]
  /\ sep[1] = 1 /\ sep[Len(elements) + 1] = Len(t) /\ t[Len(t)] = "close"
  /\ \A j \in 1 .. Len(elements) :
       /\ sep[j + 1] = sep[j] + Len(elements[j]) + 1
       /\ sep[j] + Len(elements[j]) < Len(t)
       /\ t[sep[j]] = IF j = 1 THEN "open" ELSE "comma"
       /\ \A k \in 1 .. Len(elements[j]) : t[sep[j] + k] = elements[j][k]

LEMMA Bracketed ==
  ASSUME NEW P, NEW a \in P, NEW b \in P, NEW s \in Seq(P)
  PROVE  LET t == (<<a>> \o s) \o <<b>>
         IN  /\ Len(t) = Len(s) + 2 /\ t[1] = a /\ t[Len(s) + 2] = b
             /\ \A i \in 1 .. Len(s) : t[i + 1] = s[i]
<1>1. PICK n \in Nat : n = Len(s)
  OBVIOUS
<1>2. PICK h \in Seq(P) : h = <<a>> \o s /\ Len(h) = n + 1
  <2>1. <<a>> \in Seq(P) /\ Len(<<a>>) = 1
    OBVIOUS
  <2>2. <<a>> \o s \in Seq(P) /\ Len(<<a>> \o s) = 1 + n
    BY <1>1, <2>1, ConcatProperties
  <2>3. 1 + n = n + 1
    OBVIOUS
  <2> QED
    BY <2>2, <2>3, Zenon
<1>3. h[1] = a /\ \A i \in 1 .. n : h[i + 1] = s[i]
  BY <1>1, <1>2
<1>4. PICK t : t = h \o <<b>> /\ Len(t) = n + 2
  <2>1. <<b>> \in Seq(P) /\ Len(<<b>>) = 1
    OBVIOUS
  <2>2. Len(h \o <<b>>) = n + 1 + 1
    BY <1>2, <2>1, ConcatProperties
  <2>3. n + 1 + 1 = n + 2
    OBVIOUS
  <2> QED
    BY <2>2, <2>3, Zenon
<1>5. \A i \in 1 .. n + 1 : t[i] = h[i]
  BY <1>2, <1>4
<1>6. t[n + 2] = b
  BY <1>2, <1>4
<1>7. t[1] = h[1] /\ \A i \in 1 .. n : t[i + 1] = h[i + 1]
  BY <1>5
<1> QED
  BY <1>1, <1>2, <1>3, <1>4, <1>6, <1>7

LEMMA LiteralLaid ==
  ASSUME NEW elements \in Seq(Seq(Signs)), elements # <<>>
  PROVE  \E sep : LaidOut(sep, Literal(elements), elements)
<1>1. PICK n \in Nat \ {0} : n = Len(elements)
  OBVIOUS
<1> DEFINE parts == [j \in 1 .. n |-> IF j = 1 THEN elements[j] ELSE <<"comma">> \o elements[j]]
<1>2. "open" \in Signs /\ "comma" \in Signs /\ "close" \in Signs
  BY DEF Signs, Special
<1>3. \A j \in 1 .. n : elements[j] \in Seq(Signs) /\ Len(elements[j]) \in Nat
  BY <1>1, ElementOfSeq
<1>4. \A j \in 1 .. n : j # 1 =>
        /\ parts[j] = <<"comma">> \o elements[j] /\ parts[j] \in Seq(Signs)
        /\ Len(parts[j]) = Len(elements[j]) + 1 /\ parts[j][1] = "comma"
        /\ \A k \in 1 .. Len(elements[j]) : parts[j][k + 1] = elements[j][k]
  <2> TAKE j \in 1 .. n
  <2> HAVE j # 1
  <2>1. PICK e \in Seq(Signs) : e = elements[j]
    BY <1>3
  <2>2. parts[j] = <<"comma">> \o e
    BY <2>1
  <2>3. <<"comma">> \in Seq(Signs)
    BY <1>2
  <2>4. PICK p : p = <<"comma">> \o e /\ p \in Seq(Signs)
    BY <2>3, ConcatProperties
  <2>5. Len(p) = Len(e) + 1 /\ p[1] = "comma"
    BY <2>3, <2>4
  <2>6. \A k \in 1 .. Len(e) : p[k + 1] = e[k]
    BY <2>3, <2>4
  <2> HIDE DEF parts
  <2> QED
    BY <2>1, <2>2, <2>4, <2>5, <2>6
<1>5. parts[1] = elements[1] /\ 1 \in 1 .. n
  OBVIOUS
<1>6. parts \in Seq(Seq(Signs)) /\ Len(parts) = n
  <2>1. \A j \in 1 .. n : (IF j = 1 THEN elements[j] ELSE <<"comma">> \o elements[j]) \in Seq(Signs)
    BY <1>3, <1>4
  <2> QED
    BY <2>1
<1>7. Literal(elements) = (<<"open">> \o FlattenSeq(parts)) \o <<"close">>
  BY <1>1 DEF Literal
<1> HIDE DEF parts
<1>8. PICK u : u = [j \in 0 .. n |-> Len(UpTo(parts, j))]
  OBVIOUS
<1>9. PICK f \in Seq(Signs) : f = FlattenSeq(parts) /\ f = UpTo(parts, n)
  <2>1. n \in 0 .. n
    OBVIOUS
  <2> QED
    BY <1>6, <2>1, FlattenNext
<1>10. \A j \in 0 .. n : u[j] \in Nat
  <2> TAKE j \in 0 .. n
  <2>1. UpTo(parts, j) \in Seq(Signs)
    BY <1>6, FlattenNext
  <2> QED
    BY <1>8, <2>1
<1>11. u[0] = 0
  <2>1. u[0] = Len(UpTo(parts, 0)) /\ Len(<<>>) = 0
    BY <1>8
  <2>2. UpTo(parts, 0) = <<>>
    BY <1>6, FlattenNext
  <2> QED
    BY <2>1, <2>2
<1>12. \A j \in 1 .. n :
         /\ u[j] = u[j - 1] + Len(parts[j]) /\ u[j] <= Len(f)
         /\ \A i \in 1 .. Len(parts[j]) : f[u[j - 1] + i] = parts[j][i]
  <2> TAKE j \in 1 .. n
  <2>1. j \in 0 .. n /\ j - 1 \in 0 .. n
    OBVIOUS
  <2>2. u[j] = Len(UpTo(parts, j)) /\ u[j - 1] = Len(UpTo(parts, j - 1))
    BY <1>8, <2>1
  <2>3. /\ Len(UpTo(parts, j)) = Len(UpTo(parts, j - 1)) + Len(parts[j])
        /\ Len(UpTo(parts, j)) <= Len(UpTo(parts, n))
        /\ \A i \in 1 .. Len(parts[j]) : UpTo(parts, n)[Len(UpTo(parts, j - 1)) + i] = parts[j][i]
    BY <1>6, FlattenAt
  <2> QED
    BY <1>9, <2>2, <2>3
<1>13. u[n] = Len(f) /\ Len(f) \in Nat
  BY <1>8, <1>9
<1>14. PICK t : /\ t = Literal(elements)
                /\ Len(t) = Len(f) + 2 /\ t[1] = "open" /\ t[Len(f) + 2] = "close"
                /\ \A i \in 1 .. Len(f) : t[i + 1] = f[i]
  <2>1. PICK all : all = (<<"open">> \o f) \o <<"close">>
    OBVIOUS
  <2>2. /\ Len(all) = Len(f) + 2 /\ all[1] = "open" /\ all[Len(f) + 2] = "close"
        /\ \A i \in 1 .. Len(f) : all[i + 1] = f[i]
    BY <1>2, <1>9, <2>1, Bracketed
  <2>3. all = Literal(elements)
    BY <1>7, <1>9, <2>1, Zenon
  <2> QED
    BY <2>2, <2>3, Zenon
<1>15. PICK sep : sep = [j \in 1 .. n + 1 |-> IF j = 1 THEN 1 ELSE u[j - 1] + 2]
  OBVIOUS
<1>16. sep[1] = 1 /\ sep[n + 1] = Len(f) + 2
  BY <1>13, <1>15
<1>17. \A j \in 1 .. n : sep[j + 1] = u[j] + 2
  BY <1>15
<1>18. \A j \in 1 .. n : j # 1 => sep[j] = u[j - 1] + 2
  BY <1>15
<1>19. sep \in [1 .. n + 1 -> Nat \ {0}]
  <2>1. \A j \in 1 .. n + 1 : (IF j = 1 THEN 1 ELSE u[j - 1] + 2) \in Nat \ {0}
    BY <1>10
  <2> QED
    BY <1>15, <2>1
<1>20. ASSUME NEW j \in 1 .. n
       PROVE  /\ sep[j + 1] = sep[j] + Len(elements[j]) + 1
              /\ sep[j] + Len(elements[j]) < Len(t)
              /\ t[sep[j]] = IF j = 1 THEN "open" ELSE "comma"
              /\ \A k \in 1 .. Len(elements[j]) : t[sep[j] + k] = elements[j][k]
  <2>1. CASE j = 1
    <3>1. PICK len \in Nat : len = Len(elements[1])
      BY <1>3, <1>5
    <3>2. u[1] = len /\ len <= Len(f) /\ \A i \in 1 .. len : f[i] = elements[1][i]
      <4>1. 1 - 1 = 0 /\ \A i \in 1 .. len : 0 + i = i
        OBVIOUS
      <4>2. /\ u[1] = u[0] + len /\ u[1] <= Len(f)
            /\ \A i \in 1 .. len : f[u[0] + i] = elements[1][i]
        BY <1>5, <1>12, <3>1, <4>1
      <4> QED
        BY <1>11, <4>1, <4>2
    <3>3. sep[2] = len + 2 /\ 2 = 1 + 1
      BY <1>5, <1>17, <3>2
    <3>4. ASSUME NEW k \in 1 .. len PROVE t[1 + k] = elements[1][k]
      <4>1. k \in 1 .. Len(f) /\ 1 + k = k + 1
        BY <1>13, <3>2
      <4> QED
        BY <1>14, <3>2, <4>1
    <3>5. 1 + len < Len(t) /\ len + 2 = 1 + len + 1
      BY <1>13, <1>14, <3>2
    <3> QED
      BY <1>14, <1>16, <2>1, <3>1, <3>3, <3>4, <3>5
  <2>2. CASE j # 1
    <3>1. PICK len \in Nat, v \in Nat, m \in Nat :
            len = Len(elements[j]) /\ v = u[j - 1] /\ m = Len(f)
      BY <1>3, <1>10, <1>13
    <3>2. u[j] = v + (len + 1) /\ u[j] <= m
      BY <1>4, <1>12, <2>2, <3>1
    <3>3. sep[j] = v + 2 /\ sep[j + 1] = u[j] + 2
      BY <1>17, <1>18, <2>2, <3>1
    <3>4. \A i \in 1 .. len + 1 : f[v + i] = parts[j][i]
      BY <1>4, <1>12, <2>2, <3>1
    <3>5. \A i \in 1 .. m : t[i + 1] = f[i]
      BY <1>14, <3>1
    <3>6. t[v + 2] = "comma"
      <4>1. v + 1 \in 1 .. m /\ (v + 1) + 1 = v + 2 /\ 1 \in 1 .. len + 1
        BY <3>2
      <4>2. t[(v + 1) + 1] = f[v + 1] /\ f[v + 1] = parts[j][1]
        BY <3>4, <3>5, <4>1
      <4>3. parts[j][1] = "comma"
        BY <1>4, <2>2
      <4> QED
        BY <4>1, <4>2, <4>3
    <3>7. ASSUME NEW k \in 1 .. len PROVE t[(v + 2) + k] = elements[j][k]
      <4>1. /\ v + (k + 1) \in 1 .. m /\ (v + (k + 1)) + 1 = (v + 2) + k
            /\ k + 1 \in 1 .. len + 1
        BY <3>2
      <4>2. t[(v + 2) + k] = f[v + (k + 1)]
        BY <3>5, <4>1
      <4>3. f[v + (k + 1)] = parts[j][k + 1]
        BY <3>4, <4>1
      <4> QED
        BY <1>4, <2>2, <3>1, <4>2, <4>3
    <3>8. u[j] + 2 = (v + 2) + len + 1 /\ (v + 2) + len < m + 2
      BY <3>2
    <3> QED
      BY <1>14, <2>2, <3>1, <3>3, <3>6, <3>7, <3>8
  <2> QED
    BY <2>1, <2>2
<1>21. t[Len(t)] = "close" /\ sep[n + 1] = Len(t)
  BY <1>14, <1>16
<1>22. LaidOut(sep, t, elements)
  BY <1>1, <1>16, <1>19, <1>20, <1>21 DEF LaidOut
<1> QED
  BY <1>14, <1>22

(* The token before c is the k-th of the j-th element, or what is before   *)
(* that element when k is 0.                                               *)
Seen(sep, elements, c, j, k) ==
  j \in 1 .. Len(elements) /\ k \in 0 .. Len(elements[j]) /\ c = sep[j] + k + 1

OfWords(elements) ==
  /\ elements \in Seq(Seq(Signs)) /\ elements # <<>>
  /\ \A j \in 1 .. Len(elements) : Plain(elements[j])

LEMMA FirstToken ==
  ASSUME NEW elements, OfWords(elements), NEW t \in Seq(Signs), NEW sep, LaidOut(sep, t, elements)
  PROVE  t[1] = "open" /\ Len(t) >= 1 /\ Seen(sep, elements, 2, 1, 0)
<1>1. PICK n \in Nat \ {0} : n = Len(elements)
  BY DEF OfWords
<1>2. 1 \in 1 .. n /\ Len(elements[1]) \in Nat /\ sep[1] = 1
  BY <1>1, ElementOfSeq DEF OfWords, LaidOut
<1>3. t[sep[1]] = "open" /\ sep[1] + Len(elements[1]) < Len(t)
  BY <1>1, <1>2 DEF LaidOut
<1>4. 0 \in 0 .. Len(elements[1]) /\ 2 = 1 + 0 + 1 /\ Len(t) \in Nat
  BY <1>2
<1> QED
  BY <1>1, <1>2, <1>3, <1>4 DEF Seen

LEMMA NextToken ==
  ASSUME NEW elements, OfWords(elements), NEW t \in Seq(Signs), NEW sep, LaidOut(sep, t, elements),
         NEW c, NEW j, NEW k, Seen(sep, elements, c, j, k)
  PROVE  /\ c \in 2 .. Len(t)
         /\ \/ t[c] \in Words /\ t[c] \notin Special /\ Seen(sep, elements, c + 1, j, k + 1)
            \/ t[c] = "comma" /\ k = Len(elements[j]) /\ k # 0 /\ Seen(sep, elements, c + 1, j + 1, 0)
            \/ /\ t[c] = "close" /\ k = Len(elements[j]) /\ k # 0
               /\ j = Len(elements) /\ c = Len(t)
<1>1. PICK n \in Nat \ {0} : n = Len(elements)
  BY DEF OfWords
<1>2. j \in 1 .. n /\ elements[j] \in Seq(Signs) /\ Plain(elements[j])
  BY <1>1, ElementOfSeq DEF OfWords, Seen
<1>3. PICK len \in Nat : len = Len(elements[j]) /\ len # 0
  BY <1>2 DEF Plain
<1>4. PICK p \in Nat \ {0}, m \in Nat : p = sep[j] /\ m = Len(t)
  BY <1>1, <1>2 DEF LaidOut
<1>5. /\ sep[j + 1] = p + len + 1 /\ p + len < m
      /\ \A i \in 1 .. len : t[p + i] = elements[j][i]
  BY <1>1, <1>2, <1>3, <1>4 DEF LaidOut
<1>6. k \in 0 .. len /\ c = p + k + 1
  BY <1>3, <1>4 DEF Seen
<1>7. c \in 2 .. m
  BY <1>5, <1>6
<1>8. CASE k < len
  <2>1. k + 1 \in 1 .. len /\ c = p + (k + 1) /\ c + 1 = p + (k + 1) + 1 /\ k + 1 \in 0 .. len
    BY <1>6, <1>8
  <2>2. t[c] = elements[j][k + 1] /\ k + 1 \in DOMAIN elements[j]
    BY <1>2, <1>3, <1>5, <2>1
  <2>3. t[c] \in Words
    BY <1>2, <2>2 DEF Plain
  <2> QED
    BY <1>1, <1>2, <1>3, <1>4, <1>7, <2>1, <2>3, StackAssumption DEF Seen
<1>9. CASE k = len /\ j = n
  <2>1. sep[j + 1] = m /\ t[m] = "close"
    BY <1>1, <1>4, <1>9 DEF LaidOut
  <2>2. c = m
    BY <1>5, <1>6, <1>9, <2>1
  <2> QED
    BY <1>1, <1>3, <1>4, <1>7, <1>9, <2>1, <2>2
<1>10. CASE k = len /\ j # n
  <2>1. j + 1 \in 1 .. n /\ j + 1 # 1
    BY <1>2, <1>10
  <2>2. t[sep[j + 1]] = "comma" /\ Len(elements[j + 1]) \in Nat
    BY <1>1, <2>1, ElementOfSeq DEF LaidOut, OfWords
  <2>3. c = sep[j + 1]
    BY <1>5, <1>6, <1>10
  <2>4. c + 1 = sep[j + 1] + 0 + 1 /\ 0 \in 0 .. Len(elements[j + 1])
    BY <1>7, <2>2, <2>3
  <2> QED
    BY <1>1, <1>3, <1>4, <1>7, <1>10, <2>1, <2>2, <2>3, <2>4 DEF Seen
<1> QED
  BY <1>6, <1>8, <1>9, <1>10

(* What is between the separators of an element is the element.            *)
LEMMA ElementIs ==
  ASSUME NEW elements, OfWords(elements), NEW t \in Seq(Signs), NEW sep, LaidOut(sep, t, elements),
         NEW c, NEW j, Seen(sep, elements, c, j, Len(elements[j]))
  PROVE  SubSeq(t, sep[j] + 1, c - 1) = elements[j]
<1>1. j \in 1 .. Len(elements) /\ elements[j] \in Seq(Signs)
  BY ElementOfSeq DEF OfWords, Seen
<1>2. PICK e \in Seq(Signs), len \in Nat : e = elements[j] /\ len = Len(e)
  BY <1>1
<1>3. PICK p \in Nat \ {0}, m \in Nat : p = sep[j] /\ m = Len(t)
  BY <1>1 DEF LaidOut
<1>4. p + len < m /\ \A i \in 1 .. len : t[p + i] = e[i]
  BY <1>1, <1>2, <1>3 DEF LaidOut
<1>5. c - 1 = p + len
  BY <1>2, <1>3 DEF Seen
<1>6. PICK q : q = SubSeq(t, p + 1, p + len)
  OBVIOUS
<1>7. q \in Seq(Signs) /\ Len(q) = len /\ \A i \in 1 .. len : q[i] = t[p + i]
  <2>1. q = [i \in 1 .. len |-> t[p + i]]
    <3>1. (p + len) - (p + 1) + 1 = len /\ \A i \in 1 .. len : i + (p + 1) - 1 = p + i
      OBVIOUS
    <3>2. p + 1 <= p + len + 1
      OBVIOUS
    <3> QED
      BY <1>6, <3>1, <3>2
  <2>2. \A i \in 1 .. len : p + i \in 1 .. Len(t)
    BY <1>3, <1>4
  <2>3. \A i \in 1 .. len : t[p + i] \in Signs
    BY <2>2, ElementOfSeq
  <2> QED
    BY <2>1, <2>3
<1>8. q = e
  BY <1>2, <1>4, <1>7
<1> QED
  BY <1>2, <1>3, <1>5, <1>6, <1>8

(* What is before c.                                                       *)
Before(t, c) == SubSeq(t, 1, c - 1)

LEMMA BeforeEnds ==
  ASSUME NEW P, NEW t \in Seq(P)
  PROVE  Before(t, 1) = <<>> /\ Before(t, Len(t) + 1) = t
BY DEF Before

LEMMA BeforeNext ==
  ASSUME NEW P, NEW t \in Seq(P), NEW c \in 1 .. Len(t)
  PROVE  Append(Before(t, c), t[c]) = Before(t, c + 1)
<1>1. PICK q \in Seq(P) : q = SubSeq(t, 1, c - 1) /\ Len(q) = c - 1 /\ \A i \in 1 .. c - 1 : q[i] = t[i]
  <2>1. c - 1 \in Nat /\ \A i \in 1 .. c - 1 : i \in 1 .. Len(t)
    OBVIOUS
  <2>2. \A i \in 1 .. c - 1 : t[i] \in P
    BY <2>1, ElementOfSeq
  <2>3. SubSeq(t, 1, c - 1) = [i \in 1 .. c - 1 |-> t[i]]
    BY <2>1
  <2>4. SubSeq(t, 1, c - 1) \in Seq(P) /\ Len(SubSeq(t, 1, c - 1)) = c - 1
    BY <2>1, <2>2, <2>3
  <2> QED
    BY <2>3, <2>4
<1>2. PICK r \in Seq(P) : r = SubSeq(t, 1, c) /\ Len(r) = c /\ \A i \in 1 .. c : r[i] = t[i]
  <2>1. c \in Nat /\ \A i \in 1 .. c : i \in 1 .. Len(t)
    OBVIOUS
  <2>2. \A i \in 1 .. c : t[i] \in P
    BY <2>1, ElementOfSeq
  <2>3. SubSeq(t, 1, c) = [i \in 1 .. c |-> t[i]]
    BY <2>1
  <2>4. SubSeq(t, 1, c) \in Seq(P) /\ Len(SubSeq(t, 1, c)) = c
    BY <2>1, <2>2, <2>3
  <2> QED
    BY <2>3, <2>4
<1>3. t[c] \in P
  BY ElementOfSeq
<1>4. PICK a \in Seq(P) : a = Append(q, t[c]) /\ Len(a) = c
  <2>1. Append(q, t[c]) \in Seq(P) /\ Len(Append(q, t[c])) = (c - 1) + 1
    BY <1>1, <1>3
  <2>2. (c - 1) + 1 = c
    OBVIOUS
  <2> QED
    BY <2>1, <2>2, Zenon
<1>5. \A i \in 1 .. c : a[i] = t[i]
  BY <1>1, <1>3, <1>4
<1>6. a = r
  BY <1>2, <1>4, <1>5
<1>7. Before(t, c) = q
  BY <1>1 DEF Before
<1>8. Before(t, c + 1) = r
  BY <1>2 DEF Before
<1> QED
  BY <1>4, <1>6, <1>7, <1>8

(* Postgres between two tokens of a literal of words.                      *)
Scanning(s, last) ==
  /\ DOMAIN s = {"ok", "last", "depth", "leaves", "items", "lengths", "quoted", "out"}
  /\ s.ok /\ s.last = last /\ s.depth = 1 /\ s.leaves \subseteq {1} /\ s.lengths = {}

LEMMA ScanOpen ==
  Scanning(Scan(Scanner, "open"), "open") /\ Scan(Scanner, "open").out = <<"open">>
<1>1. PICK s : s = Scanner
  OBVIOUS
<1>2. /\ DOMAIN s = {"ok", "last", "depth", "leaves", "items", "lengths", "quoted", "out"}
      /\ s.ok /\ s.last = "start" /\ s.depth = 0 /\ s.leaves = {} /\ s.lengths = {} /\ s.out = <<>>
  BY <1>1 DEF Scanner
<1>3. PICK r : r = Scan(s, "open")
  OBVIOUS
<1>4. r = [s EXCEPT !.last = "open", !.depth = @ + 1, !.items = 0, !.out = Append(@, "open")]
  BY <1>2, <1>3 DEF Scan
<1>5. Scanning(r, "open")
  BY <1>2, <1>4 DEF Scanning
<1>6. r.out = Append(<<>>, "open")
  BY <1>2, <1>4
<1> QED
  BY <1>1, <1>3, <1>5, <1>6

LEMMA ScanWord ==
  ASSUME NEW s, NEW last \in {"open", "comma", "word"}, Scanning(s, last),
         NEW w \in Words, w \notin Special
  PROVE  Scanning(Scan(s, w), "word") /\ Scan(s, w).out = Append(s.out, w)
<1>1. PICK r : r = Scan(s, w)
  OBVIOUS
<1>2. w # "open" /\ w # "close" /\ w # "comma" /\ w # "quote"
  BY DEF Special
<1>3. r = [s EXCEPT !.last = "word", !.leaves = @ \cup {s.depth}, !.out = Append(@, w),
                    !.items = IF s.last = "word" THEN @ ELSE @ + 1]
  BY <1>1, <1>2 DEF Scan, Scanning
<1>4. Scanning(r, "word") /\ r.out = Append(s.out, w)
  BY <1>3 DEF Scanning
<1> QED
  BY <1>1, <1>4

LEMMA ScanComma ==
  ASSUME NEW s, Scanning(s, "word")
  PROVE  Scanning(Scan(s, "comma"), "comma") /\ Scan(s, "comma").out = Append(s.out, "comma")
<1>1. PICK r : r = Scan(s, "comma")
  OBVIOUS
<1>2. "comma" \notin Words
  BY StackAssumption DEF Special
<1>3. r = [s EXCEPT !.last = "comma", !.out = Append(@, "comma")]
  BY <1>1, <1>2 DEF Scan, Scanning
<1>4. Scanning(r, "comma") /\ r.out = Append(s.out, "comma")
  BY <1>3 DEF Scanning
<1> QED
  BY <1>1, <1>4

LEMMA ScanClose ==
  ASSUME NEW s, Scanning(s, "word")
  PROVE  LET r == Scan(s, "close")
         IN  /\ r.ok /\ r.depth = 0 /\ r.last = "close"
             /\ r.leaves \subseteq {1} /\ r.lengths = {s.items}
             /\ r.out = Append(s.out, "close")
<1>1. PICK r : r = Scan(s, "close")
  OBVIOUS
<1>2. "close" \notin Words
  BY StackAssumption DEF Special
<1>3. r = [s EXCEPT !.last = "close", !.depth = @ - 1, !.out = Append(@, "close"),
                    !.lengths = IF s.last \in {"word", "quoted"} THEN @ \cup {s.items} ELSE @]
  BY <1>1, <1>2 DEF Scan, Scanning
<1>4. /\ r.ok /\ r.depth = 0 /\ r.last = "close"
      /\ r.leaves \subseteq {1} /\ r.lengths = {s.items}
      /\ r.out = Append(s.out, "close")
  BY <1>3 DEF Scanning
<1> QED
  BY <1>1, <1>4

-----------------------------------------------------------------------------
(* The way of a stack of words: what Postgres read of it, what was counted *)
(* and what was taken apart, each up to the cursor.                        *)
Meant(j, k) == IF k # 0 THEN "word" ELSE IF j = 1 THEN "open" ELSE "comma"

ScanSeen(sep) ==
  \/ cursor = 1 /\ scan = Scanner
  \/ /\ \E j, k : /\ Seen(sep, stack, cursor, j, k)
                  /\ Scanning(scan, Meant(j, k))
     /\ scan.out = Before(text, cursor)
  \/ /\ cursor = Len(text) + 1
     /\ scan.ok /\ scan.depth = 0 /\ scan.last = "close"
     /\ scan.leaves \subseteq {1} /\ (\E x : scan.lengths = {x})
     /\ scan.out = text

CountSeen(sep) ==
  \/ cursor = 1 /\ count = 0
  \/ \E j, k : Seen(sep, stack, cursor, j, k) /\ count = j
  \/ cursor = Len(text) + 1 /\ count = Len(stack)

GetSeen(sep) ==
  \/ cursor = 1 /\ elem = 0
  \/ \E j, k : /\ Seen(sep, stack, cursor, j, k)
               /\ elem = j - 1 /\ current = sep[j] + 1
               /\ \A i \in 1 .. j - 1 : values[i - 1] = stack[i]

WordsInv(sep) ==
  /\ OfWords(stack)
  /\ LaidOut(sep, Literal(stack), stack)
  /\ stage # "rejected"
  /\ stage = "sent" => cursor = 1 /\ scan = Scanner
  /\ stage # "sent" => text = Literal(stack)
  /\ stage = "stored" => ScanSeen(sep)
  /\ stage = "count" => CountSeen(sep)
  /\ stage = "get" => GetSeen(sep)
  /\ stage \in {"get", "done"} => count = Len(stack)
  /\ stage = "done" => \A i \in 1 .. Len(stack) : values[i - 1] = stack[i]

LEMMA WordsScanned ==
  ASSUME NEW sep, WordsInv(sep), TextInv, ReadToken
  PROVE  WordsInv(sep)'
<1>1. /\ OfWords(stack) /\ LaidOut(sep, text, stack) /\ text \in Seq(Signs)
      /\ cursor \in 1 .. Len(text) /\ ScanSeen(sep)
  BY DEF WordsInv, TextInv, ReadToken
<1>2. /\ stack' = stack /\ text' = text /\ stage' = stage /\ cursor' = cursor + 1
      /\ scan' = Scan(scan, text[cursor]) /\ stage = "stored"
  BY DEF ReadToken
<1>3. scan.out = Before(text, cursor) =>
        Append(scan.out, text[cursor]) = Before(text, cursor + 1)
  BY <1>1, BeforeNext
<1>4. ScanSeen(sep)'
  <2>1. CASE cursor = 1 /\ scan = Scanner
    <3>1. text[cursor] = "open" /\ Seen(sep, stack, 2, 1, 0)
      BY <1>1, <2>1, FirstToken
    <3>2. Scanning(scan', "open") /\ scan'.out = Append(scan.out, "open")
      <4>1. scan.out = <<>> /\ Append(<<>>, "open") = <<"open">>
        BY <2>1 DEF Scanner
      <4> QED
        BY <1>2, <2>1, <3>1, <4>1, ScanOpen
    <3>3. scan.out = Before(text, cursor)
      BY <1>1, <2>1, BeforeEnds DEF Scanner
    <3>4. cursor + 1 = 2 /\ Meant(1, 0) = "open"
      BY <2>1 DEF Meant
    <3> QED
      BY <1>2, <1>3, <3>1, <3>2, <3>3, <3>4 DEF ScanSeen
  <2>2. ASSUME NEW j, NEW k, Seen(sep, stack, cursor, j, k), Scanning(scan, Meant(j, k)),
               scan.out = Before(text, cursor)
        PROVE  ScanSeen(sep)'
    <3>1. CASE text[cursor] \in Words /\ text[cursor] \notin Special /\ Seen(sep, stack, cursor + 1, j, k + 1)
      <4>1. Scanning(scan', "word") /\ scan'.out = Before(text, cursor + 1)
        BY <1>2, <1>3, <2>2, <3>1, ScanWord DEF Meant
      <4>2. Meant(j, k + 1) = "word"
        BY <2>2 DEF Meant, Seen
      <4>3. \E y, z : Seen(sep, stack, cursor + 1, y, z) /\ Scanning(scan', Meant(y, z))
        BY <3>1, <4>1, <4>2
      <4> QED
        BY <1>2, <4>1, <4>3 DEF ScanSeen
    <3>2. CASE text[cursor] = "comma" /\ k # 0 /\ Seen(sep, stack, cursor + 1, j + 1, 0)
      <4>1. Scanning(scan', "comma") /\ scan'.out = Before(text, cursor + 1)
        BY <1>2, <1>3, <2>2, <3>2, ScanComma DEF Meant
      <4>2. Meant(j + 1, 0) = "comma"
        BY <2>2 DEF Meant, Seen
      <4>3. \E y, z : Seen(sep, stack, cursor + 1, y, z) /\ Scanning(scan', Meant(y, z))
        BY <3>2, <4>1, <4>2
      <4> QED
        BY <1>2, <4>1, <4>3 DEF ScanSeen
    <3>3. CASE text[cursor] = "close" /\ k # 0 /\ cursor = Len(text)
      <4>1. /\ scan'.ok /\ scan'.depth = 0 /\ scan'.last = "close"
            /\ scan'.leaves \subseteq {1} /\ scan'.lengths = {scan.items}
            /\ scan'.out = Before(text, cursor + 1)
        BY <1>2, <1>3, <2>2, <3>3, ScanClose DEF Meant
      <4>2. Before(text, cursor + 1) = text
        BY <1>1, <3>3, BeforeEnds
      <4> QED
        BY <1>2, <3>3, <4>1, <4>2 DEF ScanSeen
    <3>4. /\ OfWords(stack) /\ text \in Seq(Signs) /\ LaidOut(sep, text, stack)
          /\ Seen(sep, stack, cursor, j, k)
      BY <1>1, <2>2
    <3>5. \/ text[cursor] \in Words /\ text[cursor] \notin Special /\ Seen(sep, stack, cursor + 1, j, k + 1)
          \/ /\ text[cursor] = "comma" /\ k = Len(stack[j]) /\ k # 0
             /\ Seen(sep, stack, cursor + 1, j + 1, 0)
          \/ /\ text[cursor] = "close" /\ k = Len(stack[j]) /\ k # 0
             /\ j = Len(stack) /\ cursor = Len(text)
      BY ONLY <3>4, NextToken
    <3> QED
      BY <3>1, <3>2, <3>3, <3>5
  <2>3. cursor # Len(text) + 1
    BY <1>1
  <2> QED
    BY <1>1, <2>1, <2>2, <2>3 DEF ScanSeen
<1> QED
  BY <1>2, <1>4 DEF WordsInv

LEMMA WordsCounted ==
  ASSUME NEW sep, WordsInv(sep), TextInv, CountToken
  PROVE  WordsInv(sep)'
<1>1. /\ OfWords(stack) /\ LaidOut(sep, text, stack) /\ text \in Seq(Signs)
      /\ cursor \in 1 .. Len(text) /\ CountSeen(sep)
  BY DEF WordsInv, TextInv, CountToken
<1>2. /\ stack' = stack /\ text' = text /\ stage' = stage /\ cursor' = cursor + 1
      /\ count' = (IF text[cursor] \in {"comma", "open"} THEN count + 1 ELSE count)
      /\ stage = "count"
  BY DEF CountToken
<1>3. CountSeen(sep)'
  <2>1. CASE cursor = 1 /\ count = 0
    <3>1. text[cursor] = "open" /\ Seen(sep, stack, 2, 1, 0)
      BY <1>1, <2>1, FirstToken
    <3>2. count' = 1 /\ cursor' = 2
      BY <1>2, <2>1, <3>1
    <3> QED
      BY <1>2, <3>1, <3>2 DEF CountSeen
  <2>2. ASSUME NEW j, NEW k, Seen(sep, stack, cursor, j, k), count = j
        PROVE  CountSeen(sep)'
    <3>1. CASE text[cursor] \in Words /\ text[cursor] \notin Special /\ Seen(sep, stack, cursor + 1, j, k + 1)
      <4>1. count' = j
        BY <1>2, <2>2, <3>1 DEF Special
      <4> QED
        BY <1>2, <3>1, <4>1 DEF CountSeen
    <3>2. CASE text[cursor] = "comma" /\ Seen(sep, stack, cursor + 1, j + 1, 0)
      <4>1. count' = j + 1
        BY <1>2, <2>2, <3>2
      <4> QED
        BY <1>2, <3>2, <4>1 DEF CountSeen
    <3>3. CASE text[cursor] = "close" /\ j = Len(stack) /\ cursor = Len(text)
      BY <1>2, <2>2, <3>3 DEF CountSeen
    <3>4. /\ OfWords(stack) /\ text \in Seq(Signs) /\ LaidOut(sep, text, stack)
          /\ Seen(sep, stack, cursor, j, k)
      BY <1>1, <2>2
    <3>5. \/ text[cursor] \in Words /\ text[cursor] \notin Special /\ Seen(sep, stack, cursor + 1, j, k + 1)
          \/ /\ text[cursor] = "comma" /\ k = Len(stack[j]) /\ k # 0
             /\ Seen(sep, stack, cursor + 1, j + 1, 0)
          \/ /\ text[cursor] = "close" /\ k = Len(stack[j]) /\ k # 0
             /\ j = Len(stack) /\ cursor = Len(text)
      BY ONLY <3>4, NextToken
    <3> QED
      BY <3>1, <3>2, <3>3, <3>5
  <2>3. cursor # Len(text) + 1
    BY <1>1
  <2> QED
    BY <1>1, <2>1, <2>2, <2>3 DEF CountSeen
<1> QED
  BY <1>2, <1>3 DEF WordsInv

(* What the loops meet after a token that was seen.                        *)
LEMMA Met ==
  ASSUME NEW sep, WordsInv(sep), TextInv, stage # "sent",
         NEW j, NEW k, Seen(sep, stack, cursor, j, k)
  PROVE  /\ cursor \in 2 .. Len(text)
         /\ \/ /\ text[cursor] \in Words /\ text[cursor] \notin Special
               /\ Seen(sep, stack, cursor + 1, j, k + 1)
            \/ /\ text[cursor] = "comma" /\ k = Len(stack[j])
               /\ Seen(sep, stack, cursor + 1, j + 1, 0)
            \/ text[cursor] = "close" /\ k = Len(stack[j]) /\ j = Len(stack)
<1>1. /\ OfWords(stack) /\ text \in Seq(Signs) /\ LaidOut(sep, text, stack)
      /\ Seen(sep, stack, cursor, j, k)
  BY DEF WordsInv, TextInv
<1> QED
  BY ONLY <1>1, NextToken

LEMMA MetFirst ==
  ASSUME NEW sep, WordsInv(sep), TextInv, stage # "sent"
  PROVE  text[1] = "open" /\ Len(text) >= 1 /\ Seen(sep, stack, 2, 1, 0)
BY FirstToken DEF WordsInv, TextInv

LEMMA WordsPassed ==
  ASSUME NEW sep, WordsInv(sep), StackInv, TextInv, Store \/ Reject \/ Allocate
  PROVE  WordsInv(sep)'
<1>1. /\ stage # "sent" /\ cursor > Len(text) /\ Len(text) \in Nat
      /\ text[1] = "open" /\ Len(text) >= 1
  BY MetFirst DEF Store, Reject, Allocate, TextInv
<1>2. \A j, k : ~Seen(sep, stack, cursor, j, k)
  BY <1>1, Met
<1>3. CASE Store
  <2>1. scan.out = text
    BY <1>1, <1>2, <1>3 DEF Store, WordsInv, ScanSeen
  <2> QED
    BY <1>3, <2>1 DEF Store, WordsInv, CountSeen, StackInv, CountInv
<1>4. CASE Reject
  <2>1. WellFormed
    BY <1>1, <1>2, <1>4 DEF Reject, WordsInv, ScanSeen, WellFormed
  <2> QED
    BY <1>4, <2>1 DEF Reject
<1>5. CASE Allocate
  <2>1. count = Len(stack)
    BY <1>1, <1>2, <1>5 DEF Allocate, WordsInv, CountSeen
  <2> QED
    BY <1>5, <2>1 DEF Allocate, WordsInv, GetSeen, StackInv, CountInv
<1> QED
  BY <1>3, <1>4, <1>5

(* The values that were set, with the one that is set now.                 *)
LEMMA WordSet ==
  ASSUME NEW sep, WordsInv(sep), StackInv, TextInv, stage = "get", SetValue,
         NEW j, Seen(sep, stack, cursor, j, Len(stack[j])),
         elem = j - 1, current = sep[j] + 1,
         \A i \in 1 .. j - 1 : values[i - 1] = stack[i]
  PROVE  \A i \in 1 .. j : values'[i - 1] = stack[i]
<1>1. /\ OfWords(stack) /\ text \in Seq(Signs) /\ LaidOut(sep, text, stack)
      /\ Seen(sep, stack, cursor, j, Len(stack[j]))
  BY DEF WordsInv, TextInv
<1>2. SubSeq(text, current, cursor - 1) = stack[j]
  BY <1>1, ElementIs
<1>3. j \in 1 .. Len(stack) /\ Len(stack) \in Nat /\ DOMAIN values = 0 .. Len(stack) - 1
  BY DEF Seen, StackInv, CountInv, TextInv, WordsInv
<1>4. values'[j - 1] = stack[j]
  BY <1>2, <1>3 DEF SetValue
<1>5. ASSUME NEW i \in 1 .. j - 1 PROVE values'[i - 1] = stack[i]
  <2>1. i - 1 \in DOMAIN values /\ i - 1 # elem
    BY <1>3
  <2> QED
    BY <2>1 DEF SetValue
<1> QED
  BY <1>3, <1>4, <1>5

LEMMA WordsTaken ==
  ASSUME NEW sep, WordsInv(sep), StackInv, TextInv,
         OpenBrace \/ CloseBrace \/ Comma \/ Skip
  PROVE  WordsInv(sep)'
<1>1. /\ stage = "get" /\ text[1] = "open" /\ Seen(sep, stack, 2, 1, 0)
      /\ GetSeen(sep) /\ stack' = stack /\ text' = text /\ scan' = scan /\ count' = count
  BY MetFirst DEF OpenBrace, CloseBrace, Comma, Skip, At, WordsInv
<1>2. "open" \notin Words /\ "comma" \notin Words /\ "close" \notin Words
  BY StackAssumption DEF Special
<1>3. CASE OpenBrace
  <2>1. text[cursor] = "open" /\ stage' = stage /\ cursor' = cursor + 1 /\ current' = cursor + 1
        /\ elem' = elem /\ values' = values
    BY <1>3 DEF OpenBrace, At
  <2>2. \A j, k : ~Seen(sep, stack, cursor, j, k)
    BY <1>1, <1>2, <2>1, Met
  <2>3. cursor = 1 /\ elem = 0
    BY <1>1, <2>2 DEF GetSeen
  <2>4. /\ cursor' = 2 /\ elem' = 1 - 1 /\ current' = sep[1] + 1
        /\ \A i \in 1 .. 1 - 1 : values'[i - 1] = stack[i]
    BY <1>1, <2>1, <2>3 DEF WordsInv, LaidOut
  <2>5. GetSeen(sep)'
    BY <1>1, <2>4 DEF GetSeen
  <2> QED
    BY <1>1, <2>1, <2>5 DEF WordsInv
<1>4. CASE CloseBrace \/ Comma \/ Skip
  <2>1. text[cursor] # "open"
    BY <1>2, <1>4 DEF CloseBrace, Comma, Skip, At
  <2>2. PICK j, k : /\ Seen(sep, stack, cursor, j, k)
                    /\ elem = j - 1 /\ current = sep[j] + 1
                    /\ \A i \in 1 .. j - 1 : values[i - 1] = stack[i]
    BY <1>1, <2>1 DEF GetSeen
  <2>3. CASE Skip
    <3>1. /\ text[cursor] \in Words \cup {"quote"} /\ cursor' = cursor + 1 /\ stage' = stage
          /\ elem' = elem /\ current' = current /\ values' = values
      BY <2>3 DEF Skip, At
    <3>2. Seen(sep, stack, cursor + 1, j, k + 1)
      BY <1>1, <1>2, <2>2, <3>1, Met
    <3>3. GetSeen(sep)'
      BY <1>1, <2>2, <3>1, <3>2 DEF GetSeen
    <3> QED
      BY <1>1, <3>1, <3>3 DEF WordsInv
  <2>4. CASE Comma
    <3>1. /\ text[cursor] = "comma" /\ SetValue /\ cursor' = cursor + 1 /\ stage' = stage
          /\ elem' = elem + 1 /\ current' = cursor + 1
      BY <2>4 DEF Comma, At
    <3>2. k = Len(stack[j]) /\ Seen(sep, stack, cursor + 1, j + 1, 0)
      BY <1>1, <1>2, <2>2, <3>1, Met
    <3>3. \A i \in 1 .. j : values'[i - 1] = stack[i]
      BY <1>1, <2>2, <3>1, <3>2, WordSet
    <3>4. elem' = (j + 1) - 1 /\ current' = sep[j + 1] + 1 /\ 1 .. j = 1 .. (j + 1) - 1
      BY <2>2, <3>1, <3>2 DEF Seen, WordsInv, LaidOut
    <3>5. GetSeen(sep)'
      BY <1>1, <3>1, <3>2, <3>3, <3>4 DEF GetSeen
    <3> QED
      BY <1>1, <3>1, <3>5 DEF WordsInv
  <2>5. CASE CloseBrace
    <3>1. text[cursor] = "close" /\ SetValue /\ stage' = "done"
      BY <2>5 DEF CloseBrace, At
    <3>2. k = Len(stack[j]) /\ j = Len(stack)
      BY <1>1, <1>2, <2>2, <3>1, Met
    <3>3. \A i \in 1 .. j : values'[i - 1] = stack[i]
      BY <1>1, <2>2, <3>1, <3>2, WordSet
    <3> QED
      BY <1>1, <3>1, <3>2, <3>3 DEF WordsInv
  <2> QED
    BY <1>4, <2>3, <2>4, <2>5
<1> QED
  BY <1>3, <1>4

LEMMA WordsKept ==
  ASSUME NEW sep, WordsInv(sep), StackInv, TextInv, [StackNext]_stackvars
  PROVE  WordsInv(sep)'
<1>1. CASE SendStack
  BY <1>1 DEF SendStack, WordsInv, ScanSeen
<1>2. CASE UNCHANGED stackvars
  BY <1>2 DEF stackvars, WordsInv, ScanSeen, CountSeen, GetSeen
<1> QED
  BY <1>1, <1>2, WordsScanned, WordsCounted, WordsPassed, WordsTaken DEF StackNext

(* A stack of words stays one, which its separators tell apart; any other  *)
(* is none for ever.                                                       *)
OnlyWordsInv == OfWords(stack) => \E sep : WordsInv(sep)

LEMMA OnlyWordsStarts ==
  ASSUME NEW texts \in Seq(Seq(Signs)), StackStart(texts)
  PROVE  OnlyWordsInv
<1> SUFFICES ASSUME OfWords(stack) PROVE \E sep : WordsInv(sep)
  BY DEF OnlyWordsInv
<1>1. stack = texts /\ stage = "sent" /\ cursor = 1 /\ scan = Scanner
  BY DEF StackStart
<1>2. PICK sep : LaidOut(sep, Literal(stack), stack)
  BY LiteralLaid DEF OfWords
<1>3. WordsInv(sep)
  BY <1>1, <1>2 DEF WordsInv
<1> QED
  BY <1>3

LEMMA OnlyWordsKept ==
  ASSUME OnlyWordsInv, StackInv, TextInv, [StackNext]_stackvars
  PROVE  OnlyWordsInv'
<1>1. stack' = stack
  BY DEF StackNext, SendStack, ReadToken, Store, Reject, CountToken, Allocate,
         OpenBrace, CloseBrace, Comma, Skip, stackvars
<1> SUFFICES ASSUME OfWords(stack) PROVE \E sep : WordsInv(sep)'
  BY <1>1 DEF OnlyWordsInv
<1>2. PICK sep : WordsInv(sep)
  BY DEF OnlyWordsInv
<1>3. WordsInv(sep)'
  BY <1>2, WordsKept
<1> QED
  BY <1>3

(* A stack of words of any number and length comes back from Postgres and  *)
(* from the two loops as it was sent (db_exec_function_postgres,           *)
(* db_process_entries_postgres).                                           *)
THEOREM WordsComeBack == StackSpec => []PlainRoundTrip
<1>1. StackInit => StackInv /\ TextInv /\ OnlyWordsInv
  <2> SUFFICES ASSUME StackInit PROVE StackInv /\ TextInv /\ OnlyWordsInv
    OBVIOUS
  <2>1. PICK texts \in Stacks : StackStart(texts)
    BY DEF StackInit
  <2>2. texts \in Seq(Seq(Signs))
    BY StackAssumption DEF Signs
  <2> QED
    BY <2>1, <2>2, StackStarts, OnlyWordsStarts
<1>2. StackInv /\ TextInv /\ OnlyWordsInv /\ [StackNext]_stackvars
        => (StackInv /\ TextInv /\ OnlyWordsInv)'
  BY StackKept, TextKept, OnlyWordsKept DEF StackInv
<1>3. TextInv /\ OnlyWordsInv => PlainRoundTrip
  <2> SUFFICES ASSUME TextInv, OnlyWordsInv, stage \in {"done", "rejected"}, stack # <<>>,
                      \A j \in DOMAIN stack : Plain(stack[j])
               PROVE  /\ stage = "done"
                      /\ count = Len(stack)
                      /\ \A j \in DOMAIN stack : values[j - 1] = stack[j]
    BY DEF PlainRoundTrip
  <2>1. DOMAIN stack = 1 .. Len(stack)
    BY DEF TextInv
  <2>2. OfWords(stack)
    BY <2>1 DEF OfWords, TextInv
  <2>3. PICK sep : WordsInv(sep)
    BY <2>2 DEF OnlyWordsInv
  <2> QED
    BY <2>1, <2>3 DEF WordsInv
<1> QED
  BY <1>1, <1>2, <1>3, PTL DEF StackSpec

-----------------------------------------------------------------------------
(* JsonEntries. *)

(* What a piece may be: a character, a value, what is left of a text, or   *)
(* the number of a column, for its name.                                   *)
Whats ==
  {"quote", ":", ",", "[", "]", "{", "}", "text", "textWithQuotes", "null", "integer", "cut"}
  \cup Nat
Pieces == [what : Whats, bytes : Nat]

LEMMA BytesAdds ==
  ASSUME NEW t, IsFiniteSet(DOMAIN t)
  PROVE  \E it : Adds(it, DOMAIN t, [i \in DOMAIN t |-> t[i].bytes], 0) /\ Bytes(t) = it[DOMAIN t]
<1> DEFINE g == [i \in DOMAIN t |-> t[i].bytes]
           Rec(it) == it = [s \in SUBSET DOMAIN t |->
                              IF s = {} THEN 0
                              ELSE t[CHOOSE x \in s : TRUE].bytes + it[s \ {CHOOSE x \in s : TRUE}]]
           sum == CHOOSE it : Rec(it)
<1>1. Bytes(t) = sum[DOMAIN t]
  BY DEF Bytes, FoldSeq, FoldFunction, FoldFunctionOnSet, MapThenFoldSet
<1>2. ASSUME NEW it PROVE Adds(it, DOMAIN t, g, 0) <=> Rec(it)
  <2>1. ASSUME NEW s \in SUBSET DOMAIN t, s # {} PROVE g[Some(s)] = t[Some(s)].bytes
    BY <2>1 DEF Some
  <2> QED
    BY <2>1 DEF Adds, Some
<1>3. PICK it : Adds(it, DOMAIN t, g, 0)
  BY AddsExists
<1> HIDE DEF g, Rec
<1>4. Adds(sum, DOMAIN t, g, 0)
  BY <1>2, <1>3
<1> HIDE DEF sum
<1> QED
  BY <1>1, <1>4 DEF g

(* The bytes of the pieces up to one of them.                              *)
LEMMA BytesNext ==
  ASSUME NEW t \in Seq(Pieces)
  PROVE  /\ Bytes(SubSeq(t, 1, 0)) = 0 /\ Bytes(t) = Bytes(SubSeq(t, 1, Len(t)))
         /\ \A k \in 0 .. Len(t) : Bytes(SubSeq(t, 1, k)) \in Nat
         /\ \A k \in 1 .. Len(t) :
              Bytes(SubSeq(t, 1, k)) = Bytes(SubSeq(t, 1, k - 1)) + t[k].bytes
<1>1. PICK n \in Nat : n = Len(t) /\ DOMAIN t = 1 .. n /\ IsFiniteSet(1 .. n)
  BY FS_Interval
<1>2. PICK g : g = [i \in DOMAIN t |-> t[i].bytes]
  OBVIOUS
<1>3. ASSUME NEW i \in 1 .. n PROVE t[i] \in Pieces /\ g[i] = t[i].bytes /\ t[i].bytes \in Nat
  <2>1. t[i] \in Pieces
    BY <1>1, ElementOfSeq
  <2> QED
    BY <1>1, <1>2, <2>1 DEF Pieces
<1>4. g \in [1 .. n -> Nat]
  BY <1>1, <1>2, <1>3
<1>5. PICK it, none : none \in Nat /\ none = 0 /\ Adds(it, 1 .. n, g, none)
  BY <1>1, <1>2, AddsExists
<1>6. /\ it[{}] = none
      /\ \A s \in SUBSET (1 .. n) : it[s] \in Nat /\ \A y \in s : it[s] = g[y] + it[s \ {y}]
  <2>1. PICK T : T = 1 .. n
    OBVIOUS
  <2>2. IsFiniteSet(T) /\ g \in [T -> Nat] /\ none \in Nat /\ Adds(it, T, g, none)
    BY <1>1, <1>4, <1>5, <2>1
  <2>3. /\ it[{}] = none
        /\ \A s \in SUBSET T : it[s] \in Nat /\ \A y \in s : it[s] = g[y] + it[s \ {y}]
    BY ONLY <2>2, AddsUp
  <2> QED
    BY <2>1, <2>3
<1>7. ASSUME NEW k \in 0 .. n PROVE Bytes(SubSeq(t, 1, k)) = it[1 .. k]
  <2>1. PICK u \in Seq(Pieces) :
          u = SubSeq(t, 1, k) /\ DOMAIN u = 1 .. k /\ \A i \in 1 .. k : u[i] = t[i]
    <3>1. /\ SubSeq(t, 1, k) \in Seq(Pieces) /\ Len(SubSeq(t, 1, k)) = k
          /\ \A i \in 1 .. k : SubSeq(t, 1, k)[i] = t[i]
      BY <1>1
    <3>2. DOMAIN SubSeq(t, 1, k) = 1 .. k
      BY <3>1, LenProperties
    <3> QED
      BY <3>1, <3>2
  <2>2. PICK h : h = [i \in DOMAIN u |-> u[i].bytes]
    OBVIOUS
  <2>3. IsFiniteSet(1 .. k) /\ 1 .. k \subseteq 1 .. n
    BY <1>1, FS_Interval
  <2>4. PICK sum : Adds(sum, 1 .. k, h, none) /\ Bytes(u) = sum[1 .. k]
    BY <1>5, <2>1, <2>2, <2>3, BytesAdds
  <2>5. \A i \in 1 .. k : h[i] = g[i]
    BY <1>3, <2>1, <2>2, <2>3
  <2>6. \A r \in SUBSET (1 .. k) : sum[r] = it[r]
    <3>1. PICK T, R : T = 1 .. n /\ R = 1 .. k
      OBVIOUS
    <3>2. /\ IsFiniteSet(T) /\ R \in SUBSET T /\ \A x \in R : h[x] = g[x]
          /\ Adds(sum, R, h, none) /\ Adds(it, T, g, none)
      BY <1>1, <1>5, <2>3, <2>4, <2>5, <3>1
    <3>3. \A r \in SUBSET R : sum[r] = it[r]
      BY ONLY <3>2, AddsSame
    <3> QED
      BY <3>1, <3>3
  <2> QED
    BY <2>1, <2>4, <2>6
<1>8. ASSUME NEW k \in 1 .. n PROVE it[1 .. k] = g[k] + it[1 .. k - 1]
  <2>1. 1 .. k \in SUBSET (1 .. n) /\ k \in 1 .. k /\ (1 .. k) \ {k} = 1 .. k - 1
    BY <1>1
  <2> QED
    BY <1>6, <2>1
<1>9. ASSUME NEW k \in 0 .. n PROVE it[1 .. k] \in Nat
  <2>1. 1 .. k \in SUBSET (1 .. n)
    BY <1>1
  <2> QED
    BY <1>6, <2>1
<1>10. it[1 .. 0] = 0
  <2>1. 1 .. 0 = {}
    OBVIOUS
  <2> QED
    BY <1>5, <1>6, <2>1
<1>11. ASSUME NEW k \in 1 .. n
       PROVE  Bytes(SubSeq(t, 1, k)) = Bytes(SubSeq(t, 1, k - 1)) + t[k].bytes
  <2>1. k \in 0 .. n /\ k - 1 \in 0 .. n
    BY <1>1
  <2>2. it[1 .. k - 1] \in Nat /\ g[k] = t[k].bytes /\ t[k].bytes \in Nat
    BY <1>3, <1>9, <2>1
  <2> QED
    BY <1>7, <1>8, <2>1, <2>2
<1>12. Bytes(SubSeq(t, 1, 0)) = 0
  BY <1>1, <1>7, <1>10
<1>13. Bytes(t) = Bytes(SubSeq(t, 1, Len(t)))
  BY SubSeqFull
<1> QED
  BY <1>1, <1>7, <1>9, <1>11, <1>12, <1>13

LEMMA PieceTyped ==
  ASSUME NEW what \in Whats, NEW n \in Nat
  PROVE  Piece(what, n) \in Pieces
BY DEF Piece, Pieces

(* What vsnprintf cuts off: nothing of a text that fits.                   *)
LEMMA CutIs ==
  ASSUME NEW t \in Seq(Pieces), NEW limit_ \in Nat \ {0}
  PROVE  /\ Cut(t, limit_) \in Seq(Pieces)
         /\ (\A k \in 1 .. Len(t) : Bytes(SubSeq(t, 1, k)) <= limit_ - 1) => Cut(t, limit_) = t
<1> DEFINE upto(k) == Bytes(SubSeq(t, 1, k))
           before(k) == Bytes(SubSeq(t, 1, k - 1))
           I == {i \in 1 .. Len(t) : upto(i) > limit_ - 1}
           over == IF I # {} THEN Min(I) ELSE 0
<1>1. /\ Len(t) \in Nat /\ DOMAIN t = 1 .. Len(t) /\ upto(0) = 0
      /\ \A k \in 0 .. Len(t) : upto(k) \in Nat
      /\ \A k \in 1 .. Len(t) : (k + 1) - 1 = k
  BY BytesNext
<1>2. Cut(t, limit_) = IF over = 0 THEN t
                       ELSE Append(SubSeq(t, 1, over - 1), Piece("cut", limit_ - 1 - before(over)))
  <2> DEFINE f == [k \in DOMAIN t |-> before(k + 1) > limit_ - 1]
  <2>1. Len(f) = Len(t) /\ \A i \in 1 .. Len(t) : f[i] <=> upto(i) > limit_ - 1
    <3>1. f = [k \in 1 .. Len(t) |-> before(k + 1) > limit_ - 1]
      BY <1>1
    <3>2. \A i \in 1 .. Len(t) : f[i] <=> upto(i) > limit_ - 1
      BY <1>1
    <3>3. DOMAIN f = 1 .. Len(t)
      BY <1>1
    <3> HIDE DEF f
    <3> QED
      BY <1>1, <3>2, <3>3
  <2>2. SelectInSeq(f, LAMBDA b : b) = over
    <3>1. {i \in 1 .. Len(f) : f[i]} = I
      BY <2>1
    <3> HIDE DEF f, I
    <3> QED
      BY <3>1 DEF SelectInSeq
  <2> QED
    BY <2>2 DEF Cut
<1> HIDE DEF upto, before
<1>3. CASE I = {}
  <2>1. over = 0
    BY <1>3
  <2> QED
    BY <1>2, <2>1
<1>4. CASE I # {}
  <2>1. PICK n \in I : \A m \in I : n <= m
    <3>1. I \in SUBSET Nat
      OBVIOUS
    <3> QED
      BY <1>4, <3>1, NatMin
  <2>2. over = n
    <3>1. \A m \in I : (\A k \in I : m <= k) => m = n
      BY <2>1
    <3> HIDE DEF I
    <3> QED
      BY <1>4, <2>1, <3>1 DEF Min
  <2>3. n \in 1 .. Len(t) /\ n # 0 /\ upto(n) > limit_ - 1
    BY <2>1
  <2>4. before(n) \in Nat /\ before(n) <= limit_ - 1
    <3>1. before(n) = upto(n - 1) /\ n - 1 \in 0 .. Len(t)
      BY <1>1, <2>3 DEF upto, before
    <3>2. CASE n = 1
      BY <1>1, <3>1, <3>2
    <3>3. CASE n # 1
      <4>1. n - 1 \in 1 .. Len(t) /\ ~(n <= n - 1)
        BY <1>1, <2>3, <3>3
      <4>2. n - 1 \notin I
        BY <2>1, <4>1
      <4> QED
        BY <1>1, <3>1, <4>1, <4>2
    <3> QED
      BY <3>2, <3>3
  <2>5. Piece("cut", limit_ - 1 - before(n)) \in Pieces
    <3>1. limit_ - 1 - before(n) \in Nat
      BY <2>4
    <3>2. "cut" \in Whats
      BY DEF Whats
    <3> QED
      BY <3>1, <3>2, PieceTyped
  <2>6. SubSeq(t, 1, n - 1) \in Seq(Pieces)
    BY <1>1, <2>3
  <2>7. Append(SubSeq(t, 1, n - 1), Piece("cut", limit_ - 1 - before(n))) \in Seq(Pieces)
    BY <2>5, <2>6
  <2>8. ~\A k \in 1 .. Len(t) : upto(k) <= limit_ - 1
    BY <1>1, <2>3
  <2>9. Cut(t, limit_) = Append(SubSeq(t, 1, n - 1), Piece("cut", limit_ - 1 - before(n)))
    BY <1>2, <2>2, <2>3
  <2> QED
    BY <2>7, <2>8, <2>9 DEF upto
<1> QED
  BY <1>3, <1>4

(* A growing string with its NUL in its memory.                            *)
Whole(str) ==
  /\ str \in [text : Seq(Pieces), len : Nat, allocated : Nat]
  /\ str.len + 1 <= str.allocated

LEMMA CatWhole ==
  ASSUME NEW str, Whole(str), NEW t \in Seq(Pieces)
  PROVE  Whole(Cat(str, t)) /\ Cat(str, t).text = str.text \o t
<1>1. Bytes(t) \in Nat
  <2>1. Len(t) \in 0 .. Len(t)
    OBVIOUS
  <2> QED
    BY <2>1, BytesNext
<1>2. PICK len : len = str.len + Bytes(t) /\ len \in Nat
  BY <1>1 DEF Whole
<1>3. Cat(str, t) = [text |-> str.text \o t, len |-> len,
                     allocated |-> IF str.allocated < len + 1 THEN len + Chunk ELSE str.allocated]
  BY <1>2 DEF Cat
<1>4. Chunk \in Nat \ {0} /\ str.allocated \in Nat
  BY JsonAssumption DEF Whole
<1>5. str.text \o t \in Seq(Pieces)
  BY DEF Whole
<1> QED
  BY <1>2, <1>3, <1>4, <1>5 DEF Whole

LEMMA CatFmtWhole ==
  ASSUME NEW str, Whole(str), NEW t \in Seq(Pieces), NEW limit_ \in Nat \ {0}
  PROVE  /\ Whole(CatFmt(str, t, limit_))
         /\ (\A k \in 1 .. Len(t) : Bytes(SubSeq(t, 1, k)) <= limit_ - 1) =>
              CatFmt(str, t, limit_).text = str.text \o t
BY CutIs, CatWhole DEF CatFmt

LEMMA FewTyped ==
  ASSUME NEW P, NEW a \in P, NEW b \in P, NEW c \in P, NEW d \in P
  PROVE  <<a>> \in Seq(P) /\ <<a, b, c>> \in Seq(P) /\ <<a, b, c, d>> \in Seq(P)
OBVIOUS

LEMMA Named ==
  /\ \A n \in Nat : n \in Whats
  /\ "quote" \in Whats /\ ":" \in Whats /\ "," \in Whats
  /\ "[" \in Whats /\ "]" \in Whats /\ "{" \in Whats /\ "}" \in Whats
  /\ "text" \in Whats /\ "textWithQuotes" \in Whats
  /\ "null" \in Whats /\ "integer" \in Whats /\ "cut" \in Whats
BY DEF Whats

LEMMA CharTyped ==
  /\ Char("quote") \in Pieces /\ Char(":") \in Pieces /\ Char(",") \in Pieces
  /\ Char("[") \in Pieces /\ Char("]") \in Pieces /\ Char("{") \in Pieces /\ Char("}") \in Pieces
BY Named, PieceTyped DEF Char

(* What is between quotes: a text with its size, the name of a column.     *)
Middle(t) == Piece(IF t.quotes THEN "textWithQuotes" ELSE "text", t.size)

LEMMA QuotedTyped ==
  ASSUME NEW t, t.size \in Nat
  PROVE  /\ Middle(t) \in Pieces /\ Quoted(t) = <<Char("quote"), Middle(t), Char("quote")>>
         /\ Quoted(t) \in Seq(Pieces)
<1>1. (IF t.quotes THEN "textWithQuotes" ELSE "text") \in Whats
  BY Named
<1>2. Middle(t) \in Pieces
  BY <1>1, PieceTyped DEF Middle
<1>3. Quoted(t) = <<Char("quote"), Middle(t), Char("quote")>>
  BY DEF Quoted, Middle
<1> QED
  BY <1>2, <1>3, CharTyped, FewTyped

LEMMA NameTyped ==
  ASSUME NEW j \in Nat
  PROVE  Name(j) \in Seq(Pieces)
<1>1. Piece(j, 4) \in Pieces
  BY Named, PieceTyped
<1> QED
  BY <1>1, CharTyped, FewTyped DEF Name

(* What Joined makes of the first k texts.                                 *)
Parts(texts) == [k \in DOMAIN texts |-> IF k = 1 THEN texts[k] ELSE <<Char(",")>> \o texts[k]]
JoinTo(texts, k) == UpTo(Parts(texts), k)

LEMMA JoinNext ==
  ASSUME NEW texts \in Seq(Seq(Pieces))
  PROVE  /\ JoinTo(texts, 0) = <<>> /\ JoinTo(texts, Len(texts)) = Joined(texts)
         /\ \A k \in 0 .. Len(texts) : JoinTo(texts, k) \in Seq(Pieces)
         /\ \A k \in 1 .. Len(texts) :
              JoinTo(texts, k) = JoinTo(texts, k - 1)
                                   \o (IF k = 1 THEN texts[k] ELSE <<Char(",")>> \o texts[k])
<1>1. <<Char(",")>> \in Seq(Pieces)
  BY CharTyped, FewTyped
<1>2. PICK n \in Nat : n = Len(texts) /\ DOMAIN texts = 1 .. n
  OBVIOUS
<1>3. ASSUME NEW k \in 1 .. n
      PROVE  (IF k = 1 THEN texts[k] ELSE <<Char(",")>> \o texts[k]) \in Seq(Pieces)
  <2>1. texts[k] \in Seq(Pieces)
    BY <1>2, ElementOfSeq
  <2>2. <<Char(",")>> \o texts[k] \in Seq(Pieces)
    BY <1>1, <2>1, ConcatProperties
  <2> QED
    BY <2>1, <2>2
<1>4. PICK p : /\ p = Parts(texts) /\ p \in Seq(Seq(Pieces)) /\ Len(p) = n
               /\ \A k \in 1 .. n : p[k] = IF k = 1 THEN texts[k] ELSE <<Char(",")>> \o texts[k]
  <2>1. PICK p : p = [k \in 1 .. n |-> IF k = 1 THEN texts[k] ELSE <<Char(",")>> \o texts[k]]
    OBVIOUS
  <2>2. p = Parts(texts)
    BY <1>2, <2>1 DEF Parts
  <2>3. p \in [1 .. n -> Seq(Pieces)]
    BY <1>3, <2>1
  <2>4. p \in Seq(Seq(Pieces)) /\ Len(p) = n
    BY <1>2, <2>3
  <2> QED
    BY <2>1, <2>2, <2>4
<1>5. Joined(texts) = FlattenSeq(p)
  BY <1>4 DEF Joined, Parts
<1>6. /\ UpTo(p, 0) = <<>> /\ UpTo(p, n) = FlattenSeq(p)
      /\ \A k \in 0 .. n : UpTo(p, k) \in Seq(Pieces)
      /\ \A k \in 1 .. n : UpTo(p, k) = UpTo(p, k - 1) \o p[k]
  BY <1>4, FlattenNext
<1> QED
  BY <1>2, <1>4, <1>5, <1>6 DEF JoinTo

Quotes(texts) == [k \in DOMAIN texts |-> Quoted(texts[k])]
Text == [size : Nat, quotes : BOOLEAN]

LEMMA QuotesTyped ==
  ASSUME NEW texts \in Seq(Text)
  PROVE  /\ Quotes(texts) \in Seq(Seq(Pieces)) /\ Len(Quotes(texts)) = Len(texts)
         /\ \A k \in 1 .. Len(texts) : /\ Quotes(texts)[k] = Quoted(texts[k])
                                       /\ texts[k] \in Text
<1>1. PICK n \in Nat : n = Len(texts) /\ DOMAIN texts = 1 .. n
  OBVIOUS
<1>2. ASSUME NEW k \in 1 .. n PROVE texts[k] \in Text /\ Quoted(texts[k]) \in Seq(Pieces)
  <2>1. texts[k] \in Text
    BY <1>1, ElementOfSeq
  <2>2. texts[k].size \in Nat
    BY <2>1 DEF Text
  <2> QED
    BY <2>1, <2>2, QuotedTyped
<1> QED
  BY <1>1, <1>2 DEF Quotes

LEMMA ValueIs ==
  ASSUME NEW v \in Value
  PROVE  \/ v.type \in {"null", "integer"} /\ v.size \in Nat /\ Written(v) = <<Piece(v.type, v.size)>>
         \/ v.type = "string" /\ v.size \in Nat /\ Written(v) = Quoted(v)
         \/ /\ v.type = "array" /\ v.texts \in Seq(Text)
            /\ Written(v) = (<<Char("[")>> \o Joined(Quotes(v.texts))) \o <<Char("]")>>
<1>1. CASE v \in [type : {"null", "integer"}, size : Nat]
  <2>1. v.type \in {"null", "integer"} /\ v.size \in Nat /\ v.type # "string" /\ v.type # "array"
    BY <1>1
  <2> QED
    BY <2>1 DEF Written
<1>2. CASE v \in [type : {"string"}, size : Nat, quotes : BOOLEAN]
  <2>1. v.type = "string" /\ v.size \in Nat /\ v.type # "array"
    BY <1>2
  <2> QED
    BY <2>1 DEF Written
<1>3. CASE v \in [type : {"array"}, texts : Seq(Text)]
  <2>1. v.type = "array" /\ v.texts \in Seq(Text) /\ v.type # "string"
    BY <1>3
  <2> QED
    BY <2>1 DEF Written, Quotes
<1> QED
  BY <1>1, <1>2, <1>3 DEF Value, Text

LEMMA WrittenTyped ==
  ASSUME NEW v \in Value
  PROVE  Written(v) \in Seq(Pieces)
<1>1. CASE v.type \in {"null", "integer"} /\ v.size \in Nat /\ Written(v) = <<Piece(v.type, v.size)>>
  <2>1. v.type \in Whats
    BY <1>1, Named
  <2>2. Piece(v.type, v.size) \in Pieces
    BY <1>1, <2>1, PieceTyped
  <2> QED
    BY <1>1, <2>2, FewTyped
<1>2. CASE v.type = "string" /\ v.size \in Nat /\ Written(v) = Quoted(v)
  BY <1>2, QuotedTyped
<1>3. CASE /\ v.type = "array" /\ v.texts \in Seq(Text)
           /\ Written(v) = (<<Char("[")>> \o Joined(Quotes(v.texts))) \o <<Char("]")>>
  <2>1. PICK q \in Seq(Seq(Pieces)) : q = Quotes(v.texts)
    BY <1>3, QuotesTyped
  <2>2. Joined(q) \in Seq(Pieces)
    <3>1. Len(q) \in 0 .. Len(q)
      OBVIOUS
    <3> QED
      BY <3>1, JoinNext
  <2>3. <<Char("[")>> \in Seq(Pieces) /\ <<Char("]")>> \in Seq(Pieces)
    BY CharTyped, FewTyped
  <2>4. <<Char("[")>> \o Joined(q) \in Seq(Pieces)
    BY <2>2, <2>3, ConcatProperties
  <2>5. (<<Char("[")>> \o Joined(q)) \o <<Char("]")>> \in Seq(Pieces)
    BY <2>3, <2>4, ConcatProperties
  <2> QED
    BY <1>3, <2>1, <2>5
<1> QED
  BY <1>1, <1>2, <1>3, ValueIs

(* Where db_json_entries is: in which row, column and item.                *)
PlacesInv ==
  /\ rows \in Seq(Seq(Value)) /\ squash \in BOOLEAN
  /\ line \in {"begin", "row", "name", "value", "item", "rowEnd", "end", "done"}
  /\ row \in 1 .. Len(rows) + 1 /\ item \in Nat
  /\ line \in {"row", "name", "value", "item", "rowEnd"} => row \in 1 .. Len(rows)
  /\ line = "begin" => row = 1
  /\ line \in {"name", "value", "item"} => col \in 1 .. Len(rows[row])
  /\ line \notin {"name", "value", "item"} => col = 1
  /\ line = "item" => Current.type = "array" /\ item \in 1 .. Len(Current.texts) + 1

JsonInv == PlacesInv /\ Whole(json)

LEMMA JsonStarts ==
  ASSUME NEW entries \in Seq(Seq(Value)), NEW single \in BOOLEAN, JsonStart(entries, single)
  PROVE  JsonInv
<1>1. PlacesInv
  BY DEF JsonStart, PlacesInv
<1>2. Chunk \in Nat \ {0} /\ <<>> \in Seq(Pieces)
  BY JsonAssumption
<1>3. Whole(json)
  BY <1>2 DEF JsonStart, Whole
<1> QED
  BY <1>1, <1>3 DEF JsonInv

(* The value in a column of a row.                                         *)
LEMMA CurrentTyped ==
  ASSUME PlacesInv, line \in {"name", "value", "item"}
  PROVE  Current \in Value /\ rows[row] \in Seq(Value) /\ col \in 1 .. Len(rows[row])
<1>1. rows[row] \in Seq(Value)
  BY ElementOfSeq DEF PlacesInv
<1> QED
  BY <1>1, ElementOfSeq DEF PlacesInv, Current

(* The text of an array that is written.                                   *)
LEMMA ItemTyped ==
  ASSUME PlacesInv, line = "item"
  PROVE  /\ Current.type = "array" /\ Current.texts \in Seq(Text) /\ Len(Current.texts) \in Nat
         /\ item \in Nat /\ item \in 1 .. Len(Current.texts) + 1
<1>1. Current \in Value
  BY CurrentTyped
<1>2. Current.type = "array" /\ item \in 1 .. Len(Current.texts) + 1
  BY DEF PlacesInv
<1>3. Current.texts \in Seq(Text)
  BY <1>1, <1>2, ValueIs
<1> QED
  BY <1>2, <1>3 DEF PlacesInv

LEMMA PlacesKept ==
  ASSUME PlacesInv, [JsonNext]_jsonvars
  PROVE  PlacesInv'
<1>1. Len(rows) \in Nat
  BY DEF PlacesInv
<1>2. ASSUME NEW i \in 1 .. Len(rows) PROVE Len(rows[i]) \in Nat /\ (rows[i] # <<>> => 1 \in 1 .. Len(rows[i]))
  <2>1. rows[i] \in Seq(Value)
    BY ElementOfSeq DEF PlacesInv
  <2> QED
    BY <2>1
<1>3. rows # <<>> => 1 \in 1 .. Len(rows)
  BY DEF PlacesInv
<1>4. CASE Begin
  BY <1>1, <1>2, <1>3, <1>4 DEF PlacesInv, Begin, Current
<1>5. CASE BeginRow
  BY <1>1, <1>2, <1>5 DEF PlacesInv, BeginRow, Current
<1>6. CASE WriteName
  BY <1>1, <1>2, <1>6 DEF PlacesInv, WriteName, Current
<1>7. CASE WriteScalar
  BY <1>1, <1>2, <1>7 DEF PlacesInv, WriteScalar, NextColumn, Current
<1>8. CASE BeginArray
  <2>1. Current.texts \in Seq(Text)
    BY <1>8, CurrentTyped, ValueIs DEF BeginArray
  <2>2. 1 \in 1 .. Len(Current.texts) + 1
    BY <2>1
  <2> QED
    BY <1>1, <1>2, <1>8, <2>2 DEF PlacesInv, BeginArray, Current
<1>9. CASE WriteItem
  <2>1. item + 1 \in 1 .. Len(Current.texts) + 1 /\ item + 1 \in Nat /\ Current.type = "array"
    <3>1. line = "item" /\ item <= Len(Current.texts)
      BY <1>9 DEF WriteItem
    <3> QED
      BY <3>1, ItemTyped
  <2>2. /\ item' = item + 1 /\ line' = line /\ Current' = Current /\ row' = row /\ col' = col
        /\ rows' = rows /\ squash' = squash
    BY <1>9 DEF WriteItem, Current
  <2> QED
    BY <2>1, <2>2 DEF PlacesInv
<1>10. CASE EndArray
  BY <1>1, <1>2, <1>10 DEF PlacesInv, EndArray, NextColumn, Current
<1>11. CASE EndRow
  <2>1. row \in 1 .. Len(rows) /\ row \in Nat
    <3>1. line = "rowEnd"
      BY <1>11 DEF EndRow
    <3>2. row \in 1 .. Len(rows)
      BY <3>1 DEF PlacesInv
    <3> QED
      BY <3>2
  <2>2. row' \in 1 .. Len(rows) + 1 /\ (line' = "row" => row' \in 1 .. Len(rows))
    <3>1. row' = row + 1 /\ line' = IF row = Len(rows) THEN "end" ELSE "row"
      BY <1>11 DEF EndRow
    <3> QED
      BY <1>1, <2>1, <3>1
  <2>3. col' = 1 /\ line' \in {"row", "end"} /\ rows' = rows /\ squash' = squash /\ item' = item
    BY <1>11 DEF PlacesInv, EndRow
  <2> QED
    BY <2>2, <2>3 DEF PlacesInv
<1>12. CASE End
  BY <1>1, <1>2, <1>12 DEF PlacesInv, End, Current
<1>13. CASE UNCHANGED jsonvars
  BY <1>13 DEF PlacesInv, jsonvars, Current
<1> QED
  BY <1>4, <1>5, <1>6, <1>7, <1>8, <1>9, <1>10, <1>11, <1>12, <1>13 DEF JsonNext

LEMMA WholeKept ==
  ASSUME JsonInv, [JsonNext]_jsonvars
  PROVE  Whole(json')
<1> USE DEF JsonInv
<1>1. ASSUME NEW c \in {"[", "]", "{", "}", ","}, NEW str, Whole(str)
      PROVE  Whole(Cat(str, <<Char(c)>>))
  <2>1. <<Char(c)>> \in Seq(Pieces)
    BY CharTyped, FewTyped
  <2> QED
    BY <1>1, <2>1, CatWhole
<1>2. CASE Begin
  BY <1>1, <1>2 DEF Begin
<1>3. CASE BeginRow
  BY <1>1, <1>3 DEF BeginRow
<1>4. CASE WriteName
  <2>1. col \in Nat
    <3>1. rows[row] \in Seq(Value) /\ col \in 1 .. Len(rows[row])
      BY <1>4, CurrentTyped DEF WriteName
    <3> QED
      BY <3>1
  <2>2. Whole(IF col = 1 THEN json ELSE Cat(json, <<Char(",")>>))
    BY <1>1
  <2>3. NameLimit \in Nat \ {0}
    BY JsonAssumption
  <2> QED
    BY <1>4, <2>1, <2>2, <2>3, NameTyped, CatFmtWhole DEF WriteName
<1>5. CASE WriteScalar
  <2>1. Current \in Value /\ Current.type # "array" /\ TextLimit \in Nat \ {0}
    BY <1>5, CurrentTyped, JsonAssumption DEF WriteScalar
  <2>2. CASE Current.type = "string"
    <3>1. Quoted(Current) \in Seq(Pieces)
      BY <2>1, <2>2, ValueIs, WrittenTyped
    <3> QED
      BY <1>5, <2>1, <2>2, <3>1, CatFmtWhole DEF WriteScalar
  <2>3. CASE Current.type # "string"
    <3>1. <<Piece(Current.type, Current.size)>> \in Seq(Pieces)
      BY <2>1, <2>3, ValueIs, WrittenTyped
    <3> QED
      BY <1>5, <2>3, <3>1, CatWhole DEF WriteScalar
  <2> QED
    BY <2>2, <2>3
<1>6. CASE BeginArray
  BY <1>1, <1>6 DEF BeginArray
<1>7. CASE WriteItem
  <2>1. TextLimit \in Nat \ {0} /\ Current.texts \in Seq(Text) /\ item \in 1 .. Len(Current.texts)
    <3>1. Current.texts \in Seq(Text) /\ Len(Current.texts) \in Nat
          /\ item \in Nat /\ item \in 1 .. Len(Current.texts) + 1
      BY <1>7, ItemTyped DEF WriteItem
    <3>2. item <= Len(Current.texts)
      BY <1>7 DEF WriteItem
    <3> QED
      BY <3>1, <3>2, JsonAssumption
  <2>2. Quoted(Current.texts[item]) \in Seq(Pieces)
    <3>1. Current.texts[item].size \in Nat
      BY <2>1, QuotesTyped DEF Text
    <3> QED
      BY <3>1, QuotedTyped
  <2>3. Whole(IF item = 1 THEN json ELSE Cat(json, <<Char(",")>>))
    BY <1>1
  <2> QED
    BY <1>7, <2>1, <2>2, <2>3, CatFmtWhole DEF WriteItem
<1>8. CASE EndArray
  BY <1>1, <1>8 DEF EndArray
<1>9. CASE EndRow
  BY <1>1, <1>9 DEF EndRow
<1>10. CASE End
  BY <1>1, <1>10 DEF End
<1>11. CASE UNCHANGED jsonvars
  BY <1>11 DEF jsonvars
<1> QED
  BY <1>2, <1>3, <1>4, <1>5, <1>6, <1>7, <1>8, <1>9, <1>10, <1>11 DEF JsonNext

LEMMA JsonKept ==
  ASSUME JsonInv, [JsonNext]_jsonvars
  PROVE  JsonInv'
<1>1. Whole(json)'
  BY WholeKept DEF Whole
<1> QED
  BY <1>1, PlacesKept DEF JsonInv

LEMMA JsonBounded ==
  ASSUME JsonInv
  PROVE  JsonTypeOK /\ BufferInBounds
<1>1. col \in Nat
  <2>1. row \in 1 .. Len(rows) => Len(rows[row]) \in Nat
    BY ElementOfSeq DEF JsonInv, PlacesInv
  <2> QED
    BY <2>1 DEF JsonInv, PlacesInv
<1> QED
  BY <1>1 DEF JsonInv, PlacesInv, Whole, JsonTypeOK, BufferInBounds

(* A name, and a text of the pessoas table, fit the buffer of string_cat_fmt. *)
LEMMA NameWritten ==
  ASSUME NEW str, Whole(str), NEW j \in Nat
  PROVE  CatFmt(str, Name(j), NameLimit).text = str.text \o Name(j)
<1>1. PICK t \in Seq(Pieces) :
        /\ t = Name(j) /\ Len(t) = 4
        /\ t[1].bytes = 1 /\ t[2].bytes = 4 /\ t[3].bytes = 1 /\ t[4].bytes = 1
  <2>1. Name(j) \in Seq(Pieces)
    BY NameTyped
  <2> QED
    BY <2>1 DEF Name, Char, Piece
<1>2. ASSUME NEW k \in 1 .. Len(t) PROVE Bytes(SubSeq(t, 1, k)) <= NameLimit - 1
  <2>1. Bytes(SubSeq(t, 1, 0)) = 0
    BY BytesNext
  <2>2. ASSUME NEW i \in 1 .. 4
        PROVE  Bytes(SubSeq(t, 1, i)) = Bytes(SubSeq(t, 1, i - 1)) + t[i].bytes
    BY <1>1, BytesNext
  <2>3. Bytes(SubSeq(t, 1, 1)) = 1
    BY <1>1, <2>1, <2>2
  <2>4. Bytes(SubSeq(t, 1, 2)) = 5
    BY <1>1, <2>2, <2>3
  <2>5. Bytes(SubSeq(t, 1, 3)) = 6
    BY <1>1, <2>2, <2>4
  <2>6. Bytes(SubSeq(t, 1, 4)) = 7
    BY <1>1, <2>2, <2>5
  <2>7. k = 1 \/ k = 2 \/ k = 3 \/ k = 4
    BY <1>1
  <2> QED
    BY <2>3, <2>4, <2>5, <2>6, <2>7, JsonAssumption
<1>3. NameLimit \in Nat \ {0}
  BY JsonAssumption
<1>4. CatFmt(str, t, NameLimit).text = str.text \o t
  BY <1>2, <1>3, CatFmtWhole
<1> QED
  BY <1>1, <1>4

LEMMA QuotedWritten ==
  ASSUME NEW str, Whole(str), NEW t, t.size \in Nat, t.size <= TextLimit - 3
  PROVE  CatFmt(str, Quoted(t), TextLimit).text = str.text \o Quoted(t)
<1>1. PICK q \in Seq(Pieces) :
        q = Quoted(t) /\ Len(q) = 3 /\ q[1].bytes = 1 /\ q[2].bytes = t.size /\ q[3].bytes = 1
  <2>1. Quoted(t) \in Seq(Pieces) /\ Quoted(t) = <<Char("quote"), Middle(t), Char("quote")>>
    BY QuotedTyped
  <2> QED
    <3>1. Char("quote").bytes = 1 /\ Middle(t).bytes = t.size
      BY DEF Middle, Char, Piece
    <3>2. PICK a, m : a = Char("quote") /\ m = Middle(t)
      OBVIOUS
    <3>3. PICK q : q = <<a, m, a>>
      OBVIOUS
    <3>4. Len(q) = 3 /\ q[1] = a /\ q[2] = m /\ q[3] = a
      BY <3>3
    <3>5. q \in Seq(Pieces) /\ q = Quoted(t)
      BY <2>1, <3>2, <3>3
    <3> QED
      BY <3>1, <3>2, <3>4, <3>5
<1>2. ASSUME NEW k \in 1 .. Len(q) PROVE Bytes(SubSeq(q, 1, k)) <= TextLimit - 1
  <2>1. Bytes(SubSeq(q, 1, 0)) = 0
    BY BytesNext
  <2>2. ASSUME NEW i \in 1 .. 3
        PROVE  Bytes(SubSeq(q, 1, i)) = Bytes(SubSeq(q, 1, i - 1)) + q[i].bytes
    BY <1>1, BytesNext
  <2>3. Bytes(SubSeq(q, 1, 1)) = 1
    BY <1>1, <2>1, <2>2
  <2>4. Bytes(SubSeq(q, 1, 2)) = 1 + t.size
    BY <1>1, <2>2, <2>3
  <2>5. Bytes(SubSeq(q, 1, 3)) = 2 + t.size
    BY <1>1, <2>2, <2>4
  <2>6. k = 1 \/ k = 2 \/ k = 3
    BY <1>1
  <2> QED
    BY <2>3, <2>4, <2>5, <2>6, JsonAssumption
<1>3. TextLimit \in Nat \ {0}
  BY JsonAssumption
<1>4. CatFmt(str, q, TextLimit).text = str.text \o q
  BY <1>2, <1>3, CatFmtWhole
<1> QED
  BY <1>1, <1>4

(***************************************************************************)
(* The text that is written when db_json_entries is at some place.         *)
(***************************************************************************)
Cols(vs) == [j \in DOMAIN vs |-> Name(j) \o Written(vs[j])]
Objects(rs) == [i \in DOMAIN rs |-> Object(rs[i])]

Between(k) == IF k = 1 THEN <<>> ELSE <<Char(",")>>

ToRow(rs, trail, i) ==
  IF trail THEN (<<Char("[")>> \o JoinTo(Objects(rs), i - 1)) \o Between(i) ELSE <<>>
ToCol(rs, trail, i, j) ==
  (ToRow(rs, trail, i) \o <<Char("{")>>) \o JoinTo(Cols(rs[i]), j - 1)
ToValue(rs, trail, i, j) == (ToCol(rs, trail, i, j) \o Between(j)) \o Name(j)
ToItem(rs, trail, i, j, k) ==
  (ToValue(rs, trail, i, j) \o <<Char("[")>>) \o JoinTo(Quotes(rs[i][j].texts), k - 1)

LEMMA ColsTyped ==
  ASSUME NEW vs \in Seq(Value)
  PROVE  /\ Cols(vs) \in Seq(Seq(Pieces)) /\ Len(Cols(vs)) = Len(vs)
         /\ \A j \in 1 .. Len(vs) : /\ Cols(vs)[j] = Name(j) \o Written(vs[j])
                                    /\ vs[j] \in Value /\ Written(vs[j]) \in Seq(Pieces)
<1>1. PICK n \in Nat : n = Len(vs) /\ DOMAIN vs = 1 .. n
  OBVIOUS
<1>2. ASSUME NEW j \in 1 .. n
      PROVE  /\ vs[j] \in Value /\ Written(vs[j]) \in Seq(Pieces)
             /\ Name(j) \o Written(vs[j]) \in Seq(Pieces)
  <2>1. vs[j] \in Value
    BY <1>1, ElementOfSeq
  <2>2. Written(vs[j]) \in Seq(Pieces) /\ Name(j) \in Seq(Pieces)
    BY <2>1, WrittenTyped, NameTyped
  <2> QED
    BY <2>1, <2>2, ConcatProperties
<1> QED
  BY <1>1, <1>2 DEF Cols

LEMMA ObjectTyped ==
  ASSUME NEW vs \in Seq(Value)
  PROVE  /\ Object(vs) = (<<Char("{")>> \o Joined(Cols(vs))) \o <<Char("}")>>
         /\ Object(vs) \in Seq(Pieces)
<1>1. PICK c \in Seq(Seq(Pieces)) : c = Cols(vs)
  BY ColsTyped
<1>2. Joined(c) \in Seq(Pieces)
  <2>1. Len(c) \in 0 .. Len(c)
    OBVIOUS
  <2> QED
    BY <2>1, JoinNext
<1>3. <<Char("{")>> \in Seq(Pieces) /\ <<Char("}")>> \in Seq(Pieces)
  BY CharTyped, FewTyped
<1>4. (<<Char("{")>> \o Joined(c)) \o <<Char("}")>> \in Seq(Pieces)
  BY <1>2, <1>3, ConcatProperties
<1>5. Object(vs) = (<<Char("{")>> \o Joined(c)) \o <<Char("}")>>
  BY <1>1 DEF Object, Cols
<1> QED
  BY <1>1, <1>4, <1>5

LEMMA ObjectsTyped ==
  ASSUME NEW rs \in Seq(Seq(Value))
  PROVE  /\ Objects(rs) \in Seq(Seq(Pieces)) /\ Len(Objects(rs)) = Len(rs)
         /\ \A i \in 1 .. Len(rs) : Objects(rs)[i] = Object(rs[i])
<1>1. PICK n \in Nat : n = Len(rs) /\ DOMAIN rs = 1 .. n
  OBVIOUS
<1>2. ASSUME NEW i \in 1 .. n PROVE Object(rs[i]) \in Seq(Pieces)
  BY <1>1, ElementOfSeq, ObjectTyped
<1> QED
  BY <1>1, <1>2 DEF Objects

(* What \o does to three and four texts, behind a name: the provers take   *)
(* equations between concatenations apart, one element at a time.          *)
Then(a, b) == a \o b

LEMMA ThreeJoined ==
  ASSUME NEW a \in Seq(Pieces), NEW b \in Seq(Pieces), NEW c \in Seq(Pieces)
  PROVE  Then(Then(a, b), c) = Then(a, Then(b, c))
BY ConcatAssociative DEF Then

LEMMA FourJoined ==
  ASSUME NEW a \in Seq(Pieces), NEW b \in Seq(Pieces), NEW c \in Seq(Pieces), NEW d \in Seq(Pieces)
  PROVE  Then(Then(Then(a, b), c), d) = Then(a, Then(b, Then(c, d)))
<1>1. Then(a, b) \in Seq(Pieces) /\ Then(c, d) \in Seq(Pieces)
  BY ConcatProperties DEF Then
<1> QED
  BY <1>1, ThreeJoined

LEMMA SignTyped ==
  /\ <<Char("[")>> \in Seq(Pieces) /\ <<Char("]")>> \in Seq(Pieces)
  /\ <<Char("{")>> \in Seq(Pieces) /\ <<Char("}")>> \in Seq(Pieces)
  /\ <<Char(",")>> \in Seq(Pieces) /\ \A k : Between(k) \in Seq(Pieces)
<1>1. <<>> \in Seq(Pieces)
  OBVIOUS
<1>2. <<Char(",")>> \in Seq(Pieces)
  BY CharTyped, FewTyped
<1>3. \A k : Between(k) \in Seq(Pieces)
  BY <1>1, <1>2 DEF Between
<1> QED
  BY <1>2, <1>3, CharTyped, FewTyped

(* The next text behind those that were joined.                            *)
LEMMA JoinMore ==
  ASSUME NEW texts \in Seq(Seq(Pieces)), NEW k \in 1 .. Len(texts), NEW a \in Seq(Pieces)
  PROVE  /\ texts[k] \in Seq(Pieces)
         /\ ((a \o JoinTo(texts, k - 1)) \o Between(k)) \o texts[k] = a \o JoinTo(texts, k)
         /\ a \o JoinTo(texts, k - 1) \in Seq(Pieces) /\ a \o JoinTo(texts, k) \in Seq(Pieces)
<1>1. texts[k] \in Seq(Pieces)
  BY ElementOfSeq
<1>2. k - 1 \in 0 .. Len(texts) /\ k \in 0 .. Len(texts)
  OBVIOUS
<1>3. PICK j \in Seq(Pieces) : j = JoinTo(texts, k - 1)
  BY <1>2, JoinNext
<1>4. PICK m \in Seq(Pieces) : m = JoinTo(texts, k)
  BY <1>2, JoinNext
<1>5. m = j \o (Between(k) \o texts[k])
  <2>1. m = j \o (IF k = 1 THEN texts[k] ELSE <<Char(",")>> \o texts[k])
    BY <1>3, <1>4, JoinNext
  <2>2. <<>> \o texts[k] = texts[k]
    BY <1>1, ConcatEmptySeq
  <2> QED
    BY <2>1, <2>2 DEF Between
<1>6. ((a \o j) \o Between(k)) \o texts[k] = a \o (j \o (Between(k) \o texts[k]))
  <2>1. PICK b \in Seq(Pieces), t \in Seq(Pieces) : b = Between(k) /\ t = texts[k]
    BY <1>1, SignTyped
  <2>2. ((a \o j) \o b) \o t = a \o (j \o (b \o t))
    <3>1. Then(Then(Then(a, j), b), t) = Then(a, Then(j, Then(b, t)))
      BY FourJoined
    <3> QED
      BY <3>1 DEF Then
  <2> QED
    BY <2>1, <2>2
<1> QED
  BY <1>1, <1>3, <1>4, <1>5, <1>6, ConcatProperties

LEMMA ToRowTyped ==
  ASSUME NEW rs \in Seq(Seq(Value)), NEW trail \in BOOLEAN, NEW i \in 1 .. Len(rs) + 1
  PROVE  ToRow(rs, trail, i) \in Seq(Pieces)
<1>1. Objects(rs) \in Seq(Seq(Pieces)) /\ Len(Objects(rs)) = Len(rs)
  BY ObjectsTyped
<1>2. i - 1 \in 0 .. Len(Objects(rs))
  BY <1>1
<1>3. JoinTo(Objects(rs), i - 1) \in Seq(Pieces)
  BY <1>1, <1>2, JoinNext
<1>4. (<<Char("[")>> \o JoinTo(Objects(rs), i - 1)) \o Between(i) \in Seq(Pieces)
  BY <1>3, SignTyped, ConcatProperties
<1> QED
  BY <1>4 DEF ToRow

LEMMA ToColTyped ==
  ASSUME NEW rs \in Seq(Seq(Value)), NEW trail \in BOOLEAN, NEW i \in 1 .. Len(rs),
         NEW j \in 1 .. Len(rs[i]) + 1
  PROVE  /\ rs[i] \in Seq(Value)
         /\ ToRow(rs, trail, i) \o <<Char("{")>> \in Seq(Pieces)
         /\ ToCol(rs, trail, i, j) \in Seq(Pieces)
<1>1. rs[i] \in Seq(Value)
  BY ElementOfSeq
<1>2. Cols(rs[i]) \in Seq(Seq(Pieces)) /\ Len(Cols(rs[i])) = Len(rs[i]) /\ Len(rs[i]) \in Nat
  BY <1>1, ColsTyped
<1>3. j - 1 \in 0 .. Len(Cols(rs[i]))
  BY <1>2
<1>4. JoinTo(Cols(rs[i]), j - 1) \in Seq(Pieces)
  BY <1>2, <1>3, JoinNext
<1>5. ToRow(rs, trail, i) \in Seq(Pieces)
  <2>1. i \in 1 .. Len(rs) + 1
    OBVIOUS
  <2> QED
    BY <2>1, ToRowTyped
<1> QED
  BY <1>1, <1>4, <1>5, SignTyped, ConcatProperties DEF ToCol

LEMMA ToValueTyped ==
  ASSUME NEW rs \in Seq(Seq(Value)), NEW trail \in BOOLEAN, NEW i \in 1 .. Len(rs),
         NEW j \in 1 .. Len(rs[i])
  PROVE  /\ j \in Nat /\ rs[i][j] \in Value /\ Written(rs[i][j]) \in Seq(Pieces)
         /\ ToCol(rs, trail, i, j) \in Seq(Pieces) /\ ToValue(rs, trail, i, j) \in Seq(Pieces)
         /\ ToValue(rs, trail, i, j) \o Written(rs[i][j]) = ToCol(rs, trail, i, j + 1)
<1>1. rs[i] \in Seq(Value) /\ Len(rs[i]) \in Nat
  BY ElementOfSeq
<1>2. j \in Nat /\ j \in 1 .. Len(rs[i]) + 1
  BY <1>1
<1>3. ToCol(rs, trail, i, j) \in Seq(Pieces) /\ ToRow(rs, trail, i) \o <<Char("{")>> \in Seq(Pieces)
  BY <1>2, ToColTyped
<1>4. PICK a \in Seq(Pieces) : a = ToRow(rs, trail, i) \o <<Char("{")>>
  BY <1>3
<1>5. PICK cols \in Seq(Seq(Pieces)) :
        /\ cols = Cols(rs[i]) /\ j \in 1 .. Len(cols)
        /\ cols[j] = Name(j) \o Written(rs[i][j])
        /\ rs[i][j] \in Value /\ Written(rs[i][j]) \in Seq(Pieces)
  BY <1>1, ColsTyped
<1>6. ((a \o JoinTo(cols, j - 1)) \o Between(j)) \o cols[j] = a \o JoinTo(cols, j)
  BY <1>5, JoinMore
<1>7. ToCol(rs, trail, i, j) = a \o JoinTo(cols, j - 1) /\ ToCol(rs, trail, i, j + 1) = a \o JoinTo(cols, j)
  <2>1. (j + 1) - 1 = j
    BY <1>2
  <2> QED
    BY <1>4, <1>5, <2>1 DEF ToCol
<1>8. PICK b \in Seq(Pieces) : b = ToCol(rs, trail, i, j) \o Between(j)
  BY <1>3, SignTyped, ConcatProperties
<1>9. Name(j) \in Seq(Pieces)
  BY <1>2, NameTyped
<1>10. (b \o Name(j)) \o Written(rs[i][j]) = b \o (Name(j) \o Written(rs[i][j]))
  <2>1. PICK n \in Seq(Pieces), w \in Seq(Pieces) : n = Name(j) /\ w = Written(rs[i][j])
    BY <1>5, <1>9
  <2>2. (b \o n) \o w = b \o (n \o w)
    <3>1. Then(Then(b, n), w) = Then(b, Then(n, w))
      BY ThreeJoined
    <3> QED
      BY <3>1 DEF Then
  <2> QED
    BY <2>1, <2>2
<1>11. ToValue(rs, trail, i, j) = b \o Name(j)
  BY <1>8 DEF ToValue
<1>12. b \o Name(j) \in Seq(Pieces)
  BY <1>9, ConcatProperties
<1> QED
  BY <1>2, <1>3, <1>5, <1>6, <1>7, <1>8, <1>10, <1>11, <1>12

LEMMA ToItemTyped ==
  ASSUME NEW rs \in Seq(Seq(Value)), NEW trail \in BOOLEAN, NEW i \in 1 .. Len(rs),
         NEW j \in 1 .. Len(rs[i]), rs[i][j].type = "array"
  PROVE  /\ ToItem(rs, trail, i, j, 1) = ToValue(rs, trail, i, j) \o <<Char("[")>>
         /\ \A k \in 1 .. Len(rs[i][j].texts) :
              /\ ToItem(rs, trail, i, j, k) \in Seq(Pieces)
              /\ (ToItem(rs, trail, i, j, k) \o Between(k)) \o Quoted(rs[i][j].texts[k])
                   = ToItem(rs, trail, i, j, k + 1)
         /\ ToItem(rs, trail, i, j, Len(rs[i][j].texts) + 1) \o <<Char("]")>>
              = ToValue(rs, trail, i, j) \o Written(rs[i][j])
<1>1. ToValue(rs, trail, i, j) \in Seq(Pieces) /\ rs[i][j] \in Value
  BY ToValueTyped
<1>2. PICK v : v = rs[i][j]
  OBVIOUS
<1>3. /\ v.texts \in Seq(Text)
      /\ Written(v) = (<<Char("[")>> \o Joined(Quotes(v.texts))) \o <<Char("]")>>
  BY <1>1, <1>2, ValueIs
<1>4. PICK q \in Seq(Seq(Pieces)) :
        /\ q = Quotes(v.texts) /\ Len(q) = Len(v.texts)
        /\ \A k \in 1 .. Len(q) : q[k] = Quoted(v.texts[k])
  BY <1>3, QuotesTyped
<1>5. PICK val \in Seq(Pieces) : val = ToValue(rs, trail, i, j)
  BY <1>1
<1>6. PICK a \in Seq(Pieces) : a = val \o <<Char("[")>>
  BY SignTyped, ConcatProperties
<1>7. \A k : ToItem(rs, trail, i, j, k) = a \o JoinTo(q, k - 1)
  BY <1>2, <1>4, <1>5, <1>6 DEF ToItem
<1>8. ToItem(rs, trail, i, j, 1) = a
  <2>1. JoinTo(q, 0) = <<>> /\ 1 - 1 = 0
    <3>1. JoinTo(q, 0) = <<>>
      BY JoinNext
    <3> QED
      BY <3>1
  <2>2. a \o <<>> = a
    BY ConcatEmptySeq
  <2> QED
    BY <1>7, <2>1, <2>2
<1>9. ASSUME NEW k \in 1 .. Len(q)
      PROVE  /\ ToItem(rs, trail, i, j, k) \in Seq(Pieces)
             /\ (ToItem(rs, trail, i, j, k) \o Between(k)) \o Quoted(v.texts[k])
                  = ToItem(rs, trail, i, j, k + 1)
  <2>1. (k + 1) - 1 = k
    OBVIOUS
  <2> QED
    <3>1. /\ ((a \o JoinTo(q, k - 1)) \o Between(k)) \o q[k] = a \o JoinTo(q, k)
          /\ a \o JoinTo(q, k - 1) \in Seq(Pieces)
      BY JoinMore
    <3> QED
      BY <1>4, <1>7, <2>1, <3>1
<1>10. ToItem(rs, trail, i, j, Len(q) + 1) \o <<Char("]")>> = val \o Written(v)
  <2>1. PICK all \in Seq(Pieces) : all = JoinTo(q, Len(q)) /\ all = Joined(q)
    <3>1. Len(q) \in 0 .. Len(q)
      OBVIOUS
    <3> QED
      BY <3>1, JoinNext
  <2>2. (Len(q) + 1) - 1 = Len(q)
    OBVIOUS
  <2>3. PICK open \in Seq(Pieces), close \in Seq(Pieces) :
          open = <<Char("[")>> /\ close = <<Char("]")>>
    BY SignTyped
  <2>4. ((val \o open) \o all) \o close = val \o (open \o (all \o close))
    <3>1. Then(Then(Then(val, open), all), close) = Then(val, Then(open, Then(all, close)))
      BY FourJoined
    <3> QED
      BY <3>1 DEF Then
  <2>5. (open \o all) \o close = open \o (all \o close)
    <3>1. Then(Then(open, all), close) = Then(open, Then(all, close))
      BY ThreeJoined
    <3> QED
      BY <3>1 DEF Then
  <2> QED
    BY <1>3, <1>4, <1>6, <1>7, <2>1, <2>2, <2>3, <2>4, <2>5
<1> QED
  BY <1>2, <1>4, <1>5, <1>6, <1>8, <1>9, <1>10

(* The end of a row.                                                       *)
LEMMA ToNextRow ==
  ASSUME NEW rs \in Seq(Seq(Value)), NEW i \in 1 .. Len(rs), NEW trail \in BOOLEAN
  PROVE  /\ rs[i] \in Seq(Value) /\ Len(rs[i]) \in Nat
         /\ ToCol(rs, TRUE, i, Len(rs[i]) + 1) \o <<Char("}")>>
              = <<Char("[")>> \o JoinTo(Objects(rs), i)
         /\ i < Len(rs) => (<<Char("[")>> \o JoinTo(Objects(rs), i)) \o <<Char(",")>>
                             = ToRow(rs, TRUE, i + 1)
         /\ ToCol(rs, FALSE, i, Len(rs[i]) + 1) \o <<Char("}")>> = Object(rs[i])
<1>1. rs[i] \in Seq(Value) /\ Len(rs[i]) \in Nat
  BY ElementOfSeq
<1>2. PICK cols \in Seq(Pieces) : cols = JoinTo(Cols(rs[i]), Len(rs[i])) /\ cols = Joined(Cols(rs[i]))
  <2>1. PICK c \in Seq(Seq(Pieces)) : c = Cols(rs[i]) /\ Len(c) = Len(rs[i])
    BY <1>1, ColsTyped
  <2>2. Len(c) \in 0 .. Len(c)
    OBVIOUS
  <2> QED
    BY <2>1, <2>2, JoinNext
<1>3. (Len(rs[i]) + 1) - 1 = Len(rs[i])
  BY <1>1
<1>4. Object(rs[i]) = (<<Char("{")>> \o cols) \o <<Char("}")>>
  BY <1>1, <1>2, ObjectTyped
<1>5. ASSUME NEW b \in BOOLEAN
      PROVE  ToCol(rs, b, i, Len(rs[i]) + 1) \o <<Char("}")>> = ToRow(rs, b, i) \o Object(rs[i])
  <2>1. PICK r \in Seq(Pieces) : r = ToRow(rs, b, i)
    <3>1. i \in 1 .. Len(rs) + 1
      OBVIOUS
    <3> QED
      BY <3>1, ToRowTyped
  <2>2. PICK open \in Seq(Pieces), close \in Seq(Pieces) :
          open = <<Char("{")>> /\ close = <<Char("}")>>
    BY SignTyped
  <2>3. ((r \o open) \o cols) \o close = r \o (open \o (cols \o close))
    <3>1. Then(Then(Then(r, open), cols), close) = Then(r, Then(open, Then(cols, close)))
      BY FourJoined
    <3> QED
      BY <3>1 DEF Then
  <2>4. (open \o cols) \o close = open \o (cols \o close)
    <3>1. Then(Then(open, cols), close) = Then(open, Then(cols, close))
      BY ThreeJoined
    <3> QED
      BY <3>1 DEF Then
  <2> QED
    BY <1>2, <1>3, <1>4, <2>1, <2>2, <2>3, <2>4 DEF ToCol
<1>6. PICK objects \in Seq(Seq(Pieces)) :
        /\ objects = Objects(rs) /\ Len(objects) = Len(rs) /\ objects[i] = Object(rs[i])
  BY ObjectsTyped
<1>7. ToRow(rs, TRUE, i) \o Object(rs[i]) = <<Char("[")>> \o JoinTo(objects, i)
  <2>1. PICK open \in Seq(Pieces) : open = <<Char("[")>>
    BY SignTyped
  <2>2. i \in 1 .. Len(objects)
    BY <1>6
  <2>3. ((open \o JoinTo(objects, i - 1)) \o Between(i)) \o objects[i] = open \o JoinTo(objects, i)
    BY <2>2, JoinMore
  <2> QED
    BY <1>6, <2>1, <2>3 DEF ToRow
<1>8. i < Len(rs) => (<<Char("[")>> \o JoinTo(objects, i)) \o <<Char(",")>> = ToRow(rs, TRUE, i + 1)
  <2>1. (i + 1) - 1 = i /\ i + 1 # 1
    OBVIOUS
  <2> QED
    BY <1>6, <2>1 DEF ToRow, Between
<1>9. ToRow(rs, FALSE, i) \o Object(rs[i]) = Object(rs[i])
  <2>1. Object(rs[i]) \in Seq(Pieces)
    BY <1>1, ObjectTyped
  <2> QED
    BY <2>1, ConcatEmptySeq DEF ToRow
<1> QED
  BY <1>1, <1>5, <1>6, <1>7, <1>8, <1>9

(* What is written at every place, when all texts fit.                     *)
WrittenInv ==
  Renderable =>
    /\ line = "begin" => json.text = <<>>
    /\ line = "row" => json.text = IF Trail THEN ToRow(rows, TRUE, row) ELSE <<Char("{")>>
    /\ line = "name" => json.text = ToCol(rows, Trail, row, col)
    /\ line = "value" => json.text = ToValue(rows, Trail, row, col)
    /\ line = "item" => json.text = ToItem(rows, Trail, row, col, item)
    /\ line = "rowEnd" => json.text = ToCol(rows, Trail, row, Len(rows[row]) + 1)
    /\ line = "end" => json.text = IF Trail THEN <<Char("[")>> \o JoinTo(Objects(rows), Len(rows))
                                   ELSE ToCol(rows, FALSE, 1, Len(rows[1]) + 1)
    /\ RenderedIsJson

RenderInv == JsonInv /\ WrittenInv

(* The rows and squash_if_single stay; so does what depends on them.       *)
LEMMA RowsStay ==
  ASSUME [JsonNext]_jsonvars
  PROVE  rows' = rows /\ squash' = squash /\ (Trail' <=> Trail) /\ (Renderable' <=> Renderable)
<1>1. rows' = rows /\ squash' = squash
  BY DEF JsonNext, Begin, BeginRow, WriteName, WriteScalar, BeginArray, WriteItem, EndArray, EndRow,
         End, jsonvars
<1> QED
  BY <1>1 DEF Trail, Renderable

LEMMA TrailIs ==
  ASSUME PlacesInv
  PROVE  /\ Trail \in BOOLEAN /\ (~Trail => Len(rows) = 1 /\ squash)
         /\ (Trail <=> ~(squash /\ Len(rows) = 1))
BY DEF Trail, PlacesInv

LEMMA CatIs ==
  ASSUME NEW str, Whole(str), NEW c \in {"[", "]", "{", "}", ","}
  PROVE  /\ Whole(Cat(str, <<Char(c)>>)) /\ Cat(str, <<Char(c)>>).text = str.text \o <<Char(c)>>
<1>1. <<Char(c)>> \in Seq(Pieces)
  BY CharTyped, FewTyped
<1> QED
  BY <1>1, CatWhole

(* The values that db_json_entries writes fit their buffers.               *)
LEMMA RendersHere ==
  ASSUME PlacesInv, Renderable, line \in {"name", "value", "item"}
  PROVE  /\ Current.type = "string" => Renders(Current)
         /\ Current.type = "array" => \A k \in DOMAIN Current.texts : Renders(Current.texts[k])
<1>1. row \in DOMAIN rows /\ col \in DOMAIN rows[row]
  <2>1. rows[row] \in Seq(Value) /\ col \in 1 .. Len(rows[row]) /\ row \in 1 .. Len(rows)
    BY CurrentTyped DEF PlacesInv
  <2>2. rows \in Seq(Seq(Value))
    BY DEF PlacesInv
  <2> QED
    BY <2>1, <2>2
<1> QED
  BY <1>1 DEF Renderable, Current

LEMMA BeginRenders ==
  ASSUME RenderInv, Renderable, Begin
  PROVE  /\ line' = "row" => json'.text = IF Trail THEN ToRow(rows, TRUE, row') ELSE <<Char("{")>>
         /\ line' = "end" => /\ Trail
                             /\ json'.text = <<Char("[")>> \o JoinTo(Objects(rows), Len(rows))
<1>1. /\ json.text = <<>> /\ row = 1 /\ row' = row /\ rows \in Seq(Seq(Value)) /\ Whole(json)
      /\ line' = IF rows = <<>> THEN "end" ELSE "row"
  BY DEF RenderInv, WrittenInv, JsonInv, PlacesInv, Begin
<1>2. json'.text = IF Trail THEN <<Char("[")>> ELSE <<Char("{")>>
  <2>1. <<>> \o <<Char("[")>> = <<Char("[")>> /\ <<>> \o <<Char("{")>> = <<Char("{")>>
    BY SignTyped, ConcatEmptySeq
  <2>2. CASE Trail
    <3>1. json' = Cat(json, <<Char("[")>>)
      BY <2>2 DEF Begin
    <3> QED
      BY <1>1, <2>1, <2>2, <3>1, CatIs
  <2>3. CASE ~Trail
    <3>1. json' = Cat(json, <<Char("{")>>)
      BY <2>3 DEF Begin
    <3> QED
      BY <1>1, <2>1, <2>3, <3>1, CatIs
  <2> QED
    BY <2>2, <2>3
<1>3. JoinTo(Objects(rows), 0) = <<>>
  BY <1>1, ObjectsTyped, JoinNext
<1>4. <<Char("[")>> \o <<>> = <<Char("[")>>
  BY SignTyped, ConcatEmptySeq
<1>5. ToRow(rows, TRUE, 1) = <<Char("[")>>
  <2>1. (<<Char("[")>> \o <<>>) \o <<>> = <<Char("[")>>
    BY <1>4
  <2>2. JoinTo(Objects(rows), 1 - 1) = <<>> /\ Between(1) = <<>>
    BY <1>3 DEF Between
  <2>3. ToRow(rows, TRUE, 1) = (<<Char("[")>> \o JoinTo(Objects(rows), 1 - 1)) \o Between(1)
    BY DEF ToRow
  <2> QED
    BY <2>1, <2>2, <2>3
<1>6. rows = <<>> => Len(rows) = 0 /\ Trail
  BY <1>1 DEF Trail
<1> QED
  BY <1>1, <1>2, <1>3, <1>4, <1>5, <1>6

LEMMA BeginRowRenders ==
  ASSUME RenderInv, Renderable, BeginRow
  PROVE  /\ line' = "name" => json'.text = ToCol(rows, Trail, row', col')
         /\ line' = "rowEnd" => json'.text = ToCol(rows, Trail, row', Len(rows[row']) + 1)
<1>1. /\ json.text = IF Trail THEN ToRow(rows, TRUE, row) ELSE <<Char("{")>>
      /\ row' = row /\ col' = 1 /\ row \in 1 .. Len(rows)
      /\ rows \in Seq(Seq(Value)) /\ Whole(json)
      /\ line' = IF rows[row] = <<>> THEN "rowEnd" ELSE "name"
  BY DEF RenderInv, WrittenInv, JsonInv, PlacesInv, BeginRow
<1>2. rows[row] \in Seq(Value)
  BY <1>1, ElementOfSeq
<1>3. PICK r \in Seq(Pieces) : r = ToRow(rows, Trail, row) \o <<Char("{")>>
  <2>1. row \in 1 .. Len(rows) + 1
    BY DEF RenderInv, JsonInv, PlacesInv
  <2>2. Trail \in BOOLEAN
    BY TrailIs DEF RenderInv, JsonInv
  <2> QED
    BY <1>1, <2>1, <2>2, ToRowTyped, SignTyped, ConcatProperties
<1>4. json'.text = r
  <2>1. CASE Trail
    <3>1. json' = Cat(json, <<Char("{")>>)
      BY <2>1 DEF BeginRow
    <3>2. Trail = TRUE
      BY <2>1, TrailIs DEF RenderInv, JsonInv
    <3> QED
      BY <1>1, <1>3, <3>1, <3>2, CatIs
  <2>2. CASE ~Trail
    <3>1. json' = json
      BY <2>2 DEF BeginRow
    <3>2. <<>> \o <<Char("{")>> = <<Char("{")>>
      BY SignTyped, ConcatEmptySeq
    <3> QED
      BY <1>1, <1>3, <2>2, <3>1, <3>2 DEF ToRow
  <2> QED
    BY <2>1, <2>2
<1>5. JoinTo(Cols(rows[row]), 0) = <<>>
  BY <1>2, ColsTyped, JoinNext
<1>6. ToCol(rows, Trail, row, 1) = r
  <2>1. r \o <<>> = r /\ 1 - 1 = 0
    BY ConcatEmptySeq
  <2> QED
    BY <1>3, <1>5, <2>1 DEF ToCol
<1>7. rows[row] = <<>> => Len(rows[row]) + 1 = 1
  BY <1>2
<1> QED
  BY <1>1, <1>4, <1>6, <1>7

LEMMA WriteNameRenders ==
  ASSUME RenderInv, Renderable, WriteName
  PROVE  line' = "value" /\ json'.text = ToValue(rows, Trail, row', col')
<1>1. line = "name" /\ line' = "value" /\ row' = row /\ col' = col
  BY DEF WriteName
<1>2. json.text = ToCol(rows, Trail, row, col) /\ Whole(json)
  BY <1>1 DEF RenderInv, WrittenInv, JsonInv
<1>3. rows[row] \in Seq(Value) /\ col \in 1 .. Len(rows[row])
  BY <1>1, CurrentTyped DEF RenderInv, JsonInv
<1>4. col \in Nat
  BY <1>3
<1>5. ToCol(rows, Trail, row, col) \in Seq(Pieces)
  BY <1>2 DEF Whole
<1>6. PICK str : /\ Whole(str) /\ str = IF col = 1 THEN json ELSE Cat(json, <<Char(",")>>)
                 /\ str.text = ToCol(rows, Trail, row, col) \o Between(col)
  <2>1. CASE col = 1
    <3>1. ToCol(rows, Trail, row, col) \o <<>> = ToCol(rows, Trail, row, col)
      BY <1>5, ConcatEmptySeq
    <3> QED
      BY <1>2, <2>1, <3>1 DEF Between
  <2>2. CASE col # 1
    BY <1>2, <2>2, CatIs DEF Between
  <2> QED
    BY <2>1, <2>2
<1>7. json' = CatFmt(str, Name(col), NameLimit)
  BY <1>6 DEF WriteName
<1>8. json'.text = str.text \o Name(col)
  BY <1>4, <1>6, <1>7, NameWritten
<1> QED
  BY <1>1, <1>6, <1>8 DEF ToValue

(* A value is written: the next column, or the end of the row.             *)
LEMMA NextRenders ==
  ASSUME RenderInv, NextColumn, row' = row, line \in {"name", "value", "item"},
         json'.text = ToValue(rows, Trail, row, col) \o Written(Current)
  PROVE  /\ line' = "name" => json'.text = ToCol(rows, Trail, row', col')
         /\ line' = "rowEnd" => json'.text = ToCol(rows, Trail, row', Len(rows[row']) + 1)
         /\ line' \in {"name", "rowEnd"}
<1>1. /\ rows \in Seq(Seq(Value)) /\ row \in 1 .. Len(rows) /\ col \in 1 .. Len(rows[row])
      /\ Trail \in BOOLEAN
  BY TrailIs DEF RenderInv, JsonInv, PlacesInv
<1>2. json'.text = ToCol(rows, Trail, row, col + 1)
  BY <1>1, ToValueTyped DEF Current
<1>3. /\ line' = IF col = Len(rows[row]) THEN "rowEnd" ELSE "name"
      /\ col' = IF col = Len(rows[row]) THEN 1 ELSE col + 1
  BY DEF NextColumn
<1> QED
  BY <1>2, <1>3

LEMMA WriteScalarRenders ==
  ASSUME RenderInv, Renderable, WriteScalar
  PROVE  /\ line' = "name" => json'.text = ToCol(rows, Trail, row', col')
         /\ line' = "rowEnd" => json'.text = ToCol(rows, Trail, row', Len(rows[row']) + 1)
         /\ line' \in {"name", "rowEnd"}
<1>1. line = "value" /\ row' = row /\ NextColumn /\ Current.type # "array"
  BY DEF WriteScalar
<1>2. json.text = ToValue(rows, Trail, row, col) /\ Whole(json)
  BY <1>1 DEF RenderInv, WrittenInv, JsonInv
<1>3. Current \in Value
  BY <1>1, CurrentTyped DEF RenderInv, JsonInv
<1>4. CASE Current.type = "string"
  <2>1. Current.size \in Nat /\ Written(Current) = Quoted(Current)
    BY <1>3, <1>4, ValueIs
  <2>2. Current.size <= TextLimit - 3
    BY <1>1, <1>4, RendersHere DEF Renders, RenderInv, JsonInv
  <2>3. json' = CatFmt(json, Quoted(Current), TextLimit)
    BY <1>4 DEF WriteScalar
  <2>4. json'.text = ToValue(rows, Trail, row, col) \o Written(Current)
    BY <1>2, <2>1, <2>2, <2>3, QuotedWritten
  <2> QED
    BY <1>1, <2>4, NextRenders
<1>5. CASE Current.type # "string"
  <2>1. Written(Current) = <<Piece(Current.type, Current.size)>> /\ Written(Current) \in Seq(Pieces)
    BY <1>1, <1>3, <1>5, ValueIs, WrittenTyped
  <2>2. json' = Cat(json, <<Piece(Current.type, Current.size)>>)
    BY <1>5 DEF WriteScalar
  <2>3. json'.text = ToValue(rows, Trail, row, col) \o Written(Current)
    BY <1>2, <2>1, <2>2, CatWhole
  <2> QED
    BY <1>1, <2>3, NextRenders
<1> QED
  BY <1>4, <1>5

LEMMA BeginArrayRenders ==
  ASSUME RenderInv, Renderable, BeginArray
  PROVE  line' = "item" /\ json'.text = ToItem(rows, Trail, row', col', item')
<1>1. line = "value" /\ line' = "item" /\ row' = row /\ col' = col /\ item' = 1
      /\ Current.type = "array" /\ json' = Cat(json, <<Char("[")>>)
  BY DEF BeginArray
<1>2. json.text = ToValue(rows, Trail, row, col) /\ Whole(json)
  BY <1>1 DEF RenderInv, WrittenInv, JsonInv
<1>3. json'.text = ToValue(rows, Trail, row, col) \o <<Char("[")>>
  BY <1>1, <1>2, CatIs
<1>4. /\ rows \in Seq(Seq(Value)) /\ row \in 1 .. Len(rows) /\ col \in 1 .. Len(rows[row])
      /\ Trail \in BOOLEAN
  BY <1>1, TrailIs DEF RenderInv, JsonInv, PlacesInv
<1> QED
  BY <1>1, <1>3, <1>4, ToItemTyped DEF Current

LEMMA WriteItemRenders ==
  ASSUME RenderInv, Renderable, WriteItem
  PROVE  line' = "item" /\ json'.text = ToItem(rows, Trail, row', col', item')
<1>1. /\ line = "item" /\ line' = line /\ row' = row /\ col' = col /\ item' = item + 1
      /\ item <= Len(Current.texts)
  BY DEF WriteItem
<1>2. json.text = ToItem(rows, Trail, row, col, item) /\ Whole(json)
  BY <1>1 DEF RenderInv, WrittenInv, JsonInv
<1>3. /\ Current.type = "array" /\ Current.texts \in Seq(Text) /\ Len(Current.texts) \in Nat
      /\ item \in 1 .. Len(Current.texts)
  BY <1>1, ItemTyped DEF RenderInv, JsonInv
<1>4. PICK t : t = Current.texts[item] /\ t.size \in Nat /\ t.size <= TextLimit - 3
  <2>1. item \in DOMAIN Current.texts
    BY <1>3
  <2>2. Renders(Current.texts[item])
    BY <1>1, <1>3, <2>1, RendersHere DEF RenderInv, JsonInv
  <2>3. Current.texts[item].size \in Nat
    BY <1>3, QuotesTyped DEF Text
  <2> QED
    BY <2>2, <2>3 DEF Renders
<1>5. ToItem(rows, Trail, row, col, item) \in Seq(Pieces)
  BY <1>2 DEF Whole
<1>6. PICK str : /\ Whole(str) /\ str = IF item = 1 THEN json ELSE Cat(json, <<Char(",")>>)
                 /\ str.text = ToItem(rows, Trail, row, col, item) \o Between(item)
  <2>1. CASE item = 1
    <3>1. ToItem(rows, Trail, row, col, item) \o <<>> = ToItem(rows, Trail, row, col, item)
      BY <1>5, ConcatEmptySeq
    <3> QED
      BY <1>2, <2>1, <3>1 DEF Between
  <2>2. CASE item # 1
    BY <1>2, <2>2, CatIs DEF Between
  <2> QED
    BY <2>1, <2>2
<1>7. json' = CatFmt(str, Quoted(t), TextLimit)
  BY <1>4, <1>6 DEF WriteItem
<1>8. json'.text = (ToItem(rows, Trail, row, col, item) \o Between(item)) \o Quoted(t)
  BY <1>4, <1>6, <1>7, QuotedWritten
<1>9. /\ rows \in Seq(Seq(Value)) /\ row \in 1 .. Len(rows) /\ col \in 1 .. Len(rows[row])
      /\ Trail \in BOOLEAN
  BY <1>1, TrailIs DEF RenderInv, JsonInv, PlacesInv
<1>10. (ToItem(rows, Trail, row, col, item) \o Between(item)) \o Quoted(t)
         = ToItem(rows, Trail, row, col, item + 1)
  BY <1>3, <1>4, <1>9, ToItemTyped DEF Current
<1> QED
  BY <1>1, <1>8, <1>10

LEMMA EndArrayRenders ==
  ASSUME RenderInv, Renderable, EndArray
  PROVE  /\ line' = "name" => json'.text = ToCol(rows, Trail, row', col')
         /\ line' = "rowEnd" => json'.text = ToCol(rows, Trail, row', Len(rows[row']) + 1)
         /\ line' \in {"name", "rowEnd"}
<1>1. /\ line = "item" /\ row' = row /\ NextColumn /\ json' = Cat(json, <<Char("]")>>)
      /\ item > Len(Current.texts)
  BY DEF EndArray
<1>2. json.text = ToItem(rows, Trail, row, col, item) /\ Whole(json)
  BY <1>1 DEF RenderInv, WrittenInv, JsonInv
<1>3. Current.type = "array" /\ item = Len(Current.texts) + 1
  BY <1>1, ItemTyped DEF RenderInv, JsonInv
<1>4. json'.text = ToItem(rows, Trail, row, col, item) \o <<Char("]")>>
  BY <1>1, <1>2, CatIs
<1>5. /\ rows \in Seq(Seq(Value)) /\ row \in 1 .. Len(rows) /\ col \in 1 .. Len(rows[row])
      /\ Trail \in BOOLEAN
  BY <1>1, TrailIs DEF RenderInv, JsonInv, PlacesInv
<1>6. json'.text = ToValue(rows, Trail, row, col) \o Written(Current)
  BY <1>3, <1>4, <1>5, ToItemTyped DEF Current
<1> QED
  BY <1>1, <1>6, NextRenders

LEMMA EndRowRenders ==
  ASSUME RenderInv, Renderable, EndRow
  PROVE  /\ line' = "row" => json'.text = IF Trail THEN ToRow(rows, TRUE, row') ELSE <<Char("{")>>
         /\ line' = "end" => json'.text = IF Trail THEN <<Char("[")>> \o JoinTo(Objects(rows), Len(rows))
                                          ELSE ToCol(rows, FALSE, 1, Len(rows[1]) + 1)
         /\ line' \in {"row", "end"}
<1>1. /\ line = "rowEnd" /\ row' = row + 1
      /\ line' = IF row = Len(rows) THEN "end" ELSE "row"
  BY DEF EndRow
<1>2. /\ json.text = ToCol(rows, Trail, row, Len(rows[row]) + 1) /\ Whole(json)
      /\ rows \in Seq(Seq(Value)) /\ row \in 1 .. Len(rows)
  BY <1>1 DEF RenderInv, WrittenInv, JsonInv, PlacesInv
<1>3. CASE Trail
  <2>1. PICK closed : closed = Cat(json, <<Char("}")>>)
    OBVIOUS
  <2>2. Trail = TRUE
    BY <1>3, TrailIs DEF RenderInv, JsonInv
  <2>3. Whole(closed) /\ closed.text = <<Char("[")>> \o JoinTo(Objects(rows), row)
    <3>1. Whole(closed) /\ closed.text = json.text \o <<Char("}")>>
      BY <1>2, <2>1, CatIs
    <3>2. ToCol(rows, TRUE, row, Len(rows[row]) + 1) \o <<Char("}")>>
            = <<Char("[")>> \o JoinTo(Objects(rows), row)
      BY <1>2, ToNextRow
    <3> QED
      BY <1>2, <2>2, <3>1, <3>2
  <2>4. json' = IF row # Len(rows) THEN Cat(closed, <<Char(",")>>) ELSE closed
    BY <1>3, <2>1 DEF EndRow
  <2>5. CASE row = Len(rows)
    BY <1>1, <1>3, <2>3, <2>4, <2>5
  <2>6. CASE row # Len(rows)
    <3>1. json'.text = (<<Char("[")>> \o JoinTo(Objects(rows), row)) \o <<Char(",")>>
      BY <2>3, <2>4, <2>6, CatIs
    <3>2. row < Len(rows)
      BY <1>2, <2>6
    <3>3. json'.text = ToRow(rows, TRUE, row + 1)
      BY <1>2, <3>1, <3>2, ToNextRow
    <3> QED
      BY <1>1, <1>3, <2>6, <3>3
  <2> QED
    BY <2>5, <2>6
<1>4. CASE ~Trail
  <2>1. Len(rows) = 1 /\ Trail = FALSE
    BY <1>4, TrailIs DEF RenderInv, JsonInv
  <2>2. row = 1
    BY <1>2, <2>1
  <2>3. json' = json
    BY <1>4, <2>1, <2>2 DEF EndRow
  <2> QED
    BY <1>1, <1>2, <1>4, <2>1, <2>2, <2>3
<1> QED
  BY <1>3, <1>4

LEMMA EndRenders ==
  ASSUME RenderInv, Renderable, End
  PROVE  json'.text = IF squash /\ Len(rows) = 1
                      THEN Object(rows[1])
                      ELSE <<Char("[")>> \o Joined([i \in DOMAIN rows |-> Object(rows[i])])
                           \o <<Char("]")>>
<1>1. line = "end" /\ json' = Cat(json, <<Char(IF Trail THEN "]" ELSE "}")>>)
  BY DEF End
<1>2. /\ json.text = IF Trail THEN <<Char("[")>> \o JoinTo(Objects(rows), Len(rows))
                     ELSE ToCol(rows, FALSE, 1, Len(rows[1]) + 1)
      /\ Whole(json) /\ rows \in Seq(Seq(Value))
  BY <1>1 DEF RenderInv, WrittenInv, JsonInv, PlacesInv
<1>3. Trail <=> ~(squash /\ Len(rows) = 1)
  BY DEF Trail
<1>4. CASE Trail
  <2>1. json' = Cat(json, <<Char("]")>>)
    BY <1>1, <1>4
  <2>2. json'.text = (<<Char("[")>> \o JoinTo(Objects(rows), Len(rows))) \o <<Char("]")>>
    BY <1>2, <1>4, <2>1, CatIs
  <2>3. JoinTo(Objects(rows), Len(rows)) = Joined([i \in DOMAIN rows |-> Object(rows[i])])
    <3>1. PICK o \in Seq(Seq(Pieces)) : o = Objects(rows) /\ Len(o) = Len(rows)
      BY <1>2, ObjectsTyped
    <3>2. JoinTo(o, Len(o)) = Joined(o)
      BY JoinNext
    <3> QED
      BY <3>1, <3>2 DEF Objects
  <2> QED
    BY <1>3, <1>4, <2>2, <2>3
<1>5. CASE ~Trail
  <2>1. json' = Cat(json, <<Char("}")>>)
    BY <1>1, <1>5
  <2>2. json'.text = ToCol(rows, FALSE, 1, Len(rows[1]) + 1) \o <<Char("}")>>
    BY <1>2, <1>5, <2>1, CatIs
  <2>3. 1 \in 1 .. Len(rows)
    BY <1>3, <1>5
  <2>4. json'.text = Object(rows[1])
    BY <1>2, <2>2, <2>3, ToNextRow
  <2> QED
    BY <1>3, <1>5, <2>4
<1> QED
  BY <1>4, <1>5

LEMMA RenderStarts ==
  ASSUME NEW entries \in Seq(Seq(Value)), NEW single \in BOOLEAN, JsonStart(entries, single)
  PROVE  RenderInv
<1>1. WrittenInv
  BY DEF JsonStart, WrittenInv, RenderedIsJson
<1> QED
  BY <1>1, JsonStarts DEF RenderInv

LEMMA RenderKept ==
  ASSUME RenderInv, [JsonNext]_jsonvars
  PROVE  RenderInv'
<1>1. JsonInv'
  BY JsonKept DEF RenderInv
<1>2. rows' = rows /\ squash' = squash /\ (Trail' <=> Trail) /\ (Renderable' <=> Renderable)
  BY RowsStay
<1>3. Trail' = Trail
  BY <1>2 DEF Trail
<1>4. WrittenInv'
  <2> SUFFICES ASSUME Renderable PROVE WrittenInv'
    BY <1>2 DEF WrittenInv
  <2>1. CASE Begin
    <3>1. line' \in {"row", "end"}
      BY <2>1 DEF Begin
    <3> QED
      BY <1>2, <1>3, <2>1, <3>1, BeginRenders DEF WrittenInv, RenderedIsJson
  <2>2. CASE BeginRow
    <3>1. line' \in {"name", "rowEnd"}
      BY <2>2 DEF BeginRow
    <3> QED
      BY <1>2, <1>3, <2>2, <3>1, BeginRowRenders DEF WrittenInv, RenderedIsJson
  <2>3. CASE WriteName
    BY <1>2, <1>3, <2>3, WriteNameRenders DEF WrittenInv, RenderedIsJson
  <2>4. CASE WriteScalar
    BY <1>2, <1>3, <2>4, WriteScalarRenders DEF WrittenInv, RenderedIsJson
  <2>5. CASE BeginArray
    BY <1>2, <1>3, <2>5, BeginArrayRenders DEF WrittenInv, RenderedIsJson
  <2>6. CASE WriteItem
    BY <1>2, <1>3, <2>6, WriteItemRenders DEF WrittenInv, RenderedIsJson
  <2>7. CASE EndArray
    BY <1>2, <1>3, <2>7, EndArrayRenders DEF WrittenInv, RenderedIsJson
  <2>8. CASE EndRow
    BY <1>2, <1>3, <2>8, EndRowRenders DEF WrittenInv, RenderedIsJson
  <2>9. CASE End
    <3>1. line' = "done"
      BY <2>9 DEF End
    <3> QED
      BY <1>2, <1>3, <2>9, <3>1, EndRenders DEF WrittenInv, RenderedIsJson
  <2>10. CASE UNCHANGED jsonvars
    <3>1. json' = json /\ line' = line /\ row' = row /\ col' = col /\ item' = item
      BY <2>10 DEF jsonvars
    <3>2. WrittenInv
      BY DEF RenderInv
    <3> QED
      BY <1>2, <1>3, <3>1, <3>2 DEF WrittenInv, RenderedIsJson
  <2> QED
    BY <2>1, <2>2, <2>3, <2>4, <2>5, <2>6, <2>7, <2>8, <2>9, <2>10 DEF JsonNext
<1> QED
  BY <1>1, <1>4 DEF RenderInv

LEMMA RenderedIs == RenderInv => RenderedIsJson
BY DEF RenderInv, WrittenInv, RenderedIsJson

(* Whatever rows a result has, the text that db_json_entries makes of them *)
(* is their JSON when every text fits its buffer: commas, brackets and     *)
(* squash_if_single included (RenderedIsJson).                             *)
THEOREM RowsBecomeJson == JsonSpec => []RenderedIsJson
<1>1. JsonInit => RenderInv
  BY RenderStarts, JsonAssumption DEF JsonInit
<1> QED
  BY <1>1, RenderKept, RenderedIs, PTL DEF JsonSpec

-----------------------------------------------------------------------------
(* HttpParser. *)

(* What the bytes of a connection may be.                                  *)
TokenSet ==
  [t : {"line", "header", "length", "byte", "cr", "lf", "zero"}, of : Nat, n : Nat]

LEMMA TokenTyped ==
  ASSUME NEW what \in {"line", "header", "length", "byte", "cr", "lf", "zero"},
         NEW k \in Nat, NEW n \in Nat
  PROVE  Token(what, k, n) \in TokenSet
BY DEF Token, TokenSet

LEMMA SignalsTyped == CR \in TokenSet /\ LF \in TokenSet /\ Zero \in TokenSet
BY TokenTyped DEF CR, LF, Zero

LEMMA LineTyped ==
  ASSUME NEW what \in {"line", "header", "length"}, NEW k \in Nat, NEW n \in Nat
  PROVE  <<Token(what, k, n), CR, LF>> \in Seq(TokenSet)
<1>1. Token(what, k, n) \in TokenSet
  BY TokenTyped
<1> QED
  BY <1>1, SignalsTyped, FewTyped

LEMMA TokensTyped ==
  ASSUME NEW k \in Nat, NEW request \in Request
  PROVE  Tokens(k, request) \in Seq(TokenSet)
<1>1. PICK hs \in Nat, len \in Nat : hs = request.headers /\ len = request.body
  BY DEF Request
<1> DEFINE lines == [h \in 1 .. hs |-> <<Token("header", k, h), CR, LF>>]
<1>2. FlattenSeq(lines) \in Seq(TokenSet)
  <2>1. \A h \in 1 .. hs : <<Token("header", k, h), CR, LF>> \in Seq(TokenSet)
    BY LineTyped
  <2>2. lines \in Seq(Seq(TokenSet))
    BY <2>1
  <2> HIDE DEF lines
  <2>3. Len(lines) \in 0 .. Len(lines)
    BY <2>2
  <2> QED
    BY <2>2, <2>3, FlattenNext
<1>3. Body(k, len) \in Seq(TokenSet)
  <2>1. \A i \in 1 .. len : Token("byte", k, i) \in TokenSet
    BY TokenTyped
  <2> QED
    BY <2>1 DEF Body
<1>4. (IF len = 0 THEN <<>> ELSE <<Token("length", k, len), CR, LF>>) \in Seq(TokenSet)
  <2>1. <<>> \in Seq(TokenSet)
    OBVIOUS
  <2> QED
    BY <2>1, LineTyped
<1>5. <<CR, LF>> \in Seq(TokenSet)
  BY SignalsTyped
<1>6. <<Token("line", k, 0), CR, LF>> \in Seq(TokenSet)
  BY LineTyped
<1>7. Tokens(k, request) =
        (((<<Token("line", k, 0), CR, LF>> \o FlattenSeq(lines))
            \o (IF len = 0 THEN <<>> ELSE <<Token("length", k, len), CR, LF>>))
            \o <<CR, LF>>) \o Body(k, len)
  BY <1>1 DEF Tokens
<1> HIDE DEF lines
<1>8. <<Token("line", k, 0), CR, LF>> \o FlattenSeq(lines) \in Seq(TokenSet)
  BY <1>2, <1>6, ConcatProperties
<1>9. (<<Token("line", k, 0), CR, LF>> \o FlattenSeq(lines))
        \o (IF len = 0 THEN <<>> ELSE <<Token("length", k, len), CR, LF>>) \in Seq(TokenSet)
  BY <1>4, <1>8, ConcatProperties
<1>10. ((<<Token("line", k, 0), CR, LF>> \o FlattenSeq(lines))
         \o (IF len = 0 THEN <<>> ELSE <<Token("length", k, len), CR, LF>>)) \o <<CR, LF>>
           \in Seq(TokenSet)
  BY <1>5, <1>9, ConcatProperties
<1> QED
  BY <1>3, <1>7, <1>10, ConcatProperties

(* The cursors of the parser stay in what was read, and the loop counts    *)
(* its requests down from AtOnce.                                          *)
ParserInv ==
  /\ place \in {"wait", "forced", "parse", "return", "compact", "closed", "wrapped"}
  /\ stream \in Seq(TokenSet)
  /\ buf \in [1 .. Room + 1 -> TokenSet]
  /\ org \in 0 .. Room
  /\ base \in Nat \ {0} /\ start \in Nat \ {0}
  /\ place = "compact" => base <= org + 1
  /\ parser \in [stage : {"line", "headers", "body", "complete"}, length : Nat, read : Int]
  /\ limit \in 0 .. AtOnce
  /\ place \in {"parse", "return"} => limit > 0

LEMMA ParserStarts ==
  ASSUME NEW requests \in Seq(Request), ParserStart(requests)
  PROVE  ParserInv
<1>1. PICK n \in Nat : n = Len(requests) /\ DOMAIN requests = 1 .. n
  OBVIOUS
<1> DEFINE all == [k \in 1 .. n |-> Tokens(k, requests[k])]
<1>2. \A k \in 1 .. n : Tokens(k, requests[k]) \in Seq(TokenSet)
  BY <1>1, ElementOfSeq, TokensTyped
<1>3. all \in Seq(Seq(TokenSet)) /\ stream = FlattenSeq(all)
  BY <1>1, <1>2 DEF ParserStart
<1> HIDE DEF all
<1>4. stream \in Seq(TokenSet)
  <2>1. Len(all) \in 0 .. Len(all)
    BY <1>3
  <2> QED
    BY <1>3, <2>1, FlattenNext
<1> QED
  BY <1>4, SignalsTyped, ParserAssumption DEF ParserStart, ParserInv, Fresh

LEMMA ParserKept ==
  ASSUME ParserInv, [ParserNext]_parservars
  PROVE  ParserInv'
<1> USE DEF ParserInv
<1>1. Room \in Nat /\ AtOnce \in Nat \ {0}
  BY ParserAssumption
<1>2. CASE OnData
  <2>1. PICK n \in (IF place = "forced" THEN {0} ELSE {}) \cup (1 .. Len(stream)) :
          /\ org + n <= Room
          /\ buf' = [i \in DOMAIN buf |-> IF i \in org + 1 .. org + n THEN stream[i - org] ELSE buf[i]]
          /\ stream' = SubSeq(stream, n + 1, Len(stream))
          /\ org' = org + n
    BY <1>2 DEF OnData
  <2>2. n \in 0 .. Len(stream) /\ Len(stream) \in Nat /\ n \in Nat
    BY <2>1
  <2>3. buf' \in [1 .. Room + 1 -> TokenSet]
    <3>1. ASSUME NEW i \in 1 .. Room + 1, i \in org + 1 .. org + n
          PROVE  stream[i - org] \in TokenSet
      <4>1. i - org \in 1 .. Len(stream)
        BY <1>1, <2>2, <3>1
      <4> QED
        BY <4>1, ElementOfSeq
    <3> QED
      BY <2>1, <3>1
  <2>4. stream' \in Seq(TokenSet)
    BY <2>1, <2>2
  <2>5. org' \in 0 .. Room
    BY <1>1, <2>1, <2>2
  <2> QED
    BY <1>1, <1>2, <2>3, <2>4, <2>5 DEF OnData
<1>3. ASSUME Eol # 0 PROVE Eol + 1 \in Nat \ {0}
  <2>1. Eol \in start .. org
    BY <1>3 DEF Eol
  <2> QED
    BY <2>1
<1>4. CASE SkipBlank
  BY <1>4 DEF SkipBlank, In
<1>5. CASE RequestLine
  BY <1>3, <1>5 DEF RequestLine, In
<1>6. CASE BadLine
  BY <1>6 DEF BadLine, In
<1>7. CASE HeaderLine
  <2>1. parser' \in [stage : {"line", "headers", "body", "complete"}, length : Nat, read : Int]
    <3>1. start \in 1 .. Room + 1
      BY <1>1, <1>7 DEF HeaderLine
    <3>2. buf[start].n \in Nat
      BY <3>1 DEF TokenSet
    <3> QED
      BY <1>7, <3>2 DEF HeaderLine, WithHeader
  <2> QED
    BY <1>3, <1>7, <2>1 DEF HeaderLine, In
<1>8. CASE EmptyLine
  BY <1>8 DEF EmptyLine, In
<1>9. CASE NeedMore
  BY <1>9 DEF NeedMore
<1>10. CASE ReadBody
  <2> DEFINE end == IF start + parser.length - parser.read > org + 1
                    THEN org + 1 ELSE start + parser.length - parser.read
  <2>1. /\ start' = end /\ parser.length \in Nat /\ parser.read \in Int /\ parser.length > parser.read
        /\ parser'.read = parser.read + end - start
    BY <1>10 DEF ReadBody
  <2>2. start' \in Nat \ {0}
    BY <2>1
  <2>3. parser' \in [stage : {"line", "headers", "body", "complete"}, length : Nat, read : Int]
    <3>1. PICK r \in Int : r = parser.read + end - start
      BY <2>1
    <3>2. parser' = [parser EXCEPT !.read = r,
                                   !.stage = IF parser.length <= r THEN "complete" ELSE parser.stage]
      BY <1>10, <3>1 DEF ReadBody
    <3> HIDE DEF end
    <3> QED
      BY <3>2
  <2> QED
    BY <1>10, <2>2, <2>3 DEF ReadBody, In
<1>11. CASE NothingToRead
  BY <1>11 DEF NothingToRead, In
<1>12. CASE Complete
  BY <1>12 DEF Complete, In, Fresh
<1>13. CASE Loop
  BY <1>1, <1>13 DEF Loop
<1>14. CASE Compact
  <2>1. org + 1 - base \in 0 .. Room
    BY <1>1, <1>14 DEF Compact
  <2>2. buf' \in [1 .. Room + 1 -> TokenSet]
    <3>1. ASSUME NEW i \in 1 .. Room + 1, i <= org + 1 - base
          PROVE  base + i - 1 \in 1 .. Room + 1
      BY <1>1, <3>1
    <3> QED
      BY <1>14, <3>1 DEF Compact
  <2> QED
    BY <1>1, <1>14, <2>1, <2>2 DEF Compact
<1>15. CASE UNCHANGED parservars
  BY <1>15 DEF parservars
<1> QED
  BY <1>2, <1>4, <1>5, <1>6, <1>7, <1>8, <1>9, <1>10, <1>11, <1>12, <1>13, <1>14, <1>15
  DEF ParserNext

LEMMA ParserTyped == ParserInv => ParserTypeOK
BY DEF ParserInv, ParserTypeOK

-----------------------------------------------------------------------------
(* The requests of a client in its stream.                                 *)

(* The lines of a request up to the empty one, and how each begins.        *)
Lines(request) == request.headers + IF request.body = 0 THEN 1 ELSE 2

First(k, request, i) ==
  IF i = 0 THEN Token("line", k, 0)
  ELSE IF i <= request.headers THEN Token("header", k, i)
  ELSE Token("length", k, request.body)

LinesAt(all, at, k, request, n) ==
  \A i \in 0 .. n - 1 : /\ all[at + 3 * i + 1] = First(k, request, i)
                        /\ all[at + 3 * i + 2] = CR /\ all[at + 3 * i + 3] = LF

RequestAt(all, at, k, request) ==
  /\ LinesAt(all, at, k, request, Lines(request))
  /\ all[at + 3 * Lines(request) + 1] = CR /\ all[at + 3 * Lines(request) + 2] = LF
  /\ \A i \in 1 .. request.body : all[at + 3 * Lines(request) + 2 + i] = Token("byte", k, i)

Size(request) == 3 * Lines(request) + 2 + request.body

(* Where each request begins: behind off[k] tokens.                        *)
StreamLaid(off, all, requests) ==
  /\ off \in [1 .. Len(requests) + 1 -> Nat]
  /\ off[1] = 0 /\ off[Len(requests) + 1] = Len(all)
  /\ \A k \in 1 .. Len(requests) :
       /\ off[k + 1] = off[k] + Size(requests[k]) /\ off[k + 1] <= Len(all)
       /\ RequestAt(all, off[k], k, requests[k])

LEMMA JoinAt ==
  ASSUME NEW P, NEW a \in Seq(P), NEW b \in Seq(P)
  PROVE  /\ Then(a, b) \in Seq(P) /\ Len(Then(a, b)) = Len(a) + Len(b)
         /\ \A i \in 1 .. Len(a) : Then(a, b)[i] = a[i]
         /\ \A i \in 1 .. Len(b) : Then(a, b)[Len(a) + i] = b[i]
<1>1. PICK m \in Nat, n \in Nat : m = Len(a) /\ n = Len(b)
  OBVIOUS
<1>2. PICK c : c = Then(a, b)
  OBVIOUS
<1>3. c = a \o b
  BY <1>2 DEF Then
<1>4. /\ c \in Seq(P) /\ Len(c) = m + n
      /\ \A i \in 1 .. m + n : c[i] = IF i <= m THEN a[i] ELSE b[i - m]
  BY <1>1, <1>3, ConcatProperties
<1>5. \A i \in 1 .. m : c[i] = a[i]
  BY <1>4
<1>6. ASSUME NEW i \in 1 .. n PROVE c[m + i] = b[i]
  <2>1. m + i \in 1 .. m + n /\ ~(m + i <= m) /\ (m + i) - m = i
    OBVIOUS
  <2> QED
    BY <1>4, <2>1
<1> QED
  BY <1>1, <1>2, <1>4, <1>5, <1>6

Headers(k, n) == FlattenSeq([h \in 1 .. n |-> <<Token("header", k, h), CR, LF>>])

LEMMA HeadersLaid ==
  ASSUME NEW k \in Nat, NEW n \in Nat
  PROVE  /\ Headers(k, n) \in Seq(TokenSet) /\ Len(Headers(k, n)) = 3 * n
         /\ \A h \in 1 .. n : /\ Headers(k, n)[3 * (h - 1) + 1] = Token("header", k, h)
                              /\ Headers(k, n)[3 * (h - 1) + 2] = CR
                              /\ Headers(k, n)[3 * (h - 1) + 3] = LF
<1> DEFINE each == [h \in 1 .. n |-> <<Token("header", k, h), CR, LF>>]
<1>1. \A h \in 1 .. n : /\ each[h] = <<Token("header", k, h), CR, LF>>
                        /\ each[h] \in Seq(TokenSet) /\ Len(each[h]) = 3
  <2> TAKE h \in 1 .. n
  <2>1. each[h] = <<Token("header", k, h), CR, LF>>
    OBVIOUS
  <2>2. <<Token("header", k, h), CR, LF>> \in Seq(TokenSet)
    BY LineTyped
  <2>3. Len(<<Token("header", k, h), CR, LF>>) = 3
    OBVIOUS
  <2> HIDE DEF each
  <2> QED
    BY <2>1, <2>2, <2>3
<1>2. each \in Seq(Seq(TokenSet)) /\ Len(each) = n
  <2>1. \A h \in 1 .. n : <<Token("header", k, h), CR, LF>> \in Seq(TokenSet)
    BY LineTyped
  <2> QED
    BY <2>1
<1>3. PICK f : f = Headers(k, n) /\ f = FlattenSeq(each)
  BY DEF Headers
<1> HIDE DEF each
<1>4. PICK u : u = [h \in 0 .. n |-> Len(UpTo(each, h))]
  OBVIOUS
<1>5. f = UpTo(each, n) /\ f \in Seq(TokenSet)
  <2>1. n \in 0 .. n
    OBVIOUS
  <2> QED
    BY <1>2, <1>3, <2>1, FlattenNext
<1>6. u[0] = 0 /\ u[n] = Len(f)
  <2>1. UpTo(each, 0) = <<>> /\ Len(<<>>) = 0
    BY <1>2, FlattenNext
  <2>2. u[0] = Len(UpTo(each, 0)) /\ u[n] = Len(UpTo(each, n))
    BY <1>4
  <2> QED
    BY <1>5, <2>1, <2>2
<1>7. \A h \in 1 .. n : /\ u[h] = u[h - 1] + 3
                        /\ \A i \in 1 .. 3 : f[u[h - 1] + i] = each[h][i]
  <2> TAKE h \in 1 .. n
  <2>1. h \in 0 .. n /\ h - 1 \in 0 .. n
    OBVIOUS
  <2>2. u[h] = Len(UpTo(each, h)) /\ u[h - 1] = Len(UpTo(each, h - 1))
    BY <1>4, <2>1
  <2>3. /\ Len(UpTo(each, h)) = Len(UpTo(each, h - 1)) + Len(each[h])
        /\ \A i \in 1 .. Len(each[h]) : UpTo(each, n)[Len(UpTo(each, h - 1)) + i] = each[h][i]
    BY <1>2, FlattenAt
  <2> QED
    BY <1>1, <1>5, <2>2, <2>3
<1>8. \A h \in Nat : h \in 0 .. n => u[h] = 3 * h
  <2> DEFINE N == {h \in Nat : h \in 0 .. n => u[h] = 3 * h}
  <2>1. 0 \in N
    BY <1>6
  <2>2. ASSUME NEW h \in Nat, h \in N PROVE h + 1 \in N
    <3> SUFFICES ASSUME h + 1 \in 0 .. n PROVE u[h + 1] = 3 * (h + 1)
      OBVIOUS
    <3>1. h + 1 \in 1 .. n /\ (h + 1) - 1 = h /\ h \in 0 .. n
      OBVIOUS
    <3>2. u[h + 1] = u[h] + 3
      BY <1>7, <3>1
    <3>3. u[h] = 3 * h
      BY <2>2, <3>1
    <3> QED
      BY <3>2, <3>3
  <2>3. Nat \subseteq N
    <3> HIDE DEF N
    <3> QED
      BY <2>1, <2>2, Induction
  <2> QED
    BY <2>3
<1>9. ASSUME NEW h \in 1 .. n
      PROVE  /\ f[3 * (h - 1) + 1] = Token("header", k, h)
             /\ f[3 * (h - 1) + 2] = CR /\ f[3 * (h - 1) + 3] = LF
  <2>1. h - 1 \in Nat /\ h - 1 \in 0 .. n
    OBVIOUS
  <2>2. u[h - 1] = 3 * (h - 1)
    BY <1>8, <2>1
  <2>3. /\ f[3 * (h - 1) + 1] = each[h][1] /\ f[3 * (h - 1) + 2] = each[h][2]
        /\ f[3 * (h - 1) + 3] = each[h][3]
    BY <1>7, <2>2
  <2> QED
    BY <1>1, <2>3
<1>10. Len(f) = 3 * n
  BY <1>6, <1>8
<1> QED
  BY <1>3, <1>5, <1>9, <1>10

(* A request as its tokens follow each other.                              *)
LinesOf(t, k, request, n) ==
  \A i \in 0 .. n - 1 : /\ t[3 * i + 1] = First(k, request, i)
                        /\ t[3 * i + 2] = CR /\ t[3 * i + 3] = LF

LEMMA TokensLaid ==
  ASSUME NEW k \in Nat, NEW request \in Request, NEW t, t = Tokens(k, request)
  PROVE  /\ t \in Seq(TokenSet) /\ Len(t) = Size(request)
         /\ LinesOf(t, k, request, Lines(request))
         /\ t[3 * Lines(request) + 1] = CR /\ t[3 * Lines(request) + 2] = LF
         /\ \A i \in 1 .. request.body : t[3 * Lines(request) + 2 + i] = Token("byte", k, i)
<1>1. PICK hs \in Nat, len \in Nat : hs = request.headers /\ len = request.body
  BY DEF Request
<1>2. PICK a : a = <<Token("line", k, 0), CR, LF>>
  OBVIOUS
<1>3. a \in Seq(TokenSet) /\ Len(a) = 3 /\ a[1] = Token("line", k, 0) /\ a[2] = CR /\ a[3] = LF
  <2>1. <<Token("line", k, 0), CR, LF>> \in Seq(TokenSet)
    BY LineTyped
  <2> QED
    BY <1>2, <2>1
<1>4. PICK b : b = Headers(k, hs)
  OBVIOUS
<1>5. /\ b \in Seq(TokenSet) /\ Len(b) = 3 * hs
      /\ \A h \in 1 .. hs : /\ b[3 * (h - 1) + 1] = Token("header", k, h)
                            /\ b[3 * (h - 1) + 2] = CR /\ b[3 * (h - 1) + 3] = LF
  BY <1>4, HeadersLaid
<1>6. PICK c : c = IF len = 0 THEN <<>> ELSE <<Token("length", k, len), CR, LF>>
  OBVIOUS
<1>7. /\ c \in Seq(TokenSet)
      /\ len = 0 => Len(c) = 0
      /\ len # 0 => Len(c) = 3 /\ c[1] = Token("length", k, len) /\ c[2] = CR /\ c[3] = LF
  <2>1. <<Token("length", k, len), CR, LF>> \in Seq(TokenSet) /\ <<>> \in Seq(TokenSet)
    BY LineTyped
  <2> QED
    BY <1>6, <2>1
<1>8. PICK d : d = <<CR, LF>> /\ d \in Seq(TokenSet) /\ Len(d) = 2 /\ d[1] = CR /\ d[2] = LF
  <2>1. <<CR, LF>> \in Seq(TokenSet)
    BY SignalsTyped
  <2>2. Len(<<CR, LF>>) = 2 /\ <<CR, LF>>[1] = CR /\ <<CR, LF>>[2] = LF
    OBVIOUS
  <2> QED
    BY <2>1, <2>2, Zenon
<1>9. PICK e : e = Body(k, len)
  OBVIOUS
<1>10. e \in Seq(TokenSet) /\ Len(e) = len /\ \A i \in 1 .. len : e[i] = Token("byte", k, i)
  <2>1. \A i \in 1 .. len : Token("byte", k, i) \in TokenSet
    BY TokenTyped
  <2> QED
    BY <1>9, <2>1 DEF Body
<1>11. t = Then(Then(Then(Then(a, b), c), d), e)
  BY <1>1, <1>2, <1>4, <1>6, <1>8, <1>9, Zenon DEF Tokens, Headers, Then
<1>12. PICK ab : ab = Then(a, b)
  OBVIOUS
<1>13. /\ ab \in Seq(TokenSet) /\ Len(ab) = 3 * hs + 3
       /\ \A i \in 1 .. 3 : ab[i] = a[i]
       /\ \A i \in 1 .. 3 * hs : ab[3 + i] = b[i]
  <2>1. Len(b) \in Nat
    BY <1>5
  <2>5. a \in Seq(TokenSet) /\ b \in Seq(TokenSet)
    BY <1>3, <1>5
  <2>6. Then(a, b) \in Seq(TokenSet) /\ Len(Then(a, b)) = Len(a) + Len(b)
    BY ONLY <2>5, JoinAt
  <2>7. \A i \in 1 .. Len(a) : Then(a, b)[i] = a[i]
    BY ONLY <2>5, JoinAt
  <2>8. \A i \in 1 .. Len(b) : Then(a, b)[Len(a) + i] = b[i]
    BY ONLY <2>5, JoinAt
  <2>2. /\ ab \in Seq(TokenSet) /\ Len(ab) = 3 + Len(b)
        /\ \A i \in 1 .. 3 : ab[i] = a[i]
        /\ \A i \in 1 .. Len(b) : ab[3 + i] = b[i]
    BY <1>3, <1>12, <2>6, <2>7, <2>8
  <2> QED
    BY <1>5, <2>1, <2>2
<1>14. LinesOf(ab, k, request, hs + 1)
  <2> SUFFICES ASSUME NEW i \in 0 .. (hs + 1) - 1
               PROVE  /\ ab[3 * i + 1] = First(k, request, i)
                      /\ ab[3 * i + 2] = CR /\ ab[3 * i + 3] = LF
    BY DEF LinesOf
  <2>1. CASE i = 0
    <3>1. 3 * i + 1 = 1 /\ 3 * i + 2 = 2 /\ 3 * i + 3 = 3
      BY <2>1
    <3>2. ab[1] = a[1] /\ ab[2] = a[2] /\ ab[3] = a[3]
      BY <1>13
    <3> QED
      BY <1>3, <2>1, <3>1, <3>2 DEF First
  <2>2. CASE i # 0
    <3>1. i \in 1 .. hs
      BY <2>2
    <3>2. PICK j \in Nat : j = 3 * (i - 1) /\ 3 * i = 3 + j /\ j + 3 <= 3 * hs
      BY <3>1
    <3>3. j + 1 \in 1 .. 3 * hs /\ j + 2 \in 1 .. 3 * hs /\ j + 3 \in 1 .. 3 * hs
      BY <3>2
    <3>4. ab[3 + (j + 1)] = b[j + 1] /\ ab[3 + (j + 2)] = b[j + 2] /\ ab[3 + (j + 3)] = b[j + 3]
      BY <1>13, <3>3
    <3>5. 3 * i + 1 = 3 + (j + 1) /\ 3 * i + 2 = 3 + (j + 2) /\ 3 * i + 3 = 3 + (j + 3)
      BY <3>2
    <3>6. b[j + 1] = Token("header", k, i) /\ b[j + 2] = CR /\ b[j + 3] = LF
      BY <1>5, <3>1, <3>2
    <3>7. First(k, request, i) = Token("header", k, i)
      BY <1>1, <2>2, <3>1 DEF First
    <3> QED
      BY <3>4, <3>5, <3>6, <3>7
  <2> QED
    BY <2>1, <2>2
<1>15. PICK abc : abc = Then(ab, c)
  OBVIOUS
<1>16. PICK n \in Nat : n = Lines(request) /\ n = hs + (IF len = 0 THEN 1 ELSE 2)
  BY <1>1 DEF Lines
<1>17. /\ abc \in Seq(TokenSet) /\ Len(abc) = 3 * n
       /\ \A i \in 1 .. 3 * hs + 3 : abc[i] = ab[i]
       /\ len # 0 => \A i \in 1 .. 3 : abc[(3 * hs + 3) + i] = c[i]
  <2>5. ab \in Seq(TokenSet) /\ c \in Seq(TokenSet)
    BY <1>7, <1>13
  <2>6. Then(ab, c) \in Seq(TokenSet) /\ Len(Then(ab, c)) = Len(ab) + Len(c)
    BY ONLY <2>5, JoinAt
  <2>7. \A i \in 1 .. Len(ab) : Then(ab, c)[i] = ab[i]
    BY ONLY <2>5, JoinAt
  <2>8. \A i \in 1 .. Len(c) : Then(ab, c)[Len(ab) + i] = c[i]
    BY ONLY <2>5, JoinAt
  <2>1. /\ abc \in Seq(TokenSet) /\ Len(abc) = Len(ab) + Len(c)
        /\ \A i \in 1 .. Len(ab) : abc[i] = ab[i]
        /\ \A i \in 1 .. Len(c) : abc[Len(ab) + i] = c[i]
    BY <1>15, <2>6, <2>7, <2>8
  <2>2. CASE len = 0
    BY <1>7, <1>13, <1>16, <2>1, <2>2
  <2>3. CASE len # 0
    <3>1. n = hs + 2 /\ Len(c) = 3 /\ Len(ab) = 3 * hs + 3
      BY <1>7, <1>13, <1>16, <2>3
    <3>2. Len(abc) = 3 * n
      BY <2>1, <3>1
    <3>3. \A i \in 1 .. 3 : abc[(3 * hs + 3) + i] = c[i]
      BY <2>1, <3>1
    <3>4. \A i \in 1 .. 3 * hs + 3 : abc[i] = ab[i]
      BY <2>1, <3>1
    <3> QED
      BY <2>1, <3>2, <3>3, <3>4
  <2> QED
    BY <2>2, <2>3
<1>18. LinesOf(abc, k, request, n)
  <2> SUFFICES ASSUME NEW i \in 0 .. n - 1
               PROVE  /\ abc[3 * i + 1] = First(k, request, i)
                      /\ abc[3 * i + 2] = CR /\ abc[3 * i + 3] = LF
    BY DEF LinesOf
  <2>1. CASE i <= hs
    <3>1. /\ 3 * i + 1 \in 1 .. 3 * hs + 3 /\ 3 * i + 2 \in 1 .. 3 * hs + 3
          /\ 3 * i + 3 \in 1 .. 3 * hs + 3 /\ i \in 0 .. (hs + 1) - 1
      BY <2>1
    <3>2. ab[3 * i + 1] = First(k, request, i) /\ ab[3 * i + 2] = CR /\ ab[3 * i + 3] = LF
      BY <1>14, <3>1 DEF LinesOf
    <3> QED
      BY <1>17, <3>1, <3>2
  <2>2. CASE ~(i <= hs)
    <3>1. len # 0 /\ i = hs + 1
      BY <1>16, <2>2
    <3>2. /\ 3 * i + 1 = (3 * hs + 3) + 1 /\ 3 * i + 2 = (3 * hs + 3) + 2
          /\ 3 * i + 3 = (3 * hs + 3) + 3
      BY <3>1
    <3>3. abc[(3 * hs + 3) + 1] = c[1] /\ abc[(3 * hs + 3) + 2] = c[2] /\ abc[(3 * hs + 3) + 3] = c[3]
      BY <1>17, <3>1
    <3>4. First(k, request, i) = Token("length", k, len)
      BY <1>1, <3>1 DEF First
    <3> QED
      BY <1>7, <3>1, <3>2, <3>3, <3>4
  <2> QED
    BY <2>1, <2>2
<1>19. PICK abcd : abcd = Then(abc, d)
  OBVIOUS
<1>20. /\ abcd \in Seq(TokenSet) /\ Len(abcd) = 3 * n + 2
       /\ \A i \in 1 .. 3 * n : abcd[i] = abc[i]
       /\ abcd[3 * n + 1] = CR /\ abcd[3 * n + 2] = LF
  <2>5. abc \in Seq(TokenSet) /\ d \in Seq(TokenSet)
    BY <1>8, <1>17
  <2>6. Then(abc, d) \in Seq(TokenSet) /\ Len(Then(abc, d)) = Len(abc) + Len(d)
    BY ONLY <2>5, JoinAt
  <2>7. \A i \in 1 .. Len(abc) : Then(abc, d)[i] = abc[i]
    BY ONLY <2>5, JoinAt
  <2>8. \A i \in 1 .. Len(d) : Then(abc, d)[Len(abc) + i] = d[i]
    BY ONLY <2>5, JoinAt
  <2>1. /\ abcd \in Seq(TokenSet) /\ Len(abcd) = Len(abc) + 2
        /\ \A i \in 1 .. Len(abc) : abcd[i] = abc[i]
        /\ \A i \in 1 .. 2 : abcd[Len(abc) + i] = d[i]
    BY <1>8, <1>19, <2>6, <2>7, <2>8
  <2> QED
    BY <1>8, <1>17, <2>1
<1>21. /\ t \in Seq(TokenSet) /\ Len(t) = 3 * n + 2 + len
       /\ \A i \in 1 .. 3 * n + 2 : t[i] = abcd[i]
       /\ \A i \in 1 .. len : t[3 * n + 2 + i] = e[i]
  <2>1. t = Then(abcd, e)
    BY <1>11, <1>12, <1>15, <1>19
  <2>5. abcd \in Seq(TokenSet) /\ e \in Seq(TokenSet)
    BY <1>10, <1>20
  <2>6. Then(abcd, e) \in Seq(TokenSet) /\ Len(Then(abcd, e)) = Len(abcd) + Len(e)
    BY ONLY <2>5, JoinAt
  <2>7. \A i \in 1 .. Len(abcd) : Then(abcd, e)[i] = abcd[i]
    BY ONLY <2>5, JoinAt
  <2>8. \A i \in 1 .. Len(e) : Then(abcd, e)[Len(abcd) + i] = e[i]
    BY ONLY <2>5, JoinAt
  <2>2. /\ t \in Seq(TokenSet) /\ Len(t) = Len(abcd) + len
        /\ \A i \in 1 .. Len(abcd) : t[i] = abcd[i]
        /\ \A i \in 1 .. len : t[Len(abcd) + i] = e[i]
    BY <1>10, <2>1, <2>6, <2>7, <2>8
  <2> QED
    BY <1>20, <2>2
<1>22. t[3 * n + 1] = CR /\ t[3 * n + 2] = LF
  <2>1. 3 * n + 1 \in 1 .. 3 * n + 2 /\ 3 * n + 2 \in 1 .. 3 * n + 2
    OBVIOUS
  <2> QED
    BY <1>20, <1>21, <2>1
<1>23. LinesOf(t, k, request, n)
  <2> SUFFICES ASSUME NEW i \in 0 .. n - 1
               PROVE  /\ t[3 * i + 1] = First(k, request, i)
                      /\ t[3 * i + 2] = CR /\ t[3 * i + 3] = LF
    BY DEF LinesOf
  <2>1. /\ 3 * i + 1 \in 1 .. 3 * n /\ 3 * i + 2 \in 1 .. 3 * n /\ 3 * i + 3 \in 1 .. 3 * n
        /\ 3 * i + 1 \in 1 .. 3 * n + 2 /\ 3 * i + 2 \in 1 .. 3 * n + 2 /\ 3 * i + 3 \in 1 .. 3 * n + 2
    OBVIOUS
  <2>2. abc[3 * i + 1] = First(k, request, i) /\ abc[3 * i + 2] = CR /\ abc[3 * i + 3] = LF
    BY <1>18 DEF LinesOf
  <2> QED
    BY <1>20, <1>21, <2>1, <2>2
<1>24. \A i \in 1 .. len : t[3 * n + 2 + i] = Token("byte", k, i)
  BY <1>10, <1>21
<1> QED
  BY <1>1, <1>16, <1>21, <1>22, <1>23, <1>24 DEF Size

Stream(requests) == FlattenSeq([k \in DOMAIN requests |-> Tokens(k, requests[k])])

LEMMA RequestMoved ==
  ASSUME NEW k, NEW request \in Request, NEW at \in Nat, NEW all, NEW t,
         \A i \in 1 .. Size(request) : all[at + i] = t[i],
         LinesOf(t, k, request, Lines(request)),
         t[3 * Lines(request) + 1] = CR /\ t[3 * Lines(request) + 2] = LF,
         \A i \in 1 .. request.body : t[3 * Lines(request) + 2 + i] = Token("byte", k, i)
  PROVE  RequestAt(all, at, k, request)
<1>1. PICK n \in Nat, len \in Nat : n = Lines(request) /\ len = request.body
  BY DEF Request, Lines
<1>2. Size(request) = 3 * n + 2 + len
  BY <1>1 DEF Size
<1>3. ASSUME NEW i \in 0 .. n - 1
      PROVE  /\ all[at + 3 * i + 1] = First(k, request, i)
             /\ all[at + 3 * i + 2] = CR /\ all[at + 3 * i + 3] = LF
  <2>1. /\ 3 * i + 1 \in 1 .. 3 * n + 2 + len /\ at + 3 * i + 1 = at + (3 * i + 1)
        /\ 3 * i + 2 \in 1 .. 3 * n + 2 + len /\ at + 3 * i + 2 = at + (3 * i + 2)
        /\ 3 * i + 3 \in 1 .. 3 * n + 2 + len /\ at + 3 * i + 3 = at + (3 * i + 3)
    OBVIOUS
  <2>2. /\ all[at + (3 * i + 1)] = t[3 * i + 1] /\ all[at + (3 * i + 2)] = t[3 * i + 2]
        /\ all[at + (3 * i + 3)] = t[3 * i + 3]
    BY <1>2, <2>1
  <2>3. t[3 * i + 1] = First(k, request, i) /\ t[3 * i + 2] = CR /\ t[3 * i + 3] = LF
    BY <1>1 DEF LinesOf
  <2> QED
    BY <2>1, <2>2, <2>3
<1>4. all[at + 3 * n + 1] = CR /\ all[at + 3 * n + 2] = LF
  <2>1. /\ 3 * n + 1 \in 1 .. 3 * n + 2 + len /\ at + 3 * n + 1 = at + (3 * n + 1)
        /\ 3 * n + 2 \in 1 .. 3 * n + 2 + len /\ at + 3 * n + 2 = at + (3 * n + 2)
    OBVIOUS
  <2> QED
    BY <1>1, <1>2, <2>1
<1>5. ASSUME NEW i \in 1 .. len PROVE all[at + 3 * n + 2 + i] = Token("byte", k, i)
  <2>1. 3 * n + 2 + i \in 1 .. 3 * n + 2 + len /\ at + 3 * n + 2 + i = at + (3 * n + 2 + i)
    OBVIOUS
  <2>2. all[at + (3 * n + 2 + i)] = t[3 * n + 2 + i]
    BY <1>2, <2>1
  <2>3. t[3 * n + 2 + i] = Token("byte", k, i)
    BY <1>1
  <2> QED
    BY <2>1, <2>2, <2>3
<1> QED
  BY <1>1, <1>3, <1>4, <1>5 DEF RequestAt, LinesAt

LEMMA StreamExists ==
  ASSUME NEW requests \in Seq(Request)
  PROVE  /\ Stream(requests) \in Seq(TokenSet)
         /\ \E off : StreamLaid(off, Stream(requests), requests)
<1>1. PICK n \in Nat : n = Len(requests) /\ DOMAIN requests = 1 .. n
  OBVIOUS
<1> DEFINE s == [k \in 1 .. n |-> Tokens(k, requests[k])]
<1>2. \A k \in 1 .. n : requests[k] \in Request
  BY <1>1, ElementOfSeq
<1>3. ASSUME NEW k \in 1 .. n
      PROVE  /\ s[k] = Tokens(k, requests[k]) /\ s[k] \in Seq(TokenSet)
             /\ Len(s[k]) = Size(requests[k]) /\ Size(requests[k]) \in Nat
             /\ LinesOf(s[k], k, requests[k], Lines(requests[k]))
             /\ s[k][3 * Lines(requests[k]) + 1] = CR /\ s[k][3 * Lines(requests[k]) + 2] = LF
             /\ \A i \in 1 .. requests[k].body :
                  s[k][3 * Lines(requests[k]) + 2 + i] = Token("byte", k, i)
  <2>1. s[k] = Tokens(k, requests[k])
    OBVIOUS
  <2>2. requests[k] \in Request
    BY <1>2
  <2> HIDE DEF s
  <2>3. Size(requests[k]) \in Nat
    BY <2>2 DEF Size, Lines, Request
  <2> QED
    BY <2>1, <2>2, <2>3, TokensLaid
<1>4. s \in Seq(Seq(TokenSet)) /\ Len(s) = n /\ Stream(requests) = FlattenSeq(s)
  <2>1. \A k \in 1 .. n : Tokens(k, requests[k]) \in Seq(TokenSet)
    BY <1>2, TokensTyped
  <2> QED
    BY <1>1, <2>1 DEF Stream
<1> HIDE DEF s
<1>5. PICK all : all = Stream(requests) /\ all = UpTo(s, n) /\ all \in Seq(TokenSet)
  <2>1. n \in 0 .. n
    OBVIOUS
  <2> QED
    BY <1>4, <2>1, FlattenNext
<1>6. PICK off : off = [k \in 1 .. n + 1 |-> Len(UpTo(s, k - 1))]
  OBVIOUS
<1>7. off \in [1 .. n + 1 -> Nat]
  <2>1. \A k \in 1 .. n + 1 : Len(UpTo(s, k - 1)) \in Nat
    <3> TAKE k \in 1 .. n + 1
    <3>1. k - 1 \in 0 .. n
      OBVIOUS
    <3>2. UpTo(s, k - 1) \in Seq(TokenSet)
      BY <1>4, <3>1, FlattenNext
    <3> QED
      BY <3>2
  <2> QED
    BY <1>6, <2>1
<1>8. off[1] = 0 /\ off[n + 1] = Len(all)
  <2>1. off[1] = Len(UpTo(s, 0)) /\ off[n + 1] = Len(UpTo(s, n))
    BY <1>6
  <2>2. UpTo(s, 0) = <<>> /\ Len(<<>>) = 0
    BY <1>4, FlattenNext
  <2> QED
    BY <1>5, <2>1, <2>2
<1>9. ASSUME NEW k \in 1 .. n
      PROVE  /\ off[k + 1] = off[k] + Size(requests[k]) /\ off[k + 1] <= Len(all)
             /\ RequestAt(all, off[k], k, requests[k])
  <2>1. off[k + 1] = Len(UpTo(s, k)) /\ off[k] = Len(UpTo(s, k - 1)) /\ off[k] \in Nat
    BY <1>6, <1>7
  <2>2. /\ Len(UpTo(s, k)) = Len(UpTo(s, k - 1)) + Len(s[k])
        /\ Len(UpTo(s, k)) <= Len(UpTo(s, n))
        /\ \A i \in 1 .. Len(s[k]) : UpTo(s, n)[Len(UpTo(s, k - 1)) + i] = s[k][i]
    BY <1>4, FlattenAt
  <2>3. /\ off[k + 1] = off[k] + Size(requests[k]) /\ off[k + 1] <= Len(all)
        /\ \A i \in 1 .. Size(requests[k]) : all[off[k] + i] = s[k][i]
    BY <1>3, <1>5, <2>1, <2>2
  <2>4. requests[k] \in Request
    BY <1>2
  <2>5. PICK t : t = s[k]
    OBVIOUS
  <2>6. RequestAt(all, off[k], k, requests[k])
    BY <1>3, <2>1, <2>3, <2>4, <2>5, RequestMoved
  <2> QED
    BY <2>3, <2>6
<1>10. StreamLaid(off, all, requests)
  BY <1>1, <1>7, <1>8, <1>9 DEF StreamLaid
<1> QED
  BY <1>5, <1>10

-----------------------------------------------------------------------------
(* The parser in the stream, until it looks behind the data.               *)

(* How many tokens left the buffer, and where the parser is.               *)
Gone(all) == Len(all) - Len(stream) - org
Pos(all) == Gone(all) + start

(* The buffer and what was not read yet are a piece of the stream.         *)
DataInv(all) ==
  /\ Gone(all) \in Nat
  /\ \A i \in 1 .. Len(stream) : stream[i] = all[Gone(all) + org + i]
  /\ \A i \in 1 .. org : buf[i] = all[Gone(all) + i]

(* The body is complete, which the parser did not notice yet.              *)
BodyRead == parser.stage = "complete" \/ (parser.stage = "body" /\ parser.read = parser.length)

(* A call returns when it consumed something or has to wait for more.      *)
PlaceInv ==
  /\ place \notin {"closed", "wrapped"}
  /\ start \in 1 .. org + 1 /\ base \in 1 .. start
  /\ place \in {"wait", "forced"} => start = 1
  /\ place = "compact" => base = start
  /\ place # "parse" => ~BodyRead
  /\ place = "parse" /\ BodyRead => start > base
  /\ place = "parse" /\ start = base => start <= org
  /\ place = "return" /\ start = base /\ stream = <<>> => start > org
  /\ place = "compact" /\ limit # 0 /\ stream = <<>> => start > org
  /\ place = "wait" /\ stream = <<>> => org = 0

Due == Len(delivered) + 1

BodiesInv ==
  /\ delivered \in Seq(Seq(TokenSet)) /\ Len(delivered) <= Len(pipeline)
  /\ \A k \in DOMAIN delivered : delivered[k] = Body(k, pipeline[k].body)

(* Where the parser is in a request with what it remembers of it.          *)
StageAt(off, all, k, request) ==
  \/ /\ parser.stage = "headers"
     /\ body = <<>> /\ parser.read = 0
     /\ \E i \in 1 .. Lines(request) :
          /\ Pos(all) = off[k] + 3 * i + 1
          /\ parser.length = IF i = Lines(request) THEN request.body ELSE 0
  \/ /\ parser.stage = "body"
     /\ parser.length = request.body /\ parser.read \in 0 .. request.body
     /\ Pos(all) = off[k] + 3 * Lines(request) + 2 + parser.read + 1
     /\ body = Body(k, parser.read)
  \/ /\ parser.stage = "complete"
     /\ Pos(all) = off[k + 1] + 1
     /\ body = Body(k, request.body)

StageInv(off, all) ==
  \/ /\ parser.stage = "line"
     /\ body = <<>> /\ parser.length = 0 /\ parser.read = 0
     /\ Pos(all) = off[Due] + 1
  \/ Due <= Len(pipeline) /\ StageAt(off, all, Due, pipeline[Due])

ExactInv(off, all) == DataInv(all) /\ PlaceInv /\ BodiesInv /\ StageInv(off, all)

Sent(off, all) ==
  /\ pipeline \in Seq(Request) /\ all \in Seq(TokenSet) /\ StreamLaid(off, all, pipeline)

(* What the parser sees at a place of the buffer.                          *)
LEMMA Sees ==
  ASSUME NEW all \in Seq(TokenSet), ParserInv, DataInv(all), NEW i \in 1 .. org
  PROVE  /\ buf[i] = all[Gone(all) + i] /\ Gone(all) \in Nat
         /\ Gone(all) + i \in 1 .. Len(all)
<1>1. PICK l \in Nat, s \in Nat, o \in Nat : l = Len(all) /\ s = Len(stream) /\ o = org
  BY DEF ParserInv
<1>2. Gone(all) = l - s - o /\ Gone(all) \in Nat
  BY <1>1 DEF Gone, DataInv
<1>3. i \in 1 .. o
  BY <1>1
<1>4. Gone(all) + i \in 1 .. l
  BY <1>2, <1>3
<1> QED
  BY <1>1, <1>4 DEF DataInv

(* The first line end behind the start of a line is its own.               *)
LEMMA LineEnds ==
  ASSUME NEW all \in Seq(TokenSet), ParserInv, DataInv(all), start \in 1 .. org,
         all[Pos(all)] # LF, all[Pos(all) + 1] # LF, all[Pos(all) + 2] = LF
  PROVE  Eol = IF start + 2 <= org THEN start + 2 ELSE 0
<1>1. PICK g \in Nat, o \in Nat, a \in Nat \ {0} : g = Gone(all) /\ o = org /\ a = start
  BY DEF DataInv, ParserInv
<1>2. Pos(all) = g + a /\ a \in 1 .. o
  BY <1>1 DEF Pos
<1>3. \A i \in 1 .. o : buf[i] = all[g + i]
  BY <1>1 DEF DataInv
<1>4. buf[a] # LF
  BY <1>2, <1>3
<1>5. a + 1 <= o => buf[a + 1] # LF
  <2>1. a + 1 <= o => a + 1 \in 1 .. o
    BY <1>2
  <2>2. g + (a + 1) = g + a + 1
    OBVIOUS
  <2> QED
    BY <1>2, <1>3, <2>1, <2>2
<1>6. a + 2 <= o => buf[a + 2] = LF
  <2>1. a + 2 <= o => a + 2 \in 1 .. o
    BY <1>2
  <2>2. g + (a + 2) = g + a + 2
    OBVIOUS
  <2> QED
    BY <1>2, <1>3, <2>1, <2>2
<1> DEFINE ends == {i \in a .. o : buf[i] = LF}
<1>7. Eol = IF ends = {} THEN 0 ELSE CHOOSE i \in ends : \A j \in ends : i <= j
  BY <1>1 DEF Eol
<1>8. \A i \in ends : i \in Nat /\ a + 2 <= i /\ i <= o
  <2> TAKE i \in ends
  <2>1. i \in a .. o /\ buf[i] = LF
    OBVIOUS
  <2>2. i # a
    BY <1>4, <2>1
  <2>3. i # a + 1
    BY <1>5, <2>1
  <2> QED
    BY <2>1, <2>2, <2>3
<1>9. CASE a + 2 <= o
  <2>1. a + 2 \in ends
    BY <1>6, <1>9
  <2> HIDE DEF ends
  <2>2. PICK e : e = CHOOSE i \in ends : \A j \in ends : i <= j
    OBVIOUS
  <2>3. e \in ends /\ \A j \in ends : e <= j
    <3>1. \A j \in ends : a + 2 <= j
      BY <1>8
    <3> QED
      BY <2>1, <2>2, <3>1
  <2>4. e = a + 2
    BY <1>8, <2>1, <2>3
  <2> QED
    BY <1>1, <1>7, <1>9, <2>1, <2>2, <2>4
<1>10. CASE ~(a + 2 <= o)
  <2>1. ends = {}
    BY <1>8, <1>10
  <2> HIDE DEF ends
  <2> QED
    BY <1>1, <1>7, <1>10, <2>1
<1> QED
  BY <1>9, <1>10

LEMMA KindsOfToken ==
  ASSUME NEW k, NEW request, NEW i
  PROVE  /\ First(k, request, i) \notin {CR, LF, Zero} /\ CR # LF
         /\ First(k, request, 0).t = "line"
         /\ i # 0 /\ i <= request.headers => First(k, request, i).t = "header"
         /\ i # 0 /\ ~(i <= request.headers) => /\ First(k, request, i).t = "length"
                                                /\ First(k, request, i).n = request.body
BY DEF First, CR, LF, Zero, Token

(* The requests one by one, as numbers.                                    *)
LEMMA RequestNumbers ==
  ASSUME NEW off, NEW all, Sent(off, all), NEW k \in 1 .. Len(pipeline)
  PROVE  /\ pipeline[k] \in Request
         /\ pipeline[k].body \in Nat /\ pipeline[k].headers \in Nat
         /\ Lines(pipeline[k]) = pipeline[k].headers + IF pipeline[k].body = 0 THEN 1 ELSE 2
         /\ off[k] \in Nat /\ off[k + 1] \in Nat /\ off[k + 1] <= Len(all)
         /\ off[k + 1] = off[k] + (3 * Lines(pipeline[k]) + 2 + pipeline[k].body)
         /\ RequestAt(all, off[k], k, pipeline[k])
<1>1. pipeline[k] \in Request
  BY ElementOfSeq DEF Sent
<1>2. k \in 1 .. Len(pipeline) + 1 /\ k + 1 \in 1 .. Len(pipeline) + 1
  BY DEF Sent
<1>3. off[k] \in Nat /\ off[k + 1] \in Nat
  BY <1>2 DEF Sent, StreamLaid
<1>4. /\ off[k + 1] = off[k] + Size(pipeline[k]) /\ off[k + 1] <= Len(all)
      /\ RequestAt(all, off[k], k, pipeline[k])
  BY DEF Sent, StreamLaid
<1>5. Size(pipeline[k]) = 3 * Lines(pipeline[k]) + 2 + pipeline[k].body
  BY DEF Size
<1>6. pipeline[k].body \in Nat /\ pipeline[k].headers \in Nat
  BY <1>1 DEF Request
<1> QED
  BY <1>1, <1>3, <1>4, <1>5, <1>6 DEF Lines

LEMMA LinesNumber ==
  ASSUME NEW off, NEW all, Sent(off, all), NEW k \in 1 .. Len(pipeline)
  PROVE  Lines(pipeline[k]) \in Nat \ {0} /\ off[k] \in Nat
<1>1. PICK h \in Nat, b \in Nat : h = pipeline[k].headers /\ b = pipeline[k].body
  BY RequestNumbers
<1>2. Lines(pipeline[k]) = h + IF b = 0 THEN 1 ELSE 2
  BY <1>1 DEF Lines
<1> QED
  BY <1>2, RequestNumbers

LEMMA LineMet ==
  ASSUME NEW off, NEW all, Sent(off, all), ParserInv, DataInv(all), start \in 1 .. org,
         NEW k \in 1 .. Len(pipeline), NEW i \in 0 .. Lines(pipeline[k]) - 1,
         Pos(all) = off[k] + 3 * i + 1
  PROVE  /\ buf[start] = First(k, pipeline[k], i) /\ buf[start] \notin {CR, LF, Zero}
         /\ Eol = IF start + 2 <= org THEN start + 2 ELSE 0
<1> DEFINE r == pipeline[k]
<1>1. PICK n \in Nat, f \in Nat : n = Lines(r) /\ f = off[k]
  BY LinesNumber
<1>2. RequestAt(all, f, k, r) /\ all \in Seq(TokenSet)
  BY <1>1, RequestNumbers DEF Sent
<1>3. i \in 0 .. n - 1 /\ i \in Nat /\ Pos(all) = f + 3 * i + 1
  BY <1>1
<1>4. /\ all[f + 3 * i + 1] = First(k, r, i)
      /\ all[f + 3 * i + 2] = CR /\ all[f + 3 * i + 3] = LF
  BY <1>1, <1>2, <1>3 DEF RequestAt, LinesAt
<1>5. f + 3 * i + 2 = Pos(all) + 1 /\ f + 3 * i + 3 = Pos(all) + 2
  BY <1>3
<1>6. /\ all[Pos(all)] = First(k, r, i) /\ all[Pos(all) + 1] = CR /\ all[Pos(all) + 2] = LF
  BY <1>3, <1>4, <1>5
<1>7. First(k, r, i) \notin {CR, LF, Zero} /\ CR # LF
  BY KindsOfToken
<1>8. Eol = IF start + 2 <= org THEN start + 2 ELSE 0
  BY <1>2, <1>6, <1>7, LineEnds
<1>9. buf[start] = all[Pos(all)]
  BY <1>2, Sees DEF Pos
<1> QED
  BY <1>1, <1>6, <1>7, <1>8, <1>9

LEMMA EmptyMet ==
  ASSUME NEW off, NEW all, Sent(off, all), ParserInv, DataInv(all), start \in 1 .. org,
         NEW k \in 1 .. Len(pipeline), Pos(all) = off[k] + 3 * Lines(pipeline[k]) + 1
  PROVE  buf[start] = CR /\ (start # org => buf[start + 1] = LF)
<1> DEFINE r == pipeline[k]
<1>1. PICK n \in Nat, f \in Nat : n = Lines(r) /\ f = off[k]
  BY LinesNumber
<1>2. RequestAt(all, f, k, r) /\ all \in Seq(TokenSet)
  BY <1>1, RequestNumbers DEF Sent
<1>3. Pos(all) = f + 3 * n + 1
  BY <1>1
<1>4. all[f + 3 * n + 1] = CR /\ all[f + 3 * n + 2] = LF
  BY <1>1, <1>2 DEF RequestAt
<1>5. f + 3 * n + 2 = Pos(all) + 1
  BY <1>3
<1>6. buf[start] = all[Pos(all)] /\ Gone(all) \in Nat
  BY <1>2, Sees DEF Pos
<1>7. start # org => buf[start + 1] = all[Pos(all) + 1]
  <2>1. PICK a \in Nat, g \in Nat : a = start /\ g = Gone(all)
    BY <1>6
  <2>2. ASSUME start # org PROVE a + 1 \in 1 .. org /\ g + (a + 1) = g + a + 1
    BY <2>1, <2>2 DEF ParserInv
  <2>3. start # org => buf[a + 1] = all[g + (a + 1)]
    BY <1>2, <2>1, <2>2, Sees
  <2> QED
    BY <2>1, <2>2, <2>3 DEF Pos
<1> QED
  BY <1>3, <1>4, <1>5, <1>6, <1>7

(* A parser that waits for a request found all before it.                  *)
LEMMA RequestMet ==
  ASSUME NEW off, NEW all, Sent(off, all), ParserInv, ExactInv(off, all),
         start \in 1 .. org, parser.stage = "line"
  PROVE  /\ Due \in 1 .. Len(pipeline) /\ Pos(all) = off[Due] + 3 * 0 + 1
         /\ 0 \in 0 .. Lines(pipeline[Due]) - 1
<1>1. Pos(all) = off[Due] + 1
  BY DEF ExactInv, StageInv, StageAt
<1>2. PICK d \in Nat, n \in Nat : d = Len(delivered) /\ n = Len(pipeline) /\ d <= n /\ Due = d + 1
  BY DEF ExactInv, BodiesInv, Sent, Due
<1>3. Pos(all) \in 1 .. Len(all) /\ Len(all) \in Nat
  BY Sees DEF Pos, ExactInv, Sent
<1>4. Due # n + 1
  <2> SUFFICES ASSUME Due = n + 1 PROVE FALSE
    OBVIOUS
  <2>1. off[n + 1] = Len(all)
    BY <1>2 DEF Sent, StreamLaid
  <2> QED
    BY <1>1, <1>3, <2>1
<1>5. Due \in 1 .. n
  BY <1>2, <1>4
<1>6. off[Due] \in Nat /\ Lines(pipeline[Due]) \in Nat \ {0}
  <2>1. Due \in 1 .. Len(pipeline)
    BY <1>2, <1>5
  <2> QED
    BY <2>1, LinesNumber
<1> QED
  BY <1>1, <1>2, <1>5, <1>6

LEMMA DataStays ==
  ASSUME NEW all, DataInv(all), UNCHANGED <<stream, buf, org>>
  PROVE  DataInv(all)' /\ Gone(all)' = Gone(all)
BY DEF DataInv, Gone

LEMMA BodiesStay ==
  ASSUME BodiesInv, UNCHANGED <<pipeline, delivered>>
  PROVE  BodiesInv' /\ Due' = Due
BY DEF BodiesInv, Due

(* Where the parser is, as numbers.                                        *)
LEMMA PlaceNumbers ==
  ASSUME NEW all, ParserInv, DataInv(all), PlaceInv
  PROVE  /\ Gone(all) \in Nat /\ org \in Nat /\ start \in Nat \ {0} /\ base \in Nat \ {0}
         /\ start <= org + 1 /\ base <= start /\ Pos(all) = Gone(all) + start
         /\ parser.length \in Nat /\ parser.read \in Int
         /\ parser = [stage |-> parser.stage, length |-> parser.length, read |-> parser.read]
         /\ org <= Room /\ limit \in Nat
<1>1. Room \in Nat /\ AtOnce \in Nat
  BY ParserAssumption
<1> QED
  BY <1>1 DEF ParserInv, DataInv, PlaceInv, Pos

(* When everything was read, so was the line that begins at start.         *)
LEMMA LineWhole ==
  ASSUME NEW off, NEW all, Sent(off, all), ParserInv, DataInv(all), PlaceInv, stream = <<>>,
         NEW k \in 1 .. Len(pipeline), NEW i \in 0 .. Lines(pipeline[k]) - 1,
         Pos(all) = off[k] + 3 * i + 1
  PROVE  start + 2 <= org
<1>1. PICK n \in Nat, f \in Nat, b \in Nat :
        n = Lines(pipeline[k]) /\ f = off[k] /\ b = pipeline[k].body
  BY LinesNumber, RequestNumbers
<1>2. off[k + 1] = f + (3 * n + 2 + b) /\ off[k + 1] <= Len(all)
  BY <1>1, RequestNumbers
<1>3. Gone(all) = Len(all) - org /\ Len(all) \in Nat
  <2>1. PICK l \in Nat : l = Len(all)
    BY DEF Sent
  <2>2. Len(stream) = 0
    OBVIOUS
  <2> QED
    BY <2>1, <2>2, PlaceNumbers DEF Gone
<1>4. i \in Nat /\ i <= n - 1 /\ Pos(all) = f + 3 * i + 1
  BY <1>1
<1>5. Pos(all) = Gone(all) + start /\ start \in Nat /\ org \in Nat /\ Gone(all) \in Nat
  BY PlaceNumbers
<1>6. n \in Nat /\ f \in Nat /\ b \in Nat
  OBVIOUS
<1> QED
  BY ONLY <1>2, <1>3, <1>4, <1>5, <1>6

LEMMA RequestLineExact ==
  ASSUME NEW off, NEW all, Sent(off, all), ParserInv, ExactInv(off, all), RequestLine
  PROVE  ExactInv(off, all)'
<1>1. DataInv(all)' /\ Gone(all)' = Gone(all)
  BY DataStays DEF RequestLine, ExactInv
<1>2. BodiesInv' /\ Due' = Due
  BY BodiesStay DEF RequestLine, ExactInv
<1>3. DataInv(all) /\ PlaceInv /\ BodiesInv
  BY DEF ExactInv
<1>4. /\ start \in 1 .. org /\ parser.stage = "line" /\ place = "parse" /\ place' = place
      /\ Eol # 0 /\ start' = Eol + 1 /\ org' = org /\ base' = base /\ body' = body
      /\ parser' = [parser EXCEPT !.stage = "headers"] /\ pipeline' = pipeline
  BY <1>3, PlaceNumbers DEF RequestLine, In
<1>5. /\ Due \in 1 .. Len(pipeline) /\ Pos(all) = off[Due] + 3 * 0 + 1
      /\ 0 \in 0 .. Lines(pipeline[Due]) - 1
  BY <1>4, RequestMet
<1>6. Eol = IF start + 2 <= org THEN start + 2 ELSE 0
  BY <1>3, <1>4, <1>5, LineMet
<1>7. start' = start + 3 /\ start + 2 <= org
  BY <1>3, <1>4, <1>6, PlaceNumbers
<1>8. body = <<>> /\ parser.length = 0 /\ parser.read = 0
  BY <1>4 DEF ExactInv, StageInv, StageAt
<1>9. parser' = [stage |-> "headers", length |-> 0, read |-> 0]
  BY <1>3, <1>4, <1>8, PlaceNumbers
<1>10. PlaceInv'
  BY <1>3, <1>4, <1>7, <1>9, PlaceNumbers DEF PlaceInv, BodyRead
<1>11. StageInv(off, all)'
  <2>1. PICK n \in Nat \ {0}, f \in Nat, h \in Nat, b \in Nat :
          /\ n = Lines(pipeline[Due]) /\ f = off[Due]
          /\ b = pipeline[Due].body /\ h = pipeline[Due].headers
          /\ n = h + IF b = 0 THEN 1 ELSE 2
    BY <1>5, LinesNumber, RequestNumbers
  <2>2. Pos(all)' = f + 3 * 1 + 1
    <3>1. Pos(all)' = Gone(all) + (start + 3)
      BY <1>1, <1>7 DEF Pos
    <3>2. Gone(all) + start = f + 3 * 0 + 1 /\ Gone(all) \in Nat /\ start \in Nat
      BY <1>3, <1>5, <2>1, PlaceNumbers
    <3> QED
      BY ONLY <2>1, <3>1, <3>2
  <2>3. 0 = IF 1 = n THEN b ELSE 0
    BY <2>1
  <2>4. 1 \in 1 .. n
    OBVIOUS
  <2>5. \E i \in 1 .. n : Pos(all)' = f + 3 * i + 1 /\ 0 = IF i = n THEN b ELSE 0
    BY <2>2, <2>3, <2>4
  <2>6. StageAt(off, all, Due, pipeline[Due])'
    BY <1>2, <1>4, <1>8, <1>9, <2>1, <2>5 DEF StageAt
  <2> QED
    BY <1>2, <1>4, <1>5, <2>6 DEF StageInv
<1> QED
  BY <1>1, <1>2, <1>10, <1>11 DEF ExactInv

LEMMA LinesExact ==
  ASSUME NEW off, NEW all, Sent(off, all), ParserInv, ExactInv(off, all)
  PROVE  ~SkipBlank /\ ~BadLine
<1> SUFFICES ASSUME SkipBlank \/ BadLine PROVE FALSE
  OBVIOUS
<1>1. DataInv(all) /\ PlaceInv
  BY DEF ExactInv
<1>2. start \in 1 .. org /\ parser.stage = "line"
  BY <1>1, PlaceNumbers DEF SkipBlank, BadLine, In
<1>3. /\ Due \in 1 .. Len(pipeline) /\ Pos(all) = off[Due] + 3 * 0 + 1
      /\ 0 \in 0 .. Lines(pipeline[Due]) - 1
  BY <1>2, RequestMet
<1>4. buf[start] = First(Due, pipeline[Due], 0) /\ buf[start] \notin {CR, LF, Zero}
  BY <1>1, <1>2, <1>3, LineMet
<1>5. buf[start].t = "line"
  BY <1>4, KindsOfToken
<1> QED
  BY <1>4, <1>5 DEF SkipBlank, BadLine

(* In the headers: which line begins at start.                             *)
LEMMA HeadersMet ==
  ASSUME NEW off, NEW all, Sent(off, all), ParserInv, ExactInv(off, all),
         parser.stage = "headers"
  PROVE  /\ Due \in 1 .. Len(pipeline) /\ body = <<>> /\ parser.read = 0
         /\ \E i \in 1 .. Lines(pipeline[Due]) :
              /\ Pos(all) = off[Due] + 3 * i + 1
              /\ parser.length = IF i = Lines(pipeline[Due]) THEN pipeline[Due].body ELSE 0
<1>1. Due \in Nat \ {0}
  BY DEF ExactInv, BodiesInv, Due
<1>2. Due <= Len(pipeline) /\ StageAt(off, all, Due, pipeline[Due])
  BY DEF ExactInv, StageInv
<1>3. Due \in 1 .. Len(pipeline)
  BY <1>1, <1>2 DEF Sent
<1> QED
  BY <1>2, <1>3 DEF StageAt

LEMMA HeaderLineExact ==
  ASSUME NEW off, NEW all, Sent(off, all), ParserInv, ExactInv(off, all), HeaderLine
  PROVE  ExactInv(off, all)'
<1>1. DataInv(all)' /\ Gone(all)' = Gone(all)
  BY DataStays DEF HeaderLine, ExactInv
<1>2. BodiesInv' /\ Due' = Due
  BY BodiesStay DEF HeaderLine, ExactInv
<1>3. DataInv(all) /\ PlaceInv /\ BodiesInv
  BY DEF ExactInv
<1>4. /\ start \in 1 .. org /\ parser.stage = "headers" /\ place = "parse" /\ place' = place
      /\ Eol # 0 /\ start' = Eol + 1 /\ org' = org /\ base' = base /\ body' = body
      /\ parser' = WithHeader(parser, buf[start]) /\ pipeline' = pipeline
      /\ buf[start] \notin {CR, LF}
  BY <1>3, PlaceNumbers DEF HeaderLine, In
<1>5. Due \in 1 .. Len(pipeline) /\ body = <<>> /\ parser.read = 0
  BY <1>4, HeadersMet
<1>6. PICK n \in Nat \ {0}, f \in Nat, h \in Nat, b \in Nat :
        /\ n = Lines(pipeline[Due]) /\ f = off[Due]
        /\ b = pipeline[Due].body /\ h = pipeline[Due].headers
        /\ n = h + IF b = 0 THEN 1 ELSE 2
  <2>1. /\ Lines(pipeline[Due]) \in Nat \ {0} /\ off[Due] \in Nat
        /\ pipeline[Due].body \in Nat /\ pipeline[Due].headers \in Nat
    BY <1>5, LinesNumber, RequestNumbers
  <2>2. Lines(pipeline[Due])
          = pipeline[Due].headers + IF pipeline[Due].body = 0 THEN 1 ELSE 2
    BY <1>5, RequestNumbers
  <2> QED
    BY <2>1, <2>2
<1>7. PICK i \in 1 .. n : /\ Pos(all) = f + 3 * i + 1
                          /\ parser.length = IF i = n THEN b ELSE 0
  BY <1>4, <1>6, HeadersMet
<1>8. i # n
  <2> SUFFICES ASSUME i = n PROVE FALSE
    OBVIOUS
  <2>1. buf[start] = CR
    BY <1>3, <1>4, <1>5, <1>6, <1>7, EmptyMet
  <2> QED
    BY <1>4, <2>1
<1>9. i \in 0 .. n - 1 /\ i + 1 \in 1 .. n /\ i # 0 /\ i \in Nat
  BY <1>7, <1>8
<1>10. /\ buf[start] = First(Due, pipeline[Due], i)
       /\ Eol = IF start + 2 <= org THEN start + 2 ELSE 0
  <2>1. i \in 0 .. Lines(pipeline[Due]) - 1 /\ Pos(all) = off[Due] + 3 * i + 1
    BY <1>6, <1>7, <1>9
  <2>2. buf[start] = First(Due, pipeline[Due], i)
    BY <1>3, <1>4, <1>5, <2>1, LineMet
  <2>3. Eol = IF start + 2 <= org THEN start + 2 ELSE 0
    BY <1>3, <1>4, <1>5, <2>1, LineMet
  <2> QED
    BY <2>2, <2>3
<1>11. start' = start + 3 /\ start + 2 <= org
  BY <1>3, <1>4, <1>10, PlaceNumbers
<1>12. parser.length = 0
  BY <1>7, <1>8
<1>13. parser' = [stage |-> "headers", length |-> IF i + 1 = n THEN b ELSE 0, read |-> 0]
  <2>1. parser = [stage |-> "headers", length |-> 0, read |-> 0]
    BY <1>3, <1>4, <1>5, <1>12, PlaceNumbers
  <2>2. CASE i <= h
    <3>1. buf[start].t = "header"
      BY <1>6, <1>9, <1>10, <2>2, KindsOfToken
    <3>2. parser' = parser
      BY <1>4, <3>1 DEF WithHeader
    <3>3. 0 = IF i + 1 = n THEN b ELSE 0
      BY <1>6, <2>2
    <3> QED
      BY <2>1, <3>2, <3>3
  <2>3. CASE ~(i <= h)
    <3>1. buf[start].t = "length" /\ buf[start].n = b
      BY <1>6, <1>9, <1>10, <2>3, KindsOfToken
    <3>2. parser' = [stage |-> "headers", length |-> b, read |-> 0]
      BY <1>4, <2>1, <3>1 DEF WithHeader
    <3>3. i + 1 = n
      BY <1>6, <1>9, <2>3
    <3> QED
      BY <3>2, <3>3
  <2> QED
    BY <2>2, <2>3
<1>14. PlaceInv'
  <2>1. parser'.stage = "headers" /\ place' = "parse"
    BY <1>4, <1>13
  <2>2. start' \in 1 .. org' + 1 /\ base' \in 1 .. start' /\ start' # base'
    BY <1>3, <1>4, <1>11, PlaceNumbers
  <2> QED
    BY <2>1, <2>2 DEF PlaceInv, BodyRead
<1>15. StageInv(off, all)'
  <2>1. Pos(all)' = f + 3 * (i + 1) + 1
    <3>1. Pos(all)' = Gone(all) + (start + 3)
      BY <1>1, <1>11 DEF Pos
    <3>2. Gone(all) + start = f + 3 * i + 1 /\ Gone(all) \in Nat /\ start \in Nat
      BY <1>3, <1>7, PlaceNumbers
    <3> QED
      BY ONLY <1>6, <1>9, <3>1, <3>2
  <2>2. parser'.length = IF i + 1 = n THEN b ELSE 0
    BY <1>13
  <2>3. \E j \in 1 .. n : Pos(all)' = f + 3 * j + 1 /\ parser'.length = IF j = n THEN b ELSE 0
    BY <1>9, <2>1, <2>2
  <2>4. parser'.stage = "headers" /\ parser'.read = 0 /\ body' = <<>>
    BY <1>4, <1>5, <1>13
  <2>5. StageAt(off, all, Due, pipeline[Due])'
    BY <1>2, <1>4, <1>6, <2>3, <2>4 DEF StageAt
  <2> QED
    BY <1>2, <1>4, <1>5, <2>5 DEF StageInv
<1> QED
  BY <1>1, <1>2, <1>14, <1>15 DEF ExactInv

LEMMA EmptyLineExact ==
  ASSUME NEW off, NEW all, Sent(off, all), ParserInv, ExactInv(off, all), EmptyLine, ~beyond'
  PROVE  ExactInv(off, all)'
<1>1. DataInv(all)' /\ Gone(all)' = Gone(all)
  BY DataStays DEF EmptyLine, ExactInv
<1>2. BodiesInv' /\ Due' = Due
  BY BodiesStay DEF EmptyLine, ExactInv
<1>3. DataInv(all) /\ PlaceInv /\ BodiesInv
  BY DEF ExactInv
<1>4. /\ start \in 1 .. org /\ parser.stage = "headers" /\ place = "parse" /\ place' = place
      /\ org' = org /\ base' = base /\ body' = body /\ pipeline' = pipeline
      /\ parser' = [parser EXCEPT !.stage = "body"]
      /\ buf[start] \in {CR, LF} /\ start # org
  <2>1. start # org
    BY Zenon DEF EmptyLine
  <2>2. start \in 1 .. org
    BY <1>3, PlaceNumbers DEF EmptyLine
  <2> QED
    BY <2>1, <2>2 DEF EmptyLine, In
<1>5. Due \in 1 .. Len(pipeline) /\ body = <<>> /\ parser.read = 0
  BY <1>4, HeadersMet
<1>6. PICK n \in Nat \ {0}, f \in Nat, h \in Nat, b \in Nat :
        /\ n = Lines(pipeline[Due]) /\ f = off[Due]
        /\ b = pipeline[Due].body /\ h = pipeline[Due].headers
  BY <1>5, LinesNumber, RequestNumbers
<1>7. PICK i \in 1 .. n : /\ Pos(all) = f + 3 * i + 1
                          /\ parser.length = IF i = n THEN b ELSE 0
  BY <1>4, <1>6, HeadersMet
<1>8. i = n
  <2> SUFFICES ASSUME i # n PROVE FALSE
    OBVIOUS
  <2>1. i \in 0 .. n - 1
    BY <1>7
  <2>2. buf[start] \notin {CR, LF, Zero}
    BY <1>3, <1>4, <1>5, <1>6, <1>7, <2>1, LineMet
  <2> QED
    BY <1>4, <2>2
<1>9. buf[start + 1] = LF
  BY <1>3, <1>4, <1>5, <1>6, <1>7, <1>8, EmptyMet
<1>10. start' = start + 2 /\ start + 1 <= org
  <2>1. start' = start + 2
    BY <1>9 DEF EmptyLine
  <2> QED
    BY <1>3, <1>4, <2>1, PlaceNumbers
<1>11. parser' = [stage |-> "body", length |-> b, read |-> 0]
  <2>1. parser = [stage |-> "headers", length |-> b, read |-> 0]
    BY <1>3, <1>4, <1>5, <1>7, <1>8, PlaceNumbers
  <2> QED
    BY <1>4, <2>1
<1>12. PlaceInv'
  <2>1. place' = "parse" 
    BY <1>4
  <2>2. start' \in 1 .. org' + 1 /\ base' \in 1 .. start' /\ start' # base' /\ start' > base'
    BY <1>3, <1>4, <1>10, PlaceNumbers
  <2> QED
    BY <2>1, <2>2 DEF PlaceInv
<1>13. StageInv(off, all)'
  <2>1. Pos(all)' = f + 3 * n + 2 + 0 + 1
    <3>1. Pos(all)' = Gone(all) + (start + 2)
      BY <1>1, <1>10 DEF Pos
    <3>2. Gone(all) + start = f + 3 * n + 1 /\ Gone(all) \in Nat /\ start \in Nat
      BY <1>3, <1>7, <1>8, PlaceNumbers
    <3> QED
      BY ONLY <1>6, <3>1, <3>2
  <2>2. parser'.stage = "body" /\ parser'.length = b /\ parser'.read = 0 /\ 0 \in 0 .. b
    BY <1>11
  <2>3. body' = Body(Due, 0)
    BY <1>4, <1>5 DEF Body
  <2>4. StageAt(off, all, Due, pipeline[Due])'
    BY <1>2, <1>4, <1>6, <2>1, <2>2, <2>3 DEF StageAt
  <2> QED
    BY <1>2, <1>4, <1>5, <2>4 DEF StageInv
<1> QED
  BY <1>1, <1>2, <1>12, <1>13 DEF ExactInv

LEMMA NeedMoreExact ==
  ASSUME NEW off, NEW all, Sent(off, all), ParserInv, ExactInv(off, all), NeedMore
  PROVE  ExactInv(off, all)'
<1>1. DataInv(all)' /\ Gone(all)' = Gone(all)
  BY DataStays DEF NeedMore, ExactInv
<1>2. BodiesInv' /\ Due' = Due
  BY BodiesStay DEF NeedMore, ExactInv
<1>3. DataInv(all) /\ PlaceInv /\ BodiesInv
  BY DEF ExactInv
<1>4. stream = <<>> => start > org
  <2> SUFFICES ASSUME stream = <<>>, ~(start > org) PROVE FALSE
    OBVIOUS
  <2>1. start \in 1 .. org /\ Eol = 0 /\ buf[start] \notin {CR, LF, Zero}
    BY <1>3, PlaceNumbers DEF NeedMore
  <2>2. CASE parser.stage = "line"
    <3>1. /\ Due \in 1 .. Len(pipeline) /\ Pos(all) = off[Due] + 3 * 0 + 1
          /\ 0 \in 0 .. Lines(pipeline[Due]) - 1
      BY <2>1, <2>2, RequestMet
    <3>2. Eol = IF start + 2 <= org THEN start + 2 ELSE 0
      BY <1>3, <2>1, <3>1, LineMet
    <3>3. start + 2 <= org
      BY <1>3, <3>1, LineWhole
    <3> QED
      BY <1>3, <2>1, <3>2, <3>3, PlaceNumbers
  <2>3. CASE parser.stage = "headers"
    <3>1. Due \in 1 .. Len(pipeline)
      BY <2>3, HeadersMet
    <3>2. PICK n \in Nat \ {0}, f \in Nat : n = Lines(pipeline[Due]) /\ f = off[Due]
      BY <3>1, LinesNumber
    <3>3. PICK i \in 1 .. n : Pos(all) = f + 3 * i + 1
      BY <2>3, <3>2, HeadersMet
    <3>4. i # n
      BY <1>3, <2>1, <3>1, <3>2, <3>3, EmptyMet
    <3>5. i \in 0 .. n - 1
      BY <3>3, <3>4
    <3>6. Eol = IF start + 2 <= org THEN start + 2 ELSE 0
      BY <1>3, <2>1, <3>1, <3>2, <3>3, <3>5, LineMet
    <3>7. start + 2 <= org
      BY <1>3, <3>1, <3>2, <3>3, <3>5, LineWhole
    <3> QED
      BY <1>3, <2>1, <3>6, <3>7, PlaceNumbers
  <2> QED
    BY <2>2, <2>3 DEF NeedMore
<1>5. PlaceInv'
  BY <1>3, <1>4 DEF NeedMore, PlaceInv, BodyRead
<1>6. StageInv(off, all)'
  <2>1. UNCHANGED <<parser, body, pipeline, start>>
    BY DEF NeedMore
  <2>2. Pos(all)' = Pos(all)
    BY <1>1, <2>1 DEF Pos
  <2> QED
    BY <1>2, <2>1, <2>2 DEF ExactInv, StageInv, StageAt
<1> QED
  BY <1>1, <1>2, <1>5, <1>6 DEF ExactInv

(* In the body: how much of it was read.                                   *)
LEMMA BodyMet ==
  ASSUME NEW off, NEW all, Sent(off, all), ParserInv, ExactInv(off, all),
         parser.stage = "body"
  PROVE  /\ Due \in 1 .. Len(pipeline)
         /\ parser.length = pipeline[Due].body /\ parser.read \in 0 .. pipeline[Due].body
         /\ Pos(all) = off[Due] + 3 * Lines(pipeline[Due]) + 2 + parser.read + 1
         /\ body = Body(Due, parser.read)
<1>1. Due \in Nat \ {0}
  BY DEF ExactInv, BodiesInv, Due
<1>2. Due <= Len(pipeline) /\ StageAt(off, all, Due, pipeline[Due])
  BY DEF ExactInv, StageInv
<1>3. Due \in 1 .. Len(pipeline)
  BY <1>1, <1>2 DEF Sent
<1> QED
  BY <1>2, <1>3 DEF StageAt

(* Bytes of a body and those behind them.                                  *)
LEMMA BodyGrows ==
  ASSUME NEW k, NEW m \in Nat, NEW n \in Nat, NEW chunk, NEW whole,
         n > 0, chunk = [j \in 1 .. n |-> Token("byte", k, m + j)],
         whole = IF m = 0 THEN chunk
                 ELSE IF Body(k, m) = NoBody THEN NoBody
                 ELSE Then(Body(k, m), chunk)
  PROVE  whole = Body(k, m + n)
<1>1. CASE m = 0
  BY <1>1 DEF Body
<1>2. CASE m # 0
  <2>1. Body(k, m) # NoBody
    <3>1. Body(k, m)[1] = Token("byte", k, 1) /\ DOMAIN Body(k, m) = 1 .. m /\ 1 \in 1 .. m
      BY <1>2 DEF Body
    <3> QED
      BY <3>1 DEF NoBody
  <2>2. whole = Then(Body(k, m), chunk)
    BY <1>2, <2>1
  <2> DEFINE P == {Token("byte", k, i) : i \in Nat}
  <2>3. Body(k, m) \in Seq(P) /\ Len(Body(k, m)) = m
    BY DEF Body
  <2>4. chunk \in Seq(P) /\ Len(chunk) = n
    <3>1. \A j \in 1 .. n : m + j \in Nat
      OBVIOUS
    <3>2. \A j \in 1 .. n : Token("byte", k, m + j) \in P
      BY <3>1
    <3> HIDE DEF P
    <3> QED
      BY <3>2
  <2> HIDE DEF P
  <2>5. /\ whole \in Seq(P) /\ Len(whole) = m + n
        /\ \A i \in 1 .. m : whole[i] = Body(k, m)[i]
        /\ \A i \in 1 .. n : whole[m + i] = chunk[i]
    <3>1. Body(k, m) \in Seq(P) /\ chunk \in Seq(P)
      BY <2>3, <2>4
    <3>2. Then(Body(k, m), chunk) \in Seq(P)
      BY ONLY <3>1, JoinAt
    <3>3. Len(Then(Body(k, m), chunk)) = Len(Body(k, m)) + Len(chunk)
      BY ONLY <3>1, JoinAt
    <3>4. \A i \in 1 .. Len(Body(k, m)) : Then(Body(k, m), chunk)[i] = Body(k, m)[i]
      BY ONLY <3>1, JoinAt
    <3>5. \A i \in 1 .. Len(chunk) : Then(Body(k, m), chunk)[Len(Body(k, m)) + i] = chunk[i]
      BY ONLY <3>1, JoinAt
    <3> QED
      BY <2>2, <2>3, <2>4, <3>2, <3>3, <3>4, <3>5
  <2>6. DOMAIN whole = 1 .. m + n /\ whole = [i \in 1 .. m + n |-> whole[i]]
    <3>1. whole \in Seq(P)
      BY <2>5
    <3>2. DOMAIN whole = 1 .. Len(whole) /\ whole = [i \in 1 .. Len(whole) |-> whole[i]]
      BY ONLY <3>1
    <3> QED
      BY <2>5, <3>2
  <2>7. ASSUME NEW i \in 1 .. m + n PROVE whole[i] = Token("byte", k, i)
    <3>1. CASE i <= m
      BY <2>5, <3>1 DEF Body
    <3>2. CASE ~(i <= m)
      <4>1. PICK j \in 1 .. n : i = m + j
        <5>1. i - m \in 1 .. n /\ i = m + (i - m)
          BY <3>2
        <5> QED
          BY <5>1
      <4>2. whole[m + j] = chunk[j] /\ chunk[j] = Token("byte", k, m + j)
        BY <2>5
      <4> QED
        BY <4>1, <4>2
    <3> QED
      BY <3>1, <3>2
  <2> QED
    BY <2>6, <2>7 DEF Body
<1> QED
  BY <1>1, <1>2

(* The bytes of the body that are in the buffer.                           *)
LEMMA ChunkIs ==
  ASSUME NEW off, NEW all, Sent(off, all), ParserInv, DataInv(all), PlaceInv,
         NEW k \in 1 .. Len(pipeline), NEW m \in Nat, NEW n \in Nat,
         Pos(all) = off[k] + 3 * Lines(pipeline[k]) + 2 + m + 1,
         n > 0, m + n <= pipeline[k].body, start + n <= org + 1
  PROVE  SubSeq(buf, start, start + n - 1) = [j \in 1 .. n |-> Token("byte", k, m + j)]
<1>1. PICK l \in Nat \ {0}, f \in Nat, h \in Nat, b \in Nat :
        l = Lines(pipeline[k]) /\ f = off[k] /\ h = pipeline[k].headers /\ b = pipeline[k].body
  BY LinesNumber, RequestNumbers
<1>2. PICK a \in Nat, o \in Nat, g \in Nat :
        a = start /\ o = org /\ g = Gone(all) /\ o <= Room /\ a # 0
  BY PlaceNumbers
<1>3. RequestAt(all, f, k, pipeline[k])
  BY <1>1, RequestNumbers
<1>4. \A i \in 1 .. b : all[f + 3 * l + 2 + i] = Token("byte", k, i)
  BY <1>1, <1>3 DEF RequestAt
<1>5. g + a = f + 3 * l + 2 + m + 1
  BY <1>1, <1>2, PlaceNumbers
<1>6. a + n <= o + 1 /\ m + n <= b
  BY <1>1, <1>2
<1>7. ASSUME NEW j \in 1 .. n PROVE buf[a + j - 1] = Token("byte", k, m + j)
  <2>1. a + j - 1 \in 1 .. o /\ m + j \in 1 .. b
    BY <1>2, <1>6
  <2>2. buf[a + j - 1] = all[g + (a + j - 1)]
    BY <1>2, <2>1 DEF DataInv
  <2>3. g + (a + j - 1) = f + 3 * l + 2 + (m + j)
    BY <1>5
  <2>4. all[f + 3 * l + 2 + (m + j)] = Token("byte", k, m + j)
    BY <1>4, <2>1
  <2> QED
    BY <2>2, <2>3, <2>4
<1>8. Room \in Nat /\ Len(buf) = Room + 1 /\ buf \in Seq(TokenSet)
  BY ParserAssumption DEF ParserInv
<1>9. a \in 1 .. Len(buf) + 1 /\ a + n - 1 \in a - 1 .. Len(buf)
  BY <1>2, <1>6, <1>8
<1> DEFINE s == SubSeq(buf, a, a + n - 1)
<1>10. /\ s \in Seq(TokenSet) /\ Len(s) = n
       /\ \A j \in 1 .. n : s[j] = buf[a + j - 1]
  <2>1. /\ SubSeq(buf, a, a + n - 1) \in Seq(TokenSet)
        /\ Len(SubSeq(buf, a, a + n - 1)) = IF a <= a + n - 1 THEN (a + n - 1) - a + 1 ELSE 0
        /\ \A j \in 1 .. (a + n - 1) - a + 1 : SubSeq(buf, a, a + n - 1)[j] = buf[a + j - 1]
    BY <1>8, <1>9, SubSeqProperties
  <2> HIDE DEF s
  <2>2. (a + n - 1) - a + 1 = n /\ a <= a + n - 1
    OBVIOUS
  <2> QED
    BY <2>1, <2>2 DEF s
<1> HIDE DEF s
<1>11. s = [j \in 1 .. n |-> s[j]]
  BY <1>10
<1>12. s = [j \in 1 .. n |-> Token("byte", k, m + j)]
  BY <1>7, <1>10, <1>11
<1> QED
  BY <1>2, <1>12 DEF s

LEMMA ReadBodyExact ==
  ASSUME NEW off, NEW all, Sent(off, all), ParserInv, ExactInv(off, all), ReadBody
  PROVE  ExactInv(off, all)'
<1>1. DataInv(all)' /\ Gone(all)' = Gone(all)
  BY DataStays DEF ReadBody, ExactInv
<1>2. BodiesInv' /\ Due' = Due
  BY BodiesStay DEF ReadBody, ExactInv
<1>3. DataInv(all) /\ PlaceInv /\ BodiesInv
  BY DEF ExactInv
<1>4. parser.stage = "body" /\ place = "parse" /\ pipeline' = pipeline /\ org' = org /\ base' = base
  BY DEF ReadBody, In
<1>5. /\ Due \in 1 .. Len(pipeline)
      /\ parser.length = pipeline[Due].body /\ parser.read \in 0 .. pipeline[Due].body
      /\ Pos(all) = off[Due] + 3 * Lines(pipeline[Due]) + 2 + parser.read + 1
      /\ body = Body(Due, parser.read)
  BY <1>4, BodyMet
<1>6. PICK l \in Nat \ {0}, f \in Nat, b \in Nat :
        l = Lines(pipeline[Due]) /\ f = off[Due] /\ b = pipeline[Due].body
  BY <1>5, LinesNumber, RequestNumbers
<1>7. PICK a \in Nat \ {0}, o \in Nat, g \in Nat, s \in Nat \ {0} :
        /\ a = start /\ o = org /\ g = Gone(all) /\ s = base
        /\ a <= o + 1 /\ s <= a
  BY <1>3, PlaceNumbers
<1>8. PICK m \in Nat : m = parser.read /\ m <= b /\ parser.length = b /\ m < b
  BY <1>5, <1>6 DEF ReadBody
<1> DEFINE n == IF a + b - m > o + 1 THEN o + 1 - a ELSE b - m
<1>9. n \in Nat /\ m + n <= b /\ a + n <= o + 1 /\ (m + n < b => a + n = o + 1)
  BY <1>7, <1>8
<1>10. start' = a + n
  BY <1>7, <1>8 DEF ReadBody
<1>11. (a + n) - a = n /\ m + (a + n) - a = m + n /\ (a + n) - 1 = a + n - 1 /\ (a + n <= a <=> n = 0)
  BY <1>7, <1>8, <1>9
<1>12. IF a + b - m > o + 1 THEN o + 1 = a + n ELSE a + b - m = a + n
  BY <1>7, <1>8
<1> HIDE DEF n
<1> DEFINE done == b <= m + n
<1>13. /\ parser'.stage = (IF done THEN "complete" ELSE "body")
       /\ parser'.length = b /\ parser'.read = m + n
  <2>1. parser = [stage |-> "body", length |-> b, read |-> m]
    BY <1>3, <1>4, <1>8, PlaceNumbers
  <2>2. parser' = [parser EXCEPT !.read = m + (a + n) - a,
                                 !.stage = IF b <= m + (a + n) - a THEN "complete" ELSE @]
    BY <1>7, <1>8, <1>12 DEF ReadBody
  <2> QED
    BY <1>11, <2>1, <2>2
<1>14. place' = IF done THEN "parse" ELSE "return"
  BY <1>7, <1>8, <1>11, <1>12 DEF ReadBody
<1>15. body' = Body(Due, m + n)
  <2>1. body = Body(Due, m)
    BY <1>5, <1>8
  <2>2. CASE n = 0
    <3>1. body' = body
      BY <1>7, <1>8, <1>11, <1>12, <2>2 DEF ReadBody
    <3> QED
      BY <2>1, <2>2, <3>1
  <2>3. CASE n # 0
    <3>1. body' = IF m = 0 THEN SubSeq(buf, a, (a + n) - 1)
                  ELSE IF body = NoBody THEN NoBody
                  ELSE Then(body, SubSeq(buf, a, (a + n) - 1))
      BY <1>7, <1>8, <1>11, <1>12, <2>3 DEF ReadBody, Then
    <3>2. SubSeq(buf, start, start + n - 1) = [j \in 1 .. n |-> Token("byte", Due, m + j)]
      <4>1. Pos(all) = off[Due] + 3 * Lines(pipeline[Due]) + 2 + m + 1
        BY <1>5, <1>8
      <4>2. n > 0 /\ m + n <= pipeline[Due].body /\ start + n <= org + 1
        BY <1>6, <1>7, <1>9, <2>3
      <4> QED
        BY <1>3, <1>5, <1>9, <4>1, <4>2, ChunkIs
    <3>3. SubSeq(buf, a, (a + n) - 1) = [j \in 1 .. n |-> Token("byte", Due, m + j)]
      BY <1>7, <1>11, <3>2
    <3>4. n > 0
      BY <1>9, <2>3
    <3> QED
      BY <1>9, <2>1, <3>1, <3>3, <3>4, BodyGrows
  <2> QED
    BY <2>2, <2>3
<1>16. PlaceInv'
  <2>1. start' \in 1 .. org' + 1 /\ base' \in 1 .. start'
    BY <1>4, <1>7, <1>9, <1>10
  <2>2. CASE done
    <3>1. n > 0
      BY <1>8, <1>9, <2>2
    <3>2. start' > base' /\ base' # start'
      BY <1>4, <1>7, <1>9, <1>10, <3>1
    <3>3. place' = "parse"
      BY <1>14, <2>2
    <3> QED
      BY <2>1, <3>2, <3>3 DEF PlaceInv
  <2>3. CASE ~done
    <3>1. place' = "return" /\ parser'.stage = "body" /\ parser'.read = m + n /\ parser'.length = b
      BY <1>13, <1>14, <2>3
    <3>2. ~BodyRead'
      BY <1>9, <2>3, <3>1 DEF BodyRead
    <3>3. start' > org'
      BY <1>4, <1>7, <1>9, <1>10, <2>3
    <3> QED
      BY <2>1, <3>1, <3>2, <3>3 DEF PlaceInv
  <2> QED
    BY <2>2, <2>3
<1>17. StageInv(off, all)'
  <2>1. Pos(all)' = f + 3 * l + 2 + (m + n) + 1
    <3>1. Pos(all)' = g + (a + n)
      BY <1>1, <1>7, <1>10 DEF Pos
    <3>2. g + a = f + 3 * l + 2 + m + 1
      BY <1>5, <1>6, <1>7, <1>8 DEF Pos
    <3> QED
      BY <1>9, <3>1, <3>2
  <2>2. CASE done
    <3>1. m + n = b
      BY <1>9, <2>2
    <3>2. Pos(all)' = off[Due + 1] + 1
      <4>1. off[Due + 1] = f + (3 * l + 2 + b)
        BY <1>5, <1>6, RequestNumbers
      <4> QED
        BY <2>1, <3>1, <4>1
    <3>3. StageAt(off, all, Due, pipeline[Due])'
      BY <1>2, <1>4, <1>6, <1>13, <1>15, <2>2, <3>1, <3>2 DEF StageAt
    <3> QED
      BY <1>2, <1>4, <1>5, <3>3 DEF StageInv
  <2>3. CASE ~done
    <3>1. parser'.stage = "body" /\ parser'.read \in 0 .. b
      BY <1>9, <1>13, <2>3
    <3>2. StageAt(off, all, Due, pipeline[Due])'
      BY <1>2, <1>4, <1>6, <1>13, <1>15, <2>1, <3>1 DEF StageAt
    <3> QED
      BY <1>2, <1>4, <1>5, <3>2 DEF StageInv
  <2> QED
    BY <2>2, <2>3
<1> QED
  BY <1>1, <1>2, <1>16, <1>17 DEF ExactInv

LEMMA NothingToReadExact ==
  ASSUME NEW off, NEW all, Sent(off, all), ParserInv, ExactInv(off, all), NothingToRead
  PROVE  ExactInv(off, all)'
<1>1. DataInv(all)' /\ Gone(all)' = Gone(all)
  BY DataStays DEF NothingToRead, ExactInv
<1>2. BodiesInv' /\ Due' = Due
  BY BodiesStay DEF NothingToRead, ExactInv
<1>3. DataInv(all) /\ PlaceInv /\ BodiesInv
  BY DEF ExactInv
<1>4. /\ parser.stage = "body" /\ place = "parse" /\ pipeline' = pipeline /\ org' = org
      /\ base' = base /\ start' = start /\ body' = body /\ place' = place
      /\ parser' = [parser EXCEPT !.stage = "complete"]
  BY DEF NothingToRead, In
<1>5. /\ Due \in 1 .. Len(pipeline)
      /\ parser.length = pipeline[Due].body /\ parser.read \in 0 .. pipeline[Due].body
      /\ Pos(all) = off[Due] + 3 * Lines(pipeline[Due]) + 2 + parser.read + 1
      /\ body = Body(Due, parser.read)
  BY <1>4, BodyMet
<1>6. PICK l \in Nat \ {0}, f \in Nat, b \in Nat :
        l = Lines(pipeline[Due]) /\ f = off[Due] /\ b = pipeline[Due].body
  BY <1>5, LinesNumber, RequestNumbers
<1>7. parser.read = b /\ parser.length = b
  BY <1>5, <1>6 DEF NothingToRead
<1>8. parser'.stage = "complete"
  BY <1>3, <1>4, PlaceNumbers
<1>9. PlaceInv'
  <2>1. start > base
    BY <1>3, <1>4, <1>7 DEF PlaceInv, BodyRead
  <2>2. start # base
    BY <1>3, <2>1, PlaceNumbers
  <2> QED
    BY <1>3, <1>4, <2>1, <2>2 DEF PlaceInv
<1>10. Pos(all)' = off[Due + 1] + 1
  <2>1. off[Due + 1] = f + (3 * l + 2 + b)
    BY <1>5, <1>6, RequestNumbers
  <2>2. Pos(all)' = f + 3 * l + 2 + b + 1
    BY <1>1, <1>4, <1>5, <1>6, <1>7 DEF Pos
  <2> QED
    BY <2>1, <2>2
<1>11. StageAt(off, all, Due, pipeline[Due])'
  BY <1>2, <1>4, <1>5, <1>6, <1>7, <1>8, <1>10 DEF StageAt
<1>12. StageInv(off, all)'
  BY <1>2, <1>4, <1>5, <1>11 DEF StageInv
<1> QED
  BY <1>1, <1>2, <1>9, <1>12 DEF ExactInv

LEMMA CompleteExact ==
  ASSUME NEW off, NEW all, Sent(off, all), ParserInv, ExactInv(off, all), Complete
  PROVE  ExactInv(off, all)'
<1>1. DataInv(all)' /\ Gone(all)' = Gone(all)
  BY DataStays DEF Complete, ExactInv
<1>2. DataInv(all) /\ PlaceInv /\ BodiesInv
  BY DEF ExactInv
<1>3. /\ parser.stage = "complete" /\ place = "parse" /\ pipeline' = pipeline /\ org' = org
      /\ base' = base /\ start' = start /\ body' = <<>> /\ place' = "return"
      /\ parser' = [stage |-> "line", length |-> 0, read |-> 0]
      /\ delivered' = Append(delivered, body)
  BY DEF Complete, In, Fresh, NoBody
<1>4. PICK d \in Nat, n \in Nat : d = Len(delivered) /\ n = Len(pipeline) /\ Due = d + 1
  BY <1>2 DEF BodiesInv, Sent, Due
<1>5. /\ Due <= Len(pipeline) /\ Pos(all) = off[Due + 1] + 1
      /\ body = Body(Due, pipeline[Due].body)
  BY <1>3 DEF ExactInv, StageInv, StageAt
<1>6. Due \in 1 .. Len(pipeline)
  BY <1>4, <1>5
<1>7. pipeline[Due].body \in Nat
  BY <1>6, RequestNumbers
<1>8. body \in Seq(TokenSet)
  <2>1. PICK b \in Nat : b = pipeline[Due].body
    BY <1>7
  <2>2. \A i \in 1 .. b : Token("byte", Due, i) \in TokenSet
    BY <1>4, TokenTyped
  <2> QED
    BY <1>5, <2>1, <2>2 DEF Body
<1>9. BodiesInv' /\ Due' = Due + 1
  <2>1. /\ delivered' \in Seq(Seq(TokenSet)) /\ Len(delivered') = d + 1
        /\ \A k \in 1 .. d : delivered'[k] = delivered[k]
        /\ delivered'[d + 1] = body
    BY <1>2, <1>3, <1>4, <1>8 DEF BodiesInv
  <2>2. ASSUME NEW k \in 1 .. d + 1 PROVE delivered'[k] = Body(k, pipeline[k].body)
    <3>1. CASE k = d + 1
      BY <1>4, <1>5, <2>1, <3>1
    <3>2. CASE k # d + 1
      <4>1. k \in 1 .. d /\ k \in DOMAIN delivered
        BY <1>2, <1>4, <3>2 DEF BodiesInv
      <4> QED
        BY <1>2, <2>1, <4>1 DEF BodiesInv
    <3> QED
      BY <3>1, <3>2
  <2>3. DOMAIN delivered' = 1 .. d + 1
    BY <2>1
  <2> QED
    BY <1>3, <1>4, <1>5, <2>1, <2>2, <2>3 DEF BodiesInv, Due
<1>10. PlaceInv'
  <2>1. start > base
    BY <1>2, <1>3 DEF PlaceInv, BodyRead
  <2>2. start # base
    BY <1>2, <2>1, PlaceNumbers
  <2>3. ~BodyRead'
    BY <1>3 DEF BodyRead
  <2> QED
    BY <1>2, <1>3, <2>2, <2>3 DEF PlaceInv
<1>11. StageInv(off, all)'
  BY <1>1, <1>3, <1>5, <1>9 DEF StageInv, Pos
<1> QED
  BY <1>1, <1>9, <1>10, <1>11 DEF ExactInv

LEMMA LoopExact ==
  ASSUME NEW off, NEW all, Sent(off, all), ParserInv, ExactInv(off, all), Loop
  PROVE  ExactInv(off, all)'
<1>1. DataInv(all)' /\ Gone(all)' = Gone(all)
  BY DataStays DEF Loop, ExactInv
<1>2. BodiesInv' /\ Due' = Due
  BY BodiesStay DEF Loop, ExactInv
<1>3. DataInv(all) /\ PlaceInv /\ BodiesInv
  BY DEF ExactInv
<1>4. /\ UNCHANGED <<pipeline, stream, org, start, parser, body>>
      /\ base' = start /\ place = "return"
  BY DEF Loop
<1>5. place' = IF start > base /\ start <= org /\ limit' > 0 THEN "parse" ELSE "compact"
  BY <1>3, PlaceNumbers DEF Loop
<1>6. limit' \in Int /\ (limit' > 0 \/ limit' = 0)
  <2>1. limit \in Nat /\ limit > 0
    BY <1>3, PlaceNumbers DEF Loop, ParserInv
  <2> QED
    BY <2>1 DEF Loop
<1>7. PlaceInv'
  <2>1. ~BodyRead'
    BY <1>3, <1>4 DEF PlaceInv, BodyRead
  <2>2. start' \in 1 .. org' + 1 /\ base' \in 1 .. start'
    BY <1>3, <1>4, PlaceNumbers
  <2>3. CASE place' = "parse"
    <3>1. start' <= org'
      BY <1>4, <1>5, <2>3
    <3> QED
      BY <2>1, <2>2, <2>3, <3>1 DEF PlaceInv
  <2>4. CASE place' = "compact"
    <3>1. base' = start'
      BY <1>4
    <3>2. limit' # 0 /\ stream' = <<>> => start' > org'
      <4> SUFFICES ASSUME limit' # 0, stream' = <<>> PROVE start' > org'
        OBVIOUS
      <4>1. ~(start > base) \/ ~(start <= org)
        BY <1>5, <1>6, <2>4
      <4>2. start > base \/ start = base
        BY <1>3, PlaceNumbers
      <4>3. start = base => start > org
        BY <1>3, <1>4 DEF PlaceInv
      <4> QED
        BY <1>3, <1>4, <4>1, <4>2, <4>3, PlaceNumbers
    <3> QED
      BY <2>1, <2>2, <2>4, <3>1, <3>2 DEF PlaceInv
  <2> QED
    BY <1>5, <2>3, <2>4
<1>8. StageInv(off, all)'
  <2>1. Pos(all)' = Pos(all)
    BY <1>1, <1>4 DEF Pos
  <2> QED
    BY <1>2, <1>4, <2>1 DEF ExactInv, StageInv, StageAt
<1> QED
  BY <1>1, <1>2, <1>7, <1>8 DEF ExactInv

LEMMA CompactExact ==
  ASSUME NEW off, NEW all, Sent(off, all), ParserInv, ExactInv(off, all), Compact
  PROVE  ExactInv(off, all)'
<1>1. BodiesInv' /\ Due' = Due
  BY BodiesStay DEF Compact, ExactInv
<1>2. DataInv(all) /\ PlaceInv /\ BodiesInv
  BY DEF ExactInv
<1>3. UNCHANGED <<pipeline, stream, parser, body, limit>> /\ start' = 1 /\ base' = 1
  BY DEF Compact
<1>4. PICK a \in Nat \ {0}, o \in Nat, g \in Nat :
        a = start /\ o = org /\ g = Gone(all) /\ a <= o + 1 /\ o <= Room
  BY <1>2, PlaceNumbers
<1>5. base = a /\ place = "compact"
  BY <1>2, <1>4 DEF PlaceInv, Compact
<1>6. org' = o + 1 - a /\ org' \in Nat
  BY <1>4, <1>5 DEF Compact
<1>7. Room \in Nat /\ DOMAIN buf = 1 .. Room + 1
  BY ParserAssumption DEF ParserInv
<1>8. PICK l \in Nat, s \in Nat : l = Len(all) /\ s = Len(stream)
  BY DEF Sent, ParserInv
<1>9. Gone(all)' = g + a - 1 /\ Gone(all)' \in Nat
  <2>1. g = l - s - o
    BY <1>4, <1>8 DEF Gone
  <2>2. Gone(all)' = l - s - (o + 1 - a)
    BY <1>3, <1>6, <1>8 DEF Gone
  <2> QED
    BY <1>4, <2>1, <2>2
<1>10. DataInv(all)'
  <2>1. ASSUME NEW i \in 1 .. s PROVE stream'[i] = all[Gone(all)' + org' + i]
    <3>1. stream[i] = all[g + o + i]
      BY <1>2, <1>4, <1>8 DEF DataInv
    <3>2. g + o + i = Gone(all)' + org' + i
      BY <1>6, <1>9
    <3> QED
      BY <1>3, <3>1, <3>2
  <2>2. ASSUME NEW i \in 1 .. org' PROVE buf'[i] = all[Gone(all)' + i]
    <3>1. i \in DOMAIN buf /\ i <= o + 1 - a /\ a + i - 1 \in 1 .. o
      BY <1>4, <1>6, <1>7
    <3>2. buf'[i] = buf[a + i - 1]
      BY <1>4, <1>5, <3>1 DEF Compact
    <3>3. buf[a + i - 1] = all[g + (a + i - 1)]
      BY <1>2, <1>4, <3>1 DEF DataInv
    <3>4. g + (a + i - 1) = Gone(all)' + i
      BY <1>9
    <3> QED
      BY <3>2, <3>3, <3>4
  <2> QED
    BY <1>3, <1>8, <1>9, <2>1, <2>2 DEF DataInv
<1>11. PlaceInv'
  <2>1. ~BodyRead'
    BY <1>2, <1>3, <1>5 DEF PlaceInv, BodyRead
  <2>2. place' = IF limit = 0 THEN "forced" ELSE "wait"
    BY DEF Compact
  <2>3. place' = "wait" /\ stream' = <<>> => org' = 0
    <3> SUFFICES ASSUME limit # 0, stream = <<>> PROVE org' = 0
      BY <1>3, <2>2
    <3>1. a > o
      BY <1>2, <1>4, <1>5 DEF PlaceInv
    <3> QED
      BY <1>4, <1>6, <3>1
  <2>4. start' \in 1 .. org' + 1 /\ base' \in 1 .. start'
    BY <1>3, <1>6
  <2> QED
    BY <1>3, <2>1, <2>2, <2>3, <2>4 DEF PlaceInv
<1>12. StageInv(off, all)'
  <2>1. Pos(all)' = Pos(all)
    BY <1>3, <1>4, <1>9 DEF Pos
  <2> QED
    BY <1>1, <1>3, <2>1 DEF ExactInv, StageInv, StageAt
<1> QED
  BY <1>1, <1>10, <1>11, <1>12 DEF ExactInv

LEMMA OnDataExact ==
  ASSUME NEW off, NEW all, Sent(off, all), ParserInv, ExactInv(off, all), OnData
  PROVE  ExactInv(off, all)'
<1>1. BodiesInv' /\ Due' = Due
  BY BodiesStay DEF OnData, ExactInv
<1>2. DataInv(all) /\ PlaceInv /\ BodiesInv
  BY DEF ExactInv
<1>3. UNCHANGED <<pipeline, parser, body>> /\ start' = 1 /\ base' = 1
  BY DEF OnData
<1>4. PICK o \in Nat, g \in Nat : o = org /\ g = Gone(all) /\ o <= Room
  BY <1>2, PlaceNumbers
<1>5. start = 1 /\ place \in {"wait", "forced"}
  BY <1>2 DEF PlaceInv, OnData
<1>6. PICK l \in Nat, s \in Nat : l = Len(all) /\ s = Len(stream)
  BY DEF Sent, ParserInv
<1>7. Room \in Nat /\ DOMAIN buf = 1 .. Room + 1 /\ stream \in Seq(TokenSet)
  BY ParserAssumption DEF ParserInv
<1>8. PICK n \in (IF place = "forced" THEN {0} ELSE {}) \cup (1 .. Len(stream)) :
        /\ org + n <= Room
        /\ buf' = [i \in DOMAIN buf |-> IF i \in org + 1 .. org + n THEN stream[i - org] ELSE buf[i]]
        /\ stream' = SubSeq(stream, n + 1, Len(stream))
        /\ org' = org + n
  BY DEF OnData
<1>9. n \in Nat /\ n <= s
  BY <1>6, <1>8
<1>10. /\ org' = o + n /\ o + n <= Room
       /\ buf' = [i \in 1 .. Room + 1 |-> IF i \in o + 1 .. o + n THEN stream[i - o] ELSE buf[i]]
  BY <1>4, <1>7, <1>8
<1>11. Len(stream') = s - n /\ \A i \in 1 .. s - n : stream'[i] = stream[n + i]
  <2>1. stream' = SubSeq(stream, n + 1, s)
    BY <1>6, <1>8
  <2>2. n + 1 \in Int /\ s \in Int /\ \A i \in n + 1 .. s : stream[i] \in TokenSet
    BY <1>6, <1>7, <1>9, ElementOfSeq
  <2>3. /\ Len(SubSeq(stream, n + 1, s)) = IF n + 1 <= s THEN s - (n + 1) + 1 ELSE 0
        /\ \A i \in 1 .. s - (n + 1) + 1 : SubSeq(stream, n + 1, s)[i] = stream[n + 1 + i - 1]
    BY <2>2, SubSeqProperties
  <2>4. s - (n + 1) + 1 = s - n /\ (IF n + 1 <= s THEN s - (n + 1) + 1 ELSE 0) = s - n
    BY <1>9
  <2>5. \A i \in 1 .. s - n : n + 1 + i - 1 = n + i
    BY <1>9
  <2> QED
    BY <2>1, <2>3, <2>4, <2>5
<1>12. Gone(all)' = g
  <2>1. g = l - s - o
    BY <1>4, <1>6 DEF Gone
  <2>2. Gone(all)' = l - (s - n) - (o + n)
    BY <1>6, <1>10, <1>11 DEF Gone
  <2> QED
    BY <1>9, <2>1, <2>2
<1>13. DataInv(all)'
  <2>1. ASSUME NEW i \in 1 .. s - n PROVE stream'[i] = all[Gone(all)' + org' + i]
    <3>1. n + i \in 1 .. s
      BY <1>9
    <3>2. stream[n + i] = all[g + o + (n + i)]
      BY <1>2, <1>4, <1>6, <3>1 DEF DataInv
    <3>3. g + o + (n + i) = Gone(all)' + org' + i
      BY <1>9, <1>10, <1>12
    <3> QED
      BY <1>11, <3>2, <3>3
  <2>2. ASSUME NEW i \in 1 .. o + n PROVE buf'[i] = all[Gone(all)' + i]
    <3>1. i \in 1 .. Room + 1
      BY <1>7, <1>9, <1>10
    <3>2. CASE i <= o
      <4>1. buf'[i] = buf[i]
        BY <1>10, <3>1, <3>2
      <4>2. buf[i] = all[g + i]
        BY <1>2, <1>4, <3>2 DEF DataInv
      <4> QED
        BY <1>12, <4>1, <4>2
    <3>3. CASE ~(i <= o)
      <4>1. i \in o + 1 .. o + n /\ i - o \in 1 .. s
        BY <1>9, <3>3
      <4>2. buf'[i] = stream[i - o]
        BY <1>10, <3>1, <4>1
      <4>3. stream[i - o] = all[g + o + (i - o)]
        BY <1>2, <1>4, <1>6, <4>1 DEF DataInv
      <4>4. g + o + (i - o) = g + i
        BY <3>3
      <4> QED
        BY <1>12, <4>2, <4>3, <4>4
    <3> QED
      BY <3>2, <3>3
  <2> QED
    BY <1>10, <1>11, <1>12, <2>1, <2>2 DEF DataInv
<1>14. PlaceInv'
  <2>1. ~BodyRead'
    BY <1>2, <1>3, <1>5 DEF PlaceInv, BodyRead
  <2>2. place' = IF org' = 0 THEN "wait" ELSE "parse"
    BY DEF OnData
  <2>3. org' \in Nat
    BY <1>9, <1>10
  <2>4. start' \in 1 .. org' + 1 /\ base' \in 1 .. start'
    <3>1. PICK m \in Nat : m = o + n
      BY <1>9
    <3>2. org' = m /\ 1 \in 1 .. m + 1 /\ 1 \in 1 .. 1
      BY <1>10, <3>1
    <3> QED
      BY <1>3, <3>2
  <2>5. place' = "parse" => start' <= org'
    BY <1>3, <2>2, <2>3
  <2> QED
    BY <1>3, <2>1, <2>2, <2>4, <2>5 DEF PlaceInv
<1>15. StageInv(off, all)'
  <2>1. Pos(all)' = Pos(all)
    BY <1>3, <1>4, <1>5, <1>12 DEF Pos
  <2> QED
    BY <1>1, <1>3, <2>1 DEF ExactInv, StageInv, StageAt
<1> QED
  BY <1>1, <1>13, <1>14, <1>15 DEF ExactInv

(* Parsers that looked behind the data, or did not.                        *)
RequestsInv ==
  /\ ParserInv
  /\ \E off, all : Sent(off, all) /\ (~beyond => ExactInv(off, all))

LEMMA RequestsStart ==
  ASSUME NEW requests \in Seq(Request), ParserStart(requests)
  PROVE  RequestsInv
<1>1. ParserInv
  BY ParserStarts
<1>2. /\ pipeline = requests /\ stream = Stream(requests) /\ org = 0 /\ base = 1 /\ start = 1
      /\ parser = [stage |-> "line", length |-> 0, read |-> 0] /\ body = <<>>
      /\ place = "wait" /\ delivered = <<>>
  BY DEF ParserStart, Stream, Fresh, NoBody
<1>3. PICK off : StreamLaid(off, Stream(requests), requests)
  BY StreamExists
<1>4. stream \in Seq(TokenSet)
  BY <1>2, StreamExists
<1>5. Sent(off, stream)
  BY <1>2, <1>3, <1>4 DEF Sent
<1>6. Gone(stream) = 0 /\ Pos(stream) = 1
  <2>1. PICK l \in Nat : l = Len(stream)
    BY <1>4
  <2> QED
    BY <1>2, <2>1 DEF Gone, Pos
<1>7. DataInv(stream)
  BY <1>2, <1>4, <1>6 DEF DataInv
<1>8. PlaceInv
  BY <1>2 DEF PlaceInv, BodyRead
<1>9. BodiesInv /\ Due = 1
  BY <1>2 DEF BodiesInv, Due
<1>10. off[1] = 0
  BY <1>3 DEF StreamLaid
<1>11. StageInv(off, stream)
  BY <1>2, <1>6, <1>9, <1>10 DEF StageInv
<1>12. ExactInv(off, stream)
  BY <1>7, <1>8, <1>9, <1>11 DEF ExactInv
<1>13. PICK all : all = stream
  OBVIOUS
<1> QED
  BY <1>1, <1>5, <1>12, <1>13 DEF RequestsInv

LEMMA RequestsKept ==
  ASSUME RequestsInv, [ParserNext]_parservars
  PROVE  RequestsInv'
<1>1. ParserInv'
  BY ParserKept DEF RequestsInv
<1>2. PICK off, all : Sent(off, all) /\ (~beyond => ExactInv(off, all))
  BY DEF RequestsInv
<1>3. pipeline' = pipeline
  BY DEF ParserNext, parservars, OnData, SkipBlank, RequestLine, BadLine, HeaderLine, EmptyLine,
         NeedMore, ReadBody, NothingToRead, Complete, Loop, Compact
<1>4. Sent(off, all)'
  BY <1>2, <1>3 DEF Sent
<1>5. ~beyond' => ~beyond
  BY DEF ParserNext, parservars, OnData, SkipBlank, RequestLine, BadLine, HeaderLine, EmptyLine,
         NeedMore, ReadBody, NothingToRead, Complete, Loop, Compact
<1>6. ASSUME ~beyond', ExactInv(off, all) PROVE ExactInv(off, all)'
  <2> USE <1>2, <1>6 DEF RequestsInv
  <2>1. CASE OnData
    BY <2>1, OnDataExact
  <2>2. CASE SkipBlank \/ BadLine
    BY <2>2, LinesExact
  <2>3. CASE RequestLine
    BY <2>3, RequestLineExact
  <2>4. CASE HeaderLine
    BY <2>4, HeaderLineExact
  <2>5. CASE EmptyLine
    BY <2>5, EmptyLineExact
  <2>6. CASE NeedMore
    BY <2>6, NeedMoreExact
  <2>7. CASE ReadBody
    BY <2>7, ReadBodyExact
  <2>8. CASE NothingToRead
    BY <2>8, NothingToReadExact
  <2>9. CASE Complete
    BY <2>9, CompleteExact
  <2>10. CASE Loop
    BY <2>10, LoopExact
  <2>11. CASE Compact
    BY <2>11, CompactExact
  <2>12. CASE UNCHANGED parservars
    BY <2>12 DEF parservars, ExactInv, DataInv, PlaceInv, BodiesInv, StageInv, StageAt, Gone, Pos,
                 Due, BodyRead
  <2> QED
    BY <2>1, <2>2, <2>3, <2>4, <2>5, <2>6, <2>7, <2>8, <2>9, <2>10, <2>11, <2>12 DEF ParserNext
<1> QED
  BY <1>1, <1>2, <1>4, <1>5, <1>6, Zenon DEF RequestsInv

LEMMA RequestsAre == RequestsInv => RequestsExact
<1> SUFFICES ASSUME RequestsInv, ~beyond PROVE DeliveredAsSent
  BY DEF RequestsExact
<1>1. PICK off, all : Sent(off, all) /\ ExactInv(off, all) /\ ParserInv
  BY DEF RequestsInv
<1>2. DataInv(all) /\ PlaceInv /\ BodiesInv
  BY <1>1 DEF ExactInv
<1>3. place = "wait" /\ stream = <<>> => Len(delivered) = Len(pipeline)
  <2> SUFFICES ASSUME place = "wait", stream = <<>> PROVE Len(delivered) = Len(pipeline)
    OBVIOUS
  <2>1. org = 0 /\ start = 1 /\ Len(stream) = 0
    BY <1>2 DEF PlaceInv
  <2>2. PICK l \in Nat, n \in Nat, d \in Nat :
          l = Len(all) /\ n = Len(pipeline) /\ d = Len(delivered) /\ d <= n /\ Due = d + 1
    BY <1>1, <1>2 DEF Sent, BodiesInv, Due
  <2>3. Pos(all) = l + 1
    BY <2>1, <2>2 DEF Pos, Gone
  <2> SUFFICES ASSUME d < n PROVE FALSE
    BY <2>2
  <2>4. Due \in 1 .. Len(pipeline)
    BY <2>2
  <2>5. PICK k \in Nat \ {0}, f \in Nat, b \in Nat :
          k = Lines(pipeline[Due]) /\ f = off[Due] /\ b = pipeline[Due].body
    BY <1>1, <2>4, LinesNumber, RequestNumbers
  <2>6. f + (3 * k + 2 + b) <= l /\ off[Due + 1] = f + (3 * k + 2 + b)
    BY <1>1, <2>2, <2>4, <2>5, RequestNumbers
  <2>7. CASE parser.stage = "line"
    <3>1. Pos(all) = f + 1
      BY <1>1, <2>5, <2>7 DEF ExactInv, StageInv, StageAt
    <3> QED
      BY <2>3, <2>6, <3>1
  <2>8. CASE parser.stage = "headers"
    <3>1. PICK i \in 1 .. k : Pos(all) = f + 3 * i + 1
      BY <1>1, <2>5, <2>8, HeadersMet
    <3> QED
      BY <2>3, <2>6, <3>1
  <2>9. CASE parser.stage = "body"
    <3>1. /\ parser.read \in 0 .. b /\ parser.length = b
          /\ Pos(all) = f + 3 * k + 2 + parser.read + 1
      BY <1>1, <2>5, <2>9, BodyMet
    <3>2. parser.read # b
      BY <1>2, <2>9, <3>1 DEF PlaceInv, BodyRead
    <3> QED
      BY <2>3, <2>6, <3>1, <3>2
  <2>10. CASE parser.stage = "complete"
    BY <1>2, <2>10 DEF PlaceInv, BodyRead
  <2> QED
    BY <1>1, <2>7, <2>8, <2>9, <2>10 DEF ParserInv
<1> QED
  BY <1>2, <1>3 DEF DeliveredAsSent, PlaceInv, BodiesInv

(* However the bytes of any requests are cut into reads, the handlers get  *)
(* the requests that were sent, in order, each with its body, and all of   *)
(* them when everything was read; unless a read ended between the CR and   *)
(* the LF of an empty line, where the parser looks behind the data.        *)
THEOREM RequestsArrive == ParserSpec => []RequestsExact
<1>1. ParserInit => RequestsInv
  BY ParserAssumption, RequestsStart DEF ParserInit
<1>2. RequestsInv /\ [ParserNext]_parservars => RequestsInv'
  BY RequestsKept
<1> QED
  BY <1>1, <1>2, RequestsAre, PTL DEF ParserSpec

-----------------------------------------------------------------------------
(* TextCode: the four parts, one of which runs. *)

PartsInv ==
  /\ ParserInv
  /\ DateInv /\ (code = "date" => date # <<>>)
  /\ StackInv /\ TextInv
  /\ RenderInv

LEMMA PartsStart == TextInit => PartsInv
<1> SUFFICES ASSUME TextInit PROVE PartsInv
  OBVIOUS
<1>1. /\ <<>> \in Seq(Request) /\ <<>> \in Seq(Field) /\ <<>> \in Seq(Seq(Signs))
      /\ <<>> \in Seq(Seq(Value)) /\ FALSE \in BOOLEAN
  OBVIOUS
<1>2. ParserInit \/ ParserStart(<<>>)
  BY DEF TextInit
<1>3. ParserInv
  BY <1>1, <1>2, ParserStarts, ParserAssumption DEF ParserInit
<1>4. DateInit \/ (DateStart(<<>>) /\ code # "date")
  BY DEF TextInit
<1>5. DateInv /\ (code = "date" => date # <<>>)
  <2>1. CASE DateInit
    <3>1. PICK t \in Dates : DateStart(t)
      BY <2>1 DEF DateInit
    <3>2. t \in Seq(Field) /\ t # <<>>
      BY DateAssumption
    <3>3. date = t
      BY <3>1 DEF DateStart
    <3> QED
      BY <3>1, <3>2, <3>3, DateStarts
  <2>2. CASE DateStart(<<>>) /\ code # "date"
    BY <1>1, <2>2, DateStarts
  <2> QED
    BY <1>4, <2>1, <2>2
<1>6. StackInit \/ StackStart(<<>>)
  BY DEF TextInit
<1>7. StackInv /\ TextInv
  <2>1. CASE StackInit
    <3>1. PICK t \in Stacks : StackStart(t)
      BY <2>1 DEF StackInit
    <3>2. t \in Seq(Seq(Signs))
      BY StackAssumption DEF Signs
    <3> QED
      BY <3>1, <3>2, StackStarts
  <2>2. CASE StackStart(<<>>)
    BY <1>1, <2>2, StackStarts
  <2> QED
    BY <1>6, <2>1, <2>2
<1>8. JsonInit \/ JsonStart(<<>>, FALSE)
  BY DEF TextInit
<1>9. RenderInv
  <2>1. CASE JsonInit
    <3>1. PICK t \in Rows, single \in BOOLEAN : JsonStart(t, single)
      BY <2>1 DEF JsonInit
    <3>2. t \in Seq(Seq(Value))
      BY JsonAssumption
    <3> QED
      BY <3>1, <3>2, RenderStarts
  <2>2. CASE JsonStart(<<>>, FALSE)
    BY <1>1, <2>2, RenderStarts
  <2> QED
    BY <1>8, <2>1, <2>2
<1> QED
  BY <1>3, <1>5, <1>7, <1>9 DEF PartsInv

LEMMA PartsKept ==
  ASSUME PartsInv, [TextNext]_textvars
  PROVE  PartsInv'
<1>1. /\ [ParserNext]_parservars /\ [DateNext]_datevars /\ [StackNext]_stackvars
      /\ [JsonNext]_jsonvars /\ code' = code
  BY DEF TextNext, textvars
<1>2. ParserInv'
  BY <1>1, ParserKept DEF PartsInv
<1>3. DateInv' /\ date' = date
  <2>1. date' = date
    BY <1>1 DEF DateNext, CheckLength, JunkField, EndField, AcceptDate, datevars
  <2> QED
    BY <1>1, <2>1, DateKept DEF PartsInv
<1>4. StackInv' /\ TextInv'
  <2>1. ScanInv
    BY DEF PartsInv, StackInv
  <2> QED
    BY <1>1, <2>1, StackKept, TextKept DEF PartsInv
<1>5. RenderInv'
  BY <1>1, RenderKept DEF PartsInv
<1> QED
  BY <1>1, <1>2, <1>3, <1>4, <1>5 DEF PartsInv

(* Whichever part runs, whatever it is given, neither the values of a      *)
(* decoded array nor the JSON leave their memory (InBounds).               *)
THEOREM TextsInBounds == TextSpec => []InBounds
<1>1. PartsInv => InBounds
  BY JsonBounded DEF PartsInv, RenderInv, StackInv, CountInv, ValuesInBounds, InBounds
<1> QED
  BY <1>1, PartsStart, PartsKept, PTL DEF TextSpec

(* The types of the four parts, the cursors of the parser and of the       *)
(* decoder in their buffers included (TypeOK).                             *)
THEOREM TextsTyped == TextSpec => []TypeOK
<1>1. PartsInv => TypeOK
  <2> SUFFICES ASSUME PartsInv PROVE TypeOK
    OBVIOUS
  <2>1. ParserTypeOK /\ StackTypeOK /\ JsonTypeOK
    BY ParserTyped, StackTyped, JsonBounded DEF PartsInv, RenderInv
  <2>2. code = "date" => DateTypeOK
    BY DEF PartsInv, DateInv, DateTypeOK
  <2> QED
    BY <2>1, <2>2 DEF TypeOK
<1> QED
  BY <1>1, PartsStart, PartsKept, PTL DEF TextSpec

=============================================================================
