---------------------------- MODULE LeagueProofs ----------------------------
(***************************************************************************)
(* Proofs about the league: its types, and that the standings follow the   *)
(* records of the matches.                                                 *)
(***************************************************************************)
EXTENDS AnalysisProofs, SequenceTheorems

-----------------------------------------------------------------------------
(* Recursion and induction, from what is well-founded *)

LEMMA Induction ==
  ASSUME NEW T, 0 \in T, \A n \in Nat : n \in T => n + 1 \in T
  PROVE  \A n \in Nat : n \in T
<1> SUFFICES ASSUME Nat \ T # {} PROVE FALSE
  OBVIOUS
<1>1. PICK x \in Nat \ T : \A y \in Nat \ T : x <= y
  BY Least
<1>2. x # 0 /\ x - 1 \in Nat BY <1>1
<1>3. x - 1 \in T  BY <1>1, <1>2
<1> QED  BY <1>2, <1>3

Steps(V, n) == [V \X (1..n) -> V]

Follows(c, base, step, n) == c[0] = base /\ \A i \in 1..n : c[i] = step[<<c[i - 1], i>>]

\* What is built step by step exists.
LEMMA Chain ==
  ASSUME NEW V, NEW base \in V, NEW n \in Nat, NEW step \in Steps(V, n)
  PROVE  \E c \in [0..n -> V] : Follows(c, base, step, n)
<1> DEFINE Ok(k, c) == c[0] = base /\ \A i \in 1..k : c[i] = step[<<c[i - 1], i>>]
           T == {k \in Nat : k <= n => \E c \in [0..k -> V] : Ok(k, c)}
<1>1. 0 \in T
  <2>1. [k \in 0..0 |-> base] \in [0..0 -> V] /\ Ok(0, [k \in 0..0 |-> base])
    OBVIOUS
  <2> QED  BY <2>1
<1>2. ASSUME NEW k \in Nat, k \in T  PROVE k + 1 \in T
  <2> SUFFICES ASSUME k + 1 <= n  PROVE \E c \in [0..k + 1 -> V] : Ok(k + 1, c)
    OBVIOUS
  <2>1. PICK c \in [0..k -> V] : Ok(k, c)
    BY <1>2
  <2> DEFINE next == step[<<c[k], k + 1>>]
             d == [i \in 0..k + 1 |-> IF i = k + 1 THEN next ELSE c[i]]
  <2>2. next \in V
    <3>1. c[k] \in V /\ k + 1 \in 1..n  BY <2>1
    <3> QED  BY <3>1 DEF Steps
  <2>3. d \in [0..k + 1 -> V]
    <3>1. \A i \in 0..k + 1 : i # k + 1 => i \in 0..k  OBVIOUS
    <3> QED  BY <2>1, <2>2, <3>1
  <2>4. /\ d[k + 1] = next
        /\ \A i \in 0..k : d[i] = c[i]
    OBVIOUS
  <2> HIDE DEF next, d
  <2>5. Ok(k + 1, d)
    <3>1. d[0] = base  BY <2>4, <2>1
    <3>2. ASSUME NEW i \in 1..k + 1  PROVE d[i] = step[<<d[i - 1], i>>]
      <4>1. CASE i = k + 1
        <5>1. d[i - 1] = c[k]  BY <4>1, <2>4
        <5> QED  BY <5>1, <4>1, <2>4 DEF next
      <4>2. CASE i # k + 1
        <5>1. i \in 1..k /\ i - 1 \in 0..k /\ i \in 0..k  BY <4>2
        <5> QED  BY <5>1, <2>4, <2>1
      <4> QED  BY <4>1, <4>2
    <3> QED  BY <3>1, <3>2
  <2> QED  BY <2>3, <2>5
<1> HIDE DEF T
<1>3. n \in T  BY <1>1, <1>2, Induction
<1> QED  BY <1>3 DEF T, Follows

LEMMA ChainStays ==
  ASSUME NEW V, NEW n \in Nat, NEW f, f[0] \in V,
         \A i \in 1..n : f[i - 1] \in V => f[i] \in V
  PROVE  \A i \in 0..n : f[i] \in V
<1> DEFINE T == {k \in Nat : k <= n => f[k] \in V}
<1>1. 0 \in T  OBVIOUS
<1>2. ASSUME NEW k \in Nat, k \in T  PROVE k + 1 \in T
  <2> SUFFICES ASSUME k + 1 <= n  PROVE f[k + 1] \in V
    OBVIOUS
  <2>1. k + 1 \in 1..n /\ (k + 1) - 1 = k /\ f[k] \in V  BY <1>2
  <2> QED  BY <2>1
<1> HIDE DEF T
<1>3. \A k \in Nat : k \in T  BY <1>1, <1>2, Induction
<1> QED  BY <1>3 DEF T

-----------------------------------------------------------------------------
(* The schedule *)

LEMMA UniqueTyped ==
  ASSUME NEW P, NEW ids \in Seq(P)
  PROVE  Unique(ids) \in Seq(P)
<1> DEFINE n == Len(ids)
           V == Seq(P)
           Next1(before, k) == IF Contains(before, ids[k]) THEN before ELSE Append(before, ids[k])
           Rec(f) == f = [k \in 0..n |-> IF k = 0 THEN <<>> ELSE Next1(f[k - 1], k)]
           step == [x \in V \X (1..n) |-> Next1(x[1], x[2])]
           seen == CHOOSE f : Rec(f)
<1>1. n \in Nat /\ \A k \in 1..n : ids[k] \in P  OBVIOUS
<1>2. \A before \in V, k \in 1..n : Next1(before, k) \in V
  BY <1>1
<1>3. step \in [V \X (1..n) -> V] /\ <<>> \in V
  BY <1>2
<1> HIDE DEF n, V
<1>4. PICK c \in [0..n -> V] : c[0] = <<>> /\ \A i \in 1..n : c[i] = step[<<c[i - 1], i>>]
  <2> DEFINE base == <<>>
  <2>1. base \in V /\ n \in Nat /\ step \in Steps(V, n)  BY <1>1, <1>3 DEF Steps
  <2> HIDE DEF step, base, Rec, seen, Next1
  <2>2. \E c \in [0..n -> V] : Follows(c, base, step, n)
    BY <2>1, Chain
  <2> QED  BY <2>2 DEF base, Follows
<1>5. \A i \in 1..n : c[i] = Next1(c[i - 1], i)
  <2>1. \A i \in 1..n : i - 1 \in 0..n  BY <1>1
  <2> QED  BY <1>4, <2>1
<1>6. Rec(c)
  <2>1. \A k \in 0..n : k # 0 => k \in 1..n  BY <1>1
  <2> HIDE DEF Next1
  <2> QED  BY <1>4, <1>5, <2>1
<1>7. Rec(seen)
  <2> HIDE DEF Rec
  <2> QED  BY <1>6
<1>8. Unique(ids) = seen[n]
  BY DEF Unique, n
<1>9. seen[0] = <<>> /\ \A k \in 1..n : seen[k] = Next1(seen[k - 1], k)
  <2> HIDE DEF Next1, seen
  <2> QED  BY <1>1, <1>7
<1>10. \A k \in 0..n : seen[k] \in V
  <2> HIDE DEF Next1, seen
  <2>1. seen[0] \in V  BY <1>3, <1>9
  <2>2. \A k \in 1..n : seen[k - 1] \in V => seen[k] \in V
    BY <1>2, <1>9
  <2> QED  BY <1>1, <2>1, <2>2, ChainStays
<1>11. seen[n] \in V
  <2> HIDE DEF seen
  <2> QED  BY <1>1, <1>10
<1> QED  BY <1>8, <1>11 DEF V

LEMMA FlattenTyped ==
  ASSUME NEW P, NEW n \in Nat, NEW seqs, seqs \in [1..n -> Seq(P)]
  PROVE  FlattenSeq(seqs) \in Seq(P)
<1> DEFINE V == Seq(P)
           Rec(f) == f = [i \in 1..Len(seqs) |-> IF i = 1 THEN seqs[i] ELSE f[i - 1] \o seqs[i]]
           step == [x \in V \X (1..n) |-> x[1] \o seqs[x[2]]]
           flatten == CHOOSE f : Rec(f)
<1>1. seqs \in Seq(V) /\ Len(seqs) = n /\ \A i \in 1..n : seqs[i] \in V
  OBVIOUS
<1>2. CASE n = 0
  <2>1. FlattenSeq(seqs) = <<>>  BY <1>1, <1>2 DEF FlattenSeq
  <2> QED  BY <2>1
<1>3. CASE n # 0
  <2>1. step \in [V \X (1..n) -> V] /\ <<>> \in V
    BY <1>1
  <2>2. PICK c \in [0..n -> V] : c[0] = <<>> /\ \A i \in 1..n : c[i] = step[<<c[i - 1], i>>]
    <3> DEFINE base == <<>>
    <3>1. base \in V /\ step \in Steps(V, n)  BY <2>1 DEF Steps
    <3> HIDE DEF step, V, base, Rec, flatten
    <3>2. \E c \in [0..n -> V] : Follows(c, base, step, n)
      BY <3>1, Chain
    <3> QED  BY <3>2 DEF base, Follows
  <2>3. \A i \in 1..n : c[i] = c[i - 1] \o seqs[i]
    <3>1. \A i \in 1..n : i - 1 \in 0..n  OBVIOUS
    <3> QED  BY <2>2, <3>1
  <2>4. c[1] = seqs[1]
    <3>1. c[1] = c[0] \o seqs[1]
      <4>1. 1 \in 1..n /\ 1 - 1 = 0  BY <1>3
      <4> QED  BY <4>1, <2>3
    <3>2. seqs[1] \in Seq(P)  BY <1>1, <1>3
    <3>3. <<>> \o seqs[1] = seqs[1]  BY <3>2
    <3> QED  BY <3>1, <3>3, <2>2
  <2> DEFINE d == [i \in 1..n |-> c[i]]
  <2>5. Rec(d)
    <3>1. \A i \in 1..n : i # 1 => i - 1 \in 1..n  OBVIOUS
    <3> HIDE DEF V
    <3> QED  BY <1>1, <2>3, <2>4, <3>1
  <2>6. Rec(flatten)
    <3> HIDE DEF Rec, d
    <3> QED  BY <2>5
  <2>7. FlattenSeq(seqs) = flatten[n]
    BY <1>1, <1>3 DEF FlattenSeq
  <2> DEFINE f0 == [i \in 0..n |-> IF i = 0 THEN <<>> ELSE flatten[i]]
  <2>8. flatten[1] = seqs[1] /\ \A i \in 2..n : flatten[i] = flatten[i - 1] \o seqs[i]
    <3> HIDE DEF flatten
    <3>1. \A i \in 2..n : i \in 1..n /\ i # 1  OBVIOUS
    <3>2. flatten = [i \in 1..n |-> IF i = 1 THEN seqs[i] ELSE flatten[i - 1] \o seqs[i]]
      BY <1>1, <2>6
    <3>3. 1 \in 1..n  BY <1>3
    <3> QED  BY <3>1, <3>2, <3>3
  <2>9. \A i \in 0..n : f0[i] \in V
    <3>1. f0[0] \in V  BY <2>1
    <3>2. ASSUME NEW i \in 1..n, f0[i - 1] \in V  PROVE f0[i] \in V
      <4> HIDE DEF flatten
      <4>1. CASE i = 1  BY <4>1, <2>8, <1>1
      <4>2. CASE i # 1
        <5>1. i \in 2..n /\ i - 1 \in 0..n /\ i - 1 # 0  BY <4>2
        <5>2. flatten[i - 1] \in V /\ flatten[i] = flatten[i - 1] \o seqs[i]
          BY <3>2, <5>1, <2>8
        <5>3. flatten[i - 1] \o seqs[i] \in V
          BY <5>2, <1>1
        <5>4. f0[i] = flatten[i]  OBVIOUS
        <5> HIDE DEF V
        <5> QED  BY <5>2, <5>3, <5>4
      <4> QED  BY <4>1, <4>2
    <3> HIDE DEF f0, V
    <3> QED  BY <3>1, <3>2, ChainStays
  <2>10. f0[n] = flatten[n]  BY <1>3
  <2> HIDE DEF f0, flatten
  <2> QED  BY <2>7, <2>9, <2>10
<1> QED  BY <1>2, <1>3

-----------------------------------------------------------------------------
(* Sums *)

LEMMA Smallest ==
  ASSUME NEW D, IsFiniteSet(D), NEW B \in SUBSET SUBSET D, B # {}
  PROVE  \E S \in B : \A T \in B : T \subseteq S => T = S
<1> DEFINE R == StrictSubsetOrdering(D)
           F == FiniteSubsetsOf(D)
<1>1. B \subseteq F
  BY FS_Subset DEF FiniteSubsetsOf
<1>2. IsWellFoundedOn(R, F)  BY FS_StrictSubsetOrderingWellFounded
<1>3. PICK S \in B : \A T \in B : ~(<<T, S>> \in R)
  <2> HIDE DEF R, F
  <2> QED  BY <1>1, <1>2, WFMin
<1>4. \A T \in B : T \subseteq S /\ T # S => <<T, S>> \in R
  BY DEF StrictSubsetOrdering
<1>5. ASSUME NEW T \in B, T \subseteq S  PROVE T = S
  <2> HIDE DEF R
  <2> QED  BY <1>3, <1>4, <1>5
<1> QED  BY <1>3, <1>5

Numbers(f, D) == \A x \in D : f[x] \in Int

\* g sums the values of f over the subsets of D, in whatever order.
IsSum(g, f, D) ==
  /\ g \in [SUBSET D -> Int]
  /\ g[{}] = 0
  /\ \A T \in SUBSET D : \A x \in T : g[T] = f[x] + g[T \ {x}]

LEMMA SumExists ==
  ASSUME NEW D, IsFiniteSet(D), NEW f, Numbers(f, D)
  PROVE  \E g : IsSum(g, f, D)
<1> DEFINE B == {S \in SUBSET D : ~\E g : IsSum(g, f, S)}
<1> SUFFICES ASSUME B # {}  PROVE FALSE
  OBVIOUS
<1>1. PICK S \in B : \A T \in B : T \subseteq S => T = S
  <2>1. B \in SUBSET SUBSET D  OBVIOUS
  <2> HIDE DEF B
  <2> QED  BY <2>1, Smallest
<1>2. S # {}
  <2> DEFINE g == [T \in SUBSET {} |-> 0]
  <2>1. IsSum(g, f, {})
    BY DEF IsSum
  <2> QED  BY <2>1, <1>1
<1>3. PICK a : a \in S  BY <1>2
<1>4. PICK h : IsSum(h, f, S \ {a})
  <2>1. S \ {a} \notin B
    <3>1. S \ {a} \subseteq S /\ S \ {a} # S  BY <1>3
    <3> HIDE DEF B
    <3> QED  BY <3>1, <1>1
  <2> QED  BY <2>1, <1>1
<1> DEFINE g == [T \in SUBSET S |-> IF a \in T THEN f[a] + h[T \ {a}] ELSE h[T]]
<1>5. f[a] \in Int /\ \A x \in S : f[x] \in Int
  BY <1>1, <1>3 DEF Numbers
<1>6. \A T \in SUBSET S : T \ {a} \in SUBSET (S \ {a}) /\ (a \notin T => T \in SUBSET (S \ {a}))
  OBVIOUS
<1>7. \A T \in SUBSET (S \ {a}) : h[T] \in Int  BY <1>4 DEF IsSum
<1>8. \A T \in SUBSET S : g[T] = IF a \in T THEN f[a] + h[T \ {a}] ELSE h[T]
  OBVIOUS
<1>9. g \in [SUBSET S -> Int]
  BY <1>5, <1>6, <1>7
<1>10. g[{}] = 0
  <2>1. {} \in SUBSET S /\ h[{}] = 0  BY <1>4 DEF IsSum
  <2> HIDE DEF g
  <2> QED  BY <2>1, <1>8
<1> HIDE DEF g
<1>11. ASSUME NEW T \in SUBSET S, NEW x \in T  PROVE g[T] = f[x] + g[T \ {x}]
  <2>1. T \ {x} \in SUBSET S  OBVIOUS
  <2>2. CASE x = a
    <3>1. a \in T /\ a \notin T \ {x}  BY <2>2
    <3>2. g[T] = f[a] + h[T \ {a}]  BY <3>1, <1>8
    <3>3. g[T \ {x}] = h[T \ {a}]  BY <3>1, <1>8, <2>1, <2>2
    <3> QED  BY <3>2, <3>3, <2>2
  <2>3. CASE x # a /\ a \in T
    <3>1. a \in T \ {x} /\ x \in T \ {a}  BY <2>3
    <3>2. g[T] = f[a] + h[T \ {a}]  BY <2>3, <1>8
    <3>3. g[T \ {x}] = f[a] + h[(T \ {x}) \ {a}]  BY <3>1, <1>8, <2>1
    <3>4. h[T \ {a}] = f[x] + h[(T \ {a}) \ {x}]
      BY <3>1, <1>4, <1>6 DEF IsSum
    <3>5. (T \ {a}) \ {x} = (T \ {x}) \ {a}  OBVIOUS
    <3>6. h[(T \ {x}) \ {a}] \in Int  BY <1>6, <1>7, <2>1
    <3>7. f[x] \in Int  BY <1>5
    <3>8. h[T \ {a}] = f[x] + h[(T \ {x}) \ {a}]  BY <3>4, <3>5
    <3>9. \A i, j, k \in Int : i + (j + k) = j + (i + k)  OBVIOUS
    <3> QED  BY <3>2, <3>3, <3>6, <3>7, <3>8, <3>9, <1>5
  <2>4. CASE x # a /\ a \notin T
    <3>1. T \in SUBSET (S \ {a}) /\ a \notin T \ {x}  BY <2>4
    <3>2. h[T] = f[x] + h[T \ {x}]  BY <3>1, <1>4 DEF IsSum
    <3> QED  BY <3>1, <3>2, <2>1, <2>4, <1>8
  <2> QED  BY <2>2, <2>3, <2>4
<1>12. IsSum(g, f, S)  BY <1>9, <1>10, <1>11 DEF IsSum
<1> QED  BY <1>12, <1>1

LEMMA TotalIs ==
  ASSUME NEW D, IsFiniteSet(D), NEW f, NEW g, IsSum(g, f, D)
  PROVE  Total(f, D) = g[D]
<1> DEFINE c(T) == CHOOSE y \in T : TRUE
           Rec(s) == s = [T \in SUBSET D |-> IF T = {} THEN 0 ELSE f[c(T)] + s[T \ {c(T)}]]
           sum == CHOOSE s : Rec(s)
<1>1. \A T : T # {} => c(T) \in T  OBVIOUS
<1> HIDE DEF c
<1>2. Rec(g)
  <2>1. g = [T \in SUBSET D |-> g[T]]  BY DEF IsSum
  <2>2. \A T \in SUBSET D : g[T] = IF T = {} THEN 0 ELSE f[c(T)] + g[T \ {c(T)}]
    BY <1>1 DEF IsSum
  <2> QED  BY <2>1, <2>2
<1>3. Rec(sum)
  <2> HIDE DEF Rec
  <2> QED  BY <1>2
<1>4. Total(f, D) = sum[D]
  BY DEF Total, c
<1> DEFINE B == {T \in SUBSET D : sum[T] # g[T]}
<1> SUFFICES ASSUME B # {}  PROVE FALSE
  <2>1. D \in SUBSET D  OBVIOUS
  <2> HIDE DEF sum
  <2> QED  BY <1>4, <2>1
<1>5. PICK S \in B : \A T \in B : T \subseteq S => T = S
  <2>1. B \in SUBSET SUBSET D  OBVIOUS
  <2> HIDE DEF B
  <2> QED  BY <2>1, Smallest
<1>6. \A T \in SUBSET D : sum[T] = IF T = {} THEN 0 ELSE f[c(T)] + sum[T \ {c(T)}]
  <2> HIDE DEF sum
  <2> QED  BY <1>3
<1>7. \A T \in SUBSET D : g[T] = IF T = {} THEN 0 ELSE f[c(T)] + g[T \ {c(T)}]
  BY <1>1 DEF IsSum
<1> HIDE DEF sum, Rec
<1>8. S # {}  BY <1>5, <1>6, <1>7
<1>9. S \ {c(S)} \notin B /\ S \ {c(S)} \in SUBSET D
  BY <1>1, <1>5, <1>8
<1>10. sum[S \ {c(S)}] = g[S \ {c(S)}]  BY <1>9
<1> QED  BY <1>5, <1>6, <1>7, <1>8, <1>10

\* The sum of what is left and what was taken out.
LEMMA TotalOf ==
  ASSUME NEW D, IsFiniteSet(D), NEW f, Numbers(f, D)
  PROVE  /\ Total(f, D) \in Int
         /\ D = {} => Total(f, D) = 0
         /\ \A x \in D : Total(f, D) = f[x] + Total(f, D \ {x})
<1>1. PICK g : IsSum(g, f, D)  BY SumExists
<1>2. Total(f, D) = g[D]  BY <1>1, TotalIs
<1>3. g[D] \in Int /\ (D = {} => g[D] = 0)  BY <1>1 DEF IsSum
<1>4. ASSUME NEW x \in D  PROVE Total(f, D) = f[x] + Total(f, D \ {x})
  <2> DEFINE E == D \ {x}
             h == [T \in SUBSET E |-> g[T]]
  <2>1. IsFiniteSet(E)  BY FS_Subset
  <2>2. IsSum(h, f, E)
    <3>1. \A T \in SUBSET E : T \in SUBSET D /\ \A y \in T : T \ {y} \in SUBSET E
      OBVIOUS
    <3>2. \A T \in SUBSET E : h[T] = g[T] /\ g[T] \in Int
      BY <3>1, <1>1 DEF IsSum
    <3>3. h \in [SUBSET E -> Int]  BY <3>2
    <3> HIDE DEF h, E
    <3>4. h[{}] = 0  BY <3>2, <1>1 DEF IsSum
    <3>5. \A T \in SUBSET E : \A y \in T : h[T] = f[y] + h[T \ {y}]
      BY <3>1, <3>2, <1>1 DEF IsSum
    <3> QED  BY <3>3, <3>4, <3>5 DEF IsSum
  <2>3. Total(f, E) = h[E]
    <3> HIDE DEF E, h
    <3> QED  BY <2>1, <2>2, TotalIs
  <2>4. h[E] = g[E] /\ g[D] = f[x] + g[E]
    BY <1>1 DEF IsSum
  <2> QED  BY <1>2, <2>3, <2>4
<1> QED  BY <1>2, <1>3, <1>4

LEMMA TotalSame ==
  ASSUME NEW D, IsFiniteSet(D), NEW f, Numbers(f, D), NEW h, \A x \in D : h[x] = f[x]
  PROVE  Total(h, D) = Total(f, D)
<1>1. PICK g : IsSum(g, f, D)  BY SumExists
<1>2. IsSum(g, h, D)
  <2>1. \A T \in SUBSET D : \A x \in T : h[x] = f[x]  OBVIOUS
  <2> QED  BY <1>1, <2>1 DEF IsSum
<1> QED  BY <1>1, <1>2, TotalIs

-----------------------------------------------------------------------------
(* The pairings *)

Sides == [p1 : Policies, p2 : Policies]

LEMMA CombinationsTyped ==
  ASSUME NEW ids \in Seq(Policies)
  PROVE  Combinations(ids) \in Seq(Sides)
<1> DEFINE n == Len(ids)
           row(i) == [j \in 1..n - i |-> Pairing(ids[i], ids[i + j])]
           seqs == [i \in 1..n |-> row(i)]
<1>1. n \in Nat /\ \A i \in 1..n : ids[i] \in Policies  OBVIOUS
<1> HIDE DEF n
<1>2. ASSUME NEW i \in 1..n  PROVE row(i) \in Seq(Sides)
  <2>1. \A j \in 1..n - i : i + j \in 1..n  BY <1>1
  <2>2. \A j \in 1..n - i : Pairing(ids[i], ids[i + j]) \in Sides
    BY <1>1, <2>1 DEF Pairing, Sides
  <2>3. n - i \in Nat  BY <1>1
  <2> QED  BY <2>2, <2>3
<1>3. seqs \in [1..n -> Seq(Sides)]
  <2> HIDE DEF row
  <2> QED  BY <1>2
<1>4. Combinations(ids) = FlattenSeq(seqs)
  BY DEF Combinations, n
<1> HIDE DEF seqs
<1> QED  BY <1>1, <1>3, <1>4, FlattenTyped

LEMMA ListTyped ==
  ASSUME NEW S, NEW n \in Nat, NEW f \in [1..n -> S]
  PROVE  f \in Seq(S)
OBVIOUS

LEMMA OnePassTyped ==
  ASSUME NEW ids \in Seq(Policies), NEW p \in TournamentPlans
  PROVE  OnePass(ids, p) \in Seq(Sides)
<1> DEFINE n == Len(ids)
           all == Combinations(ids)
           m == Len(all)
           mrow(i) == [g \in 1..p.games |-> Pairing(ids[i], ids[i])]
           mirrors == [i \in 1..n |-> mrow(i)]
           match(c, g) == IF p.swap /\ g % 2 = 0 THEN Pairing(all[c].p2, all[c].p1) ELSE all[c]
           crow(c) == [g \in 1..p.games |-> match(c, g)]
           cross == [c \in 1..m |-> crow(c)]
<1>1. all \in Seq(Sides)  BY CombinationsTyped
<1>2. OnePass(ids, p) = IF p.mirrors THEN FlattenSeq(mirrors) \o FlattenSeq(cross)
                                     ELSE FlattenSeq(cross)
  BY DEF OnePass
<1>3. n \in Nat /\ \A i \in 1..n : ids[i] \in Policies  OBVIOUS
<1>4. p.games \in Nat  BY DEF TournamentPlans
<1>5. FlattenSeq(mirrors) \in Seq(Sides)
  <2>1. \A i \in 1..n : Pairing(ids[i], ids[i]) \in Sides
    BY <1>3 DEF Pairing, Sides
  <2>2. \A i \in 1..n : mrow(i) \in Seq(Sides)
    <3>1. \A i \in 1..n : mrow(i) \in [1..p.games -> Sides]  BY <2>1
    <3> HIDE DEF mrow
    <3> QED  BY <1>4, <3>1, ListTyped
  <2>3. mirrors \in [1..n -> Seq(Sides)]
    <3> HIDE DEF mrow
    <3> QED  BY <2>2
  <2> HIDE DEF mirrors, n
  <2> QED  BY <1>3, <2>3, FlattenTyped
<1>6. FlattenSeq(cross) \in Seq(Sides)
  <2> HIDE DEF all
  <2>1. m \in Nat /\ \A c \in 1..m : all[c] \in Sides  BY <1>1
  <2> HIDE DEF m
  <2>2. \A c \in 1..m, g \in 1..p.games : match(c, g) \in Sides
    BY <2>1 DEF Pairing, Sides
  <2> HIDE DEF match
  <2>3. \A c \in 1..m : crow(c) \in Seq(Sides)
    <3>1. \A c \in 1..m : crow(c) \in [1..p.games -> Sides]  BY <2>2
    <3> HIDE DEF crow
    <3> QED  BY <1>4, <3>1, ListTyped
  <2>4. cross \in [1..m -> Seq(Sides)]
    <3> HIDE DEF crow
    <3> QED  BY <2>3
  <2> HIDE DEF cross
  <2> QED  BY <2>1, <2>4, FlattenTyped
<1> HIDE DEF mirrors, cross
<1> QED  BY <1>2, <1>5, <1>6

\* A schedule pairs policies of the configuration.
LEMMA ScheduleTyped ==
  ASSUME NEW p \in TournamentPlans
  PROVE  GeneratePairings(p) \in Seq(Sides)
<1> DEFINE ids == Unique(p.ids)
           once == OnePass(ids, p)
<1>1. ids \in Seq(Policies)
  <2>1. p.ids \in Seq(Policies)  BY DEF TournamentPlans
  <2> QED  BY <2>1, UniqueTyped
<1> HIDE DEF ids
<1>2. once \in Seq(Sides) /\ once \o once \in Seq(Sides)
  <2>1. once \in Seq(Sides)  BY <1>1, OnePassTyped
  <2> HIDE DEF once
  <2> QED  BY <2>1
<1>3. Len(ids) \in Nat  BY <1>1
<1>4. ~(Len(ids) < 2) => /\ <<Pairing(ids[1], ids[2])>> \in Seq(Sides)
                         /\ <<Pairing(ids[1], ids[2]), Pairing(ids[2], ids[1])>> \in Seq(Sides)
  <2> SUFFICES ASSUME ~(Len(ids) < 2)
               PROVE  Pairing(ids[1], ids[2]) \in Sides /\ Pairing(ids[2], ids[1]) \in Sides
    OBVIOUS
  <2>1. ids[1] \in Policies /\ ids[2] \in Policies  BY <1>1, <1>3
  <2> QED  BY <2>1 DEF Pairing, Sides
<1>5. GeneratePairings(p) =
        IF Len(ids) < 2 THEN <<>>
        ELSE CASE p.format = "single"             -> <<Pairing(ids[1], ids[2])>>
               [] p.format = "side_swapped_pair"  ->
                    <<Pairing(ids[1], ids[2]), Pairing(ids[2], ids[1])>>
               [] p.format = "round_robin"        -> once
               [] p.format = "double_round_robin" -> once \o once
               [] OTHER                           -> <<>>
  BY DEF GeneratePairings, ids
<1> HIDE DEF once
<1>6. <<>> \in Seq(Sides)  OBVIOUS
<1>7. CASE Len(ids) < 2  BY <1>5, <1>6, <1>7
<1>8. CASE ~(Len(ids) < 2)
  <2> DEFINE one == <<Pairing(ids[1], ids[2])>>
             two == <<Pairing(ids[1], ids[2]), Pairing(ids[2], ids[1])>>
             none == <<>>
             twice == once \o once
  <2>1. one \in Seq(Sides) /\ two \in Seq(Sides) /\ none \in Seq(Sides)
    BY <1>4, <1>6, <1>8
  <2>2. GeneratePairings(p) =
          CASE p.format = "single"             -> one
            [] p.format = "side_swapped_pair"  -> two
            [] p.format = "round_robin"        -> once
            [] p.format = "double_round_robin" -> twice
            [] OTHER                           -> none
    BY <1>5, <1>8
  <2>3. once \in Seq(Sides) /\ twice \in Seq(Sides)  BY <1>2
  <2> HIDE DEF one, two, none, twice
  <2> QED  BY <2>1, <2>2, <2>3
<1> QED  BY <1>7, <1>8

-----------------------------------------------------------------------------
(* One result *)

Tables == UNION {[D -> Records] : D \in SUBSET Policies}

LEMMA TableIs ==
  ASSUME NEW t
  PROVE  t \in Tables <=> /\ DOMAIN t \subseteq Policies
                          /\ t = [p \in DOMAIN t |-> t[p]]
                          /\ \A p \in DOMAIN t : t[p] \in Records
BY DEF Tables

LEMMA NoTable == NoRecords \in Tables /\ DOMAIN NoRecords = {}
BY TableIs DEF NoRecords

LEMMA GainIs ==
  ASSUME NEW d \in Int
  PROVE  GainBy(d) \in Int /\ GainBy(-d) \in Int /\ GainBy(d) + GainBy(-d) = K
<1> DEFINE clip(x) == IF x > Span THEN Span ELSE IF x < -Span THEN -Span ELSE x
<1>1. Span \in Nat /\ K \in Nat  BY LeagueAssumption
<1>2. clip(d) \in -Span..Span /\ clip(-d) = -clip(d)  BY <1>1
<1>3. GainBy(d) = Gain[clip(d)] /\ GainBy(-d) = Gain[clip(-d)]  BY DEF GainBy
<1> HIDE DEF clip
<1>4. /\ Gain[clip(d)] \in 0..K /\ Gain[clip(d)] + Gain[-clip(d)] = K
      /\ -clip(d) \in -Span..Span
  BY <1>1, <1>2, LeagueAssumption
<1>5. Gain[-clip(d)] \in 0..K  BY <1>4, LeagueAssumption
<1> QED  BY <1>1, <1>2, <1>3, <1>4, <1>5

LEMMA ChangeTyped ==
  ASSUME NEW d \in Int, NEW verdict
  PROVE  EloChange(verdict, d) \in Int
<1>1. GainBy(d) \in Int /\ GainBy(-d) \in Int  BY GainIs
<1>2. K \in Nat /\ K \div 2 \in Int  BY LeagueAssumption
<1> HIDE DEF GainBy
<1> QED  BY <1>1, <1>2 DEF EloChange

LEMMA NewRecordTyped == NewRecord \in Records /\ NewRecord.rating = Rating
BY LeagueAssumption DEF NewRecord, Records

LEMMA EnsuredTyped ==
  ASSUME NEW t \in Tables, NEW p
  PROVE  Ensured(t, p) \in Records
BY NewRecordTyped, TableIs DEF Ensured

\* What a result does to the record of a player.
Kind(r, slot) == IF r.winner \notin {"p1", "p2"} THEN "drew"
                 ELSE IF r.winner = slot THEN "won" ELSE "lost"

Counters(after, before, kind) ==
  /\ after.wins   = before.wins   + (IF kind = "won" THEN 1 ELSE 0)
  /\ after.losses = before.losses + (IF kind = "lost" THEN 1 ELSE 0)
  /\ after.draws  = before.draws  + (IF kind = "drew" THEN 1 ELSE 0)

Raised(record, kind, change)  == [Count(record, kind) EXCEPT !.rating = @ + change]
Lowered(record, kind, change) == [Count(record, kind) EXCEPT !.rating = @ - change]

Gives(after, before, kind, rating) ==
  after \in Records /\ after.rating = rating /\ Counters(after, before, kind)

LEMMA CountIs ==
  ASSUME NEW record \in Records, NEW kind \in {"won", "lost", "drew"}, NEW change \in Int
  PROVE  /\ Gives(Raised(record, kind, change), record, kind, record.rating + change)
         /\ Gives(Lowered(record, kind, change), record, kind, record.rating - change)
<1> DEFINE new == Count(record, kind)
<1>1. /\ new \in Records /\ new.rating = record.rating
      /\ new.wins   = record.wins   + (IF kind = "won" THEN 1 ELSE 0)
      /\ new.losses = record.losses + (IF kind = "lost" THEN 1 ELSE 0)
      /\ new.draws  = record.draws  + (IF kind = "drew" THEN 1 ELSE 0)
  BY DEF Count, Records
<1>2. record.rating \in Int  BY DEF Records
<1> HIDE DEF new
<1> DEFINE up == [new EXCEPT !.rating = @ + change]
           down == [new EXCEPT !.rating = @ - change]
<1>3. /\ up \in Records /\ up.rating = new.rating + change
      /\ up.wins = new.wins /\ up.losses = new.losses /\ up.draws = new.draws
      /\ down \in Records /\ down.rating = new.rating - change
      /\ down.wins = new.wins /\ down.losses = new.losses /\ down.draws = new.draws
  BY <1>1, <1>2 DEF Records
<1>4. Counters(up, record, kind) /\ Counters(down, record, kind)
  <2> HIDE DEF up, down
  <2> QED  BY <1>1, <1>3 DEF Counters
<1>5. up.rating = record.rating + change /\ down.rating = record.rating - change
  <2> HIDE DEF up, down
  <2> QED  BY <1>1, <1>3
<1>6. up = Raised(record, kind, change) /\ down = Lowered(record, kind, change)
  BY DEF new, Raised, Lowered
<1> HIDE DEF up, down
<1> QED  BY <1>3, <1>4, <1>5, <1>6 DEF Gives

\* A result of two policies moves some rating from one to the other, and
\* counts for both; no other record changes.
Rates(u, t, r) ==
  /\ DOMAIN u = DOMAIN t \cup {r.p1, r.p2}
  /\ \E change \in Int :
       /\ u[r.p1].rating = Ensured(t, r.p1).rating + change
       /\ u[r.p2].rating = Ensured(t, r.p2).rating - change
  /\ Counters(u[r.p1], Ensured(t, r.p1), Kind(r, "p1"))
  /\ Counters(u[r.p2], Ensured(t, r.p2), Kind(r, "p2"))
  /\ \A p \in DOMAIN t \ {r.p1, r.p2} : u[p] = t[p]

LEMMA RateResultIs ==
  ASSUME NEW t \in Tables, NEW r, r.p1 \in Policies, r.p2 \in Policies
  PROVE  /\ RateResult(t, r) \in Tables
         /\ r.p1 = r.p2 => RateResult(t, r) = t
         /\ r.p1 # r.p2 => Rates(RateResult(t, r), t, r)
<1>1. CASE r.p1 = r.p2  BY <1>1 DEF RateResult
<1>2. CASE r.p1 # r.p2
  <2> DEFINE a == Ensured(t, r.p1)
             b == Ensured(t, r.p2)
             change == EloChange(r.winner, a.rating - b.rating)
             x == Raised(a, Kind(r, "p1"), change)
             y == Lowered(b, Kind(r, "p2"), change)
             u == [p \in DOMAIN t \cup {r.p1, r.p2} |->
                     CASE p = r.p1 -> x [] p = r.p2 -> y [] OTHER -> t[p]]
  <2>1. RateResult(t, r) = u
    BY <1>2 DEF RateResult, Kind, Raised, Lowered
  <2>2. a \in Records /\ b \in Records  BY EnsuredTyped
  <2>3. change \in Int
    <3>1. a.rating - b.rating \in Int
      <4> HIDE DEF a, b
      <4> QED  BY <2>2 DEF Records
    <3> HIDE DEF a, b
    <3> QED  BY <3>1, ChangeTyped
  <2>4. Kind(r, "p1") \in {"won", "lost", "drew"} /\ Kind(r, "p2") \in {"won", "lost", "drew"}
    BY DEF Kind
  <2>5. x \in Records /\ x.rating = a.rating + change /\ Counters(x, a, Kind(r, "p1"))
    <3> DEFINE kind == Kind(r, "p1")
    <3>1. kind \in {"won", "lost", "drew"}  BY <2>4
    <3> HIDE DEF a, b, change, kind
    <3>2. Gives(Raised(a, kind, change), a, kind, a.rating + change)
      BY <2>2, <2>3, <3>1, CountIs
    <3> QED  BY <3>2 DEF Gives, kind
  <2>6. y \in Records /\ y.rating = b.rating - change /\ Counters(y, b, Kind(r, "p2"))
    <3> DEFINE kind == Kind(r, "p2")
    <3>1. kind \in {"won", "lost", "drew"}  BY <2>4
    <3> HIDE DEF a, b, change, kind
    <3>2. Gives(Lowered(b, kind, change), b, kind, b.rating - change)
      BY <2>2, <2>3, <3>1, CountIs
    <3> QED  BY <3>2 DEF Gives, kind
  <2> HIDE DEF a, b, change, x, y
  <2>7. /\ DOMAIN u = DOMAIN t \cup {r.p1, r.p2}
        /\ u[r.p1] = x /\ u[r.p2] = y
        /\ \A p \in DOMAIN t \ {r.p1, r.p2} : u[p] = t[p]
        /\ u = [p \in DOMAIN u |-> u[p]]
    BY <1>2
  <2> HIDE DEF u
  <2>8. u \in Tables
    <3>1. DOMAIN u \subseteq Policies  BY <2>7, TableIs
    <3>2. \A p \in DOMAIN u : u[p] \in Records
      <4>1. \A p \in DOMAIN t : t[p] \in Records  BY TableIs
      <4> QED  BY <4>1, <2>5, <2>6, <2>7
    <3> QED  BY <3>1, <3>2, <2>7, TableIs
  <2>9. Rates(u, t, r)
    <3>1. u[r.p1].rating = a.rating + change /\ u[r.p2].rating = b.rating - change
      BY <2>5, <2>6, <2>7
    <3>2. Counters(u[r.p1], a, Kind(r, "p1")) /\ Counters(u[r.p2], b, Kind(r, "p2"))
      BY <2>5, <2>6, <2>7
    <3> QED  BY <2>3, <2>7, <3>1, <3>2 DEF Rates, a, b
  <2> QED  BY <1>2, <2>1, <2>8, <2>9
<1> QED  BY <1>1, <1>2

-----------------------------------------------------------------------------
(* Ratings are only moved *)

Evened(f, D) ==
  /\ IsFiniteSet(D)
  /\ Numbers(f, D)
  /\ Total(f, D) = Rating * Cardinality(D)

LEMMA EnrollKeepsEven ==
  ASSUME NEW f, NEW D, Evened(f, D), NEW p, p \in D \/ f[p] = Rating
  PROVE  Evened(f, D \cup {p})
<1> DEFINE E == D \cup {p}
<1>1. CASE p \in D
  <2>1. E = D  BY <1>1
  <2> QED  BY <2>1
<1>2. CASE p \notin D
  <2>1. IsFiniteSet(D) /\ Numbers(f, D) /\ Total(f, D) = Rating * Cardinality(D)
    BY DEF Evened
  <2>2. IsFiniteSet(E) /\ Cardinality(E) = Cardinality(D) + 1 /\ Cardinality(D) \in Nat
    BY <1>2, <2>1, FS_AddElement, FS_CardinalityType
  <2>3. Rating \in Int  BY LeagueAssumption
  <2>4. Numbers(f, E)  BY <1>2, <2>1, <2>3 DEF Numbers
  <2>5. p \in E /\ E \ {p} = D  BY <1>2
  <2>6. Total(f, E) = f[p] + Total(f, D)
    <3>1. Total(f, E) = f[p] + Total(f, E \ {p})
      <4> HIDE DEF E
      <4> QED  BY <2>2, <2>4, <2>5, TotalOf
    <3> QED  BY <3>1, <2>5
  <2> HIDE DEF E
  <2>7. Total(f, E) = Rating + Rating * Cardinality(D)  BY <1>2, <2>1, <2>6
  <2>8. \A m \in Int, n \in Nat : m + m * n = m * (n + 1)  OBVIOUS
  <2>9. Total(f, E) = Rating * Cardinality(E)
    BY <2>2, <2>3, <2>7, <2>8
  <2> QED  BY <2>2, <2>4, <2>9 DEF Evened, E
<1> QED  BY <1>1, <1>2

LEMMA MoveKeepsTotal ==
  ASSUME NEW D, IsFiniteSet(D), NEW f, Numbers(f, D), NEW a \in D, NEW b \in D, a # b,
         NEW change \in Int, NEW h, h[a] = f[a] + change, h[b] = f[b] - change,
         \A x \in D \ {a, b} : h[x] = f[x]
  PROVE  Total(h, D) = Total(f, D)
<1> DEFINE A == D \ {a}
           B == A \ {b}
<1>1. IsFiniteSet(A) /\ IsFiniteSet(B)  BY FS_Subset
<1>2. f[a] \in Int /\ f[b] \in Int  BY DEF Numbers
<1>3. Numbers(h, D)
  <2>1. \A x \in D : x = a \/ x = b \/ x \in D \ {a, b}  OBVIOUS
  <2> QED  BY <1>2, <2>1 DEF Numbers
<1>4. Numbers(f, A) /\ Numbers(f, B) /\ Numbers(h, A) /\ Numbers(h, B)
  BY <1>3 DEF Numbers
<1>5. b \in A  OBVIOUS
<1>6. \A x \in B : h[x] = f[x]  OBVIOUS
<1> HIDE DEF A, B
<1>7. Total(h, B) = Total(f, B)  BY <1>1, <1>4, <1>6, TotalSame
<1>8. Total(h, A) = h[b] + Total(h, B) /\ Total(f, A) = f[b] + Total(f, B)
  BY <1>1, <1>4, <1>5, TotalOf DEF B
<1>9. Total(h, D) = h[a] + Total(h, A) /\ Total(f, D) = f[a] + Total(f, A)
  BY <1>1, <1>3, TotalOf DEF A
<1>10. Total(f, B) \in Int  BY <1>1, <1>4, TotalOf
<1> QED  BY <1>2, <1>7, <1>8, <1>9, <1>10

Ratings(t) == [p \in DOMAIN t |-> t[p].rating]

\* Together, the ratings are the initial ones.
Balanced(t) == Evened(Ratings(t), DOMAIN t)

LEMMA RatesKeepsBalance ==
  ASSUME NEW t \in Tables, NEW u \in Tables, NEW r, r.p1 \in Policies, r.p2 \in Policies,
         r.p1 # r.p2, Rates(u, t, r), Balanced(t)
  PROVE  Balanced(u)
<1> DEFINE f == [p \in Policies |-> Ensured(t, p).rating]
           D == DOMAIN t
           E == DOMAIN u
           a == r.p1
           b == r.p2
<1>1. \A p \in Policies : f[p] \in Int /\ (p \notin D => f[p] = Rating)
  <2>1. \A p \in Policies : Ensured(t, p) \in Records  BY EnsuredTyped
  <2>2. \A p \in Policies : p \notin D => Ensured(t, p).rating = Rating
    BY NewRecordTyped DEF Ensured
  <2> QED  BY <2>1, <2>2 DEF Records
<1>2. D \subseteq Policies /\ E \subseteq Policies /\ \A p \in D : f[p] = Ratings(t)[p]
  BY TableIs DEF Ensured, Ratings
<1>3. E = (D \cup {a}) \cup {b}
  BY DEF Rates
<1> HIDE DEF f
<1>4. Evened(f, D)
  <2>1. IsFiniteSet(D) /\ Numbers(Ratings(t), D)
        /\ Total(Ratings(t), D) = Rating * Cardinality(D)
    BY DEF Balanced, Evened
  <2>2. Numbers(f, D)  BY <1>1, <1>2 DEF Numbers
  <2> HIDE DEF D
  <2>3. Total(f, D) = Total(Ratings(t), D)  BY <1>2, <2>1, TotalSame
  <2> QED  BY <2>1, <2>2, <2>3 DEF Evened
<1>5. Evened(f, D \cup {a})
  <2>1. a \in D \/ f[a] = Rating  BY <1>1
  <2> HIDE DEF D, a
  <2> QED  BY <2>1, <1>4, EnrollKeepsEven
<1>6. Evened(f, E)
  <2>1. b \in D \cup {a} \/ f[b] = Rating  BY <1>1
  <2> HIDE DEF D, a, b, E
  <2> QED  BY <2>1, <1>3, <1>5, EnrollKeepsEven
<1>7. PICK change \in Int : /\ u[a].rating = f[a] + change
                            /\ u[b].rating = f[b] - change
  BY DEF Rates, f
<1>8. \A p \in E \ {a, b} : u[p].rating = f[p]
  <2>1. \A p \in E \ {a, b} : p \in D /\ u[p] = t[p]  BY <1>3 DEF Rates
  <2> QED  BY <2>1, <1>2 DEF Ratings
<1>9. /\ a \in E /\ b \in E /\ a # b
      /\ Ratings(u)[a] = f[a] + change /\ Ratings(u)[b] = f[b] - change
      /\ \A p \in E \ {a, b} : Ratings(u)[p] = f[p]
  BY <1>3, <1>7, <1>8 DEF Ratings
<1>10. IsFiniteSet(E) /\ Numbers(f, E)  BY <1>6 DEF Evened
<1>11. Total(Ratings(u), E) = Total(f, E)
  <2> HIDE DEF E, a, b
  <2> QED  BY <1>9, <1>10, MoveKeepsTotal
<1>12. Numbers(Ratings(u), E)
  BY TableIs DEF Numbers, Ratings, Records
<1> QED  BY <1>6, <1>10, <1>11, <1>12 DEF Balanced, Evened

LEMMA NoneIsBalanced == Balanced(NoRecords)
<1>1. DOMAIN NoRecords = {} /\ IsFiniteSet({}) /\ Cardinality({}) = 0
  BY NoTable, FS_EmptySet
<1>2. Numbers(Ratings(NoRecords), {})  BY DEF Numbers
<1>3. Total(Ratings(NoRecords), {}) = 0  BY <1>1, <1>2, TotalOf
<1>4. Rating \in Int  BY LeagueAssumption
<1> QED  BY <1>1, <1>2, <1>3, <1>4 DEF Balanced, Evened

-----------------------------------------------------------------------------
(* A list of results *)

Entries(results) ==
  /\ Len(results) \in Nat
  /\ \A k \in 1..Len(results) : results[k].p1 \in Policies /\ results[k].p2 \in Policies

Rerated(t, r) == IF r.winner \in Verdicts THEN RateResult(t, r) ELSE t

\* The tables there are between the results.
Career(c, t, results) ==
  /\ c \in [0..Len(results) -> Tables]
  /\ c[0] = t
  /\ \A k \in 1..Len(results) : c[k] = Rerated(c[k - 1], results[k])

LEMMA ReratedTyped ==
  ASSUME NEW t \in Tables, NEW r, r.p1 \in Policies, r.p2 \in Policies
  PROVE  Rerated(t, r) \in Tables
BY RateResultIs DEF Rerated

LEMMA CareerExists ==
  ASSUME NEW t \in Tables, NEW results, Entries(results)
  PROVE  \E c : Career(c, t, results)
<1> DEFINE n == Len(results)
           step == [x \in Tables \X (1..n) |-> Rerated(x[1], results[x[2]])]
<1>1. n \in Nat /\ \A k \in 1..n : results[k].p1 \in Policies /\ results[k].p2 \in Policies
  BY DEF Entries
<1> HIDE DEF n
<1>2. \A u \in Tables, k \in 1..n : Rerated(u, results[k]) \in Tables
  BY <1>1, ReratedTyped
<1>3. step \in Steps(Tables, n)
  BY <1>2 DEF Steps
<1>4. \A u \in Tables, k \in 1..n : step[<<u, k>>] = Rerated(u, results[k])
  OBVIOUS
<1> HIDE DEF step
<1>5. PICK c \in [0..n -> Tables] : Follows(c, t, step, n)
  BY <1>1, <1>3, Chain
<1>6. \A k \in 1..n : c[k] = Rerated(c[k - 1], results[k])
  <2>1. \A k \in 1..n : k - 1 \in 0..n  BY <1>1
  <2> QED  BY <2>1, <1>4, <1>5 DEF Follows
<1> QED  BY <1>5, <1>6 DEF Career, n, Follows

LEMMA ApplyIs ==
  ASSUME NEW t \in Tables, NEW results, Entries(results), NEW c, Career(c, t, results)
  PROVE  ApplyResults(t, results) = c[Len(results)]
<1> DEFINE n == Len(results)
           Rec(f) == f = [k \in 0..n |-> IF k = 0 THEN t ELSE Rerated(f[k - 1], results[k])]
           rated == CHOOSE f : Rec(f)
<1>1. n \in Nat  BY DEF Entries
<1>2. c[0] = t /\ \A k \in 1..n : c[k] = Rerated(c[k - 1], results[k])
  BY DEF Career
<1>3. c = [k \in 0..n |-> c[k]]  BY DEF Career
<1> HIDE DEF n
<1>4. \A k \in 0..n : k # 0 => k \in 1..n  BY <1>1
<1>5. Rec(c)  BY <1>2, <1>3, <1>4
<1>6. Rec(rated)
  <2> HIDE DEF Rec
  <2> QED  BY <1>5
<1>7. ApplyResults(t, results) = rated[n]
  BY DEF ApplyResults, Rerated, n
<1> HIDE DEF rated
<1>8. rated[0] = t /\ \A k \in 1..n : rated[k] = Rerated(rated[k - 1], results[k])
  BY <1>1, <1>6
<1> HIDE DEF Rec
<1> DEFINE T == {k \in Nat : k <= n => rated[k] = c[k]}
<1>9. 0 \in T  BY <1>2, <1>8
<1>10. ASSUME NEW k \in Nat, k \in T  PROVE k + 1 \in T
  <2> SUFFICES ASSUME k + 1 <= n  PROVE rated[k + 1] = c[k + 1]
    OBVIOUS
  <2>1. k + 1 \in 1..n /\ (k + 1) - 1 = k /\ rated[k] = c[k]  BY <1>1, <1>10
  <2> QED  BY <2>1, <1>2, <1>8
<1> HIDE DEF T
<1>11. n \in T  BY <1>1, <1>9, <1>10, Induction
<1> QED  BY <1>1, <1>7, <1>11 DEF T, n

LEMMA ApplyTyped ==
  ASSUME NEW t \in Tables, NEW results, Entries(results)
  PROVE  ApplyResults(t, results) \in Tables
<1>1. PICK c : Career(c, t, results)  BY CareerExists
<1>2. Len(results) \in 0..Len(results)  BY DEF Entries
<1> QED  BY <1>1, <1>2, ApplyIs DEF Career

\* A match that has no result does not matter.
LEMMA ApplySame ==
  ASSUME NEW t \in Tables, NEW results, Entries(results), NEW new, Entries(new),
         Len(new) = Len(results),
         \A k \in 1..Len(results) :
           \/ new[k] = results[k]
           \/ new[k].winner \notin Verdicts /\ results[k].winner \notin Verdicts
  PROVE  ApplyResults(t, new) = ApplyResults(t, results)
<1>1. PICK c : Career(c, t, results)  BY CareerExists
<1>2. \A k \in 1..Len(results) : \A u : Rerated(u, new[k]) = Rerated(u, results[k])
  BY DEF Rerated
<1>3. Career(c, t, new)
  BY <1>1, <1>2 DEF Career
<1> QED  BY <1>1, <1>3, ApplyIs

LEMMA ApplyNone ==
  ASSUME NEW t \in Tables, NEW results, Entries(results),
         \A k \in 1..Len(results) : results[k].winner \notin Verdicts
  PROVE  ApplyResults(t, results) = t
<1> DEFINE c == [k \in 0..Len(results) |-> t]
<1>1. Career(c, t, results)
  <2>1. Len(results) \in Nat  BY DEF Entries
  <2>2. \A k \in 1..Len(results) : k - 1 \in 0..Len(results) /\ k \in 0..Len(results)
    BY <2>1
  <2> QED  BY <2>1, <2>2 DEF Career, Rerated
<1>2. Len(results) \in 0..Len(results)  BY DEF Entries
<1>3. c[Len(results)] = t  BY <1>2
<1> HIDE DEF c
<1> QED  BY <1>1, <1>3, ApplyIs

\* One more result at the end.
LEMMA ApplyLast ==
  ASSUME NEW t \in Tables, NEW results, Entries(results), NEW new, Entries(new),
         Len(new) = Len(results), NEW i \in 1..Len(results), new[i].winner \in Verdicts,
         \A k \in 1..Len(results) :
           /\ k < i => new[k] = results[k]
           /\ k >= i => results[k].winner \notin Verdicts
           /\ k > i => new[k].winner \notin Verdicts
  PROVE  ApplyResults(t, new) = RateResult(ApplyResults(t, results), new[i])
<1> DEFINE n == Len(results)
<1>1. PICK c : Career(c, t, results)  BY CareerExists
<1>2. n \in Nat /\ \A k \in 1..n : c[k] = Rerated(c[k - 1], results[k])
  BY <1>1 DEF Entries, Career
<1> DEFINE last == RateResult(c[i - 1], new[i])
           d == [k \in 0..n |-> IF k < i THEN c[k] ELSE last]
           T == {k \in Nat : i <= k /\ k <= n => c[k] = c[i - 1]}
<1> HIDE DEF n, last
<1>3. i \in 1..n /\ i - 1 \in 0..n /\ c[i - 1] \in Tables
  <2>1. i \in 1..n /\ i - 1 \in 0..n  BY <1>2 DEF n
  <2> QED  BY <1>1, <2>1 DEF Career, n
<1>4. last \in Tables
  BY <1>3, RateResultIs DEF last, Entries, n
<1>5. c[n] = c[i - 1]
  <2>1. 0 \in T  BY <1>3
  <2>2. ASSUME NEW k \in Nat, k \in T  PROVE k + 1 \in T
    <3> SUFFICES ASSUME i <= k + 1, k + 1 <= n  PROVE c[k + 1] = c[i - 1]
      OBVIOUS
    <3>1. k + 1 \in 1..n /\ (k + 1) - 1 = k  BY <1>2
    <3>2. c[k + 1] = c[k]
      <4>1. results[k + 1].winner \notin Verdicts  BY <3>1, <1>3 DEF n
      <4> QED  BY <3>1, <4>1, <1>2 DEF Rerated
    <3>3. CASE k + 1 = i  BY <3>2, <3>3
    <3>4. CASE k + 1 # i
      <4>1. i <= k /\ k <= n  BY <3>4, <1>2, <1>3
      <4> QED  BY <4>1, <2>2, <3>2
    <3> QED  BY <3>3, <3>4
  <2> HIDE DEF T
  <2>3. n \in T  BY <2>1, <2>2, <1>2, Induction
  <2>4. i <= n /\ n <= n  BY <1>2, <1>3
  <2> QED  BY <2>3, <2>4 DEF T
<1>6. Career(d, t, new)
  <2>1. c \in [0..n -> Tables] /\ c[0] = t  BY <1>1 DEF Career, n
  <2>2. d \in [0..n -> Tables]  BY <2>1, <1>4
  <2>3. d[0] = t  BY <2>1, <1>2, <1>3
  <2>4. \A k \in 0..n : d[k] = IF k < i THEN c[k] ELSE last  OBVIOUS
  <2> HIDE DEF d
  <2>5. ASSUME NEW k \in 1..n  PROVE d[k] = Rerated(d[k - 1], new[k])
    <3>0. k \in 0..n /\ k - 1 \in 0..n  BY <1>2
    <3>1. CASE k < i
      <4>1. k - 1 < i /\ new[k] = results[k]  BY <3>1, <1>2, <1>3 DEF n
      <4> QED  BY <3>0, <3>1, <4>1, <2>4, <1>2
    <3>2. CASE k = i
      <4>1. k - 1 < i /\ ~(k < i)  BY <3>2, <1>3
      <4>2. d[k] = last /\ d[k - 1] = c[i - 1]  BY <3>0, <3>2, <4>1, <2>4
      <4> QED  BY <4>2, <3>2 DEF Rerated, last
    <3>3. CASE k > i
      <4>1. ~(k - 1 < i) /\ ~(k < i) /\ new[k].winner \notin Verdicts
        BY <3>3, <1>2, <1>3 DEF n
      <4>2. d[k] = last /\ d[k - 1] = last  BY <3>0, <4>1, <2>4
      <4> QED  BY <4>1, <4>2 DEF Rerated
    <3>4. k < i \/ k = i \/ k > i  BY <1>2, <1>3
    <3> QED  BY <3>1, <3>2, <3>3, <3>4
  <2>6. Len(new) = n  BY DEF n
  <2> QED  BY <2>2, <2>3, <2>5, <2>6 DEF Career
<1>7. d[n] = last  BY <1>2, <1>3
<1> HIDE DEF d
<1>8. ApplyResults(t, results) = c[n]  BY <1>1, ApplyIs DEF n
<1>9. ApplyResults(t, new) = d[n]  BY <1>6, ApplyIs DEF n
<1> QED  BY <1>5, <1>7, <1>8, <1>9 DEF last

\* The ratings of a list of results are balanced.
LEMMA ApplyBalances ==
  ASSUME NEW results, Entries(results)
  PROVE  Balanced(ApplyResults(NoRecords, results))
<1> DEFINE n == Len(results)
<1>1. PICK c : Career(c, NoRecords, results)  BY CareerExists, NoTable
<1>2. n \in Nat /\ \A k \in 1..n : c[k] = Rerated(c[k - 1], results[k])
  BY <1>1 DEF Entries, Career
<1>3. c \in [0..n -> Tables] /\ c[0] = NoRecords  BY <1>1 DEF Career
<1> HIDE DEF n
<1> DEFINE B == {t \in Tables : Balanced(t)}
<1>4. c[0] \in B  BY <1>3, NoTable, NoneIsBalanced
<1>5. ASSUME NEW k \in 1..n, c[k - 1] \in B  PROVE c[k] \in B
  <2> DEFINE r == results[k]
  <2>1. r.p1 \in Policies /\ r.p2 \in Policies  BY DEF Entries, n
  <2>2. c[k - 1] \in Tables /\ Balanced(c[k - 1]) /\ c[k] = Rerated(c[k - 1], r)
    BY <1>2, <1>5
  <2> HIDE DEF r
  <2>3. CASE r.winner \notin Verdicts  BY <2>2, <2>3, <1>5 DEF Rerated
  <2>4. CASE r.winner \in Verdicts /\ r.p1 = r.p2
    BY <2>1, <2>2, <2>4, <1>5, RateResultIs DEF Rerated
  <2>5. CASE r.winner \in Verdicts /\ r.p1 # r.p2
    <3>1. c[k] = RateResult(c[k - 1], r)  BY <2>2, <2>5 DEF Rerated
    <3>2. c[k] \in Tables /\ Rates(c[k], c[k - 1], r)
      BY <2>1, <2>2, <2>5, <3>1, RateResultIs
    <3>3. Balanced(c[k])
      BY <2>1, <2>2, <2>5, <3>2, RatesKeepsBalance
    <3> QED  BY <3>2, <3>3
  <2> QED  BY <2>3, <2>4, <2>5
<1> HIDE DEF B
<1>6. \A k \in 0..n : c[k] \in B  BY <1>2, <1>4, <1>5, ChainStays
<1>7. c[n] \in B  BY <1>2, <1>6
<1>8. ApplyResults(NoRecords, results) = c[n]  BY <1>1, NoTable, ApplyIs DEF n
<1> QED  BY <1>7, <1>8 DEF B

-----------------------------------------------------------------------------
(* Types *)

Outcomes == {"waiting", "playing", "error"} \cup Verdicts

Run == [id : {"runner", "game"} \X Nat, p1 : Policies, p2 : Policies,
        winner : Verdicts, decisions : Decisions]

Typed ==
  /\ plan \in Plans
  /\ phase \in {"planned", "playing", "failed", "played", "reported"}
  /\ pairings \in Seq(Sides)
  /\ outcome \in [1..Len(pairings) -> Outcomes]
  /\ table \in Tables
  /\ runs \in Seq(Run)
  /\ DOMAIN report.leaderboard \subseteq Policies

LEMMA TypedTells == Typed => LeagueTypeOK
<1> SUFFICES ASSUME Typed PROVE LeagueTypeOK
  OBVIOUS
<1>1. DOMAIN pairings = 1..Len(pairings) /\ DOMAIN outcome = 1..Len(pairings)
  BY DEF Typed
<1>2. \A i \in DOMAIN pairings : pairings[i] \in [p1 : Policies, p2 : Policies]
  <2>1. \A i \in DOMAIN pairings : pairings[i] \in Sides  BY DEF Typed
  <2> QED  BY <2>1 DEF Sides
<1>3. \A i \in DOMAIN outcome : outcome[i] \in {"waiting", "playing", "error"} \cup Verdicts
  BY DEF Typed, Outcomes
<1>4. DOMAIN table \subseteq Policies /\ \A p \in DOMAIN table : table[p] \in Records
  BY TableIs DEF Typed
<1>5. \A i \in DOMAIN runs : runs[i] \in Run
  BY DEF Typed
<1> QED  BY <1>1, <1>2, <1>3, <1>4, <1>5 DEF LeagueTypeOK, Typed, Run

LEMMA LeagueInitTyped == LeagueInit => Typed
<1> SUFFICES ASSUME LeagueInit PROVE Typed
  OBVIOUS
<1>1. pairings = <<>> /\ outcome = <<>> /\ runs = <<>>  BY DEF LeagueInit
<1>2. outcome \in [1..Len(pairings) -> Outcomes]  BY <1>1
<1>3. report.leaderboard = NoRecords  BY DEF LeagueInit, NoReport, BuildReport
<1>4. table = NoRecords /\ plan \in Plans /\ phase = "planned"  BY DEF LeagueInit
<1>5. pairings \in Seq(Sides) /\ runs \in Seq(Run)  BY <1>1
<1> QED  BY <1>2, <1>3, <1>4, <1>5, NoTable DEF Typed

LEMMA PlanTyped ==
  ASSUME Typed, Plan
  PROVE  Typed'
<1>1. plan \in TournamentPlans  BY LeagueAssumption DEF Typed
<1>2. pairings' \in Seq(Sides)  BY <1>1, ScheduleTyped DEF Plan
<1>3. DOMAIN pairings' = 1..Len(pairings')  BY <1>2
<1>4. outcome' \in [1..Len(pairings') -> Outcomes]
  BY <1>3 DEF Plan, Outcomes
<1>5. phase' \in {"playing", "failed"}  BY DEF Plan
<1> QED  BY <1>2, <1>4, <1>5 DEF Typed, Plan

LEMMA ReturnedTyped ==
  ASSUME Typed, NEW i \in DOMAIN outcome, NEW winner \in Verdicts, Returned(i, winner)
  PROVE  /\ outcome' \in [1..Len(pairings) -> Outcomes]
         /\ table' \in Tables
<1>1. i \in 1..Len(pairings) /\ pairings \in Seq(Sides)  BY DEF Typed
<1>2. pairings[i] \in Sides  BY <1>1
<1>3. MatchResult(i, winner).p1 \in Policies /\ MatchResult(i, winner).p2 \in Policies
  BY <1>2 DEF MatchResult, Sides
<1>4. RateResult(table, MatchResult(i, winner)) \in Tables
  BY <1>3, RateResultIs DEF Typed
<1>5. outcome' \in [1..Len(pairings) -> Outcomes]
  BY DEF Returned, Typed, Outcomes
<1> QED  BY <1>4, <1>5 DEF Returned, Typed

LEMMA StoredTyped ==
  ASSUME Typed, NEW i \in DOMAIN outcome, NEW winner \in Verdicts, Stored(i, winner)
  PROVE  runs' \in Seq(Run)
<1>1. i \in 1..Len(pairings) /\ pairings \in Seq(Sides) /\ i \in Nat  BY DEF Typed
<1>2. pairings[i] \in Sides  BY <1>1
<1>3. PICK d \in Decisions :
        runs' = Append(runs, [id |-> GameId(i), p1 |-> pairings[i].p1, p2 |-> pairings[i].p2,
                              winner |-> winner, decisions |-> d])
  BY DEF Stored
<1>4. [id |-> GameId(i), p1 |-> pairings[i].p1, p2 |-> pairings[i].p2,
       winner |-> winner, decisions |-> d] \in Run
  BY <1>1, <1>2 DEF Run, Sides, GameId
<1> QED  BY <1>3, <1>4 DEF Typed

LEMMA MatchEndTyped ==
  ASSUME Typed, NEW i \in DOMAIN outcome, FakeMatchEnds(i) \/ DaemonMatchEnds(i)
  PROVE  /\ runs' \in Seq(Run)
         /\ \E winner \in Verdicts : Returned(i, winner)
<1>1. CASE FakeMatchEnds(i)
  BY <1>1 DEF FakeMatchEnds, Typed
<1>2. CASE DaemonMatchEnds(i)
  <2>1. runs' \in Seq(Run)
    <3>1. CASE UNCHANGED runs  BY <3>1 DEF Typed
    <3>2. CASE \E winner \in Verdicts : Stored(i, winner)
      BY <3>2, StoredTyped
    <3> QED  BY <1>2, <3>1, <3>2 DEF DaemonMatchEnds
  <2> DEFINE found == CollectResults({RunnerId(i)})'
             winner == IF found = {} THEN "none" ELSE runs'[Min(found)].winner
  <2>2. Returned(i, winner)  BY <1>2 DEF DaemonMatchEnds
  <2>3. winner \in Verdicts
    <3>1. found \subseteq DOMAIN runs'  BY DEF CollectResults
    <3>2. DOMAIN runs' \subseteq Nat /\ \A j \in DOMAIN runs' : runs'[j].winner \in Verdicts
      <4>1. \A j \in DOMAIN runs' : j \in Nat /\ runs'[j] \in Run  BY <2>1
      <4> QED  BY <4>1 DEF Run
    <3> HIDE DEF found
    <3>3. found # {} => Min(found) \in found
      <4>1. found \in SUBSET Nat  BY <3>1, <3>2
      <4>2. found # {} => \E x \in found : \A y \in found : x <= y  BY <4>1, Least
      <4> QED  BY <4>2 DEF Min
    <3> QED  BY <3>1, <3>2, <3>3 DEF Verdicts
  <2> QED  BY <2>1, <2>2, <2>3
<1> QED  BY <1>1, <1>2

LEMMA FinishedIs ==
  ASSUME Typed
  PROVE  /\ Entries(Finished)
         /\ Len(Finished) = Len(pairings) /\ Len(pairings) \in Nat
         /\ DOMAIN outcome = 1..Len(pairings)
         /\ \A i \in 1..Len(pairings) :
              Finished[i] = MatchResult(i, outcome[i]) /\ Finished[i].winner = outcome[i]
<1>1. Len(pairings) \in Nat /\ DOMAIN outcome = 1..Len(pairings)  BY DEF Typed
<1>2. \A i \in 1..Len(pairings) : pairings[i] \in Sides  BY DEF Typed
<1>3. \A i \in 1..Len(pairings) : Finished[i] = MatchResult(i, outcome[i])
  BY <1>1 DEF Finished
<1>4. Len(Finished) = Len(pairings)
  BY <1>1 DEF Finished
<1>5. \A i \in 1..Len(pairings) : /\ MatchResult(i, outcome[i]).p1 \in Policies
                                  /\ MatchResult(i, outcome[i]).p2 \in Policies
                                  /\ MatchResult(i, outcome[i]).winner = outcome[i]
  BY <1>2 DEF MatchResult, Sides
<1> QED  BY <1>1, <1>3, <1>4, <1>5 DEF Entries

LEMMA LeagueStepTyped ==
  ASSUME Typed, LeagueNext \/ UNCHANGED leagueVars
  PROVE  Typed'
<1>1. CASE Plan  BY <1>1, PlanTyped
<1>2. CASE AllPlayed
  <2>1. ApplyResults(table, Finished) \in Tables
    BY FinishedIs, ApplyTyped DEF Typed
  <2> QED  BY <1>2, <2>1 DEF AllPlayed, Typed
<1>3. CASE Report
  <2>1. report'.leaderboard = table  BY <1>3 DEF Report, BuildReport
  <2>2. DOMAIN table \subseteq Policies  BY TableIs DEF Typed
  <2> QED  BY <1>3, <2>1, <2>2 DEF Report, Typed
<1>4. ASSUME NEW i \in DOMAIN outcome, StartMatch(i) \/ MatchFails(i)  PROVE Typed'
  <2>1. outcome' \in [1..Len(pairings) -> Outcomes]
    BY <1>4 DEF StartMatch, MatchFails, Typed, Outcomes
  <2> QED  BY <1>4, <2>1 DEF StartMatch, MatchFails, Typed
<1>5. ASSUME NEW i \in DOMAIN outcome, FakeMatchEnds(i) \/ DaemonMatchEnds(i)  PROVE Typed'
  <2>1. runs' \in Seq(Run)  BY <1>5, MatchEndTyped
  <2>2. PICK winner \in Verdicts : Returned(i, winner)  BY <1>5, MatchEndTyped
  <2>3. outcome' \in [1..Len(pairings) -> Outcomes] /\ table' \in Tables
    BY <2>2, ReturnedTyped
  <2>4. UNCHANGED <<plan, phase, pairings, report>>
    BY <1>5 DEF FakeMatchEnds, DaemonMatchEnds
  <2> QED  BY <2>1, <2>3, <2>4 DEF Typed
<1>6. CASE UNCHANGED leagueVars  BY <1>6 DEF leagueVars, Typed
<1> QED  BY <1>1, <1>2, <1>3, <1>4, <1>5, <1>6 DEF LeagueNext

\* The state of a tournament, of whichever kind, has its types.
THEOREM TournamentTypes == Spec => []TypeOK
<1>1. Init => Typed
  BY LeagueInitTyped DEF Init
<1>2. Typed /\ [Next]_vars => Typed'
  <2> SUFFICES ASSUME Typed, [Next]_vars PROVE Typed'
    OBVIOUS
  <2>1. LeagueNext \/ UNCHANGED leagueVars
    BY DEF Next, LeagueIdle, vars, leagueVars
  <2> QED  BY <2>1, LeagueStepTyped
<1>3. Spec => []Typed
  BY <1>1, <1>2, PTL DEF Spec
<1>4. Typed /\ StateTypeOK /\ ScriptTypeOK => TypeOK
  BY TypedTells DEF TypeOK
<1> QED  BY <1>3, <1>4, BracketTypes, PTL

-----------------------------------------------------------------------------
(* The records of a table count the results *)

Ranked(r) == r.p1 # r.p2

WonIn(rs, I, p)   == {i \in I : Ranked(rs[i]) /\ Won(rs[i], p)}
LostIn(rs, I, p)  == {i \in I : /\ Ranked(rs[i]) /\ p \in {rs[i].p1, rs[i].p2}
                                /\ rs[i].winner \in {"p1", "p2"} /\ ~Won(rs[i], p)}
DrawnIn(rs, I, p) == {i \in I : /\ Ranked(rs[i]) /\ p \in {rs[i].p1, rs[i].p2}
                                /\ rs[i].winner \notin {"p1", "p2"}}
SeenIn(rs, I)     == UNION {{rs[i].p1, rs[i].p2} : i \in {j \in I : Ranked(rs[j])}}

\* The records are those of the results of rs at the places I.
Tallies(record, rs, I, p) ==
  /\ record.wins   = Cardinality(WonIn(rs, I, p))
  /\ record.losses = Cardinality(LostIn(rs, I, p))
  /\ record.draws  = Cardinality(DrawnIn(rs, I, p))

StandsFor(t, rs, I) ==
  /\ DOMAIN t = SeenIn(rs, I)
  /\ \A p \in DOMAIN t : Tallies(t[p], rs, I, p)

LEMMA OneMore ==
  ASSUME NEW S, IsFiniteSet(S), NEW x, x \notin S, NEW T, NEW n,
         (T = S \cup {x} /\ n = 1) \/ (T = S /\ n = 0)
  PROVE  Cardinality(T) = Cardinality(S) + n
<1>1. Cardinality(S) \in Nat  BY FS_CardinalityType
<1>2. Cardinality(S \cup {x}) = Cardinality(S) + 1  BY FS_AddElement
<1>3. CASE T = S \cup {x} /\ n = 1  BY <1>2, <1>3
<1>4. CASE T = S /\ n = 0  BY <1>1, <1>4
<1> QED  BY <1>3, <1>4

LEMMA EnsuredTallies ==
  ASSUME NEW t, NEW rs, NEW I, StandsFor(t, rs, I), NEW p
  PROVE  Tallies(Ensured(t, p), rs, I, p)
<1>1. CASE p \in DOMAIN t  BY <1>1 DEF StandsFor, Ensured
<1>2. CASE p \notin DOMAIN t
  <2>1. \A i \in I : Ranked(rs[i]) => p \notin {rs[i].p1, rs[i].p2}
    BY <1>2 DEF StandsFor, SeenIn
  <2>2. WonIn(rs, I, p) = {}  BY <2>1 DEF WonIn, Won
  <2>3. LostIn(rs, I, p) = {} /\ DrawnIn(rs, I, p) = {}
    BY <2>1 DEF LostIn, DrawnIn
  <2>4. Cardinality({}) = 0  BY FS_EmptySet
  <2> QED  BY <1>2, <2>2, <2>3, <2>4 DEF Ensured, NewRecord, Tallies
<1> QED  BY <1>1, <1>2

\* A result is counted for its two sides.
LEMMA CountedFor ==
  ASSUME NEW rs, NEW I, IsFiniteSet(I), NEW k, k \notin I, Ranked(rs[k]),
         NEW slot \in {"p1", "p2"}, NEW p, p = IF slot = "p1" THEN rs[k].p1 ELSE rs[k].p2,
         NEW before, Tallies(before, rs, I, p), NEW after,
         Counters(after, before, Kind(rs[k], slot))
  PROVE  Tallies(after, rs, I \cup {k}, p)
<1> DEFINE kind == Kind(rs[k], slot)
           J == I \cup {k}
<1>1. p \in {rs[k].p1, rs[k].p2}  OBVIOUS
<1>2. /\ kind = "won" <=> Won(rs[k], p)
      /\ kind = "lost" <=> rs[k].winner \in {"p1", "p2"} /\ ~Won(rs[k], p)
      /\ kind = "drew" <=> rs[k].winner \notin {"p1", "p2"}
  BY DEF Kind, Won, Ranked
<1> HIDE DEF kind
<1>3. /\ kind = "won" => WonIn(rs, J, p) = WonIn(rs, I, p) \cup {k}
      /\ kind # "won" => WonIn(rs, J, p) = WonIn(rs, I, p)
  BY <1>2 DEF WonIn
<1>4. /\ kind = "lost" => LostIn(rs, J, p) = LostIn(rs, I, p) \cup {k}
      /\ kind # "lost" => LostIn(rs, J, p) = LostIn(rs, I, p)
  BY <1>1, <1>2 DEF LostIn
<1>5. /\ kind = "drew" => DrawnIn(rs, J, p) = DrawnIn(rs, I, p) \cup {k}
      /\ kind # "drew" => DrawnIn(rs, J, p) = DrawnIn(rs, I, p)
  BY <1>1, <1>2 DEF DrawnIn
<1>6. /\ WonIn(rs, I, p) \in SUBSET I /\ LostIn(rs, I, p) \in SUBSET I
      /\ DrawnIn(rs, I, p) \in SUBSET I
  BY DEF WonIn, LostIn, DrawnIn
<1>7. \A S \in SUBSET I : IsFiniteSet(S) /\ k \notin S  BY FS_Subset
<1>8. Cardinality(WonIn(rs, J, p)) = Cardinality(WonIn(rs, I, p)) + (IF kind = "won" THEN 1 ELSE 0)
  <2> DEFINE S == WonIn(rs, I, p)
             T == WonIn(rs, J, p)
             one == IF kind = "won" THEN 1 ELSE 0
  <2>1. IsFiniteSet(S) /\ k \notin S  BY <1>6, <1>7
  <2>2. (T = S \cup {k} /\ one = 1) \/ (T = S /\ one = 0)
    <3>1. CASE kind = "won"  BY <1>3, <3>1
    <3>2. CASE kind # "won"  BY <1>3, <3>2
    <3> QED  BY <3>1, <3>2
  <2> HIDE DEF S, T, one
  <2>3. Cardinality(T) = Cardinality(S) + one  BY <2>1, <2>2, OneMore
  <2> QED  BY <2>3 DEF S, T, one
<1>9. Cardinality(LostIn(rs, J, p)) = Cardinality(LostIn(rs, I, p)) + (IF kind = "lost" THEN 1 ELSE 0)
  <2> DEFINE S == LostIn(rs, I, p)
             T == LostIn(rs, J, p)
             one == IF kind = "lost" THEN 1 ELSE 0
  <2>1. IsFiniteSet(S) /\ k \notin S  BY <1>6, <1>7
  <2>2. (T = S \cup {k} /\ one = 1) \/ (T = S /\ one = 0)
    <3>1. CASE kind = "lost"  BY <1>4, <3>1
    <3>2. CASE kind # "lost"  BY <1>4, <3>2
    <3> QED  BY <3>1, <3>2
  <2> HIDE DEF S, T, one
  <2>3. Cardinality(T) = Cardinality(S) + one  BY <2>1, <2>2, OneMore
  <2> QED  BY <2>3 DEF S, T, one
<1>10. Cardinality(DrawnIn(rs, J, p)) = Cardinality(DrawnIn(rs, I, p)) + (IF kind = "drew" THEN 1 ELSE 0)
  <2> DEFINE S == DrawnIn(rs, I, p)
             T == DrawnIn(rs, J, p)
             one == IF kind = "drew" THEN 1 ELSE 0
  <2>1. IsFiniteSet(S) /\ k \notin S  BY <1>6, <1>7
  <2>2. (T = S \cup {k} /\ one = 1) \/ (T = S /\ one = 0)
    <3>1. CASE kind = "drew"  BY <1>5, <3>1
    <3>2. CASE kind # "drew"  BY <1>5, <3>2
    <3> QED  BY <3>1, <3>2
  <2> HIDE DEF S, T, one
  <2>3. Cardinality(T) = Cardinality(S) + one  BY <2>1, <2>2, OneMore
  <2> QED  BY <2>3 DEF S, T, one
<1> QED  BY <1>8, <1>9, <1>10 DEF Tallies, Counters, kind

LEMMA RateResultCounts ==
  ASSUME NEW t \in Tables, NEW rs, NEW I, IsFiniteSet(I), StandsFor(t, rs, I),
         NEW k, k \notin I, rs[k].p1 \in Policies, rs[k].p2 \in Policies
  PROVE  StandsFor(RateResult(t, rs[k]), rs, I \cup {k})
<1> DEFINE r == rs[k]
           J == I \cup {k}
           u == RateResult(t, r)
<1>1. CASE ~Ranked(r)
  <2>1. u = t  BY <1>1, RateResultIs DEF Ranked
  <2>2. \A p : /\ WonIn(rs, J, p) = WonIn(rs, I, p)
               /\ LostIn(rs, J, p) = LostIn(rs, I, p)
               /\ DrawnIn(rs, J, p) = DrawnIn(rs, I, p)
    BY <1>1 DEF WonIn, LostIn, DrawnIn
  <2>3. SeenIn(rs, J) = SeenIn(rs, I)
    <3>1. {j \in J : Ranked(rs[j])} = {j \in I : Ranked(rs[j])}  BY <1>1
    <3> QED  BY <3>1 DEF SeenIn
  <2> QED  BY <2>1, <2>2, <2>3 DEF StandsFor, Tallies
<1>2. CASE Ranked(r)
  <2>1. Rates(u, t, r)
    <3>1. r.p1 # r.p2  BY <1>2 DEF Ranked
    <3> QED  BY <3>1, RateResultIs
  <2> HIDE DEF u
  <2>2. SeenIn(rs, J) = SeenIn(rs, I) \cup {r.p1, r.p2}
    <3>1. {j \in J : Ranked(rs[j])} = {j \in I : Ranked(rs[j])} \cup {k}  BY <1>2
    <3> QED  BY <3>1 DEF SeenIn
  <2>3. DOMAIN u = SeenIn(rs, J)  BY <2>1, <2>2 DEF Rates, StandsFor
  <2>4. Tallies(u[r.p1], rs, J, r.p1)
    <3>1. Tallies(Ensured(t, r.p1), rs, I, r.p1)  BY EnsuredTallies
    <3>2. Counters(u[r.p1], Ensured(t, r.p1), Kind(r, "p1"))  BY <2>1 DEF Rates
    <3>3. r.p1 = IF "p1" = "p1" THEN rs[k].p1 ELSE rs[k].p2  OBVIOUS
    <3> QED  BY <1>2, <3>1, <3>2, <3>3, CountedFor
  <2>5. Tallies(u[r.p2], rs, J, r.p2)
    <3>1. Tallies(Ensured(t, r.p2), rs, I, r.p2)  BY EnsuredTallies
    <3>2. Counters(u[r.p2], Ensured(t, r.p2), Kind(r, "p2"))  BY <2>1 DEF Rates
    <3>3. r.p2 = IF "p2" = "p1" THEN rs[k].p1 ELSE rs[k].p2  OBVIOUS
    <3> QED  BY <1>2, <3>1, <3>2, <3>3, CountedFor
  <2>6. ASSUME NEW p \in DOMAIN u, p # r.p1, p # r.p2  PROVE Tallies(u[p], rs, J, p)
    <3>1. p \in DOMAIN t /\ u[p] = t[p]  BY <2>1, <2>6 DEF Rates
    <3>2. ~Won(r, p) /\ p \notin {r.p1, r.p2}  BY <2>6 DEF Won
    <3>3. /\ WonIn(rs, J, p) = WonIn(rs, I, p)
          /\ LostIn(rs, J, p) = LostIn(rs, I, p)
          /\ DrawnIn(rs, J, p) = DrawnIn(rs, I, p)
      BY <3>2 DEF WonIn, LostIn, DrawnIn
    <3> QED  BY <3>1, <3>3 DEF StandsFor, Tallies
  <2> QED  BY <2>3, <2>4, <2>5, <2>6 DEF StandsFor, u
<1> QED  BY <1>1, <1>2

LEMMA NoneStandsForNone ==
  ASSUME NEW rs
  PROVE  StandsFor(NoRecords, rs, {})
BY NoTable DEF StandsFor, SeenIn

EndedIn(results, n) == {i \in 1..n : results[i].winner \in Verdicts}

\* The table of a list of results counts those that there are.
LEMMA ApplyCounts ==
  ASSUME NEW results, Entries(results)
  PROVE  StandsFor(ApplyResults(NoRecords, results), results, EndedIn(results, Len(results)))
<1> DEFINE n == Len(results)
           I(k) == EndedIn(results, k)
<1>1. PICK c : Career(c, NoRecords, results)  BY CareerExists, NoTable
<1>2. n \in Nat /\ \A k \in 1..n : c[k] = Rerated(c[k - 1], results[k])
  BY <1>1 DEF Entries, Career
<1>3. c \in [0..n -> Tables] /\ c[0] = NoRecords  BY <1>1 DEF Career
<1> HIDE DEF n
<1> DEFINE T == {k \in Nat : k <= n => StandsFor(c[k], results, I(k))}
<1>4. 0 \in T
  <2>1. I(0) = {}  BY DEF EndedIn
  <2> QED  BY <1>3, <2>1, NoneStandsForNone
<1>5. ASSUME NEW k \in Nat, k \in T  PROVE k + 1 \in T
  <2> SUFFICES ASSUME k + 1 <= n  PROVE StandsFor(c[k + 1], results, I(k + 1))
    OBVIOUS
  <2> DEFINE r == results[k + 1]
  <2>1. k + 1 \in 1..n /\ k \in 0..n /\ (k + 1) - 1 = k  BY <1>2
  <2>2. r.p1 \in Policies /\ r.p2 \in Policies  BY <2>1 DEF Entries, n
  <2>3. c[k] \in Tables /\ StandsFor(c[k], results, I(k)) /\ c[k + 1] = Rerated(c[k], r)
    BY <1>2, <1>3, <1>5, <2>1
  <2>4. I(k + 1) = IF r.winner \in Verdicts THEN I(k) \cup {k + 1} ELSE I(k)
    <3>1. \A i : i \in 1..k + 1 <=> i \in 1..k \/ i = k + 1  OBVIOUS
    <3> QED  BY <3>1 DEF EndedIn
  <2>5. IsFiniteSet(I(k)) /\ k + 1 \notin I(k)
    <3>1. IsFiniteSet(1..k)  BY FS_Interval
    <3>2. I(k) \subseteq 1..k /\ k + 1 \notin 1..k  BY DEF EndedIn
    <3> QED  BY <3>1, <3>2, FS_Subset
  <2> HIDE DEF I
  <2>6. StandsFor(RateResult(c[k], results[k + 1]), results, I(k) \cup {k + 1})
    BY <2>2, <2>3, <2>5, RateResultCounts
  <2> QED  BY <2>3, <2>4, <2>6 DEF Rerated
<1> HIDE DEF T
<1>6. n \in T  BY <1>2, <1>4, <1>5, Induction
<1>7. StandsFor(c[n], results, I(n))  BY <1>2, <1>6 DEF T
<1>8. ApplyResults(NoRecords, results) = c[n]  BY <1>1, NoTable, ApplyIs DEF n
<1> QED  BY <1>7, <1>8 DEF n

-----------------------------------------------------------------------------
(* The matchups of a report count the runs *)

\* A set that is parted is as large as its parts together.
LEMMA PartsAddUp ==
  ASSUME NEW D, IsFiniteSet(D), NEW R, IsFiniteSet(R), NEW A \in [D -> SUBSET R],
         \A x, y \in D : x # y => A[x] \cap A[y] = {},
         NEW f, \A x \in D : f[x] = Cardinality(A[x])
  PROVE  Total(f, D) = Cardinality(UNION {A[x] : x \in D})
<1> DEFINE U(S) == UNION {A[x] : x \in S}
           B == {S \in SUBSET D : Total(f, S) # Cardinality(U(S))}
<1> SUFFICES ASSUME B # {}  PROVE FALSE
  OBVIOUS
<1>1. PICK S \in B : \A T \in B : T \subseteq S => T = S
  <2>1. B \in SUBSET SUBSET D  OBVIOUS
  <2> HIDE DEF B
  <2> QED  BY <2>1, Smallest
<1>2. \A x \in D : IsFiniteSet(A[x]) /\ f[x] \in Int
  <2>1. \A x \in D : IsFiniteSet(A[x])  BY FS_Subset
  <2> QED  BY <2>1, FS_CardinalityType
<1>3. S \in SUBSET D /\ IsFiniteSet(S) /\ Numbers(f, S)
  <2>1. S \in SUBSET D  BY <1>1
  <2> QED  BY <2>1, <1>2, FS_Subset DEF Numbers
<1>4. S # {}
  <2>1. U({}) = {}  OBVIOUS
  <2>2. Total(f, {}) = 0 /\ Cardinality({}) = 0
    <3>1. IsFiniteSet({}) /\ Cardinality({}) = 0  BY FS_EmptySet
    <3>2. Numbers(f, {})  BY DEF Numbers
    <3> QED  BY <3>1, <3>2, TotalOf
  <2> QED  BY <2>1, <2>2, <1>1
<1>5. PICK a : a \in S  BY <1>4
<1> DEFINE E == S \ {a}
<1>6. Total(f, E) = Cardinality(U(E))
  <2>1. E \subseteq S /\ E # S /\ E \in SUBSET D  BY <1>3, <1>5
  <2> HIDE DEF U, E
  <2> QED  BY <2>1, <1>1
<1>7. Total(f, S) = f[a] + Total(f, E)  BY <1>3, <1>5, TotalOf
<1>8. U(S) = A[a] \cup U(E) /\ A[a] \cap U(E) = {}
  <2>1. \A x \in E : x \in D /\ x # a  BY <1>3
  <2>2. a \in D  BY <1>3, <1>5
  <2>3. A[a] \cap U(E) = {}  BY <2>1, <2>2
  <2>4. U(S) = A[a] \cup U(E)  BY <1>5
  <2> QED  BY <2>3, <2>4
<1>9. IsFiniteSet(U(E)) /\ IsFiniteSet(A[a])
  <2>1. U(E) \subseteq R  BY <1>3
  <2> QED  BY <2>1, <1>2, <1>3, <1>5, FS_Subset
<1> HIDE DEF U, E
<1>10. Cardinality(U(S)) = Cardinality(A[a]) + Cardinality(U(E))
  <2>1. Cardinality({}) = 0  BY FS_EmptySet
  <2>2. Cardinality(A[a]) \in Nat /\ Cardinality(U(E)) \in Nat  BY <1>9, FS_CardinalityType
  <2>3. Cardinality(A[a] \cup U(E)) =
          Cardinality(A[a]) + Cardinality(U(E)) - Cardinality(A[a] \cap U(E))
    BY <1>9, FS_Union
  <2>4. Cardinality(A[a] \cap U(E)) = 0 /\ Cardinality(U(S)) = Cardinality(A[a] \cup U(E))
    BY <1>8, <2>1, Zenon
  <2> QED  BY <2>2, <2>3, <2>4
<1>11. f[a] = Cardinality(A[a])  BY <1>3, <1>5
<1> QED  BY <1>1, <1>6, <1>7, <1>10, <1>11

LEMMA ApartAddUp ==
  ASSUME NEW S, IsFiniteSet(S), NEW A \in SUBSET S, NEW B \in SUBSET S, A \cap B = {}
  PROVE  /\ Cardinality(A \cup B) = Cardinality(A) + Cardinality(B)
         /\ Cardinality(A) \in Nat /\ Cardinality(B) \in Nat
<1>1. IsFiniteSet(A) /\ IsFiniteSet(B)  BY FS_Subset
<1>2. Cardinality({}) = 0  BY FS_EmptySet
<1>3. Cardinality(A) \in Nat /\ Cardinality(B) \in Nat  BY <1>1, FS_CardinalityType
<1>4. Cardinality(A \cup B) = Cardinality(A) + Cardinality(B) - Cardinality(A \cap B)
  BY <1>1, FS_Union
<1>5. Cardinality(A \cap B) = 0  BY <1>2, Zenon
<1> QED  BY <1>3, <1>4, <1>5

SidesOf(i) == {runs[i].p1, runs[i].p2}
Between(R, pair) == {i \in R : SidesOf(i) = pair}
PairsIn(R) == {SidesOf(i) : i \in {j \in R : Ranked(runs[j])}}

OwnPairs(R, p) == {pair \in PairsIn(R) : p \in pair}

\* Some of the runs p is in.
PlayedBy(W, R, p) == W \in SUBSET R /\ \A i \in W : Ranked(runs[i]) /\ p \in SidesOf(i)

CountedPerPair(f, W, R, p) ==
  \A pair \in OwnPairs(R, p) : f[pair] = Cardinality(W \cap Between(R, pair))

\* The matchups of one policy part the runs it is in.
LEMMA PolicyMatchups ==
  ASSUME NEW R, IsFiniteSet(R), NEW p, NEW W, PlayedBy(W, R, p),
         NEW f, CountedPerPair(f, W, R, p)
  PROVE  Total(f, OwnPairs(R, p)) = Cardinality(W)
<1> DEFINE own == OwnPairs(R, p)
           A == [pair \in own |-> W \cap Between(R, pair)]
           ranked == {i \in R : Ranked(runs[i])}
<1>1. IsFiniteSet(own)
  <2>1. IsFiniteSet(ranked)  BY FS_Subset
  <2> DEFINE side == [i \in ranked |-> SidesOf(i)]
  <2>2. side \in Surjection(ranked, PairsIn(R))
    BY DEF Surjection, PairsIn
  <2> HIDE DEF ranked, side
  <2>3. IsFiniteSet(PairsIn(R))  BY <2>1, <2>2, FS_Surjection
  <2> QED  BY <2>3, FS_Subset DEF OwnPairs
<1>2. A \in [own -> SUBSET R]  BY DEF Between
<1>3. \A x, y \in own : x # y => A[x] \cap A[y] = {}
  BY DEF Between
<1>4. \A pair \in own : f[pair] = Cardinality(A[pair])  BY DEF CountedPerPair
<1>5. UNION {A[pair] : pair \in own} = W
  <2>1. \A pair \in own : A[pair] \subseteq W  OBVIOUS
  <2>2. ASSUME NEW i \in W  PROVE \E pair \in own : i \in A[pair]
    <3>1. SidesOf(i) \in own  BY DEF PairsIn, OwnPairs, PlayedBy
    <3>2. i \in W \cap Between(R, SidesOf(i))  BY DEF Between, PlayedBy
    <3>3. i \in A[SidesOf(i)]  BY <3>1, <3>2
    <3> QED  BY <3>1, <3>3
  <2> HIDE DEF A, own
  <2> QED  BY <2>1, <2>2
<1> HIDE DEF A, own
<1>6. Total(f, own) = Cardinality(UNION {A[pair] : pair \in own})
  BY <1>1, <1>2, <1>3, <1>4, PartsAddUp
<1> QED  BY <1>5, <1>6 DEF own

LEMMA PairTotal ==
  ASSUME NEW p, NEW q, p # q, NEW f, f[p] \in Int, f[q] \in Int
  PROVE  Total(f, {p, q}) = f[p] + f[q]
<1>1. IsFiniteSet({p, q}) /\ IsFiniteSet({q}) /\ IsFiniteSet({})
  <2>1. IsFiniteSet({q}) /\ IsFiniteSet({})  BY FS_EmptySet, FS_Singleton
  <2>2. IsFiniteSet({q} \cup {p})  BY <2>1, FS_AddElement
  <2>3. {q} \cup {p} = {p, q}  OBVIOUS
  <2> QED  BY <2>1, <2>2, <2>3
<1>2. Numbers(f, {p, q}) /\ Numbers(f, {q}) /\ Numbers(f, {})  BY DEF Numbers
<1>3. {p, q} \ {p} = {q} /\ {q} \ {q} = {} /\ p \in {p, q} /\ q \in {q}  OBVIOUS
<1>4. Total(f, {}) = 0  BY <1>1, <1>2, TotalOf
<1>5. Total(f, {q}) = f[q] + Total(f, {q} \ {q})  BY <1>1, <1>2, <1>3, TotalOf
<1>6. Total(f, {p, q}) = f[p] + Total(f, {p, q} \ {p})  BY <1>1, <1>2, <1>3, TotalOf
<1>7. Total(f, {q} \ {q}) = 0 /\ Total(f, {p, q} \ {p}) = Total(f, {q})
  BY <1>3, <1>4, Zenon
<1> QED  BY <1>5, <1>6, <1>7

\* A report whose leaderboard stands for the runs it collects tells the same twice.
LEMMA ReportTells ==
  ASSUME runs \in Seq(Run), NEW R \in SUBSET (DOMAIN runs), NEW t, StandsFor(t, runs, R)
  PROVE  Tells(BuildReport(R, t))
<1> DEFINE M == MatchupTable(R)
<1>1. IsFiniteSet(R) /\ \A i \in R : runs[i].winner \in Verdicts
  <2>1. Len(runs) \in Nat /\ DOMAIN runs = 1..Len(runs)  OBVIOUS
  <2>2. IsFiniteSet(1..Len(runs))  BY <2>1, FS_Interval
  <2>3. \A i \in R : runs[i] \in Run  OBVIOUS
  <2> QED  BY <2>1, <2>2, <2>3, FS_Subset DEF Run
<1>2. DOMAIN M = PairsIn(R)
  BY DEF MatchupTable, PairsIn, SidesOf, Ranked
<1>3. ASSUME NEW pair \in PairsIn(R)
      PROVE  /\ DOMAIN M[pair].wins = pair
             /\ \A p \in pair : M[pair].wins[p] = Cardinality({i \in Between(R, pair) : Won(runs[i], p)})
             /\ M[pair].draws = Cardinality({i \in Between(R, pair) : \A p \in pair : ~Won(runs[i], p)})
  BY DEF MatchupTable, PairsIn, SidesOf, Ranked, Between
<1>4. ASSUME NEW pair \in PairsIn(R)
      PROVE  \A i \in Between(R, pair) : Ranked(runs[i])
  <2>1. PICK j \in R : Ranked(runs[j]) /\ pair = SidesOf(j)  BY DEF PairsIn
  <2> QED  BY <2>1 DEF Between, SidesOf, Ranked
<1> HIDE DEF M
<1> SUFFICES ASSUME NEW p \in DOMAIN t
             PROVE  LET own   == {pair \in DOMAIN M : p \in pair}
                        won   == [pair \in own |-> M[pair].wins[p]]
                        all   == [pair \in own |-> Total(M[pair].wins, pair)]
                        drawn == [pair \in own |-> M[pair].draws]
                    IN /\ t[p].wins   = Total(won, own)
                       /\ t[p].losses = Total(all, own) - Total(won, own)
                       /\ t[p].draws  = Total(drawn, own)
  BY DEF Tells, BuildReport, M
<1> DEFINE own   == OwnPairs(R, p)
           won   == [pair \in own |-> M[pair].wins[p]]
           all   == [pair \in own |-> Total(M[pair].wins, pair)]
           drawn == [pair \in own |-> M[pair].draws]
           W == WonIn(runs, R, p)
           L == LostIn(runs, R, p)
           N == DrawnIn(runs, R, p)
           ranked == {i \in R : Ranked(runs[i])}
<1>5. /\ W \in SUBSET ranked /\ L \in SUBSET ranked /\ N \in SUBSET ranked
      /\ W \cap L = {}
      /\ \A i \in W \cup L \cup N : p \in SidesOf(i)
  BY DEF WonIn, LostIn, DrawnIn, SidesOf, Won
<1>6. \A i \in ranked : p \in SidesOf(i) =>
        /\ i \in W <=> Won(runs[i], p)
        /\ i \in W \cup L <=> runs[i].winner \in {"p1", "p2"}
        /\ i \in N <=> runs[i].winner \notin {"p1", "p2"}
  BY DEF WonIn, LostIn, DrawnIn, SidesOf, Won
<1> HIDE DEF W, L, N
<1>7. \A pair \in own : \A i \in Between(R, pair) : i \in ranked /\ p \in SidesOf(i)
  BY <1>4 DEF Between, OwnPairs
<1>14. PlayedBy(W, R, p) /\ PlayedBy(W \cup L, R, p) /\ PlayedBy(N, R, p)
  BY <1>5 DEF PlayedBy
<1>8. Total(won, own) = Cardinality(W)
  <2>1. ASSUME NEW pair \in own
        PROVE  won[pair] = Cardinality(W \cap Between(R, pair))
    <3>0. pair \in PairsIn(R) /\ p \in pair  BY DEF OwnPairs
    <3>1. {i \in Between(R, pair) : Won(runs[i], p)} = W \cap Between(R, pair)
      <4>1. \A i \in Between(R, pair) : Won(runs[i], p) <=> i \in W  BY <1>6, <1>7
      <4> QED  BY <4>1
    <3>2. M[pair].wins[p] = Cardinality({i \in Between(R, pair) : Won(runs[i], p)})
      BY <1>3, <3>0
    <3> QED  BY <3>1, <3>2
  <2>2. CountedPerPair(won, W, R, p)  BY <2>1 DEF CountedPerPair
  <2> HIDE DEF won
  <2> QED  BY <1>1, <1>14, <2>2, PolicyMatchups
<1>9. Total(all, own) = Cardinality(W \cup L)
  <2>1. ASSUME NEW pair \in own
        PROVE  all[pair] = Cardinality((W \cup L) \cap Between(R, pair))
    <3>0. pair \in PairsIn(R) /\ p \in pair  BY DEF OwnPairs
    <3>1. PICK q : q # p /\ pair = {p, q}
      <4>1. PICK j \in R : Ranked(runs[j]) /\ pair = SidesOf(j)  BY <3>0 DEF PairsIn
      <4> QED  BY <3>0, <4>1 DEF SidesOf, Ranked
    <3> DEFINE in == Between(R, pair)
               P == {i \in in : Won(runs[i], p)}
               Q == {i \in in : Won(runs[i], q)}
    <3>2. M[pair].wins[p] = Cardinality(P) /\ M[pair].wins[q] = Cardinality(Q)
      BY <1>3, <3>0, <3>1
    <3>3. P \cap Q = {}
      BY <3>0, <3>1, <1>4 DEF Won, Between, SidesOf, Ranked
    <3>4. P \cup Q = (W \cup L) \cap in
      <4>1. ASSUME NEW i \in in  PROVE Won(runs[i], p) \/ Won(runs[i], q) <=> runs[i].winner \in {"p1", "p2"}
        <5>1. {runs[i].p1, runs[i].p2} = {p, q} /\ runs[i].p1 # runs[i].p2
          BY <3>0, <3>1, <1>4 DEF Between, SidesOf, Ranked
        <5>2. \/ runs[i].p1 = p /\ runs[i].p2 = q
              \/ runs[i].p1 = q /\ runs[i].p2 = p
          BY <5>1, <3>1
        <5> QED  BY <5>2 DEF Won
      <4>2. \A i \in in : i \in W \cup L <=> runs[i].winner \in {"p1", "p2"}
        BY <1>6, <1>7
      <4> HIDE DEF in
      <4> QED  BY <4>1, <4>2
    <3>5. P \in SUBSET R /\ Q \in SUBSET R  BY DEF Between
    <3> HIDE DEF P, Q, in
    <3>6. /\ Cardinality(P \cup Q) = Cardinality(P) + Cardinality(Q)
          /\ Cardinality(P) \in Nat /\ Cardinality(Q) \in Nat
      BY <1>1, <3>3, <3>5, ApartAddUp
    <3> DEFINE wins == M[pair].wins
    <3>7. Total(wins, {p, q}) = Cardinality(P) + Cardinality(Q)
      <4>1. wins[p] = Cardinality(P) /\ wins[q] = Cardinality(Q)  BY <3>2
      <4> HIDE DEF wins
      <4>2. wins[p] \in Int /\ wins[q] \in Int  BY <3>6, <4>1
      <4>3. Total(wins, {p, q}) = wins[p] + wins[q]  BY <3>1, <4>2, PairTotal
      <4> QED  BY <4>1, <4>3
    <3>8. all[pair] = Total(wins, {p, q})  BY <3>1
    <3> QED  BY <3>4, <3>6, <3>7, <3>8 DEF in
  <2>2. CountedPerPair(all, W \cup L, R, p)  BY <2>1 DEF CountedPerPair
  <2> HIDE DEF all
  <2> QED  BY <1>1, <1>14, <2>2, PolicyMatchups
<1>10. Total(drawn, own) = Cardinality(N)
  <2>1. ASSUME NEW pair \in own
        PROVE  drawn[pair] = Cardinality(N \cap Between(R, pair))
    <3>0. pair \in PairsIn(R) /\ p \in pair  BY DEF OwnPairs
    <3>1. ASSUME NEW i \in Between(R, pair)
          PROVE  (\A q \in pair : ~Won(runs[i], q)) <=> runs[i].winner \notin {"p1", "p2"}
      BY DEF Won, Between, SidesOf
    <3>2. {i \in Between(R, pair) : \A q \in pair : ~Won(runs[i], q)} = N \cap Between(R, pair)
      <4>1. \A i \in Between(R, pair) : (\A q \in pair : ~Won(runs[i], q)) <=> i \in N
        BY <1>6, <1>7, <3>1
      <4> QED  BY <4>1
    <3>3. M[pair].draws = Cardinality({i \in Between(R, pair) : \A q \in pair : ~Won(runs[i], q)})
      BY <1>3, <3>0
    <3> QED  BY <3>2, <3>3
  <2>2. CountedPerPair(drawn, N, R, p)  BY <2>1 DEF CountedPerPair
  <2> HIDE DEF drawn
  <2> QED  BY <1>1, <1>14, <2>2, PolicyMatchups
<1>11. /\ Cardinality(W \cup L) = Cardinality(W) + Cardinality(L)
       /\ Cardinality(W) \in Nat /\ Cardinality(L) \in Nat
  <2>1. W \in SUBSET R /\ L \in SUBSET R  BY <1>5
  <2> QED  BY <1>1, <1>5, <2>1, ApartAddUp
<1>12. /\ t[p].wins = Cardinality(W)
       /\ t[p].losses = Cardinality(L)
       /\ t[p].draws = Cardinality(N)
  BY DEF StandsFor, Tallies, W, L, N
<1> HIDE DEF won, all, drawn, own
<1>13. /\ t[p].wins   = Total(won, own)
       /\ t[p].losses = Total(all, own) - Total(won, own)
       /\ t[p].draws  = Total(drawn, own)
  BY <1>8, <1>9, <1>10, <1>11, <1>12
<1> QED  BY <1>2, <1>13 DEF won, all, drawn, own, OwnPairs

-----------------------------------------------------------------------------
(* The matches are taken in turn, and rated when they end *)

\* Matches are started in the order of the schedule, sequentially when the one
\* before has ended, and all have ended when the tournament has.
InTurn ==
  /\ \A i, j \in DOMAIN outcome :
       i < j => /\ outcome[i] = "waiting" => outcome[j] = "waiting"
                /\ ~Parallel /\ outcome[i] = "playing" => outcome[j] = "waiting"
  /\ phase # "playing" => \A i \in DOMAIN outcome : outcome[i] \notin {"waiting", "playing"}
  /\ phase = "planned" => pairings = <<>>

Rated == IF Parallel /\ phase = "playing" THEN <<>> ELSE Finished

\* The table is that of the results that are rated already.
RatedInOrder == table = ApplyResults(NoRecords, Rated)

LeagueInv == Typed /\ InTurn /\ RatedInOrder

LEMMA ConcurrencyIs ==
  ASSUME Typed
  PROVE  Concurrency \in Nat /\ Concurrency >= 1 /\ (~Parallel => Concurrency = 1)
<1>1. plan.concurrency \in Int  BY LeagueAssumption DEF Typed, TournamentPlans
<1> QED  BY <1>1 DEF Concurrency, Parallel, MaxConcurrency

\* One at a time, a match starts when no other one is played.
LEMMA Alone ==
  ASSUME Typed, NEW i \in DOMAIN outcome, May(i), ~Parallel
  PROVE  Playing = {}
<1>1. IsFiniteSet(Playing)
  <2>1. Playing \subseteq 1..Len(pairings) /\ Len(pairings) \in Nat  BY DEF Playing, Typed
  <2>2. IsFiniteSet(1..Len(pairings))  BY <2>1, FS_Interval
  <2> QED  BY <2>1, <2>2, FS_Subset
<1>2. Cardinality(Playing) \in Nat /\ Cardinality(Playing) < 1
  BY <1>1, ConcurrencyIs, FS_CardinalityType DEF May
<1>3. Cardinality(Playing) = 0  BY <1>2
<1> QED  BY <1>1, <1>3, FS_EmptySet

Moves(i, o) == outcome' = [outcome EXCEPT ![i] = o] /\ UNCHANGED <<plan, phase, pairings>>

LEMMA StartKeepsTurn ==
  ASSUME Typed, InTurn, NEW i \in DOMAIN outcome, May(i), NEW o \in {"playing", "error"},
         Moves(i, o)
  PROVE  InTurn'
<1>1. DOMAIN outcome = 1..Len(pairings) /\ Len(pairings) \in Nat /\ DOMAIN outcome' = DOMAIN outcome
  BY DEF Typed, Moves
<1>2. /\ outcome[i] = "waiting" /\ outcome'[i] = o /\ o # "waiting"
      /\ \A j \in DOMAIN outcome : j # i => outcome'[j] = outcome[j]
      /\ \A j \in DOMAIN outcome : j < i => outcome[j] # "waiting"
  BY <1>1 DEF Moves, May
<1>3. UNCHANGED <<Parallel, phase>> /\ phase = "playing"
  BY DEF Moves, Parallel, Concurrency, May
<1>4. \A j \in DOMAIN outcome : i < j => outcome[j] = "waiting"
  BY <1>2 DEF InTurn
<1>5. ASSUME NEW j \in DOMAIN outcome, NEW k \in DOMAIN outcome, j < k
      PROVE  /\ outcome'[j] = "waiting" => outcome'[k] = "waiting"
             /\ ~Parallel /\ outcome'[j] = "playing" => outcome'[k] = "waiting"
  <2>1. CASE k = i  BY <1>1, <1>2, <1>5, <2>1, Alone DEF Playing
  <2>2. CASE j = i  BY <1>1, <1>2, <1>4, <1>5, <2>2
  <2>3. CASE j # i /\ k # i  BY <1>2, <1>5, <2>3 DEF InTurn
  <2> QED  BY <2>1, <2>2, <2>3
<1> QED  BY <1>1, <1>3, <1>5 DEF InTurn

LEMMA EndKeepsTurn ==
  ASSUME Typed, InTurn, NEW i \in Playing, NEW o \in Verdicts \cup {"error"}, Moves(i, o)
  PROVE  InTurn'
<1>1. i \in DOMAIN outcome /\ outcome[i] = "playing" /\ DOMAIN outcome' = DOMAIN outcome
  BY DEF Playing, Moves
<1>2. /\ outcome'[i] = o /\ o \notin {"waiting", "playing"}
      /\ \A j \in DOMAIN outcome : j # i => outcome'[j] = outcome[j]
  BY <1>1 DEF Moves, Verdicts
<1>3. UNCHANGED <<Parallel, phase, pairings>> /\ phase = "playing"
  BY <1>1 DEF Moves, Parallel, Concurrency, InTurn
<1>4. ASSUME NEW j \in DOMAIN outcome, NEW k \in DOMAIN outcome, j < k
      PROVE  /\ outcome'[j] = "waiting" => outcome'[k] = "waiting"
             /\ ~Parallel /\ outcome'[j] = "playing" => outcome'[k] = "waiting"
  <2>1. outcome[j] = "waiting" => k # i  BY <1>1, <1>4 DEF InTurn
  <2>2. ~Parallel /\ outcome[j] = "playing" => k # i  BY <1>1, <1>4 DEF InTurn
  <2>3. j # i => outcome'[j] = outcome[j]  BY <1>2
  <2>4. k # i => outcome'[k] = outcome[k]  BY <1>2
  <2> QED  BY <1>1, <1>2, <1>4, <2>1, <2>2, <2>3, <2>4 DEF InTurn
<1> QED  BY <1>1, <1>3, <1>4 DEF InTurn

LEMMA LeagueStepKeepsTurn ==
  ASSUME Typed, InTurn, LeagueNext \/ UNCHANGED leagueVars
  PROVE  InTurn'
<1>1. CASE Plan
  <2>1. \A i \in DOMAIN outcome' : outcome'[i] = "waiting"  BY <1>1 DEF Plan
  <2>2. phase' # "planned" /\ (phase' # "playing" => DOMAIN outcome' = {})
    BY <1>1 DEF Plan
  <2> QED  BY <2>1, <2>2 DEF InTurn
<1>2. CASE AllPlayed
  <2>1. UNCHANGED <<Parallel, outcome, pairings>> /\ phase' = "played"
        /\ \A i \in DOMAIN outcome : outcome[i] \notin {"waiting", "playing"}
    BY <1>2 DEF AllPlayed, Parallel, Concurrency
  <2> QED  BY <2>1 DEF InTurn
<1>3. CASE Report
  <2>1. UNCHANGED <<Parallel, outcome, pairings>> /\ phase' = "reported" /\ phase = "played"
    BY <1>3 DEF Report, Parallel, Concurrency
  <2> QED  BY <2>1 DEF InTurn
<1>4. ASSUME NEW i \in DOMAIN outcome, StartMatch(i)  PROVE InTurn'
  <2>1. PICK o \in {"playing", "error"} : Moves(i, o)
    BY <1>4 DEF StartMatch, Moves
  <2> QED  BY <1>4, <2>1, StartKeepsTurn DEF StartMatch
<1>5. ASSUME NEW i \in DOMAIN outcome, MatchFails(i)  PROVE InTurn'
  BY <1>5, EndKeepsTurn DEF MatchFails, Moves
<1>6. ASSUME NEW i \in DOMAIN outcome, FakeMatchEnds(i) \/ DaemonMatchEnds(i)  PROVE InTurn'
  <2>1. PICK winner \in Verdicts : Returned(i, winner)  BY <1>6, MatchEndTyped
  <2>2. i \in Playing /\ UNCHANGED <<plan, phase, pairings>>
    BY <1>6 DEF FakeMatchEnds, DaemonMatchEnds
  <2>3. Moves(i, winner)  BY <2>1, <2>2 DEF Moves, Returned
  <2> QED  BY <2>2, <2>3, EndKeepsTurn
<1>7. CASE UNCHANGED leagueVars  BY <1>7 DEF leagueVars, InTurn, Parallel, Concurrency
<1> QED  BY <1>1, <1>2, <1>3, <1>4, <1>5, <1>6, <1>7 DEF LeagueNext

\* The finished results, and the same in the next state.
FinishedOk ==
  /\ Entries(Finished)
  /\ Len(Finished) = Len(pairings) /\ Len(pairings) \in Nat
  /\ DOMAIN outcome = 1..Len(pairings)
  /\ \A i \in 1..Len(pairings) :
       Finished[i] = MatchResult(i, outcome[i]) /\ Finished[i].winner = outcome[i]

LEMMA FinishedAre == Typed => FinishedOk
BY FinishedIs DEF FinishedOk

LEMMA NothingRated ==
  ASSUME NEW results, Len(results) = 0
  PROVE  Entries(results) /\ ApplyResults(NoRecords, results) = NoRecords
<1>1. Entries(results)  BY DEF Entries
<1>2. \A k \in 1..Len(results) : results[k].winner \notin Verdicts  OBVIOUS
<1> QED  BY <1>1, <1>2, NoTable, ApplyNone

\* A match that has no result before and after a step leaves the table as it is.
LEMMA MoveKeepsRated ==
  ASSUME Typed, Typed', RatedInOrder, NEW i \in DOMAIN outcome, NEW o, Moves(i, o),
         outcome[i] \notin Verdicts, o \notin Verdicts, UNCHANGED table
  PROVE  RatedInOrder'
<1>1. FinishedOk /\ FinishedOk'
  <2>1. FinishedOk'  BY FinishedAre, PTL
  <2> QED  BY <2>1, FinishedAre
<1>2. UNCHANGED <<Parallel, phase, pairings>>  BY DEF Moves, Parallel, Concurrency
<1>3. CASE Parallel /\ phase = "playing"
  BY <1>2, <1>3 DEF RatedInOrder, Rated
<1>4. CASE ~(Parallel /\ phase = "playing")
  <2>1. Rated = Finished /\ Rated' = Finished'  BY <1>2, <1>4 DEF Rated
  <2>2. ASSUME NEW k \in 1..Len(pairings)
        PROVE  \/ Finished'[k] = Finished[k]
               \/ Finished'[k].winner \notin Verdicts /\ Finished[k].winner \notin Verdicts
    <3>1. CASE k = i
      <4>1. outcome'[i] = o  BY DEF Moves
      <4> QED  BY <1>1, <1>2, <3>1, <4>1 DEF FinishedOk
    <3>2. CASE k # i
      <4>1. outcome'[k] = outcome[k]  BY <1>1, <3>2 DEF Moves, FinishedOk
      <4>2. MatchResult(k, outcome[k])' = MatchResult(k, outcome[k])
        BY <1>2, <4>1 DEF MatchResult
      <4> QED  BY <1>1, <1>2, <4>1, <4>2 DEF FinishedOk
    <3> QED  BY <3>1, <3>2
  <2>3. Len(Finished') = Len(Finished) /\ Len(Finished) = Len(pairings)
    BY <1>1, <1>2 DEF FinishedOk
  <2>4. ApplyResults(NoRecords, Finished') = ApplyResults(NoRecords, Finished)
    BY <1>1, <2>2, <2>3, NoTable, ApplySame DEF FinishedOk
  <2> QED  BY <2>1, <2>4 DEF RatedInOrder
<1> QED  BY <1>3, <1>4

\* A result that is there in turn comes last.
LEMMA ReturnKeepsRated ==
  ASSUME Typed, Typed', InTurn, RatedInOrder, NEW i \in Playing,
         NEW winner \in Verdicts, Returned(i, winner), Moves(i, winner)
  PROVE  RatedInOrder'
<1>1. FinishedOk /\ FinishedOk'
  <2>1. FinishedOk'  BY FinishedAre, PTL
  <2> QED  BY <2>1, FinishedAre
<1>2. UNCHANGED <<Parallel, phase, pairings>>  BY DEF Moves, Parallel, Concurrency
<1>3. i \in 1..Len(pairings) /\ outcome[i] = "playing" /\ outcome'[i] = winner
  BY <1>1 DEF Playing, FinishedOk, Moves
<1>4. phase = "playing"  BY <1>3 DEF InTurn, Playing
<1>5. CASE Parallel
  <2>1. table' = table  BY <1>5 DEF Returned
  <2> QED  BY <1>2, <1>4, <1>5, <2>1 DEF RatedInOrder, Rated
<1>6. CASE ~Parallel
  <2>1. Rated = Finished /\ Rated' = Finished'  BY <1>2, <1>6 DEF Rated
  <2>2. ASSUME NEW k \in 1..Len(pairings), k # i  PROVE Finished'[k] = Finished[k]
    <3>1. outcome'[k] = outcome[k]  BY <1>1, <2>2 DEF Moves, FinishedOk
    <3>2. MatchResult(k, outcome[k])' = MatchResult(k, outcome[k])
      BY <1>2, <3>1 DEF MatchResult
    <3> QED  BY <1>1, <1>2, <3>1, <3>2 DEF FinishedOk
  <2>3. Finished'[i] = MatchResult(i, winner) /\ Finished'[i].winner \in Verdicts
    <3>1. MatchResult(i, outcome[i])' = MatchResult(i, winner)
      BY <1>2, <1>3 DEF MatchResult
    <3> QED  BY <1>1, <1>2, <1>3, <3>1 DEF FinishedOk
  <2>4. \A k \in 1..Len(pairings) : k >= i => outcome[k] \in {"playing", "waiting"}
    <3>1. \A k \in 1..Len(pairings) : k > i => outcome[k] = "waiting"
      BY <1>1, <1>3, <1>6 DEF InTurn, FinishedOk
    <3> QED  BY <1>3, <3>1
  <2>5. \A k \in 1..Len(pairings) : k >= i => Finished[k].winner \notin Verdicts
    BY <1>1, <2>4 DEF FinishedOk, Verdicts
  <2>6. Len(Finished') = Len(Finished) /\ Len(Finished) = Len(pairings)
    BY <1>1, <1>2 DEF FinishedOk
  <2>7. \A k \in 1..Len(Finished) :
          /\ k < i => Finished'[k] = Finished[k]
          /\ k >= i => Finished[k].winner \notin Verdicts
          /\ k > i => Finished'[k].winner \notin Verdicts
    BY <1>3, <2>2, <2>5, <2>6
  <2>8. ApplyResults(NoRecords, Finished') =
          RateResult(ApplyResults(NoRecords, Finished), Finished'[i])
    BY <1>1, <1>3, <2>3, <2>6, <2>7, NoTable, ApplyLast DEF FinishedOk
  <2>9. table' = RateResult(table, MatchResult(i, winner))  BY <1>6 DEF Returned
  <2> QED  BY <2>1, <2>3, <2>8, <2>9 DEF RatedInOrder
<1> QED  BY <1>5, <1>6

LEMMA PlanKeepsRated ==
  ASSUME Typed, Typed', InTurn, RatedInOrder, Plan
  PROVE  RatedInOrder'
<1>1. FinishedOk /\ FinishedOk'
  <2>1. FinishedOk'  BY FinishedAre, PTL
  <2> QED  BY <2>1, FinishedAre
<1>2. table = NoRecords
  <2>1. phase = "planned" /\ pairings = <<>>  BY DEF Plan, InTurn
  <2>2. Rated = Finished /\ Len(Finished) = 0  BY <1>1, <2>1 DEF Rated, FinishedOk
  <2> QED  BY <2>2, NothingRated DEF RatedInOrder
<1>3. ApplyResults(NoRecords, Finished') = NoRecords
  <2>1. \A k \in 1..Len(pairings') : outcome'[k] = "waiting"
    BY <1>1 DEF Plan, FinishedOk
  <2>2. \A k \in 1..Len(Finished') : Finished'[k].winner \notin Verdicts
    BY <1>1, <2>1 DEF FinishedOk, Verdicts
  <2> QED  BY <1>1, <2>2, NoTable, ApplyNone DEF FinishedOk
<1>4. ApplyResults(NoRecords, Rated') = NoRecords
  <2>1. CASE (Parallel /\ phase = "playing")'
    <3>1. Len(Rated') = 0  BY <2>1 DEF Rated
    <3> QED  BY <3>1, NothingRated
  <2>2. CASE ~(Parallel /\ phase = "playing")'
    BY <1>3, <2>2 DEF Rated
  <2> QED  BY <2>1, <2>2
<1> QED  BY <1>2, <1>4 DEF RatedInOrder, Plan

LEMMA LeagueStepKeepsRated ==
  ASSUME Typed, Typed', InTurn, RatedInOrder, LeagueNext \/ UNCHANGED leagueVars
  PROVE  RatedInOrder'
<1>1. CASE Plan  BY <1>1, PlanKeepsRated
<1>2. CASE AllPlayed
  <2>1. UNCHANGED <<Parallel, Finished>> /\ phase = "playing" /\ phase' = "played"
    BY <1>2 DEF AllPlayed, Parallel, Concurrency, Finished, MatchResult
  <2>2. Rated' = Finished  BY <2>1 DEF Rated
  <2>3. CASE Parallel
    <3>1. Len(Rated) = 0  BY <2>1, <2>3 DEF Rated
    <3>2. table = NoRecords  BY <3>1, NothingRated DEF RatedInOrder
    <3> QED  BY <1>2, <2>2, <2>3, <3>2 DEF AllPlayed, RatedInOrder
  <2>4. CASE ~Parallel
    BY <1>2, <2>2, <2>4 DEF AllPlayed, RatedInOrder, Rated
  <2> QED  BY <2>3, <2>4
<1>3. CASE Report
  <2>1. UNCHANGED <<Parallel, Finished, table>> /\ phase = "played" /\ phase' = "reported"
    BY <1>3 DEF Report, Parallel, Concurrency, Finished, MatchResult
  <2> QED  BY <2>1 DEF RatedInOrder, Rated
<1>4. ASSUME NEW i \in DOMAIN outcome, StartMatch(i)  PROVE RatedInOrder'
  <2>1. PICK o \in {"playing", "error"} : Moves(i, o)
    BY <1>4 DEF StartMatch, Moves
  <2>2. outcome[i] \notin Verdicts /\ o \notin Verdicts /\ UNCHANGED table
    BY <1>4 DEF StartMatch, May, Verdicts
  <2> QED  BY <2>1, <2>2, MoveKeepsRated
<1>5. ASSUME NEW i \in DOMAIN outcome, MatchFails(i)  PROVE RatedInOrder'
  <2>1. Moves(i, "error")  BY <1>5 DEF MatchFails, Moves
  <2>2. outcome[i] \notin Verdicts /\ "error" \notin Verdicts /\ UNCHANGED table
    BY <1>5 DEF MatchFails, Playing, Verdicts
  <2> QED  BY <2>1, <2>2, MoveKeepsRated
<1>6. ASSUME NEW i \in DOMAIN outcome, FakeMatchEnds(i) \/ DaemonMatchEnds(i)
      PROVE  RatedInOrder'
  <2>1. PICK winner \in Verdicts : Returned(i, winner)  BY <1>6, MatchEndTyped
  <2>2. i \in Playing /\ UNCHANGED <<plan, phase, pairings>>
    BY <1>6 DEF FakeMatchEnds, DaemonMatchEnds
  <2>3. Moves(i, winner)  BY <2>1, <2>2 DEF Moves, Returned
  <2> QED  BY <2>1, <2>2, <2>3, ReturnKeepsRated
<1>7. CASE UNCHANGED leagueVars
  <2>1. UNCHANGED <<Parallel, Finished, table, phase>>
    BY <1>7 DEF leagueVars, Parallel, Concurrency, Finished, MatchResult
  <2> QED  BY <2>1 DEF RatedInOrder, Rated
<1> QED  BY <1>1, <1>2, <1>3, <1>4, <1>5, <1>6, <1>7 DEF LeagueNext

-----------------------------------------------------------------------------
(* The standings *)

LEMMA LeagueInvStarts == LeagueInit => LeagueInv
<1> SUFFICES ASSUME LeagueInit PROVE LeagueInv
  OBVIOUS
<1>1. Typed  BY LeagueInitTyped
<1>2. InTurn  BY DEF LeagueInit, InTurn
<1>3. RatedInOrder
  <2>1. FinishedOk /\ pairings = <<>>  BY <1>1, FinishedAre DEF LeagueInit
  <2>2. Rated = Finished /\ Len(Finished) = 0
    BY <2>1 DEF LeagueInit, Rated, FinishedOk
  <2> QED  BY <2>2, NothingRated DEF LeagueInit, RatedInOrder
<1> QED  BY <1>1, <1>2, <1>3 DEF LeagueInv

LEMMA LeagueInvStays ==
  ASSUME LeagueInv, LeagueNext \/ UNCHANGED leagueVars
  PROVE  LeagueInv'
<1>1. Typed'  BY LeagueStepTyped DEF LeagueInv
<1>2. InTurn'  BY LeagueStepKeepsTurn DEF LeagueInv
<1>3. RatedInOrder'  BY <1>1, LeagueStepKeepsRated DEF LeagueInv
<1> QED  BY <1>1, <1>2, <1>3 DEF LeagueInv

LEMMA LeagueInvTells == LeagueInv => StandingsFollowRecords
<1> SUFFICES ASSUME LeagueInv PROVE StandingsFollowRecords
  OBVIOUS
<1>1. table = ApplyResults(NoRecords, Rated)  BY DEF LeagueInv, RatedInOrder
<1>2. Total([p \in DOMAIN table |-> table[p].rating], DOMAIN table)
        = Rating * Cardinality(DOMAIN table)
  <2>1. Entries(Rated)
    <3>1. Entries(Finished)  BY FinishedAre DEF LeagueInv, FinishedOk
    <3>2. CASE Parallel /\ phase = "playing"
      <4>1. Len(Rated) = 0  BY <3>2 DEF Rated
      <4> QED  BY <4>1, NothingRated
    <3>3. CASE ~(Parallel /\ phase = "playing")  BY <3>1, <3>3 DEF Rated
    <3> QED  BY <3>2, <3>3
  <2>2. Balanced(table)  BY <1>1, <2>1, ApplyBalances
  <2> QED  BY <2>2 DEF Balanced, Evened, Ratings
<1>3. Tells(StoredReport)
  <2>1. runs \in Seq(Run)  BY DEF LeagueInv, Typed
  <2>2. Len(runs) \in Nat /\ DOMAIN runs = 1..Len(runs) /\ \A j \in DOMAIN runs : runs[j] \in Run
    BY <2>1
  <2>3. Entries(runs) /\ EndedIn(runs, Len(runs)) = DOMAIN runs
    BY <2>2 DEF Entries, EndedIn, Run
  <2>4. StandsFor(ApplyResults(NoRecords, runs), runs, DOMAIN runs)
    BY <2>3, ApplyCounts
  <2>5. DOMAIN runs \in SUBSET (DOMAIN runs)  OBVIOUS
  <2> QED  BY <2>1, <2>4, <2>5, ReportTells DEF StoredReport
<1> QED  BY <1>1, <1>2, <1>3 DEF StandingsFollowRecords, Rated

\* The ratings are those of the finished matches in the order of the schedule,
\* and together they are the initial ratings; and the two tables of a report
\* made from the runs on disk tell of the same wins and draws: for every
\* schedule, both executors, and one match at a time or several.
THEOREM StandingsAreKept == Spec => []StandingsFollowRecords
<1>1. Init => LeagueInv
  BY LeagueInvStarts DEF Init
<1>2. LeagueInv /\ [Next]_vars => LeagueInv'
  <2> SUFFICES ASSUME LeagueInv, [Next]_vars PROVE LeagueInv'
    OBVIOUS
  <2>1. LeagueNext \/ UNCHANGED leagueVars
    BY DEF Next, LeagueIdle, vars, leagueVars
  <2> QED  BY <2>1, LeagueInvStays
<1> QED  BY <1>1, <1>2, LeagueInvTells, PTL DEF Spec
=============================================================================
