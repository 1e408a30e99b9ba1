---------------------------- MODULE DeviceProofs ----------------------------
(***************************************************************************)
(* Invariants of four of the small parts: the descriptor builder, for      *)
(* every set of names and endpoints and any number of entries, with what   *)
(* FlattenSeq makes of a sequence of parts; the Linux driver, for every    *)
(* set of devices and of reading processes; the virtual lab, for every set *)
(* of pins and any number of clients; and the ring buffer, for every size  *)
(* and every kind of element: its pointers with the consumer in the main   *)
(* loop, and, with a consumer that nothing interrupts, the queue it        *)
(* implements.                                                             *)
(***************************************************************************)
EXTENDS Descriptors, Fifo, LinuxDriver, Vlab, SequenceTheorems,
        FiniteSetTheorems, WellFoundedInduction, TLAPS

-----------------------------------------------------------------------------
(* Sequences put together by recursion                                      *)

\* Induction, with a set for the numbers that have the property.
LEMMA SetInduction ==
  ASSUME NEW S, 0 \in S, \A n \in Nat : n \in S => n + 1 \in S
  PROVE  Nat \subseteq S
<1> DEFINE T == {n \in Nat : n \notin S}
<1>1. SUFFICES ASSUME T # {} PROVE FALSE
  OBVIOUS
<1>2. PICK x \in T : \A y \in T : ~(<<y, x>> \in OpToRel(<, Nat))
  <2>1. T \subseteq Nat
    OBVIOUS
  <2> HIDE DEF T
  <2> QED BY <1>1, <2>1, NatLessThanWellFounded, WFMin
<1>3. x \in Nat /\ x # 0 /\ x - 1 \in Nat
  OBVIOUS
<1>4. x - 1 \notin T
  <2> DEFINE p == <<x - 1, x>>
  <2>1. p \in Nat \X Nat /\ p[1] < p[2]
    BY <1>3
  <2>2. p \in OpToRel(<, Nat)
    <3> HIDE DEF p
    <3> QED BY <2>1 DEF OpToRel
  <2> HIDE DEF T
  <2> QED BY <1>2, <2>2
<1>5. x - 1 \in S /\ (x - 1) + 1 = x
  BY <1>3, <1>4
<1> QED BY <1>3, <1>5

\* f is what a recursion with these steps computes, up to N; there is such a function.
Computes(f, S, base, N, step) ==
  /\ f \in [0..N -> S]
  /\ f[0] = base /\ \A n \in 1..N : f[n] = step[n][f[n - 1]]

LEMMA RecursionExists ==
  ASSUME NEW S, NEW base \in S, NEW N \in Nat, NEW step \in [1..N -> [S -> S]]
  PROVE  \E f : Computes(f, S, base, N, step)
<1> DEFINE Good(n) == \E f \in [0..n -> S] : f[0] = base /\ \A k \in 1..n : f[k] = step[k][f[k - 1]]
           Has(n) == n <= N => Good(n)
           T == {n \in Nat : Has(n)}
<1>1. Has(0)
  <2> DEFINE g == [k \in 0..0 |-> base]
  <2>1. g \in [0..0 -> S] /\ g[0] = base
    OBVIOUS
  <2> HIDE DEF g
  <2>2. \A k \in 1..0 : g[k] = step[k][g[k - 1]]
    OBVIOUS
  <2>3. Good(0)
    BY <2>1, <2>2
  <2> QED BY <2>3
<1>2. ASSUME NEW n \in Nat, Has(n) PROVE Has(n + 1)
  <2>1. SUFFICES ASSUME n + 1 <= N PROVE Good(n + 1)
    OBVIOUS
  <2>2. Good(n)
    BY <1>2, <2>1
  <2>3. PICK f \in [0..n -> S] : f[0] = base /\ \A k \in 1..n : f[k] = step[k][f[k - 1]]
    BY <2>2
  <2> DEFINE last == step[n + 1][f[n]]
             g == [k \in 0..(n + 1) |-> IF k = n + 1 THEN last ELSE f[k]]
  <2>4. last \in S
    <3>1. n + 1 \in 1..N /\ f[n] \in S
      BY <2>1
    <3> QED BY <3>1
  <2>5. g[n + 1] = last /\ \A k \in 0..n : g[k] = f[k]
    OBVIOUS
  <2>6. g \in [0..(n + 1) -> S]
    <3> HIDE DEF last
    <3> QED BY <2>4
  <2> HIDE DEF g
  <2>7. \A k \in 1..(n + 1) : g[k] = step[k][g[k - 1]]
    <3>1. ASSUME NEW k \in 1..n PROVE g[k] = step[k][g[k - 1]]
      BY <2>3, <2>5
    <3>2. g[n + 1] = step[n + 1][g[(n + 1) - 1]]
      BY <2>5
    <3>3. \A k \in 1..(n + 1) : k \in 1..n \/ k = n + 1
      OBVIOUS
    <3> QED BY <3>1, <3>2, <3>3, Zenon
  <2>8. g[0] = base
    BY <2>3, <2>5
  <2> QED BY <2>6, <2>7, <2>8
<1> HIDE DEF Has
<1>3. 0 \in T /\ \A n \in Nat : n \in T => n + 1 \in T
  BY <1>1, <1>2
<1>4. Has(N)
  <2>1. Nat \subseteq T
    <3> HIDE DEF T
    <3> QED BY <1>3, SetInduction, Zenon
  <2> QED BY <2>1
<1> QED BY <1>4 DEF Has, Computes

\* f[n] is the first n parts in one sequence.
Joins(f, S, N, parts) ==
  /\ f \in [0..N -> Seq(S)]
  /\ f[0] = <<>> /\ \A n \in 1..N : f[n] = f[n - 1] \o parts[n]

LEMMA FlattenExists ==
  ASSUME NEW S, NEW N \in Nat, NEW parts \in [1..N -> Seq(S)]
  PROVE  \E f : Joins(f, S, N, parts)
<1> DEFINE step == [n \in 1..N |-> [s \in Seq(S) |-> s \o parts[n]]]
<1>1. \A n \in 1..N : \A s \in Seq(S) : s \o parts[n] \in Seq(S)
  BY ConcatProperties
<1>2. step \in [1..N -> [Seq(S) -> Seq(S)]] /\ <<>> \in Seq(S)
  BY <1>1, EmptySeq
<1>3. \A n \in 1..N : \A s \in Seq(S) : step[n][s] = s \o parts[n]
  OBVIOUS
<1> DEFINE Seqs == Seq(S)
           none == <<>>
<1>4. none \in Seqs /\ step \in [1..N -> [Seqs -> Seqs]]
  BY <1>2
<1> HIDE DEF step, Seqs, none
<1>5. PICK f : Computes(f, Seqs, none, N, step)
  BY <1>4, RecursionExists
<1>6. f \in [0..N -> Seq(S)] /\ f[0] = <<>> /\ \A n \in 1..N : f[n] = step[n][f[n - 1]]
  BY <1>5 DEF Computes, Seqs, none
<1>7. ASSUME NEW n \in 1..N PROVE f[n] = f[n - 1] \o parts[n]
  <2>1. f[n - 1] \in Seq(S)
    BY <1>6
  <2> QED BY <1>3, <1>6, <2>1
<1> QED BY <1>6, <1>7 DEF Joins

\* FlattenSeq is defined by recursion; this is what it computes.
LEMMA FlattenSteps ==
  ASSUME NEW S, NEW N \in Nat, NEW parts \in [1..N -> Seq(S)]
  PROVE  \E f : Joins(f, S, N, parts) /\ FlattenSeq(parts) = f[N]
<1>1. Len(parts) = N
  OBVIOUS
<1>2. PICK f : Joins(f, S, N, parts)
  BY FlattenExists
<1>3. f \in [0..N -> Seq(S)] /\ f[0] = <<>> /\ \A n \in 1..N : f[n] = f[n - 1] \o parts[n]
  BY <1>2 DEF Joins
<1>4. CASE N = 0
  <2>1. FlattenSeq(parts) = parts /\ parts = <<>>
    BY <1>1, <1>4 DEF FlattenSeq
  <2> QED BY <1>2, <1>3, <1>4, <2>1
<1>5. CASE N # 0
  <2> DEFINE Cat(i, b) == b \o parts[i]
             Is(g) == g = [i \in 1..N |-> IF i = 1 THEN parts[i] ELSE g[i - 1] \o parts[i]]
             h == CHOOSE g : Is(g)
             part == [i \in 1..N |-> f[i]]
  <2>1. \A i \in 1..N : f[i] = Cat(i, f[i - 1])
    BY <1>3
  <2>2. f[1] = parts[1]
    <3>1. 1 \in 1..N /\ parts[1] \in Seq(S)
      BY <1>5
    <3>2. f[1] = Cat(1, f[0])
      <4> HIDE DEF Cat
      <4> QED BY <2>1, <3>1
    <3>3. f[1] = <<>> \o parts[1]
      BY <1>3, <3>2
    <3> QED BY <3>1, <3>3, ConcatEmptySeq
  <2>3. Is(part)
    <3> HIDE DEF Cat
    <3>1. \A i \in 1..N : i # 1 => f[i] = Cat(i, part[i - 1])
      BY <2>1
    <3>2. \A i \in 1..N : f[i] = IF i = 1 THEN parts[i] ELSE Cat(i, part[i - 1])
      BY <2>2, <3>1
    <3>3. part = [i \in 1..N |-> IF i = 1 THEN parts[i] ELSE Cat(i, part[i - 1])]
      BY <3>2
    <3> QED BY <3>3 DEF Cat
  <2>4. Is(h)
    <3> HIDE DEF Is
    <3> QED BY <2>3
  <2>5. h = [i \in 1..N |-> IF i = 1 THEN parts[i] ELSE Cat(i, h[i - 1])]
    <3> HIDE DEF h
    <3> QED BY <2>4
  <2>6. FlattenSeq(parts) = h[N]
    BY <1>1, <1>5 DEF FlattenSeq
  <2> HIDE DEF h, Cat
  <2> DEFINE T == {n \in Nat : n + 1 \in 1..N => h[n + 1] = f[n + 1]}
  <2>7. 0 \in T
    BY <2>2, <2>5
  <2>8. ASSUME NEW n \in Nat, n \in T PROVE n + 1 \in T
    <3>1. SUFFICES ASSUME (n + 1) + 1 \in 1..N PROVE h[(n + 1) + 1] = f[(n + 1) + 1]
      OBVIOUS
    <3>2. h[n + 1] = f[n + 1]
      BY <2>8, <3>1
    <3>3. \A i \in 1..N : i # 1 => h[i] = Cat(i, h[i - 1])
      BY <2>5
    <3>4. h[(n + 1) + 1] = Cat((n + 1) + 1, h[n + 1])
      BY <3>1, <3>3
    <3>5. f[(n + 1) + 1] = Cat((n + 1) + 1, f[n + 1])
      BY <2>1, <3>1
    <3> QED BY <3>2, <3>4, <3>5
  <2>9. h[N] = f[N]
    <3>1. Nat \subseteq T
      <4> HIDE DEF T
      <4>1. \A n \in Nat : n \in T => n + 1 \in T
        BY <2>8
      <4> QED BY <2>7, <4>1, SetInduction, Zenon
    <3>2. N - 1 \in T
      <4> HIDE DEF T
      <4> QED BY <1>5, <3>1
    <3> QED BY <1>5, <3>2
  <2> QED BY <1>2, <2>6, <2>9
<1> QED BY <1>4, <1>5

\* One part more.
Follows(S, f, n, parts) ==
  /\ f[n] \in Seq(S) /\ parts[n + 1] \in Seq(S)
  /\ f[n + 1] \in Seq(S) /\ f[n + 1] = f[n] \o parts[n + 1]
  /\ Len(f[n]) \in Nat /\ Len(parts[n + 1]) \in Nat
  /\ Len(f[n + 1]) = Len(f[n]) + Len(parts[n + 1])
  /\ \A k \in 1..Len(f[n + 1]) :
       f[n + 1][k] = IF k <= Len(f[n]) THEN f[n][k] ELSE parts[n + 1][k - Len(f[n])]

LEMMA JoinsNext ==
  ASSUME NEW S, NEW N \in Nat, NEW parts \in [1..N -> Seq(S)], NEW f,
         Joins(f, S, N, parts), NEW n \in Nat, n + 1 <= N
  PROVE  Follows(S, f, n, parts)
<1> DEFINE Cat(s, t) == s \o t
<1>1. /\ f \in [0..N -> Seq(S)]
      /\ \A k \in 1..N : f[k] = Cat(f[k - 1], parts[k])
  BY DEF Joins
<1>2. n + 1 \in 1..N /\ n \in 0..N /\ n + 1 \in 0..N
  OBVIOUS
<1>3. f[n] \in Seq(S) /\ f[n + 1] \in Seq(S) /\ parts[n + 1] \in Seq(S)
  BY <1>1, <1>2
<1>4. f[n + 1] = Cat(f[n], parts[n + 1])
  <2>1. (n + 1) - 1 = n
    OBVIOUS
  <2> HIDE DEF Cat
  <2> QED BY <1>1, <1>2, <2>1
<1>5. f[n + 1] = f[n] \o parts[n + 1]
  BY <1>4
<1>6. Len(f[n]) \in Nat /\ Len(parts[n + 1]) \in Nat
  BY <1>3, LenProperties
<1>7. /\ Len(f[n + 1]) = Len(f[n]) + Len(parts[n + 1])
      /\ \A k \in 1..(Len(f[n]) + Len(parts[n + 1])) :
           f[n + 1][k] = IF k <= Len(f[n]) THEN f[n][k] ELSE parts[n + 1][k - Len(f[n])]
  <2> DEFINE s == f[n]
             t == parts[n + 1]
             u == f[n + 1]
  <2>1. s \in Seq(S) /\ t \in Seq(S) /\ u = s \o t
    BY <1>3, <1>5
  <2> HIDE DEF s, t, u
  <2>2. /\ Len(u) = Len(s) + Len(t)
        /\ \A k \in 1..(Len(s) + Len(t)) : u[k] = IF k <= Len(s) THEN s[k] ELSE t[k - Len(s)]
    BY <2>1, ConcatProperties
  <2> QED BY <2>2 DEF s, t, u
<1> QED BY <1>3, <1>5, <1>6, <1>7 DEF Follows

LEMMA FlattenNone == FlattenSeq(<<>>) = <<>>
BY DEF FlattenSeq

\* Of parts of which only one is not empty, that one is left.
LEMMA FlattenOne ==
  ASSUME NEW S, NEW N \in Nat, NEW parts \in [1..N -> Seq(S)], NEW p \in 1..N,
         \A k \in 1..N : k # p => parts[k] = <<>>
  PROVE  FlattenSeq(parts) = parts[p]
<1>1. PICK f : Joins(f, S, N, parts) /\ FlattenSeq(parts) = f[N]
  BY FlattenSteps
<1>2. /\ \A n \in 0..N : f[n] \in Seq(S)
      /\ f[0] = <<>> /\ \A n \in 1..N : f[n] = f[n - 1] \o parts[n]
  BY <1>1 DEF Joins
<1> DEFINE Is(n) == n <= N => f[n] = IF n < p THEN <<>> ELSE parts[p]
           T == {n \in Nat : Is(n)}
<1>3. Is(0)
  BY <1>2
<1>4. ASSUME NEW n \in Nat, Is(n) PROVE Is(n + 1)
  <2>1. SUFFICES ASSUME n + 1 <= N PROVE f[n + 1] = IF n + 1 < p THEN <<>> ELSE parts[p]
    OBVIOUS
  <2>0. n + 1 \in 1..N
    BY <2>1
  <2>2. Follows(S, f, n, parts)
    BY <1>1, <2>1, JoinsNext
  <2>3. /\ f[n] \in Seq(S) /\ parts[n + 1] \in Seq(S)
        /\ f[n + 1] = f[n] \o parts[n + 1]
    BY <2>2 DEF Follows
  <2>4. f[n] = IF n < p THEN <<>> ELSE parts[p]
    BY <1>4, <2>1
  <2>5. CASE n + 1 = p
    <3>1. f[n] = <<>>
      BY <2>4, <2>5
    <3> QED BY <2>2, <2>3, <2>5, <3>1, ConcatEmptySeq
  <2>6. CASE n + 1 # p
    <3>1. parts[n + 1] = <<>>
      BY <2>0, <2>6
    <3>2. f[n + 1] = f[n]
      BY <2>2, <2>3, <3>1, ConcatEmptySeq
    <3> QED BY <2>4, <2>6, <3>2
  <2> QED BY <2>5, <2>6
<1> HIDE DEF Is
<1>5. 0 \in T /\ \A n \in Nat : n \in T => n + 1 \in T
  BY <1>3, <1>4
<1>6. Is(N)
  <2>1. Nat \subseteq T
    <3> HIDE DEF T
    <3> QED BY <1>5, SetInduction, Zenon
  <2> QED BY <2>1
<1> QED BY <1>1, <1>6 DEF Is

\* As many are left as the parts have, counted in a set of which each part has its share.
Shares(D, owner, N, parts) ==
  /\ owner \in [D -> 1..N]
  /\ \A n \in 1..N : Len(parts[n]) = Cardinality({d \in D : owner[d] = n})

LEMMA FlattenLen ==
  ASSUME NEW S, NEW N \in Nat, NEW parts \in [1..N -> Seq(S)],
         NEW D, IsFiniteSet(D), NEW owner, Shares(D, owner, N, parts)
  PROVE  FlattenSeq(parts) \in Seq(S) /\ Len(FlattenSeq(parts)) = Cardinality(D)
<1>0. /\ owner \in [D -> 1..N]
      /\ \A n \in 1..N : Len(parts[n]) = Cardinality({d \in D : owner[d] = n})
  BY DEF Shares
<1>1. PICK f : Joins(f, S, N, parts) /\ FlattenSeq(parts) = f[N]
  BY FlattenSteps
<1>2. /\ \A n \in 0..N : f[n] \in Seq(S)
      /\ f[0] = <<>> /\ \A n \in 1..N : f[n] = f[n - 1] \o parts[n]
  BY <1>1 DEF Joins
<1> DEFINE Upto(n) == {d \in D : owner[d] <= n}
           Share(n) == {d \in D : owner[d] = n}
           Is(n) == n <= N => Len(f[n]) = Cardinality(Upto(n))
           T == {n \in Nat : Is(n)}
<1>3. Is(0)
  <2>1. Upto(0) = {}
    BY <1>0
  <2>2. Len(f[0]) = 0
    BY <1>2
  <2> HIDE DEF Upto
  <2> QED BY <2>1, <2>2, FS_EmptySet
<1>4. ASSUME NEW n \in Nat, Is(n) PROVE Is(n + 1)
  <2>1. SUFFICES ASSUME n + 1 <= N PROVE Len(f[n + 1]) = Cardinality(Upto(n + 1))
    OBVIOUS
  <2>0. n + 1 \in 1..N
    BY <2>1
  <2>2. Follows(S, f, n, parts)
    BY <1>1, <2>1, JoinsNext
  <2>3. /\ f[n] \in Seq(S) /\ parts[n + 1] \in Seq(S)
        /\ f[n + 1] = f[n] \o parts[n + 1]
    BY <2>2 DEF Follows
  <2>4. Len(f[n + 1]) = Len(f[n]) + Len(parts[n + 1])
    BY <2>2 DEF Follows
  <2>5. Len(f[n]) = Cardinality(Upto(n)) /\ Len(parts[n + 1]) = Cardinality(Share(n + 1))
    <3> HIDE DEF Upto
    <3>1. Len(f[n]) = Cardinality(Upto(n))
      BY <1>4, <2>1
    <3> QED BY <1>0, <2>0, <3>1
  <2>6. /\ Upto(n + 1) = Upto(n) \cup Share(n + 1)
        /\ Upto(n) \cap Share(n + 1) = {}
        /\ Upto(n) \in SUBSET D /\ Share(n + 1) \in SUBSET D
    BY <1>0
  <2> HIDE DEF Upto, Share
  <2>7. IsFiniteSet(Upto(n)) /\ IsFiniteSet(Share(n + 1))
    BY <2>6, FS_Subset
  <2>8. Cardinality(Upto(n + 1)) =
          Cardinality(Upto(n)) + Cardinality(Share(n + 1)) - Cardinality(Upto(n) \cap Share(n + 1))
    BY <2>6, <2>7, FS_Union
  <2>9. Cardinality(Upto(n) \cap Share(n + 1)) = 0
    BY <2>6, FS_EmptySet
  <2>10. Cardinality(Upto(n)) \in Nat /\ Cardinality(Share(n + 1)) \in Nat
    BY <2>7, FS_CardinalityType
  <2> QED BY <2>4, <2>5, <2>8, <2>9, <2>10
<1>5. Upto(N) = D
  BY <1>0
<1> HIDE DEF Is
<1>6. 0 \in T /\ \A n \in Nat : n \in T => n + 1 \in T
  BY <1>3, <1>4
<1>7. Is(N)
  <2>1. Nat \subseteq T
    <3> HIDE DEF T
    <3> QED BY <1>6, SetInduction, Zenon
  <2> QED BY <2>1
<1>8. Len(f[N]) = Cardinality(D)
  <2> HIDE DEF Upto
  <2> QED BY <1>5, <1>7 DEF Is
<1> QED BY <1>1, <1>2, <1>8

\* What is left is from the parts.
ComesFrom(s, N, parts) ==
  \A k \in 1..Len(s) : \E n \in 1..N : \E j \in 1..Len(parts[n]) : s[k] = parts[n][j]

LEMMA FlattenFrom ==
  ASSUME NEW S, NEW N \in Nat, NEW parts \in [1..N -> Seq(S)]
  PROVE  ComesFrom(FlattenSeq(parts), N, parts)
<1>1. PICK f : Joins(f, S, N, parts) /\ FlattenSeq(parts) = f[N]
  BY FlattenSteps
<1>2. /\ \A n \in 0..N : f[n] \in Seq(S)
      /\ f[0] = <<>> /\ \A n \in 1..N : f[n] = f[n - 1] \o parts[n]
  BY <1>1 DEF Joins
<1> DEFINE From(x) == \E n \in 1..N : \E j \in 1..Len(parts[n]) : x = parts[n][j]
           Is(n) == n <= N => \A k \in 1..Len(f[n]) : From(f[n][k])
           T == {n \in Nat : Is(n)}
<1>3. Is(0)
  BY <1>2
<1>4. ASSUME NEW n \in Nat, Is(n) PROVE Is(n + 1)
  <2>1. SUFFICES ASSUME n + 1 <= N, NEW k \in 1..Len(f[n + 1]) PROVE From(f[n + 1][k])
    <3> HIDE DEF From
    <3> QED OBVIOUS
  <2>2. n + 1 \in 1..N
    BY <2>1
  <2>3. \A x \in 1..Len(f[n]) : From(f[n][x])
    <3> HIDE DEF From
    <3> QED BY <1>4, <2>1
  <2>4. Follows(S, f, n, parts)
    BY <1>1, <2>1, JoinsNext
  <2> DEFINE len == Len(f[n])
             j == k - len
  <2>5. /\ Len(f[n + 1]) = len + Len(parts[n + 1])
        /\ f[n + 1][k] = IF k <= len THEN f[n][k] ELSE parts[n + 1][j]
        /\ len \in Nat /\ Len(parts[n + 1]) \in Nat
    BY <2>4 DEF Follows
  <2> HIDE DEF len
  <2>6. CASE k <= len
    <3>1. k \in 1..len /\ f[n + 1][k] = f[n][k]
      BY <2>5, <2>6
    <3> HIDE DEF From
    <3> QED BY <2>3, <3>1 DEF len
  <2>7. CASE k > len
    <3>1. j \in 1..Len(parts[n + 1])
      BY <2>5, <2>7
    <3>2. f[n + 1][k] = parts[n + 1][j]
      BY <2>5, <2>7
    <3> HIDE DEF j
    <3> QED BY <2>2, <3>1, <3>2
  <2>8. k <= len \/ k > len
    BY <2>5
  <2> HIDE DEF From
  <2> QED BY <2>6, <2>7, <2>8
<1> HIDE DEF Is
<1>5. 0 \in T /\ \A n \in Nat : n \in T => n + 1 \in T
  BY <1>3, <1>4
<1>6. Is(N)
  <2>1. Nat \subseteq T
    <3> HIDE DEF T
    <3> QED BY <1>5, SetInduction, Zenon
  <2> QED BY <2>1
<1> QED BY <1>1, <1>6 DEF Is, ComesFrom

-----------------------------------------------------------------------------
(* The descriptor builder                                                   *)

Kinds == {"manufacturer", "product", "serial"}

ConfigEntries ==
  [type : {"conf"}, conf : {0}, index : Nat, count : Nat, name : Nat, alt : {0}]
InterfaceEntries ==
  [type : {"interf"}, conf : Nat, index : Nat, count : Nat, name : Nat,
   alt : Settings \cup {0}]
EndpointEntries == [type : {"endp"}, conf : Nat, interf : Nat, ep : Endpoints]
Entries == ConfigEntries \cup InterfaceEntries \cup EndpointEntries

\* What may have a name.
IsNamed(who) ==
  \/ who = <<"language">> \/ \E which \in Kinds : who = <<which>>
  \/ \E c \in 1..numConfs :
       who = <<"conf", c>> \/ \E i \in 1..Interfaces(c) : who = <<"interf", c, i>>

BuilderTypeOK ==
  /\ DescriptorList \in Seq(Entries)
  /\ StringList \in Seq([name : Names, len : Nat])
  /\ numConfs \in Nat
  /\ ids \in [Kinds -> Nat]
  /\ \A who \in DOMAIN given : IsNamed(who) /\ given[who] \in Names

\* The list has one entry for each configuration and each interface that calls have
\* returned, and no other of theirs.
EntriesAreUnique ==
  /\ \A c \in 1..numConfs :
       \E k \in 1..Len(DescriptorList) : \A j \in 1..Len(DescriptorList) :
         IsConfig(DescriptorList[j], c) <=> j = k
  /\ \A k \in 1..Len(DescriptorList) :
       DescriptorList[k].type = "conf" => DescriptorList[k].index \in 1..numConfs
  /\ \A c \in 1..numConfs : \A i \in 1..Interfaces(c) :
       \E k \in 1..Len(DescriptorList) : \A j \in 1..Len(DescriptorList) :
         IsInterface(DescriptorList[j], c, i) <=> j = k
  /\ \A k \in 1..Len(DescriptorList) :
       DescriptorList[k].type = "interf" =>
         \E c \in 1..numConfs : \E i \in 1..Interfaces(c) : IsInterface(DescriptorList[k], c, i)

\* Whoever has a name finds it at his index.
NamesListed ==
  /\ StringList = <<>> => DOMAIN given = {}
  /\ <<"language">> \in DOMAIN given =>
       \A who \in DOMAIN given :
         /\ IndexOf(who) + 1 \in 1..Len(StringList)
         /\ StringList[IndexOf(who) + 1] = StringDescriptor(given[who])

BuilderInv ==
  /\ BuilderTypeOK /\ EntriesAreUnique /\ NamesListed
  /\ built => stringField = StringList

\* A search returns the one entry that passes.
OneIsFound ==
  /\ \A c : \A k \in 1..Len(DescriptorList) :
       (\A j \in 1..Len(DescriptorList) : IsConfig(DescriptorList[j], c) <=> j = k)
         => TheConfig(c) = k
  /\ \A c, i : \A k \in 1..Len(DescriptorList) :
       (\A j \in 1..Len(DescriptorList) : IsInterface(DescriptorList[j], c, i) <=> j = k)
         => TheInterface(c, i) = k

LEMMA LastOfOne == ASSUME NEW k \in Int PROVE Max({k}) = k
BY DEF Max

LEMMA SearchFinds == OneIsFound
<1>1. ASSUME NEW c, NEW k \in 1..Len(DescriptorList),
             \A j \in 1..Len(DescriptorList) : IsConfig(DescriptorList[j], c) <=> j = k
      PROVE  TheConfig(c) = k
  <2> DEFINE I == {j \in 1..Len(DescriptorList) : IsConfig(DescriptorList[j], c)}
  <2>1. TheConfig(c) = IF I # {} THEN Max(I) ELSE 0
    BY DEF TheConfig, SelectLastInSeq
  <2>2. I = {k}
    BY <1>1
  <2> HIDE DEF I
  <2> QED BY <2>1, <2>2, LastOfOne
<1>2. ASSUME NEW c, NEW i, NEW k \in 1..Len(DescriptorList),
             \A j \in 1..Len(DescriptorList) : IsInterface(DescriptorList[j], c, i) <=> j = k
      PROVE  TheInterface(c, i) = k
  <2> DEFINE I == {j \in 1..Len(DescriptorList) : IsInterface(DescriptorList[j], c, i)}
  <2>1. TheInterface(c, i) = IF I # {} THEN Max(I) ELSE 0
    BY DEF TheInterface, SelectLastInSeq
  <2>2. I = {k}
    BY <1>2
  <2> HIDE DEF I
  <2> QED BY <2>1, <2>2, LastOfOne
<1> QED BY <1>1, <1>2 DEF OneIsFound

LEMMA SearchFindsNext == OneIsFound'
BY SearchFinds, PTL

\* Every configuration and interface is found.
Searches ==
         /\ \A c \in 1..numConfs :
              /\ TheConfig(c) \in 1..Len(DescriptorList)
              /\ IsConfig(DescriptorList[TheConfig(c)], c)
              /\ \A j \in 1..Len(DescriptorList) :
                   IsConfig(DescriptorList[j], c) => j = TheConfig(c)
              /\ Interfaces(c) \in Nat
         /\ \A c \in 1..numConfs : \A i \in 1..Interfaces(c) :
              /\ TheInterface(c, i) \in 1..Len(DescriptorList)
              /\ IsInterface(DescriptorList[TheInterface(c, i)], c, i)
              /\ \A j \in 1..Len(DescriptorList) :
                   IsInterface(DescriptorList[j], c, i) => j = TheInterface(c, i)

LEMMA EntriesFound == BuilderTypeOK /\ EntriesAreUnique => Searches
<1> SUFFICES ASSUME BuilderTypeOK, EntriesAreUnique PROVE Searches
  OBVIOUS
<1>1. ASSUME NEW c \in 1..numConfs
      PROVE  /\ TheConfig(c) \in 1..Len(DescriptorList)
             /\ IsConfig(DescriptorList[TheConfig(c)], c)
             /\ \A j \in 1..Len(DescriptorList) :
                  IsConfig(DescriptorList[j], c) => j = TheConfig(c)
             /\ Interfaces(c) \in Nat
  <2>1. PICK k \in 1..Len(DescriptorList) : \A j \in 1..Len(DescriptorList) :
          IsConfig(DescriptorList[j], c) <=> j = k
    BY DEF EntriesAreUnique
  <2>2. TheConfig(c) = k /\ IsConfig(DescriptorList[k], c)
    BY <2>1, SearchFinds DEF OneIsFound
  <2>3. DescriptorList[k].count \in Nat
    <3>1. DescriptorList[k] \in Entries /\ DescriptorList[k].type = "conf"
      BY <2>2, ElementOfSeq DEF BuilderTypeOK, IsConfig
    <3> QED BY <3>1 DEF Entries, ConfigEntries, InterfaceEntries, EndpointEntries
  <2> QED BY <2>1, <2>2, <2>3 DEF Interfaces
<1>2. ASSUME NEW c \in 1..numConfs, NEW i \in 1..Interfaces(c)
      PROVE  /\ TheInterface(c, i) \in 1..Len(DescriptorList)
             /\ IsInterface(DescriptorList[TheInterface(c, i)], c, i)
             /\ \A j \in 1..Len(DescriptorList) :
                  IsInterface(DescriptorList[j], c, i) => j = TheInterface(c, i)
  <2>1. PICK k \in 1..Len(DescriptorList) : \A j \in 1..Len(DescriptorList) :
          IsInterface(DescriptorList[j], c, i) <=> j = k
    BY DEF EntriesAreUnique
  <2>2. TheInterface(c, i) = k
    BY <2>1, SearchFinds DEF OneIsFound
  <2> QED BY <2>1, <2>2
<1> QED BY <1>1, <1>2 DEF Searches

SearchesKept ==
  /\ numConfs' = numConfs
  /\ \A c \in 1..numConfs :
       /\ TheConfig(c)' = TheConfig(c) /\ Interfaces(c)' = Interfaces(c)
       /\ \A i \in 1..Interfaces(c) : TheInterface(c, i)' = TheInterface(c, i)

\* Steps that add no configuration and no interface and change no number of
\* interfaces: every entry stays where it is.
LEMMA EntriesKept ==
  ASSUME BuilderTypeOK, EntriesAreUnique, UNCHANGED numConfs,
         Len(DescriptorList') \in Nat, Len(DescriptorList) <= Len(DescriptorList'),
         \A k \in 1..Len(DescriptorList) :
           /\ DescriptorList'[k].type = DescriptorList[k].type
           /\ DescriptorList[k].type # "endp" =>
                /\ DescriptorList'[k].conf = DescriptorList[k].conf
                /\ DescriptorList'[k].index = DescriptorList[k].index
           /\ DescriptorList[k].type = "conf" =>
                DescriptorList'[k].count = DescriptorList[k].count,
         \A k \in (Len(DescriptorList) + 1)..Len(DescriptorList') :
           DescriptorList'[k].type = "endp"
  PROVE  EntriesAreUnique' /\ SearchesKept
<1> DEFINE L == DescriptorList
           M == DescriptorList'
<1>0. Len(L) \in Nat
  BY LenProperties DEF BuilderTypeOK
<1>1. \A k \in 1..Len(M) : k \in 1..Len(L) \/ M[k].type = "endp"
  BY <1>0
<1>2. \A c, i : \A k \in 1..Len(M) :
        /\ IsConfig(M[k], c) <=> k \in 1..Len(L) /\ IsConfig(L[k], c)
        /\ IsInterface(M[k], c, i) <=> k \in 1..Len(L) /\ IsInterface(L[k], c, i)
  BY <1>1 DEF IsConfig, IsInterface
<1>3. \A k \in 1..Len(L) : k \in 1..Len(M)
  BY <1>0
<1>4. ASSUME NEW c \in 1..numConfs
      PROVE  /\ TheConfig(c)' = TheConfig(c) /\ Interfaces(c)' = Interfaces(c)
             /\ \E k \in 1..Len(M) : \A j \in 1..Len(M) : IsConfig(M[j], c) <=> j = k
             /\ \A i \in 1..Interfaces(c) :
                  /\ TheInterface(c, i)' = TheInterface(c, i)
                  /\ \E k \in 1..Len(M) : \A j \in 1..Len(M) : IsInterface(M[j], c, i) <=> j = k
  <2>1. PICK k \in 1..Len(L) : \A j \in 1..Len(L) : IsConfig(L[j], c) <=> j = k
    BY DEF EntriesAreUnique
  <2>2. k \in 1..Len(M) /\ \A j \in 1..Len(M) : IsConfig(M[j], c) <=> j = k
    BY <1>2, <1>3, <2>1
  <2>3. TheConfig(c) = k
    BY <2>1, EntriesFound DEF Searches
  <2>4. TheConfig(c)' = k
    BY <2>2, SearchFindsNext DEF OneIsFound
  <2>5. IsConfig(L[k], c)
    BY <2>1
  <2>6. Interfaces(c)' = Interfaces(c)
    BY <2>3, <2>4, <2>5 DEF Interfaces, IsConfig
  <2>7. ASSUME NEW i \in 1..Interfaces(c)
        PROVE  /\ TheInterface(c, i)' = TheInterface(c, i)
               /\ \E m \in 1..Len(M) : \A j \in 1..Len(M) : IsInterface(M[j], c, i) <=> j = m
    <3>1. PICK m \in 1..Len(L) : \A j \in 1..Len(L) : IsInterface(L[j], c, i) <=> j = m
      BY DEF EntriesAreUnique
    <3>2. m \in 1..Len(M) /\ \A j \in 1..Len(M) : IsInterface(M[j], c, i) <=> j = m
      BY <1>2, <1>3, <3>1
    <3>3. TheInterface(c, i) = m
      BY <3>1, EntriesFound DEF Searches
    <3>4. TheInterface(c, i)' = m
      BY <3>2, SearchFindsNext DEF OneIsFound
    <3> QED BY <3>2, <3>3, <3>4
  <2> QED BY <2>2, <2>3, <2>4, <2>6, <2>7
<1>5. \A k \in 1..Len(M) : M[k].type = "conf" => M[k].index \in 1..numConfs
  BY <1>1 DEF EntriesAreUnique
<1>6. ASSUME NEW k \in 1..Len(M), M[k].type = "interf"
      PROVE  \E c \in 1..numConfs : \E i \in 1..Interfaces(c)' : IsInterface(M[k], c, i)
  <2>1. k \in 1..Len(L) /\ L[k].type = "interf"
    BY <1>1, <1>6
  <2>2. PICK c \in 1..numConfs : \E i \in 1..Interfaces(c) : IsInterface(L[k], c, i)
    BY <2>1 DEF EntriesAreUnique
  <2>3. Interfaces(c)' = Interfaces(c)
    BY <1>4
  <2> QED BY <1>2, <2>1, <2>2, <2>3
<1>7. EntriesAreUnique'
  <2>1. \A c \in 1..numConfs : \E k \in 1..Len(M) : \A j \in 1..Len(M) :
          IsConfig(M[j], c) <=> j = k
    BY <1>4
  <2>2. \A c \in 1..numConfs : \A i \in 1..Interfaces(c)' :
          \E k \in 1..Len(M) : \A j \in 1..Len(M) : IsInterface(M[j], c, i) <=> j = k
    BY <1>4
  <2> QED BY <1>5, <1>6, <2>1, <2>2 DEF EntriesAreUnique
<1> QED BY <1>4, <1>7 DEF SearchesKept

Indexes ==
  /\ IndexOf(<<"language">>) = 0
  /\ \A which \in Kinds : IndexOf(<<which>>) = ids[which]
  /\ \A c : IndexOf(<<"conf", c>>) = DescriptorList[TheConfig(c)].name
  /\ \A c, i : IndexOf(<<"interf", c, i>>) = DescriptorList[TheInterface(c, i)].name

LEMMA IndexValues == Indexes
BY DEF Indexes, IndexOf, Kinds

LEMMA IndexValuesNext == Indexes'
BY IndexValues, PTL

\* A name keeps its index when its entry keeps its name.
LEMMA IndexKept ==
  ASSUME SearchesKept, NEW who, IsNamed(who),
         \A which \in Kinds : who = <<which>> => ids'[which] = ids[which],
         \A c \in 1..numConfs : who = <<"conf", c>> =>
           DescriptorList'[TheConfig(c)].name = DescriptorList[TheConfig(c)].name,
         \A c \in 1..numConfs : \A i \in 1..Interfaces(c) : who = <<"interf", c, i>> =>
           DescriptorList'[TheInterface(c, i)].name = DescriptorList[TheInterface(c, i)].name
  PROVE  IndexOf(who)' = IndexOf(who)
<1> USE IndexValues, IndexValuesNext DEF Indexes
<1>1. CASE who = <<"language">>
  BY <1>1
<1>2. ASSUME NEW which \in Kinds, who = <<which>>
      PROVE  IndexOf(who)' = IndexOf(who)
  BY <1>2
<1>3. ASSUME NEW c \in 1..numConfs, who = <<"conf", c>>
      PROVE  IndexOf(who)' = IndexOf(who)
  <2>1. TheConfig(c)' = TheConfig(c)
    BY DEF SearchesKept
  <2>2. IndexOf(who)' = DescriptorList'[TheConfig(c)'].name
    BY <1>3
  <2>3. IndexOf(who) = DescriptorList[TheConfig(c)].name
    BY <1>3
  <2> QED BY <1>3, <2>1, <2>2, <2>3
<1>4. ASSUME NEW c \in 1..numConfs, NEW i \in 1..Interfaces(c), who = <<"interf", c, i>>
      PROVE  IndexOf(who)' = IndexOf(who)
  <2>1. TheInterface(c, i)' = TheInterface(c, i)
    BY DEF SearchesKept
  <2>2. IndexOf(who)' = DescriptorList'[TheInterface(c, i)'].name
    BY <1>4
  <2>3. IndexOf(who) = DescriptorList[TheInterface(c, i)].name
    BY <1>4
  <2> QED BY <1>4, <2>1, <2>2, <2>3
<1> QED BY <1>1, <1>2, <1>3, <1>4 DEF IsNamed

LEMMA NamedKept ==
  ASSUME SearchesKept, NEW who, IsNamed(who)
  PROVE  IsNamed(who)'
BY DEF SearchesKept, IsNamed

\* A string is put behind the others, and its owner's index is its place.
LEMMA StringAdded ==
  ASSUME BuilderInv, NEW name \in Names, NEW who, IsNamed(who), AddString(who, name),
         DescriptorList' \in Seq(Entries), EntriesAreUnique', SearchesKept,
         ids' \in [Kinds -> Nat], UNCHANGED fields,
         \A w : IsNamed(w) /\ w # who => IndexOf(w)' = IndexOf(w),
         who = <<"language">> => StringList = <<>>,
         who # <<"language">> /\ StringList # <<>> => IndexOf(who)' = Len(StringList)
  PROVE  BuilderInv'
<1> DEFINE string == StringDescriptor(name)
<1>1. /\ StringList \in Seq([name : Names, len : Nat]) /\ Len(StringList) \in Nat
      /\ string \in [name : Names, len : Nat] /\ StringList' = Append(StringList, string)
  <2>1. (2 * name.chars + 2) % 256 \in Nat
    BY DescriptorsAssumption
  <2> QED BY <2>1, LenProperties DEF BuilderInv, BuilderTypeOK, AddString, StringDescriptor
<1> HIDE DEF string
<1>2. /\ StringList' \in Seq([name : Names, len : Nat])
      /\ Len(StringList') = Len(StringList) + 1
      /\ \A k \in 1..Len(StringList) : StringList'[k] = StringList[k]
      /\ StringList'[Len(StringList) + 1] = string
      /\ StringList' # <<>>
  BY <1>1, AppendProperties
<1>3. /\ DOMAIN given' = DOMAIN given \cup {who} /\ given'[who] = name
      /\ \A w \in DOMAIN given : w # who => given'[w] = given[w]
      /\ ~built
  BY DEF AddString, Roomy
<1>4. BuilderTypeOK'
  <2>1. \A w \in DOMAIN given' : IsNamed(w)' /\ given'[w] \in Names
    BY <1>3, NamedKept DEF BuilderInv, BuilderTypeOK
  <2> QED BY <1>2, <2>1 DEF BuilderInv, BuilderTypeOK, SearchesKept
<1>5. NamesListed'
  <2>1. SUFFICES ASSUME <<"language">> \in DOMAIN given', NEW w \in DOMAIN given'
                 PROVE  /\ IndexOf(w)' + 1 \in 1..Len(StringList')
                        /\ StringList'[IndexOf(w)' + 1] = StringDescriptor(given'[w])
    BY <1>2 DEF NamesListed
  <2>2. CASE w = who
    <3>1. IndexOf(who)' = Len(StringList)
      <4>1. CASE who = <<"language">>
        <5>1. Len(StringList) = 0
          BY <4>1
        <5> QED BY <4>1, <5>1, IndexValuesNext DEF Indexes
      <4>2. CASE who # <<"language">>
        BY <1>3, <2>1, <4>2 DEF BuilderInv, NamesListed
      <4> QED BY <4>1, <4>2
    <3> QED BY <1>1, <1>2, <1>3, <2>2, <3>1 DEF string
  <2>3. CASE w # who
    <3>1. w \in DOMAIN given /\ IsNamed(w) /\ IndexOf(w)' = IndexOf(w)
      BY <1>3, <2>3 DEF BuilderInv, BuilderTypeOK
    <3>2. <<"language">> \in DOMAIN given
      <4>1. StringList # <<>>
        BY <3>1 DEF BuilderInv, NamesListed
      <4> QED BY <1>3, <2>1, <4>1
    <3>3. /\ IndexOf(w) + 1 \in 1..Len(StringList)
          /\ StringList[IndexOf(w) + 1] = StringDescriptor(given[w])
      BY <3>1, <3>2 DEF BuilderInv, NamesListed
    <3>4. IndexOf(w) + 1 \in 1..Len(StringList')
      BY <1>1, <1>2, <3>3
    <3> QED BY <1>2, <1>3, <2>3, <3>1, <3>3, <3>4
  <2> QED BY <2>2, <2>3
<1> QED BY <1>3, <1>4, <1>5 DEF BuilderInv, fields

\* Changing an entry's name, count or setting leaves the rest of it.
LEMMA EntryChanges ==
  ASSUME NEW e \in Entries, e.type # "endp", NEW x \in Nat
  PROVE  /\ [e EXCEPT !.name = x] \in Entries
         /\ [e EXCEPT !.name = x].name = x
         /\ \A f \in {"type", "conf", "index", "count", "alt"} :
              [e EXCEPT !.name = x][f] = e[f]
<1>1. CASE e \in ConfigEntries
  BY <1>1 DEF ConfigEntries, Entries
<1>2. CASE e \in InterfaceEntries
  BY <1>2 DEF InterfaceEntries, Entries
<1>3. e \notin EndpointEntries
  BY DEF EndpointEntries
<1> QED BY <1>1, <1>2, <1>3 DEF Entries

LEMMA CountChanges ==
  ASSUME NEW e \in Entries, e.type # "endp"
  PROVE  /\ Increment(e) \in Entries
         /\ Increment(e).count = e.count + 1
         /\ \A f \in {"type", "conf", "index", "name", "alt"} : Increment(e)[f] = e[f]
<1>1. CASE e \in ConfigEntries
  BY <1>1 DEF ConfigEntries, Increment, Entries
<1>2. CASE e \in InterfaceEntries
  BY <1>2 DEF InterfaceEntries, Increment, Entries
<1>3. e \notin EndpointEntries
  BY DEF EndpointEntries
<1> QED BY <1>1, <1>2, <1>3 DEF Entries

LEMMA SettingChanges ==
  ASSUME NEW e \in Entries, e.type = "interf", NEW x \in Settings
  PROVE  /\ [e EXCEPT !.alt = x] \in Entries
         /\ \A f \in {"type", "conf", "index", "count", "name"} :
              [e EXCEPT !.alt = x][f] = e[f]
<1>1. e \in InterfaceEntries
  BY DEF Entries, ConfigEntries, EndpointEntries
<1> QED BY <1>1 DEF InterfaceEntries, Entries

\* An entry as it is now.
LEMMA EntryAt ==
  ASSUME BuilderTypeOK, NEW k \in 1..Len(DescriptorList)
  PROVE  /\ DescriptorList[k] \in Entries
         /\ DescriptorList[k].type \in {"conf", "interf", "endp"}
         /\ DescriptorList[k].type = "conf" => DescriptorList[k].conf = 0
         /\ DescriptorList[k].type # "endp" =>
              DescriptorList[k].count \in Nat /\ DescriptorList[k].name \in Nat
<1>1. DescriptorList[k] \in Entries
  BY ElementOfSeq DEF BuilderTypeOK
<1> QED BY <1>1 DEF Entries, ConfigEntries, InterfaceEntries, EndpointEntries

\* Names for the device.
LEMMA DeviceNamed ==
  ASSUME BuilderInv, NEW name \in Names,
         AddLanguage(name) \/ \E which \in Kinds : NameDevice(which, name)
  PROVE  BuilderInv'
<1>1. DescriptorList' = DescriptorList /\ numConfs' = numConfs /\ UNCHANGED fields
  BY DEF AddLanguage, NameDevice, deviceVars
<1>2. DescriptorList' \in Seq(Entries) /\ Len(DescriptorList) \in Nat
  BY <1>1, LenProperties DEF BuilderInv, BuilderTypeOK
<1>3. EntriesAreUnique' /\ SearchesKept
  BY <1>1, <1>2, EntriesKept DEF BuilderInv
<1>4. CASE AddLanguage(name)
  <2>1. AddString(<<"language">>, name) /\ StringList = <<>> /\ ids' = ids
    BY <1>4 DEF AddLanguage, deviceVars
  <2>2. \A w : IsNamed(w) => IndexOf(w)' = IndexOf(w)
    BY <1>1, <1>3, <2>1, IndexKept
  <2>3. ids' \in [Kinds -> Nat] /\ IsNamed(<<"language">>)
    BY <2>1 DEF BuilderInv, BuilderTypeOK, IsNamed
  <2> QED BY <1>1, <1>2, <1>3, <2>1, <2>2, <2>3, StringAdded
<1>5. ASSUME NEW which \in Kinds, NameDevice(which, name)
      PROVE  BuilderInv'
  <2> DEFINE who == <<which>>
  <2>1. /\ AddString(who, name)
        /\ ids' = IF NewIndex > 0 THEN [ids EXCEPT ![which] = NewIndex] ELSE ids
    BY <1>5 DEF NameDevice
  <2>2. IsNamed(who) /\ who # <<"language">>
    BY DEF IsNamed, Kinds
  <2>3. NewIndex = Len(StringList) /\ NewIndex \in Nat
    BY LenProperties DEF NewIndex, BuilderInv, BuilderTypeOK
  <2>4. ids' \in [Kinds -> Nat] /\ \A k \in Kinds : k # which => ids'[k] = ids[k]
    BY <2>1, <2>3 DEF BuilderInv, BuilderTypeOK
  <2>5. \A w : IsNamed(w) /\ w # who => IndexOf(w)' = IndexOf(w)
    <3> SUFFICES ASSUME NEW w, IsNamed(w), w # who PROVE IndexOf(w)' = IndexOf(w)
      OBVIOUS
    <3>1. \A k \in Kinds : w = <<k>> => ids'[k] = ids[k]
      BY <2>4
    <3> QED BY <1>1, <1>3, <3>1, IndexKept
  <2>6. StringList # <<>> => IndexOf(who)' = Len(StringList)
    <3>1. ASSUME StringList # <<>>
          PROVE  ids'[which] = Len(StringList)
      <4>1. Len(StringList) > 0
        BY <3>1, LenProperties, EmptySeq DEF BuilderInv, BuilderTypeOK
      <4> QED BY <2>1, <2>3, <4>1 DEF BuilderInv, BuilderTypeOK
    <3> QED BY <3>1, IndexValuesNext DEF Indexes
  <2> HIDE DEF who
  <2> QED BY <1>1, <1>2, <1>3, <2>1, <2>2, <2>4, <2>5, <2>6, StringAdded
<1> QED BY <1>4, <1>5

\* Names for a configuration or an interface: the entries in T, of which there is
\* the owner's and no other, get the new index.
LEMMA EntryNamed ==
  ASSUME BuilderInv, NEW name \in Names, NEW who, NEW owner \in 1..Len(DescriptorList),
         AddString(who, name), UNCHANGED <<deviceVars, fields>>,
         DescriptorList[owner].type # "endp",
         DescriptorList' = [k \in DOMAIN DescriptorList |->
           IF k = owner THEN [DescriptorList[k] EXCEPT !.name = NewIndex]
           ELSE DescriptorList[k]],
         \/ \E c \in 1..numConfs : who = <<"conf", c>> /\ owner = TheConfig(c)
         \/ \E c \in 1..numConfs : \E i \in 1..Interfaces(c) :
              who = <<"interf", c, i>> /\ owner = TheInterface(c, i)
  PROVE  BuilderInv'
<1> DEFINE L == DescriptorList
           M == DescriptorList'
<1>1. NewIndex = Len(StringList) /\ NewIndex \in Nat
  BY LenProperties DEF NewIndex, BuilderInv, BuilderTypeOK
<1>2. L \in Seq(Entries) /\ Len(L) \in Nat /\ DOMAIN L = 1..Len(L)
  BY LenProperties DEF BuilderInv, BuilderTypeOK
<1>3. /\ M[owner] = [L[owner] EXCEPT !.name = NewIndex]
      /\ \A k \in 1..Len(L) : k # owner => M[k] = L[k]
      /\ M = [k \in 1..Len(L) |-> M[k]]
  BY <1>2
<1>4. /\ M[owner] \in Entries /\ M[owner].name = NewIndex
      /\ \A f \in {"type", "conf", "index", "count", "alt"} : M[owner][f] = L[owner][f]
  <2>1. L[owner] \in Entries
    BY EntryAt DEF BuilderInv
  <2> QED BY <1>1, <1>3, <2>1, EntryChanges
<1>5. M \in Seq(Entries) /\ Len(M) = Len(L)
  <2>1. \A k \in 1..Len(L) : M[k] \in Entries
    BY <1>3, <1>4, EntryAt DEF BuilderInv
  <2>2. M \in [1..Len(L) -> Entries]
    BY <1>3, <2>1
  <2> HIDE DEF M
  <2> QED BY <1>2, <2>2
<1>6. EntriesAreUnique' /\ SearchesKept
  <2>1. \A k \in 1..Len(L) :
          /\ M[k].type = L[k].type /\ M[k].conf = L[k].conf
          /\ L[k].type # "endp" => M[k].index = L[k].index /\ M[k].count = L[k].count
    BY <1>3, <1>4
  <2>2. numConfs' = numConfs
    BY DEF deviceVars
  <2> QED BY <1>2, <1>5, <2>1, <2>2, EntriesKept DEF BuilderInv
<1>7. ids' \in [Kinds -> Nat] /\ ids' = ids /\ UNCHANGED fields
  BY DEF BuilderInv, BuilderTypeOK, deviceVars
<1>8. IsNamed(who) /\ who # <<"language">>
  BY DEF IsNamed
<1>9. \A w : IsNamed(w) /\ w # who => IndexOf(w)' = IndexOf(w)
  <2> SUFFICES ASSUME NEW w, IsNamed(w), w # who PROVE IndexOf(w)' = IndexOf(w)
    OBVIOUS
  <2>1. Searches
    BY EntriesFound DEF BuilderInv
  <2>2. ASSUME NEW c \in 1..numConfs, w = <<"conf", c>>
        PROVE  M[TheConfig(c)].name = L[TheConfig(c)].name
    <3>1. TheConfig(c) \in 1..Len(L) /\ IsConfig(L[TheConfig(c)], c)
      BY <2>1 DEF Searches
    <3>2. TheConfig(c) # owner
      <4>1. ASSUME NEW d \in 1..numConfs, who = <<"conf", d>>, owner = TheConfig(d)
            PROVE  TheConfig(c) # owner
        <5>1. IsConfig(L[owner], d) /\ c # d
          BY <2>1, <2>2, <4>1 DEF Searches
        <5> QED BY <3>1, <5>1 DEF IsConfig
      <4>2. ASSUME NEW d \in 1..numConfs, NEW i \in 1..Interfaces(d), owner = TheInterface(d, i)
            PROVE  TheConfig(c) # owner
        <5>1. IsInterface(L[owner], d, i)
          BY <2>1, <4>2 DEF Searches
        <5> QED BY <3>1, <5>1 DEF IsConfig, IsInterface
      <4> QED BY <4>1, <4>2
    <3> QED BY <1>3, <3>1, <3>2
  <2>3. ASSUME NEW c \in 1..numConfs, NEW i \in 1..Interfaces(c), w = <<"interf", c, i>>
        PROVE  M[TheInterface(c, i)].name = L[TheInterface(c, i)].name
    <3>1. TheInterface(c, i) \in 1..Len(L) /\ IsInterface(L[TheInterface(c, i)], c, i)
      BY <2>1 DEF Searches
    <3>2. TheInterface(c, i) # owner
      <4>1. ASSUME NEW d \in 1..numConfs, owner = TheConfig(d)
            PROVE  TheInterface(c, i) # owner
        <5>1. IsConfig(L[owner], d)
          BY <2>1, <4>1 DEF Searches
        <5> QED BY <3>1, <5>1 DEF IsConfig, IsInterface
      <4>2. ASSUME NEW d \in 1..numConfs, NEW j \in 1..Interfaces(d),
                   who = <<"interf", d, j>>, owner = TheInterface(d, j)
            PROVE  TheInterface(c, i) # owner
        <5>1. IsInterface(L[owner], d, j) /\ <<c, i>> # <<d, j>>
          BY <2>1, <2>3, <4>2 DEF Searches
        <5> QED BY <3>1, <5>1 DEF IsInterface
      <4> QED BY <4>1, <4>2
    <3> QED BY <1>3, <3>1, <3>2
  <2> QED BY <1>6, <1>7, <2>2, <2>3, IndexKept
<1>10. IndexOf(who)' = Len(StringList)
  <2>1. ASSUME NEW c \in 1..numConfs, who = <<"conf", c>>, owner = TheConfig(c)
        PROVE  IndexOf(who)' = Len(StringList)
    <3>1. TheConfig(c)' = owner
      BY <1>6, <2>1 DEF SearchesKept
    <3>2. IndexOf(who)' = M[TheConfig(c)'].name
      BY <2>1, IndexValuesNext DEF Indexes
    <3> QED BY <1>1, <1>4, <3>1, <3>2
  <2>2. ASSUME NEW c \in 1..numConfs, NEW i \in 1..Interfaces(c), who = <<"interf", c, i>>,
               owner = TheInterface(c, i)
        PROVE  IndexOf(who)' = Len(StringList)
    <3>1. TheInterface(c, i)' = owner
      BY <1>6, <2>2 DEF SearchesKept
    <3>2. IndexOf(who)' = M[TheInterface(c, i)'].name
      BY <2>2, IndexValuesNext DEF Indexes
    <3> QED BY <1>1, <1>4, <3>1, <3>2
  <2> QED BY <2>1, <2>2
<1> QED BY <1>5, <1>6, <1>7, <1>8, <1>9, <1>10, StringAdded

LEMMA NamingInv ==
  ASSUME BuilderInv, NEW name \in Names, NEW c \in 1..numConfs,
         ConfigurationName(c, name) \/ \E i \in 1..Interfaces(c) : InterfaceName(c, i, name)
  PROVE  BuilderInv'
<1>1. Searches /\ DOMAIN DescriptorList = 1..Len(DescriptorList)
  BY EntriesFound, LenProperties DEF BuilderInv, BuilderTypeOK
<1>2. CASE ConfigurationName(c, name)
  <2> DEFINE k == TheConfig(c)
  <2>1. /\ k \in 1..Len(DescriptorList) /\ DescriptorList[k].type # "endp"
        /\ \A j \in 1..Len(DescriptorList) : IsConfig(DescriptorList[j], c) <=> j = k
    BY <1>1 DEF Searches, IsConfig
  <2>2. DescriptorList' = [j \in DOMAIN DescriptorList |->
          IF IsConfig(DescriptorList[j], c) THEN [DescriptorList[j] EXCEPT !.name = NewIndex]
          ELSE DescriptorList[j]]
    BY <1>2 DEF ConfigurationName, Update
  <2>3. DescriptorList' = [j \in DOMAIN DescriptorList |->
          IF j = k THEN [DescriptorList[j] EXCEPT !.name = NewIndex] ELSE DescriptorList[j]]
    BY <1>1, <2>1, <2>2
  <2>4. AddString(<<"conf", c>>, name) /\ UNCHANGED <<deviceVars, fields>>
    BY <1>2 DEF ConfigurationName
  <2> QED BY <2>1, <2>3, <2>4, EntryNamed
<1>3. ASSUME NEW i \in 1..Interfaces(c), InterfaceName(c, i, name)
      PROVE  BuilderInv'
  <2> DEFINE k == TheInterface(c, i)
  <2>1. /\ k \in 1..Len(DescriptorList) /\ DescriptorList[k].type # "endp"
        /\ \A j \in 1..Len(DescriptorList) : IsInterface(DescriptorList[j], c, i) <=> j = k
    BY <1>1 DEF Searches, IsInterface
  <2>2. DescriptorList' = [j \in DOMAIN DescriptorList |->
          IF IsInterface(DescriptorList[j], c, i)
          THEN [DescriptorList[j] EXCEPT !.name = NewIndex] ELSE DescriptorList[j]]
    BY <1>3 DEF InterfaceName, Update
  <2>3. DescriptorList' = [j \in DOMAIN DescriptorList |->
          IF j = k THEN [DescriptorList[j] EXCEPT !.name = NewIndex] ELSE DescriptorList[j]]
    BY <1>1, <2>1, <2>2
  <2>4. AddString(<<"interf", c, i>>, name) /\ UNCHANGED <<deviceVars, fields>>
    BY <1>3 DEF InterfaceName
  <2> QED BY <2>1, <2>3, <2>4, EntryNamed
<1> QED BY <1>2, <1>3

\* Calls without a name leave every name at its index.
LEMMA NoStringAdded ==
  ASSUME BuilderInv, UNCHANGED <<StringList, given>>,
         UNCHANGED fields \/ stringField' = StringList,
         DescriptorList' \in Seq(Entries), numConfs' \in Nat, ids' \in [Kinds -> Nat],
         EntriesAreUnique',
         \A w : IsNamed(w) => IsNamed(w)' /\ IndexOf(w)' = IndexOf(w)
  PROVE  BuilderInv'
BY DEF BuilderInv, BuilderTypeOK, NamesListed, fields

LEMMA ConfigurationAdded ==
  ASSUME BuilderInv, AddConfiguration
  PROVE  BuilderInv'
<1> DEFINE L == DescriptorList
           M == DescriptorList'
           new == Config(numConfs + 1)
<1>1. /\ M = Append(L, new) /\ numConfs' = numConfs + 1 /\ ids' = ids
      /\ UNCHANGED <<StringList, given, fields>>
  BY DEF AddConfiguration, AddToList
<1>2. L \in Seq(Entries) /\ Len(L) \in Nat /\ numConfs \in Nat
  BY LenProperties DEF BuilderInv, BuilderTypeOK
<1>3. new \in Entries /\ new.type = "conf" /\ new.index = numConfs + 1 /\ new.count = 0
  BY <1>2 DEF Config, Entries, ConfigEntries
<1> HIDE DEF new
<1>4. /\ M \in Seq(Entries) /\ Len(M) = Len(L) + 1 /\ M[Len(L) + 1] = new
      /\ \A k \in 1..Len(L) : M[k] = L[k]
  BY <1>1, <1>2, <1>3, AppendProperties
<1> HIDE DEF M
<1>5. Searches
  BY EntriesFound DEF BuilderInv
<1>6. \A k \in 1..Len(M) : k \in 1..Len(L) \/ k = Len(L) + 1
  BY <1>2, <1>4
<1>7. \A k \in 1..Len(L) : k \in 1..Len(M) /\ k # Len(L) + 1
  BY <1>2, <1>4
<1>8. ASSUME NEW c \in 1..numConfs
      PROVE  /\ TheConfig(c)' = TheConfig(c) /\ Interfaces(c)' = Interfaces(c)
             /\ \A j \in 1..Len(M) : IsConfig(M[j], c) <=> j = TheConfig(c)
             /\ TheConfig(c) \in 1..Len(M)
  <2>1. ~IsConfig(new, c)
    BY <1>2, <1>3 DEF IsConfig
  <2>2. /\ TheConfig(c) \in 1..Len(M)
        /\ \A j \in 1..Len(M) : IsConfig(M[j], c) <=> j = TheConfig(c)
    BY <1>4, <1>5, <1>6, <1>7, <2>1 DEF Searches
  <2>3. TheConfig(c)' = TheConfig(c)
    BY <2>2, SearchFindsNext DEF OneIsFound, M
  <2> QED BY <1>4, <1>5, <2>2, <2>3 DEF Interfaces, Searches, M
<1>9. ASSUME NEW c \in 1..numConfs, NEW i \in 1..Interfaces(c)
      PROVE  /\ TheInterface(c, i)' = TheInterface(c, i)
             /\ \A j \in 1..Len(M) : IsInterface(M[j], c, i) <=> j = TheInterface(c, i)
             /\ TheInterface(c, i) \in 1..Len(M)
  <2>1. ~IsInterface(new, c, i)
    BY <1>3 DEF IsInterface
  <2>2. /\ TheInterface(c, i) \in 1..Len(M)
        /\ \A j \in 1..Len(M) : IsInterface(M[j], c, i) <=> j = TheInterface(c, i)
    BY <1>4, <1>5, <1>6, <1>7, <2>1 DEF Searches
  <2> QED BY <2>2, SearchFindsNext DEF OneIsFound, M
<1>10. ASSUME NEW c, c = numConfs + 1
       PROVE  /\ Len(L) + 1 \in 1..Len(M) /\ Interfaces(c)' = 0
              /\ \A j \in 1..Len(M) : IsConfig(M[j], c) <=> j = Len(L) + 1
  <2>1. \A k \in 1..Len(L) : ~IsConfig(L[k], c)
    BY <1>2, <1>10 DEF BuilderInv, EntriesAreUnique, IsConfig
  <2>2. /\ Len(L) + 1 \in 1..Len(M)
        /\ \A j \in 1..Len(M) : IsConfig(M[j], c) <=> j = Len(L) + 1
    BY SMTT(30), <1>2, <1>3, <1>4, <1>6, <1>7, <1>10, <2>1 DEF IsConfig
  <2>3. TheConfig(c)' = Len(L) + 1
    BY <2>2, SearchFindsNext DEF OneIsFound, M
  <2> QED BY <1>3, <1>4, <2>2, <2>3 DEF Interfaces, M
<1>11. EntriesAreUnique'
  <2>1. \A c \in 1..numConfs' : c \in 1..numConfs \/ c = numConfs + 1
    BY <1>1, <1>2
  <2>2. \A c \in 1..numConfs' : \E k \in 1..Len(M) : \A j \in 1..Len(M) :
          IsConfig(M[j], c) <=> j = k
    BY <1>8, <1>10, <2>1
  <2>3. \A k \in 1..Len(M) : M[k].type = "conf" => M[k].index \in 1..numConfs'
    BY <1>1, <1>2, <1>3, <1>4, <1>6 DEF BuilderInv, EntriesAreUnique
  <2>4. \A c \in 1..numConfs' : \A i \in 1..Interfaces(c)' :
          \E k \in 1..Len(M) : \A j \in 1..Len(M) : IsInterface(M[j], c, i) <=> j = k
    <3> SUFFICES ASSUME NEW c \in 1..numConfs', NEW i \in 1..Interfaces(c)'
                 PROVE  \E k \in 1..Len(M) : \A j \in 1..Len(M) :
                          IsInterface(M[j], c, i) <=> j = k
      OBVIOUS
    <3>1. c \in 1..numConfs /\ i \in 1..Interfaces(c)
      BY <1>8, <1>10, <2>1
    <3> QED BY <1>9, <3>1
  <2>5. ASSUME NEW k \in 1..Len(M), M[k].type = "interf"
        PROVE  \E c \in 1..numConfs' : \E i \in 1..Interfaces(c)' : IsInterface(M[k], c, i)
    <3>1. k \in 1..Len(L) /\ M[k] = L[k]
      BY <1>3, <1>4, <1>6, <2>5
    <3>2. PICK c \in 1..numConfs : \E i \in 1..Interfaces(c) : IsInterface(L[k], c, i)
      BY <2>5, <3>1 DEF BuilderInv, EntriesAreUnique
    <3>3. c \in 1..numConfs' /\ Interfaces(c)' = Interfaces(c)
      BY <1>1, <1>2, <1>8
    <3> QED BY <3>1, <3>2, <3>3
  <2> QED BY <2>2, <2>3, <2>4, <2>5 DEF EntriesAreUnique, M
<1>12. ASSUME NEW w, IsNamed(w)
       PROVE  IsNamed(w)' /\ IndexOf(w)' = IndexOf(w)
  <2> USE IndexValues, IndexValuesNext DEF Indexes
  <2>0. \A c \in 1..numConfs : c \in 1..numConfs'
    BY <1>1, <1>2
  <2>1. CASE w = <<"language">> \/ \E which \in Kinds : w = <<which>>
    BY <1>1, <2>1 DEF IsNamed
  <2>2. ASSUME NEW c \in 1..numConfs, w = <<"conf", c>>
        PROVE  IsNamed(w)' /\ IndexOf(w)' = IndexOf(w)
    <3>1. IndexOf(w)' = M[TheConfig(c)'].name /\ IndexOf(w) = L[TheConfig(c)].name
      BY <2>2 DEF M
    <3>2. IsNamed(w)'
      BY <2>0, <2>2 DEF IsNamed
    <3> QED BY <1>4, <1>5, <1>8, <3>1, <3>2 DEF Searches
  <2>3. ASSUME NEW c \in 1..numConfs, NEW i \in 1..Interfaces(c), w = <<"interf", c, i>>
        PROVE  IsNamed(w)' /\ IndexOf(w)' = IndexOf(w)
    <3>1. IndexOf(w)' = M[TheInterface(c, i)'].name /\ IndexOf(w) = L[TheInterface(c, i)].name
      BY <2>3 DEF M
    <3>2. IsNamed(w)'
      BY <1>8, <2>0, <2>3 DEF IsNamed
    <3> QED BY <1>4, <1>5, <1>9, <3>1, <3>2 DEF Searches
  <2>4. \/ w = <<"language">> \/ \E which \in Kinds : w = <<which>>
        \/ \E c \in 1..numConfs : w = <<"conf", c>>
        \/ \E c \in 1..numConfs : \E i \in 1..Interfaces(c) : w = <<"interf", c, i>>
    BY <1>12 DEF IsNamed
  <2> QED BY <2>1, <2>2, <2>3, <2>4
<1>13. numConfs' \in Nat /\ ids' \in [Kinds -> Nat] /\ M \in Seq(Entries)
  BY <1>1, <1>2, <1>4 DEF BuilderInv, BuilderTypeOK
<1> QED BY <1>1, <1>11, <1>12, <1>13, NoStringAdded DEF M

\* An interface is counted with its configuration, and gets the next index of it.
LEMMA InterfaceAdded ==
  ASSUME BuilderInv, NEW c \in 1..numConfs, AddInterface(c)
  PROVE  BuilderInv'
<1> DEFINE L == DescriptorList
           M == DescriptorList'
           N == Interfaces(c)
           owner == TheConfig(c)
           new == Interface(c, N + 1)
           U == [k \in DOMAIN L |-> IF IsConfig(L[k], c) THEN Increment(L[k]) ELSE L[k]]
<1>1. /\ M = Append(U, new) /\ numConfs' = numConfs /\ ids' = ids
      /\ UNCHANGED <<StringList, given, fields>>
  BY DEF AddInterface, AddToList, Update, deviceVars
<1>2. L \in Seq(Entries) /\ Len(L) \in Nat /\ DOMAIN L = 1..Len(L) /\ c \in Nat
      /\ numConfs \in Nat
  BY LenProperties DEF BuilderInv, BuilderTypeOK
<1>3. Searches
  BY EntriesFound DEF BuilderInv
<1>4. /\ owner \in 1..Len(L) /\ L[owner].type = "conf" /\ L[owner].index = c
      /\ \A j \in 1..Len(L) : IsConfig(L[j], c) <=> j = owner
      /\ N \in Nat /\ L[owner].count = N
  BY <1>3 DEF Searches, IsConfig, Interfaces
<1>5. /\ new \in Entries /\ new.type = "interf" /\ new.conf = c /\ new.index = N + 1
      /\ new.name = 0
  BY <1>2, <1>4 DEF Interface, Entries, InterfaceEntries
<1>6. /\ Increment(L[owner]) \in Entries
      /\ Increment(L[owner]).count = N + 1
      /\ \A f \in {"type", "conf", "index", "name", "alt"} : Increment(L[owner])[f] = L[owner][f]
  <2>1. L[owner] \in Entries
    BY <1>4, EntryAt DEF BuilderInv
  <2> QED BY <1>4, <2>1, CountChanges
<1>7. /\ U \in Seq(Entries) /\ Len(U) = Len(L) /\ U[owner] = Increment(L[owner])
      /\ \A k \in 1..Len(L) : k # owner => U[k] = L[k]
  <2>1. /\ U[owner] = Increment(L[owner])
        /\ \A k \in 1..Len(L) : k # owner => U[k] = L[k]
    BY <1>2, <1>4
  <2>2. \A k \in 1..Len(L) : U[k] \in Entries
    BY <1>6, <2>1, EntryAt DEF BuilderInv
  <2>3. DOMAIN U = 1..Len(L) /\ U = [k \in 1..Len(L) |-> U[k]]
    BY <1>2
  <2> HIDE DEF U
  <2>4. U \in [1..Len(L) -> Entries]
    BY <2>2, <2>3
  <2> QED BY <1>2, <2>1, <2>4
<1> HIDE DEF new, U
<1>8. /\ M \in Seq(Entries) /\ Len(M) = Len(L) + 1 /\ M[Len(L) + 1] = new
      /\ \A k \in 1..Len(L) : M[k] = U[k]
  BY <1>1, <1>2, <1>5, <1>7, AppendProperties
<1> HIDE DEF M
<1>9. \A k \in 1..Len(M) : k \in 1..Len(L) \/ k = Len(L) + 1
  BY <1>2, <1>8
<1>10. \A k \in 1..Len(L) : k \in 1..Len(M) /\ k # Len(L) + 1
  BY <1>2, <1>8
<1>11. \A k \in 1..Len(L) :
         /\ M[k].type = L[k].type
         /\ L[k].type # "endp" => /\ M[k].conf = L[k].conf /\ M[k].index = L[k].index
                                  /\ M[k].name = L[k].name
         /\ k # owner => M[k] = L[k]
  BY <1>6, <1>7, <1>8
<1>12. \A d, i : \A k \in 1..Len(L) :
         /\ IsConfig(M[k], d) <=> IsConfig(L[k], d)
         /\ IsInterface(M[k], d, i) <=> IsInterface(L[k], d, i)
  BY <1>11 DEF IsConfig, IsInterface
<1>13. ASSUME NEW d \in 1..numConfs
       PROVE  /\ TheConfig(d)' = TheConfig(d)
              /\ Interfaces(d)' = IF d = c THEN N + 1 ELSE Interfaces(d)
              /\ \A j \in 1..Len(M) : IsConfig(M[j], d) <=> j = TheConfig(d)
              /\ TheConfig(d) \in 1..Len(M)
  <2>1. ~IsConfig(new, d)
    BY <1>5 DEF IsConfig
  <2>2. /\ TheConfig(d) \in 1..Len(M) /\ TheConfig(d) \in 1..Len(L)
        /\ \A j \in 1..Len(M) : IsConfig(M[j], d) <=> j = TheConfig(d)
    BY <1>3, <1>8, <1>9, <1>10, <1>12, <2>1 DEF Searches
  <2>3. TheConfig(d)' = TheConfig(d)
    BY <2>2, SearchFindsNext DEF OneIsFound, M
  <2>4. Interfaces(d)' = M[TheConfig(d)].count
    BY <2>3 DEF Interfaces, M
  <2>5. CASE d = c
    BY <1>6, <1>7, <1>8, <2>2, <2>3, <2>4, <2>5
  <2>6. CASE d # c
    <3>1. TheConfig(d) # owner
      BY <1>3, <1>4, <2>6 DEF Searches, IsConfig
    <3> QED BY <1>11, <2>2, <2>3, <2>4, <2>6, <3>1 DEF Interfaces
  <2> QED BY <2>2, <2>3, <2>5, <2>6
<1>14. ASSUME NEW d \in 1..numConfs, NEW i \in 1..Interfaces(d)
       PROVE  /\ TheInterface(d, i)' = TheInterface(d, i)
              /\ \A j \in 1..Len(M) : IsInterface(M[j], d, i) <=> j = TheInterface(d, i)
              /\ TheInterface(d, i) \in 1..Len(M)
  <2>1. ~IsInterface(new, d, i)
    BY <1>4, <1>5 DEF IsInterface
  <2>2. /\ TheInterface(d, i) \in 1..Len(M)
        /\ \A j \in 1..Len(M) : IsInterface(M[j], d, i) <=> j = TheInterface(d, i)
    BY <1>3, <1>8, <1>9, <1>10, <1>12, <2>1 DEF Searches
  <2> QED BY <2>2, SearchFindsNext DEF OneIsFound, M
<1>15. ASSUME NEW i, i = N + 1
       PROVE  /\ Len(L) + 1 \in 1..Len(M)
              /\ \A j \in 1..Len(M) : IsInterface(M[j], c, i) <=> j = Len(L) + 1
  <2>1. ASSUME NEW k \in 1..Len(L), IsInterface(L[k], c, i)
        PROVE  FALSE
    <3>1. PICK d \in 1..numConfs : \E e \in 1..Interfaces(d) : IsInterface(L[k], d, e)
      BY <2>1 DEF BuilderInv, EntriesAreUnique, IsInterface
    <3>2. d = c /\ i \in 1..Interfaces(d)
      BY <2>1, <3>1 DEF IsInterface
    <3> QED BY <1>4, <1>15, <3>2
  <2>2. IsInterface(M[Len(L) + 1], c, i)
    BY <1>5, <1>8, <1>15 DEF IsInterface
  <2>3. Len(L) + 1 \in 1..Len(M)
    BY <1>2, <1>8
  <2> QED BY <1>9, <1>10, <1>12, <2>1, <2>2, <2>3
<1>16. EntriesAreUnique'
  <2>1. \A d \in 1..numConfs' : \E k \in 1..Len(M) : \A j \in 1..Len(M) :
          IsConfig(M[j], d) <=> j = k
    <3> SUFFICES ASSUME NEW d \in 1..numConfs
                 PROVE  \E k \in 1..Len(M) : \A j \in 1..Len(M) : IsConfig(M[j], d) <=> j = k
      BY <1>1
    <3>1. /\ TheConfig(d) \in 1..Len(M)
          /\ \A j \in 1..Len(M) : IsConfig(M[j], d) <=> j = TheConfig(d)
      BY <1>13
    <3> QED BY <3>1
  <2>2. \A k \in 1..Len(M) : M[k].type = "conf" => M[k].index \in 1..numConfs'
    BY <1>1, <1>5, <1>8, <1>9, <1>11 DEF BuilderInv, EntriesAreUnique
  <2>3. ASSUME NEW d \in 1..numConfs', NEW i \in 1..Interfaces(d)'
        PROVE  \E k \in 1..Len(M) : \A j \in 1..Len(M) : IsInterface(M[j], d, i) <=> j = k
    <3>1. CASE i \in 1..Interfaces(d)
      BY <1>1, <1>14, <3>1
    <3>2. CASE i \notin 1..Interfaces(d)
      <4>1. d = c /\ i = N + 1
        BY <1>1, <1>4, <1>13, <2>3, <3>2
      <4> QED BY <1>15, <4>1
    <3> QED BY <3>1, <3>2
  <2>4. ASSUME NEW k \in 1..Len(M), M[k].type = "interf"
        PROVE  \E d \in 1..numConfs' : \E i \in 1..Interfaces(d)' : IsInterface(M[k], d, i)
    <3>1. CASE k \in 1..Len(L)
      <4>1. L[k].type = "interf"
        BY <1>11, <2>4, <3>1
      <4>2. PICK d \in 1..numConfs : \E i \in 1..Interfaces(d) : IsInterface(L[k], d, i)
        BY <3>1, <4>1 DEF BuilderInv, EntriesAreUnique
      <4>3. PICK i \in 1..Interfaces(d) : IsInterface(L[k], d, i)
        BY <4>2
      <4>4. i \in 1..Interfaces(d)'
        BY <1>4, <1>13
      <4> QED BY <1>1, <1>12, <3>1, <4>3, <4>4
    <3>2. CASE k = Len(L) + 1
      <4>1. N + 1 \in 1..Interfaces(c)'
        BY <1>4, <1>13
      <4>2. IsInterface(M[k], c, N + 1)
        BY <1>5, <1>8, <3>2 DEF IsInterface
      <4> QED BY <1>1, <4>1, <4>2
    <3> QED BY <1>9, <3>1, <3>2
  <2> QED BY <2>1, <2>2, <2>3, <2>4 DEF EntriesAreUnique, M
<1>17. ASSUME NEW w, IsNamed(w)
       PROVE  IsNamed(w)' /\ IndexOf(w)' = IndexOf(w)
  <2> USE IndexValues, IndexValuesNext DEF Indexes
  <2>1. CASE w = <<"language">> \/ \E which \in Kinds : w = <<which>>
    BY <1>1, <2>1 DEF IsNamed
  <2>2. ASSUME NEW d \in 1..numConfs, w = <<"conf", d>>
        PROVE  IsNamed(w)' /\ IndexOf(w)' = IndexOf(w)
    <3>1. IndexOf(w)' = M[TheConfig(d)'].name /\ IndexOf(w) = L[TheConfig(d)].name
      BY <2>2 DEF M
    <3>2. IsNamed(w)'
      BY <1>1, <2>2 DEF IsNamed
    <3>3. TheConfig(d) \in 1..Len(L) /\ L[TheConfig(d)].type # "endp"
      BY <1>3 DEF Searches, IsConfig
    <3>4. M[TheConfig(d)].name = L[TheConfig(d)].name
      BY <1>11, <3>3
    <3>5. TheConfig(d)' = TheConfig(d)
      BY <1>13
    <3> QED BY <3>1, <3>2, <3>4, <3>5
  <2>3. ASSUME NEW d \in 1..numConfs, NEW i \in 1..Interfaces(d), w = <<"interf", d, i>>
        PROVE  IsNamed(w)' /\ IndexOf(w)' = IndexOf(w)
    <3>1. IndexOf(w)' = M[TheInterface(d, i)'].name /\ IndexOf(w) = L[TheInterface(d, i)].name
      BY <2>3 DEF M
    <3>2. i \in 1..Interfaces(d)'
      BY <1>4, <1>13
    <3>3. IsNamed(w)'
      BY <1>1, <2>3, <3>2 DEF IsNamed
    <3>4. TheInterface(d, i) \in 1..Len(L) /\ L[TheInterface(d, i)].type # "endp"
      BY <1>3 DEF Searches, IsInterface
    <3>5. TheInterface(d, i)' = TheInterface(d, i)
      BY <1>14
    <3>6. M[TheInterface(d, i)].name = L[TheInterface(d, i)].name
      BY <1>11, <3>4
    <3> QED BY <3>1, <3>3, <3>5, <3>6
  <2>4. \/ w = <<"language">> \/ \E which \in Kinds : w = <<which>>
        \/ \E d \in 1..numConfs : w = <<"conf", d>>
        \/ \E d \in 1..numConfs : \E i \in 1..Interfaces(d) : w = <<"interf", d, i>>
    BY <1>17 DEF IsNamed
  <2> QED BY <2>1, <2>2, <2>3, <2>4
<1>18. numConfs' \in Nat /\ ids' \in [Kinds -> Nat] /\ M \in Seq(Entries)
  BY <1>1, <1>2, <1>8 DEF BuilderInv, BuilderTypeOK
<1> QED BY <1>1, <1>16, <1>17, <1>18, NoStringAdded DEF M

\* Steps that leave every configuration and interface its name.
LEMMA EntriesInv ==
  ASSUME BuilderInv, UNCHANGED <<StringList, deviceVars, given>>,
         UNCHANGED fields \/ stringField' = StringList,
         DescriptorList' \in Seq(Entries), Len(DescriptorList) <= Len(DescriptorList'),
         \A k \in 1..Len(DescriptorList) :
           /\ DescriptorList'[k].type = DescriptorList[k].type
           /\ DescriptorList[k].type # "endp" =>
                /\ DescriptorList'[k].conf = DescriptorList[k].conf
                /\ DescriptorList'[k].index = DescriptorList[k].index
                /\ DescriptorList'[k].name = DescriptorList[k].name
           /\ DescriptorList[k].type = "conf" =>
                DescriptorList'[k].count = DescriptorList[k].count,
         \A k \in (Len(DescriptorList) + 1)..Len(DescriptorList') :
           DescriptorList'[k].type = "endp"
  PROVE  BuilderInv'
<1>1. EntriesAreUnique' /\ SearchesKept
  <2>1. numConfs' = numConfs /\ Len(DescriptorList') \in Nat
    BY LenProperties DEF deviceVars
  <2> QED BY <2>1, EntriesKept DEF BuilderInv
<1>2. Searches
  BY EntriesFound DEF BuilderInv
<1>3. ASSUME NEW w, IsNamed(w)
      PROVE  IsNamed(w)' /\ IndexOf(w)' = IndexOf(w)
  <2>1. \A c \in 1..numConfs :
          DescriptorList'[TheConfig(c)].name = DescriptorList[TheConfig(c)].name
    BY <1>2 DEF Searches, IsConfig
  <2>2. \A c \in 1..numConfs : \A i \in 1..Interfaces(c) :
          DescriptorList'[TheInterface(c, i)].name = DescriptorList[TheInterface(c, i)].name
    BY <1>2 DEF Searches, IsInterface
  <2>3. ids' = ids
    BY DEF deviceVars
  <2>4. IsNamed(w)'
    BY <1>1, <1>3, NamedKept
  <2> QED BY <1>1, <1>3, <2>1, <2>2, <2>3, <2>4, IndexKept
<1>4. numConfs' \in Nat /\ ids' \in [Kinds -> Nat]
  BY DEF deviceVars, BuilderInv, BuilderTypeOK
<1> QED BY <1>1, <1>3, <1>4, NoStringAdded

LEMMA SettingInv ==
  ASSUME BuilderInv, NEW c, NEW i, NEW setting \in Settings, AlternateSetting(c, i, setting)
  PROVE  BuilderInv'
<1> DEFINE L == DescriptorList
           M == DescriptorList'
<1>1. /\ M = [k \in DOMAIN L |-> IF IsInterface(L[k], c, i)
                                 THEN [L[k] EXCEPT !.alt = setting] ELSE L[k]]
      /\ UNCHANGED <<StringList, deviceVars, given, fields>>
  BY DEF AlternateSetting, Update
<1>2. Len(L) \in Nat /\ DOMAIN L = 1..Len(L)
  BY LenProperties DEF BuilderInv, BuilderTypeOK
<1>3. ASSUME NEW k \in 1..Len(L)
      PROVE  /\ M[k] \in Entries
             /\ \A f \in {"type", "conf", "index", "count", "name"} :
                  L[k].type # "endp" \/ f = "type" => M[k][f] = L[k][f]
  <2>1. CASE IsInterface(L[k], c, i)
    <3>1. M[k] = [L[k] EXCEPT !.alt = setting] /\ L[k].type = "interf" /\ L[k] \in Entries
      BY <1>1, <1>2, <2>1, EntryAt DEF BuilderInv, IsInterface
    <3> QED BY <3>1, SettingChanges
  <2>2. CASE ~IsInterface(L[k], c, i)
    BY <1>1, <1>2, <2>2, EntryAt DEF BuilderInv
  <2> QED BY <2>1, <2>2
<1>4. M \in Seq(Entries) /\ Len(M) = Len(L)
  <2>1. M = [k \in 1..Len(L) |-> M[k]]
    BY <1>1, <1>2
  <2> HIDE DEF M
  <2>2. M \in [1..Len(L) -> Entries]
    BY <1>3, <2>1
  <2> QED BY <1>2, <2>2
<1> QED BY <1>1, <1>2, <1>3, <1>4, EntriesInv

\* An endpoint is counted with its interface.
LEMMA EndpointAdded ==
  ASSUME BuilderInv, NEW c \in 1..numConfs, NEW i \in 1..Interfaces(c), NEW ep \in Endpoints,
         AddEndpoint(c, i, ep)
  PROVE  BuilderInv'
<1> DEFINE L == DescriptorList
           M == DescriptorList'
           new == Endpoint(c, i, ep)
           U == [k \in DOMAIN L |-> IF IsInterface(L[k], c, i) THEN Increment(L[k]) ELSE L[k]]
<1>1. M = Append(U, new) /\ UNCHANGED <<StringList, deviceVars, given, fields>>
  BY DEF AddEndpoint, AddToList, Update
<1>2. Len(L) \in Nat /\ DOMAIN L = 1..Len(L) /\ numConfs \in Nat /\ Interfaces(c) \in Nat
  BY LenProperties, EntriesFound DEF BuilderInv, BuilderTypeOK, Searches
<1>3. new \in Entries /\ new.type = "endp"
  BY <1>2 DEF Endpoint, Entries, EndpointEntries
<1> HIDE DEF new
<1>4. ASSUME NEW k \in 1..Len(L)
      PROVE  /\ U[k] \in Entries
             /\ U[k].type = L[k].type
             /\ L[k].type # "endp" => /\ U[k].conf = L[k].conf /\ U[k].index = L[k].index
                                      /\ U[k].name = L[k].name
             /\ L[k].type = "conf" => U[k].count = L[k].count
  <2>1. CASE IsInterface(L[k], c, i)
    <3>1. U[k] = Increment(L[k])
      BY <1>2, <2>1
    <3>2. L[k].type = "interf" /\ L[k] \in Entries
      BY <2>1, EntryAt DEF BuilderInv, IsInterface
    <3>3. /\ U[k] \in Entries
          /\ \A f \in {"type", "conf", "index", "name", "alt"} : U[k][f] = L[k][f]
      BY <3>1, <3>2, CountChanges
    <3> QED BY <3>2, <3>3
  <2>2. CASE ~IsInterface(L[k], c, i)
    BY <1>2, <2>2, EntryAt DEF BuilderInv
  <2> QED BY <2>1, <2>2
<1>5. U \in Seq(Entries) /\ Len(U) = Len(L)
  <2>1. U = [k \in 1..Len(L) |-> U[k]]
    BY <1>2
  <2> HIDE DEF U
  <2>2. U \in [1..Len(L) -> Entries]
    BY <1>4, <2>1
  <2> QED BY <1>2, <2>2
<1> HIDE DEF U
<1>6. /\ M \in Seq(Entries) /\ Len(M) = Len(L) + 1 /\ M[Len(L) + 1] = new
      /\ \A k \in 1..Len(L) : M[k] = U[k]
  BY <1>1, <1>2, <1>3, <1>5, AppendProperties
<1>7. \A k \in (Len(L) + 1)..Len(M) : M[k].type = "endp"
  <2>1. \A k \in (Len(L) + 1)..Len(M) : k = Len(L) + 1
    BY <1>2, <1>6
  <2> QED BY <1>3, <1>6, <2>1
<1>8. Len(L) <= Len(M)
  BY <1>2, <1>6
<1> QED BY <1>1, <1>4, <1>6, <1>7, <1>8, EntriesInv

\* USBNStart copies the strings.
LEMMA BuildInv ==
  ASSUME BuilderInv, Build
  PROVE  BuilderInv'
<1>1. /\ UNCHANGED <<DescriptorList, StringList, deviceVars, given>>
      /\ stringField' = StringList
  BY DEF Build, CreateStringField
<1>2. Len(DescriptorList) \in Nat /\ DescriptorList \in Seq(Entries)
  BY LenProperties DEF BuilderInv, BuilderTypeOK
<1> QED BY <1>1, <1>2, EntriesInv

LEMMA BuilderInitInv == BuilderInit => BuilderInv
<1> SUFFICES ASSUME BuilderInit PROVE BuilderInv
  OBVIOUS
<1>1. /\ DescriptorList = <<>> /\ StringList = <<>> /\ numConfs = 0 /\ DOMAIN given = {}
      /\ ids \in [Kinds -> Nat] /\ ~built
  BY DEF BuilderInit, Kinds
<1>2. BuilderTypeOK
  BY <1>1 DEF BuilderTypeOK
<1>3. EntriesAreUnique
  BY <1>1 DEF EntriesAreUnique
<1>4. NamesListed
  BY <1>1 DEF NamesListed
<1> QED BY <1>1, <1>2, <1>3, <1>4 DEF BuilderInv

LEMMA BuilderNextInv == BuilderInv /\ BuilderNext => BuilderInv'
<1> SUFFICES ASSUME BuilderInv, BuilderNext PROVE BuilderInv'
  OBVIOUS
<1>1. DOMAIN ids = Kinds
  BY DEF BuilderInv, BuilderTypeOK
<1>2. ASSUME NEW name \in Names,
             \/ AddLanguage(name)
             \/ \E which \in DOMAIN ids : NameDevice(which, name)
             \/ \E c \in 1..numConfs :
                  \/ ConfigurationName(c, name)
                  \/ \E i \in 1..Interfaces(c) : InterfaceName(c, i, name)
      PROVE  BuilderInv'
  BY <1>1, <1>2, DeviceNamed, NamingInv
<1>3. ASSUME NEW c \in 1..numConfs, NEW i \in 1..Interfaces(c), NEW ep \in Endpoints,
             \/ \E fkt \in Functions : AddOutEndpoint(c, i, ep, fkt)
             \/ \E fkt \in Functions \cup {NoFunction} : AddInEndpoint(c, i, ep, fkt)
      PROVE  BuilderInv'
  <2>1. AddEndpoint(c, i, ep)
    BY <1>3 DEF AddOutEndpoint, AddInEndpoint
  <2> QED BY <2>1, EndpointAdded
<1> QED BY <1>2, <1>3, ConfigurationAdded, InterfaceAdded, SettingInv, BuildInv DEF BuilderNext

LEMMA BuilderStutter == BuilderInv /\ UNCHANGED builderVars => BuilderInv'
<1> SUFFICES ASSUME BuilderInv, UNCHANGED builderVars PROVE BuilderInv'
  OBVIOUS
<1>1. UNCHANGED <<DescriptorList, StringList, deviceVars, given>> /\ UNCHANGED fields
  BY DEF builderVars
<1>2. Len(DescriptorList) \in Nat /\ DescriptorList \in Seq(Entries)
  BY LenProperties DEF BuilderInv, BuilderTypeOK
<1> QED BY <1>1, <1>2, EntriesInv

\* The name given to the device, a configuration or an interface is the one the host
\* finds at the index in its descriptor (USBNAddToStringList returns it), for every
\* set of names and for calls in any order, if the language came first.
THEOREM NamesAreFound == BuilderSpec => []NamesFound
<1>1. BuilderInv /\ [BuilderNext]_builderVars => BuilderInv'
  BY BuilderNextInv, BuilderStutter
<1>2. BuilderInv => NamesFound
  <2> SUFFICES ASSUME BuilderInv, built, <<"language">> \in DOMAIN given,
                      NEW who \in DOMAIN given
               PROVE  LET string == stringField[IndexOf(who) + 1] IN
                      /\ string.name = given[who]
                      /\ given[who].chars < 127 => string.len = 2 * given[who].chars + 2
    BY DEF NamesFound
  <2>1. stringField[IndexOf(who) + 1] = StringDescriptor(given[who])
    BY DEF BuilderInv, NamesListed
  <2>2. given[who].chars \in Nat
    BY DescriptorsAssumption DEF BuilderInv, BuilderTypeOK
  <2> QED BY <2>1, <2>2 DEF StringDescriptor
<1> QED BY <1>1, <1>2, BuilderInitInv, PTL DEF BuilderSpec

-----------------------------------------------------------------------------
(* The fields of the descriptor builder                                     *)

InterfacePlaces(t) == {k \in DOMAIN t : t[k].type = "interf"}

\* An interface and its endpoints.
Branch(p, i) ==
  /\ Len(p) > 0
  /\ p[1].type = "interf" /\ p[1].index = i /\ p[1].count = Len(p) - 1
  /\ \A k \in 2..Len(p) : p[k].type = "endp" /\ p[k].interf = i

\* Such parts for the interfaces 1..n.
Grown(t, n) ==
  /\ Cardinality(InterfacePlaces(t)) = n
  /\ \A k \in InterfacePlaces(t) :
       /\ t[k].index = Cardinality({j \in InterfacePlaces(t) : j <= k})
       /\ t[k].count \in Nat /\ k + t[k].count <= Len(t)
       /\ k + t[k].count < Len(t) => k + t[k].count + 1 \in InterfacePlaces(t)
       /\ \A x \in (k + 1)..(k + t[k].count) : t[x].type = "endp" /\ t[x].interf = t[k].index

\* One interface more.
LEMMA GrownNext ==
  ASSUME NEW S, NEW t \in Seq(S), NEW n \in Nat, Grown(t, n),
         NEW p \in Seq(S), Branch(p, n + 1)
  PROVE  Grown(t \o p, n + 1)
<1> DEFINE u == t \o p
           I == InterfacePlaces(t)
           J == InterfacePlaces(u)
           len == Len(t)
<1>1. /\ u \in Seq(S) /\ len \in Nat /\ Len(p) \in Nat /\ Len(u) = len + Len(p)
      /\ \A k \in 1..(len + Len(p)) : u[k] = IF k <= len THEN t[k] ELSE p[k - len]
      /\ DOMAIN u = 1..Len(u) /\ DOMAIN t = 1..len
  BY ConcatProperties, LenProperties
<1> HIDE DEF u
<1>2. /\ \A k \in 1..len : k \in 1..Len(u) /\ u[k] = t[k]
      /\ \A k \in 1..Len(p) : len + k \in 1..Len(u) /\ u[len + k] = p[k]
      /\ \A k \in 1..Len(u) : k \in 1..len \/ \E j \in 1..Len(p) : k = len + j
  <2> HIDE DEF len
  <2>1. ASSUME NEW k \in 1..len PROVE k \in 1..Len(u) /\ u[k] = t[k]
    BY <1>1, <2>1
  <2>2. ASSUME NEW k \in 1..Len(p) PROVE len + k \in 1..Len(u) /\ u[len + k] = p[k]
    <3>1. len + k \in 1..(len + Len(p)) /\ ~(len + k <= len) /\ (len + k) - len = k
      BY <1>1, <2>2
    <3> QED BY <1>1, <3>1
  <2>3. ASSUME NEW k \in 1..Len(u), k \notin 1..len PROVE \E j \in 1..Len(p) : k = len + j
    <3>1. k - len \in 1..Len(p) /\ k = len + (k - len)
      BY <1>1, <2>3
    <3> QED BY <3>1
  <2> QED BY <2>1, <2>2, <2>3
<1> HIDE DEF len
<1>3. /\ Len(p) > 0 /\ 1 \in 1..Len(p)
      /\ p[1].type = "interf" /\ p[1].index = n + 1 /\ p[1].count = Len(p) - 1
      /\ \A k \in 2..Len(p) : p[k].type = "endp" /\ p[k].interf = n + 1
  BY <1>1 DEF Branch
<1>4. J = I \cup {len + 1} /\ len + 1 \notin I /\ I \subseteq 1..len
  <2>1. I = {k \in 1..len : t[k].type = "interf"} /\ J = {k \in 1..Len(u) : u[k].type = "interf"}
    BY <1>1 DEF InterfacePlaces
  <2>2. \A k \in 1..Len(p) : len + k \in J <=> k = 1
    <3>1. \A k \in 1..Len(p) : k = 1 \/ k \in 2..Len(p)
      BY <1>1
    <3> QED BY <1>2, <1>3, <2>1, <3>1
  <2>3. \A k \in 1..len : k \in J <=> k \in I
    BY <1>2, <2>1
  <2>4. len + 1 \in J /\ len + 1 \notin I
    BY <1>1, <1>3, <2>1, <2>2
  <2>5. I \subseteq 1..len /\ J \subseteq 1..Len(u)
    BY <2>1
  <2>6. ASSUME NEW k \in J PROVE k \in I \/ k = len + 1
    BY <1>2, <2>2, <2>3, <2>5
  <2>7. ASSUME NEW k \in I PROVE k \in J
    BY <2>3, <2>5
  <2> QED BY <2>4, <2>5, <2>6, <2>7
<1>5. IsFiniteSet(I) /\ Cardinality(I) = n /\ IsFiniteSet(J) /\ Cardinality(J) = n + 1
  <2>1. IsFiniteSet(I)
    <3>1. IsFiniteSet(1..len)
      BY <1>1, FS_Interval
    <3> HIDE DEF I
    <3> QED BY <1>4, <3>1, FS_Subset
  <2>2. Cardinality(I) = n
    BY DEF Grown
  <2> HIDE DEF I, J
  <2> QED BY <1>4, <2>1, <2>2, FS_AddElement
<1>6. ASSUME NEW k \in J
      PROVE  /\ u[k].index = Cardinality({j \in J : j <= k})
             /\ u[k].count \in Nat /\ k + u[k].count <= Len(u)
             /\ k + u[k].count < Len(u) => k + u[k].count + 1 \in J
             /\ \A x \in (k + 1)..(k + u[k].count) : u[x].type = "endp" /\ u[x].interf = u[k].index
  <2>1. CASE k \in I
    <3>1. u[k] = t[k] /\ k \in 1..len
      BY <1>2, <1>4, <2>1
    <3>2. {j \in J : j <= k} = {j \in I : j <= k}
      <4> HIDE DEF I, J
      <4> QED BY <1>1, <1>4, <3>1
    <3>3. /\ t[k].index = Cardinality({j \in I : j <= k})
          /\ t[k].count \in Nat /\ k + t[k].count <= len
          /\ k + t[k].count < len => k + t[k].count + 1 \in I
          /\ \A x \in (k + 1)..(k + t[k].count) : t[x].type = "endp" /\ t[x].interf = t[k].index
      BY <2>1 DEF Grown, len
    <3> HIDE DEF I, J
    <3>4. k + t[k].count < Len(u) => k + t[k].count + 1 \in J
      <4>1. CASE k + t[k].count < len
        BY <1>4, <3>3, <4>1
      <4>2. CASE k + t[k].count = len
        BY <1>4, <4>2
      <4>3. k + t[k].count < len \/ k + t[k].count = len
        <5>1. k + t[k].count \in Nat /\ len \in Nat /\ k + t[k].count <= len
          BY <1>1, <3>1, <3>3
        <5> HIDE DEF len
        <5> QED BY <5>1
      <4> QED BY <4>1, <4>2, <4>3
    <3>5. k + t[k].count <= Len(u)
      BY <1>1, <3>1, <3>3
    <3>6. \A x \in (k + 1)..(k + t[k].count) : u[x] = t[x]
      <4>1. \A x \in (k + 1)..(k + t[k].count) : x \in 1..len
        BY <1>1, <3>1, <3>3
      <4> QED BY <1>2, <4>1
    <3> QED BY <3>1, <3>2, <3>3, <3>4, <3>5, <3>6
  <2>2. CASE k = len + 1
    <3>1. u[k] = p[1]
      BY <1>2, <1>3, <2>2
    <3>2. {j \in J : j <= k} = J
      <4>1. \A j \in 1..len : j <= k
        BY <1>1, <2>2
      <4>2. len + 1 <= k
        BY <1>1, <2>2
      <4> HIDE DEF I, J
      <4>3. \A j \in J : j <= k
        BY <1>4, <4>1, <4>2
      <4> QED BY <4>3
    <3>3. k + u[k].count = Len(u) /\ u[k].count \in Nat
      <4>1. u[k].count = Len(p) - 1
        BY <1>3, <3>1
      <4>2. Len(u) = len + Len(p) /\ len \in Nat /\ Len(p) \in Nat /\ Len(p) > 0
        BY <1>1, <1>3
      <4> QED BY <2>2, <4>1, <4>2
    <3>4. ASSUME NEW x \in (k + 1)..(k + u[k].count)
          PROVE  u[x].type = "endp" /\ u[x].interf = u[k].index
      <4> DEFINE y == x - len
      <4>1. y \in 2..Len(p) /\ y \in 1..Len(p) /\ x = len + y
        BY <1>1, <1>3, <2>2, <3>1
      <4> HIDE DEF y
      <4>2. u[x] = p[y]
        BY <1>2, <4>1
      <4>3. p[y].type = "endp" /\ p[y].interf = n + 1 /\ u[k].index = n + 1
        BY <1>3, <3>1, <4>1
      <4> QED BY <4>2, <4>3
    <3> HIDE DEF I, J
    <3>5. u[k].index = Cardinality({j \in J : j <= k})
      BY <1>3, <1>5, <3>1, <3>2
    <3>6. k + u[k].count <= Len(u) /\ ~(k + u[k].count < Len(u))
      BY <1>1, <3>3
    <3> QED BY <3>3, <3>4, <3>5, <3>6
  <2> HIDE DEF I, J
  <2> QED BY <1>4, <2>1, <2>2
<1> QED BY <1>5, <1>6 DEF Grown, u

\* A tree from such parts.
LEMMA TreeGrows ==
  ASSUME NEW S, NEW N \in Nat, NEW parts \in [1..N -> Seq(S)],
         \A n \in 1..N : Branch(parts[n], n)
  PROVE  Grown(FlattenSeq(parts), N)
<1>1. PICK f : Joins(f, S, N, parts) /\ FlattenSeq(parts) = f[N]
  BY FlattenSteps
<1>2. f[0] = <<>>
  BY <1>1 DEF Joins
<1> DEFINE Is(n) == n <= N => Grown(f[n], n)
           T == {n \in Nat : Is(n)}
<1>3. Is(0)
  <2>1. InterfacePlaces(f[0]) = {}
    BY <1>2 DEF InterfacePlaces
  <2> QED BY <2>1, FS_EmptySet DEF Grown
<1>4. ASSUME NEW n \in Nat, Is(n) PROVE Is(n + 1)
  <2>1. SUFFICES ASSUME n + 1 <= N PROVE Grown(f[n + 1], n + 1)
    OBVIOUS
  <2>2. Follows(S, f, n, parts)
    BY <1>1, <2>1, JoinsNext
  <2>3. Grown(f[n], n) /\ Branch(parts[n + 1], n + 1)
    BY <1>4, <2>1
  <2> DEFINE t == f[n]
             p == parts[n + 1]
             u == f[n + 1]
  <2>4. t \in Seq(S) /\ p \in Seq(S) /\ u = t \o p
    BY <2>2 DEF Follows
  <2>5. Grown(t, n) /\ Branch(p, n + 1)
    BY <2>3
  <2> HIDE DEF t, p, u
  <2>6. Grown(u, n + 1)
    BY <2>4, <2>5, GrownNext
  <2> QED BY <2>6 DEF u
<1> HIDE DEF Is
<1>5. 0 \in T /\ \A n \in Nat : n \in T => n + 1 \in T
  BY <1>3, <1>4
<1>6. Is(N)
  <2>1. Nat \subseteq T
    <3> HIDE DEF T
    <3> QED BY <1>5, SetInduction, Zenon
  <2> QED BY <2>1
<1> QED BY <1>1, <1>6 DEF Is

\* The calls keep count of an interface's endpoints, and an endpoint goes to an
\* interface there is.
EndpointPlaces(list, c, i) == {x \in 1..Len(list) : IsEndpoint(list[x], c, i)}

EndpointsCounted ==
  \A k \in 1..Len(DescriptorList) :
    /\ DescriptorList[k].type = "interf" =>
         DescriptorList[k].count =
           Cardinality(EndpointPlaces(DescriptorList, DescriptorList[k].conf, DescriptorList[k].index))
    /\ DescriptorList[k].type = "endp" =>
         \E c \in 1..numConfs :
           DescriptorList[k].conf = c /\ DescriptorList[k].interf \in 1..Interfaces(c)

LEMMA PlacesFinite ==
  ASSUME BuilderTypeOK, NEW c, NEW i
  PROVE  /\ IsFiniteSet(EndpointPlaces(DescriptorList, c, i))
         /\ IsFiniteSet({k \in 1..Len(DescriptorList) : DescriptorList[k].conf = c})
         /\ IsFiniteSet({k \in 1..Len(DescriptorList) : DescriptorList[k].type = i})
<1>1. IsFiniteSet(1..Len(DescriptorList))
  BY LenProperties, FS_Interval DEF BuilderTypeOK
<1> QED BY <1>1, FS_Subset DEF EndpointPlaces

LEMMA EntriesFoundNext == BuilderTypeOK' /\ EntriesAreUnique' => Searches'
BY EntriesFound, PTL

\* No call takes an interface away.
LEMMA InterfacesGrow ==
  ASSUME BuilderInv, BuilderInv', numConfs <= numConfs',
         Len(DescriptorList) <= Len(DescriptorList'),
         \A k \in 1..Len(DescriptorList) : DescriptorList[k].type = "conf" =>
           /\ DescriptorList'[k].type = "conf"
           /\ DescriptorList'[k].index = DescriptorList[k].index
           /\ DescriptorList[k].count <= DescriptorList'[k].count
  PROVE  \A c \in 1..numConfs :
           /\ c \in 1..numConfs'
           /\ Interfaces(c) \in Nat /\ Interfaces(c)' \in Nat /\ Interfaces(c) <= Interfaces(c)'
<1> SUFFICES ASSUME NEW c \in 1..numConfs
             PROVE  /\ c \in 1..numConfs'
                    /\ Interfaces(c) \in Nat /\ Interfaces(c)' \in Nat
                    /\ Interfaces(c) <= Interfaces(c)'
  OBVIOUS
<1> DEFINE k == TheConfig(c)
<1>1. Len(DescriptorList) \in Nat /\ Len(DescriptorList') \in Nat
  BY LenProperties DEF BuilderInv, BuilderTypeOK
<1>2. Searches /\ Searches'
  BY EntriesFound, EntriesFoundNext DEF BuilderInv
<1>3. c \in 1..numConfs'
  BY DEF BuilderInv, BuilderTypeOK
<1>4. k \in 1..Len(DescriptorList) /\ IsConfig(DescriptorList[k], c) /\ Interfaces(c) \in Nat
  BY <1>2 DEF Searches
<1>5. k \in 1..Len(DescriptorList') /\ IsConfig(DescriptorList'[k], c)
  BY <1>1, <1>4 DEF IsConfig
<1>6. /\ \A j \in 1..Len(DescriptorList') : IsConfig(DescriptorList'[j], c) => j = TheConfig(c)'
      /\ Interfaces(c)' \in Nat
  BY <1>2, <1>3 DEF Searches
<1>7. TheConfig(c)' = k
  <2> HIDE DEF k
  <2> QED BY <1>5, <1>6
<1>8. Interfaces(c) = DescriptorList[k].count /\ Interfaces(c)' = DescriptorList'[k].count
  BY <1>7 DEF Interfaces
<1> QED BY <1>3, <1>4, <1>6, <1>8 DEF IsConfig

\* Steps that add no endpoint, and interfaces only without endpoints.
LEMMA CountsKept ==
  ASSUME BuilderInv, BuilderInv', EndpointsCounted, numConfs <= numConfs',
         Len(DescriptorList) <= Len(DescriptorList'),
         \A k \in 1..Len(DescriptorList) :
           /\ DescriptorList'[k].type = DescriptorList[k].type
           /\ DescriptorList[k].type = "endp" => DescriptorList'[k] = DescriptorList[k]
           /\ DescriptorList[k].type = "conf" =>
                /\ DescriptorList'[k].index = DescriptorList[k].index
                /\ DescriptorList[k].count <= DescriptorList'[k].count
           /\ DescriptorList[k].type = "interf" =>
                /\ DescriptorList'[k].conf = DescriptorList[k].conf
                /\ DescriptorList'[k].index = DescriptorList[k].index
                /\ DescriptorList'[k].count = DescriptorList[k].count,
         \A k \in (Len(DescriptorList) + 1)..Len(DescriptorList') :
           /\ DescriptorList'[k].type \in {"conf", "interf"}
           /\ DescriptorList'[k].type = "interf" =>
                /\ DescriptorList'[k].count = 0
                /\ EndpointPlaces(DescriptorList, DescriptorList'[k].conf, DescriptorList'[k].index) = {}
  PROVE  EndpointsCounted'
<1> DEFINE L == DescriptorList
           M == DescriptorList'
<1>1. Len(L) \in Nat /\ Len(M) \in Nat
  BY LenProperties DEF BuilderInv, BuilderTypeOK
<1>2. \A k \in 1..Len(M) : k \in 1..Len(L) \/ k \in (Len(L) + 1)..Len(M)
  BY <1>1
<1>3. \A k \in 1..Len(L) : k \in 1..Len(M)
  BY <1>1
<1>4. ASSUME NEW c, NEW i PROVE EndpointPlaces(M, c, i) = EndpointPlaces(L, c, i)
  <2>1. \A x \in 1..Len(M) : IsEndpoint(M[x], c, i) => x \in 1..Len(L) /\ IsEndpoint(L[x], c, i)
    BY <1>2 DEF IsEndpoint
  <2>2. \A x \in 1..Len(L) : IsEndpoint(L[x], c, i) => x \in 1..Len(M) /\ IsEndpoint(M[x], c, i)
    BY <1>3 DEF IsEndpoint
  <2> QED BY <2>1, <2>2 DEF EndpointPlaces
<1>5. ASSUME NEW k \in 1..Len(M), M[k].type = "interf"
      PROVE  M[k].count = Cardinality(EndpointPlaces(M, M[k].conf, M[k].index))
  <2>1. CASE k \in 1..Len(L)
    BY <1>4, <1>5, <2>1 DEF EndpointsCounted
  <2>2. CASE k \in (Len(L) + 1)..Len(M)
    <3>1. M[k].count = 0 /\ EndpointPlaces(L, M[k].conf, M[k].index) = {}
      BY <1>5, <2>2
    <3>2. EndpointPlaces(M, M[k].conf, M[k].index) = {}
      BY <1>4, <3>1
    <3> QED BY <3>1, <3>2, FS_EmptySet
  <2> QED BY <1>2, <2>1, <2>2
<1>6. ASSUME NEW k \in 1..Len(M), M[k].type = "endp"
      PROVE  \E c \in 1..numConfs' : M[k].conf = c /\ M[k].interf \in 1..Interfaces(c)'
  <2>1. k \in 1..Len(L) /\ M[k] = L[k]
    BY <1>2, <1>6
  <2>2. PICK c \in 1..numConfs : L[k].conf = c /\ L[k].interf \in 1..Interfaces(c)
    BY <1>6, <2>1 DEF EndpointsCounted
  <2>3. /\ c \in 1..numConfs' /\ Interfaces(c) \in Nat
        /\ Interfaces(c)' \in Nat /\ Interfaces(c) <= Interfaces(c)'
    <3>1. \A d \in 1..numConfs : /\ d \in 1..numConfs' /\ Interfaces(d) \in Nat
                                 /\ Interfaces(d)' \in Nat /\ Interfaces(d) <= Interfaces(d)'
      BY InterfacesGrow
    <3> QED BY <3>1
  <2>4. L[k].interf \in 1..Interfaces(c)'
    BY <2>2, <2>3
  <2> QED BY <2>1, <2>2, <2>3, <2>4
<1> QED BY <1>5, <1>6 DEF EndpointsCounted

\* An endpoint is counted with its interface and no other.
LEMMA EndpointCounted ==
  ASSUME BuilderInv, BuilderInv', EndpointsCounted,
         NEW c \in 1..numConfs, NEW i \in 1..Interfaces(c), NEW ep \in Endpoints,
         AddEndpoint(c, i, ep)
  PROVE  EndpointsCounted'
<1> DEFINE L == DescriptorList
           M == DescriptorList'
           new == Endpoint(c, i, ep)
           U == [k \in DOMAIN L |-> IF IsInterface(L[k], c, i) THEN Increment(L[k]) ELSE L[k]]
<1>1. M = Append(U, new) /\ numConfs' = numConfs
  BY DEF AddEndpoint, AddToList, Update, deviceVars
<1>2. /\ L \in Seq(Entries) /\ Len(L) \in Nat /\ DOMAIN L = 1..Len(L)
      /\ \A d \in 1..numConfs : Interfaces(d) \in Nat
  BY LenProperties, EntriesFound DEF BuilderInv, BuilderTypeOK, Searches
<1>3. new.type = "endp" /\ new.conf = c /\ new.interf = i
  BY DEF Endpoint
<1> HIDE DEF new
<1>4. ASSUME NEW k \in 1..Len(L)
      PROVE  /\ U[k] \in Entries
             /\ U[k].type = L[k].type
             /\ ~IsInterface(L[k], c, i) => U[k] = L[k]
             /\ IsInterface(L[k], c, i) =>
                  /\ U[k].conf = L[k].conf /\ U[k].index = L[k].index
                  /\ U[k].count = L[k].count + 1
  <2>1. CASE IsInterface(L[k], c, i)
    <3>1. U[k] = Increment(L[k]) /\ L[k].type # "endp" /\ L[k] \in Entries
      BY <1>2, <2>1, EntryAt DEF BuilderInv, IsInterface
    <3>2. /\ U[k] \in Entries /\ U[k].count = L[k].count + 1
          /\ \A f \in {"type", "conf", "index", "name", "alt"} : U[k][f] = L[k][f]
      BY <3>1, CountChanges
    <3> QED BY <2>1, <3>2
  <2>2. CASE ~IsInterface(L[k], c, i)
    BY <1>2, <2>2, EntryAt DEF BuilderInv
  <2> QED BY <2>1, <2>2
<1>5. U \in Seq(Entries) /\ Len(U) = Len(L)
  <2>1. U = [k \in 1..Len(L) |-> U[k]]
    BY <1>2
  <2> HIDE DEF U
  <2>2. U \in [1..Len(L) -> Entries]
    BY <1>4, <2>1
  <2> QED BY <1>2, <2>2
<1> HIDE DEF U
<1>6. /\ Len(M) = Len(L) + 1 /\ M[Len(L) + 1] = new
      /\ \A k \in 1..Len(L) : M[k] = U[k]
  <2>1. new \in Entries
    <3>1. c \in Nat /\ i \in Nat
      BY <1>2 DEF BuilderInv, BuilderTypeOK
    <3> QED BY <3>1 DEF new, Endpoint, Entries, EndpointEntries
  <2> QED BY <1>1, <1>2, <1>5, <2>1, AppendProperties
<1> HIDE DEF M
<1>7. /\ \A k \in 1..Len(M) : k \in 1..Len(L) \/ k = Len(L) + 1
      /\ \A k \in 1..Len(L) : k \in 1..Len(M)
      /\ Len(L) + 1 \in 1..Len(M) /\ Len(L) + 1 \notin 1..Len(L)
  BY <1>2, <1>6
<1>8. \A d, e : \A k \in 1..Len(L) : IsEndpoint(M[k], d, e) <=> IsEndpoint(L[k], d, e)
  <2> SUFFICES ASSUME NEW d, NEW e, NEW k \in 1..Len(L)
               PROVE  IsEndpoint(M[k], d, e) <=> IsEndpoint(L[k], d, e)
    OBVIOUS
  <2> QED BY <1>4, <1>6 DEF IsEndpoint, IsInterface
<1>9. \A d, e : EndpointPlaces(M, d, e) = IF d = c /\ e = i
                                          THEN EndpointPlaces(L, d, e) \cup {Len(L) + 1}
                                          ELSE EndpointPlaces(L, d, e)
  <2> SUFFICES ASSUME NEW d, NEW e
               PROVE  EndpointPlaces(M, d, e) = IF d = c /\ e = i
                                                THEN EndpointPlaces(L, d, e) \cup {Len(L) + 1}
                                                ELSE EndpointPlaces(L, d, e)
    OBVIOUS
  <2>1. IsEndpoint(M[Len(L) + 1], d, e) <=> d = c /\ e = i
    BY <1>3, <1>6 DEF IsEndpoint
  <2> QED BY <1>7, <1>8, <2>1 DEF EndpointPlaces
<1>10. ASSUME NEW k \in 1..Len(M), M[k].type = "interf"
       PROVE  M[k].count = Cardinality(EndpointPlaces(M, M[k].conf, M[k].index))
  <2>1. k \in 1..Len(L) /\ L[k].type = "interf"
    BY <1>3, <1>4, <1>6, <1>7, <1>10
  <2> DEFINE P == EndpointPlaces(L, L[k].conf, L[k].index)
  <2>2. L[k].count = Cardinality(P) /\ M[k].conf = L[k].conf /\ M[k].index = L[k].index
    BY <1>4, <1>6, <2>1 DEF EndpointsCounted
  <2>3. IsFiniteSet(P) /\ Len(L) + 1 \notin P
    <3>1. \A d, e : IsFiniteSet(EndpointPlaces(L, d, e)) /\ Len(L) + 1 \notin EndpointPlaces(L, d, e)
      BY <1>7, PlacesFinite DEF BuilderInv, EndpointPlaces
    <3> QED BY <3>1
  <2>4. CASE L[k].conf = c /\ L[k].index = i
    <3>1. M[k].count = L[k].count + 1
      BY <1>4, <1>6, <2>1, <2>4 DEF IsInterface
    <3>2. EndpointPlaces(M, M[k].conf, M[k].index) = P \cup {Len(L) + 1}
      BY <1>9, <2>2, <2>4
    <3> HIDE DEF P
    <3> QED BY <2>2, <2>3, <3>1, <3>2, FS_AddElement
  <2>5. CASE ~(L[k].conf = c /\ L[k].index = i)
    <3>1. M[k] = L[k]
      BY <1>4, <1>6, <2>1, <2>5 DEF IsInterface
    <3>2. EndpointPlaces(M, M[k].conf, M[k].index) = P
      BY <1>9, <2>2, <2>5
    <3> QED BY <2>2, <3>1, <3>2
  <2> QED BY <2>4, <2>5
<1>11. \A d \in 1..numConfs : /\ Interfaces(d) \in Nat
                              /\ Interfaces(d)' \in Nat /\ Interfaces(d) <= Interfaces(d)'
  <2>1. Len(L) <= Len(M) /\ numConfs <= numConfs'
    BY <1>1, <1>2, <1>6 DEF BuilderInv, BuilderTypeOK
  <2>2. ASSUME NEW k \in 1..Len(L), L[k].type = "conf"
        PROVE  M[k].type = "conf" /\ M[k].index = L[k].index /\ L[k].count <= M[k].count
    <3>1. M[k] = L[k] /\ L[k].count \in Nat
      BY <1>4, <1>6, <2>2, EntryAt DEF IsInterface, BuilderInv
    <3> QED BY <2>2, <3>1
  <2> QED BY <2>1, <2>2, InterfacesGrow DEF M
<1>12. ASSUME NEW k \in 1..Len(M), M[k].type = "endp"
       PROVE  \E d \in 1..numConfs' : M[k].conf = d /\ M[k].interf \in 1..Interfaces(d)'
  <2>1. CASE k \in 1..Len(L)
    <3>1. M[k] = L[k]
      BY <1>4, <1>6, <1>12, <2>1 DEF IsInterface
    <3>2. PICK d \in 1..numConfs : L[k].conf = d /\ L[k].interf \in 1..Interfaces(d)
      BY <1>12, <2>1, <3>1 DEF EndpointsCounted
    <3>3. L[k].interf \in 1..Interfaces(d)'
      BY <1>11, <3>2
    <3> QED BY <1>1, <3>1, <3>2, <3>3
  <2>2. CASE k = Len(L) + 1
    <3>1. i \in 1..Interfaces(c)'
      BY <1>11
    <3> QED BY <1>1, <1>3, <1>6, <2>2, <3>1
  <2> QED BY <1>7, <2>1, <2>2
<1> QED BY <1>10, <1>12 DEF EndpointsCounted, M

LEMMA ConfigurationCounted ==
  ASSUME BuilderInv, BuilderInv', EndpointsCounted, AddConfiguration
  PROVE  EndpointsCounted'
<1> DEFINE L == DescriptorList
           M == DescriptorList'
           new == Config(numConfs + 1)
<1>1. M = Append(L, new) /\ numConfs' = numConfs + 1
  BY DEF AddConfiguration, AddToList
<1>2. L \in Seq(Entries) /\ Len(L) \in Nat /\ numConfs \in Nat
  BY LenProperties DEF BuilderInv, BuilderTypeOK
<1>3. new \in Entries /\ new.type = "conf"
  BY <1>2 DEF Config, Entries, ConfigEntries
<1> HIDE DEF new
<1>4. Len(M) = Len(L) + 1 /\ M[Len(L) + 1] = new /\ \A k \in 1..Len(L) : M[k] = L[k]
  BY <1>1, <1>2, <1>3, AppendProperties
<1> HIDE DEF M
<1>5. \A k \in (Len(L) + 1)..Len(M) : M[k].type = "conf"
  <2>1. \A k \in (Len(L) + 1)..Len(M) : k = Len(L) + 1
    BY <1>2, <1>4
  <2> QED BY <1>3, <1>4, <2>1
<1>6. \A k \in 1..Len(L) : L[k].type = "conf" => L[k].count <= M[k].count
  BY <1>4, EntryAt DEF BuilderInv
<1>7. numConfs <= numConfs' /\ Len(L) <= Len(M)
  BY <1>1, <1>2, <1>4
<1> QED BY <1>4, <1>5, <1>6, <1>7, CountsKept DEF M

\* A new interface has no endpoints.
LEMMA InterfaceCounted ==
  ASSUME BuilderInv, BuilderInv', EndpointsCounted, NEW c \in 1..numConfs, AddInterface(c)
  PROVE  EndpointsCounted'
<1> DEFINE L == DescriptorList
           M == DescriptorList'
           new == Interface(c, Interfaces(c) + 1)
           U == [k \in DOMAIN L |-> IF IsConfig(L[k], c) THEN Increment(L[k]) ELSE L[k]]
<1>1. M = Append(U, new) /\ numConfs' = numConfs
  BY DEF AddInterface, AddToList, Update, deviceVars
<1>2. /\ L \in Seq(Entries) /\ Len(L) \in Nat /\ DOMAIN L = 1..Len(L)
      /\ numConfs \in Nat /\ c \in Nat /\ Interfaces(c) \in Nat
  BY LenProperties, EntriesFound DEF BuilderInv, BuilderTypeOK, Searches
<1>3. /\ new \in Entries /\ new.type = "interf" /\ new.conf = c
      /\ new.index = Interfaces(c) + 1 /\ new.count = 0
  BY <1>2 DEF Interface, Entries, InterfaceEntries
<1> HIDE DEF new
<1>4. ASSUME NEW k \in 1..Len(L)
      PROVE  /\ U[k] \in Entries
             /\ U[k].type = L[k].type
             /\ L[k].type # "conf" => U[k] = L[k]
             /\ L[k].type = "conf" => U[k].index = L[k].index /\ L[k].count <= U[k].count
  <2>1. CASE IsConfig(L[k], c)
    <3>1. /\ U[k] = Increment(L[k]) /\ L[k].type = "conf" /\ L[k] \in Entries
          /\ L[k].count \in Nat
      BY <1>2, <2>1, EntryAt DEF BuilderInv, IsConfig
    <3>2. /\ U[k] \in Entries /\ U[k].count = L[k].count + 1
          /\ \A f \in {"type", "conf", "index", "name", "alt"} : U[k][f] = L[k][f]
      BY <3>1, CountChanges
    <3> QED BY <3>1, <3>2
  <2>2. CASE ~IsConfig(L[k], c)
    BY <1>2, <2>2, EntryAt DEF BuilderInv
  <2> QED BY <2>1, <2>2
<1>5. U \in Seq(Entries) /\ Len(U) = Len(L)
  <2>1. U = [k \in 1..Len(L) |-> U[k]]
    BY <1>2
  <2> HIDE DEF U
  <2>2. U \in [1..Len(L) -> Entries]
    BY <1>4, <2>1
  <2> QED BY <1>2, <2>2
<1> HIDE DEF U
<1>6. Len(M) = Len(L) + 1 /\ M[Len(L) + 1] = new /\ \A k \in 1..Len(L) : M[k] = U[k]
  BY <1>1, <1>2, <1>3, <1>5, AppendProperties
<1> HIDE DEF M
<1>7. EndpointPlaces(L, new.conf, new.index) = {}
  <2> SUFFICES ASSUME NEW k \in 1..Len(L), IsEndpoint(L[k], c, Interfaces(c) + 1)
               PROVE  FALSE
    BY <1>3 DEF EndpointPlaces
  <2>1. PICK d \in 1..numConfs : L[k].conf = d /\ L[k].interf \in 1..Interfaces(d)
    BY DEF EndpointsCounted, IsEndpoint
  <2>2. Interfaces(c) + 1 \in 1..Interfaces(c)
    BY <2>1 DEF IsEndpoint
  <2> QED BY <1>2, <2>2
<1>8. \A k \in (Len(L) + 1)..Len(M) : M[k] = new
  <2>1. \A k \in (Len(L) + 1)..Len(M) : k = Len(L) + 1
    BY <1>2, <1>6
  <2> QED BY <1>6, <2>1
<1>9. numConfs <= numConfs' /\ Len(L) <= Len(M)
  BY <1>1, <1>2, <1>6
<1> QED BY <1>3, <1>4, <1>6, <1>7, <1>8, <1>9, CountsKept DEF M

\* A call that changes names or settings, or a step of none of these.
KeepsCount(e, new) ==
  /\ new.type = e.type
  /\ e.type = "endp" => new = e
  /\ e.type # "endp" => new.conf = e.conf /\ new.index = e.index /\ new.count = e.count

LEMMA NamesKeepCounts ==
  ASSUME NEW e \in Entries, e.type # "endp", NEW x \in Nat
  PROVE  KeepsCount(e, [e EXCEPT !.name = x])
<1> DEFINE new == [e EXCEPT !.name = x]
<1>1. \A f \in {"type", "conf", "index", "count", "alt"} : new[f] = e[f]
  BY EntryChanges
<1> HIDE DEF new
<1>2. KeepsCount(e, new)
  BY <1>1 DEF KeepsCount
<1> QED BY <1>2 DEF new

LEMMA SettingsKeepCounts ==
  ASSUME NEW e \in Entries, e.type = "interf", NEW x \in Settings
  PROVE  KeepsCount(e, [e EXCEPT !.alt = x])
<1> DEFINE new == [e EXCEPT !.alt = x]
<1>1. \A f \in {"type", "conf", "index", "count", "name"} : new[f] = e[f]
  BY SettingChanges
<1> HIDE DEF new
<1>2. KeepsCount(e, new)
  BY <1>1 DEF KeepsCount
<1> QED BY <1>2 DEF new

LEMMA RestCounted ==
  ASSUME BuilderInv, BuilderInv', EndpointsCounted, UNCHANGED numConfs,
         \/ UNCHANGED DescriptorList
         \/ \E name \in Names : \E c \in 1..numConfs :
              \/ ConfigurationName(c, name)
              \/ \E i \in 1..Interfaces(c) : InterfaceName(c, i, name)
         \/ \E c, i : \E setting \in Settings : AlternateSetting(c, i, setting)
  PROVE  EndpointsCounted'
<1> DEFINE L == DescriptorList
           M == DescriptorList'
           Kept == DOMAIN M = DOMAIN L /\ \A k \in 1..Len(L) : KeepsCount(L[k], M[k])
<1>1. Len(L) \in Nat /\ DOMAIN L = 1..Len(L) /\ numConfs \in Nat /\ NewIndex \in Nat
  BY LenProperties DEF BuilderInv, BuilderTypeOK, NewIndex
<1>2. /\ \A k \in 1..Len(L) : L[k] \in Entries
      /\ \A e : KeepsCount(e, e)
  BY EntryAt DEF BuilderInv, KeepsCount
<1>3. ASSUME UNCHANGED DescriptorList PROVE Kept
  BY <1>2, <1>3
<1>4. ASSUME NEW name \in Names, NEW c, ConfigurationName(c, name) PROVE Kept
  <2>1. M = [k \in DOMAIN L |-> IF IsConfig(L[k], c) THEN [L[k] EXCEPT !.name = NewIndex]
                                ELSE L[k]]
    BY <1>4 DEF ConfigurationName, Update
  <2>2. ASSUME NEW k \in 1..Len(L) PROVE KeepsCount(L[k], M[k])
    <3>1. CASE IsConfig(L[k], c)
      BY <1>1, <1>2, <2>1, <3>1, NamesKeepCounts DEF IsConfig
    <3>2. CASE ~IsConfig(L[k], c)
      BY <1>1, <1>2, <2>1, <3>2
    <3> QED BY <3>1, <3>2
  <2> QED BY <2>1, <2>2
<1>5. ASSUME NEW name \in Names, NEW c, NEW i, InterfaceName(c, i, name) PROVE Kept
  <2>1. M = [k \in DOMAIN L |-> IF IsInterface(L[k], c, i)
                                THEN [L[k] EXCEPT !.name = NewIndex] ELSE L[k]]
    BY <1>5 DEF InterfaceName, Update
  <2>2. ASSUME NEW k \in 1..Len(L) PROVE KeepsCount(L[k], M[k])
    <3>1. CASE IsInterface(L[k], c, i)
      BY <1>1, <1>2, <2>1, <3>1, NamesKeepCounts DEF IsInterface
    <3>2. CASE ~IsInterface(L[k], c, i)
      BY <1>1, <1>2, <2>1, <3>2
    <3> QED BY <3>1, <3>2
  <2> QED BY <2>1, <2>2
<1>6. ASSUME NEW c, NEW i, NEW setting \in Settings, AlternateSetting(c, i, setting) PROVE Kept
  <2>1. M = [k \in DOMAIN L |-> IF IsInterface(L[k], c, i)
                                THEN [L[k] EXCEPT !.alt = setting] ELSE L[k]]
    BY <1>6 DEF AlternateSetting, Update
  <2>2. ASSUME NEW k \in 1..Len(L) PROVE KeepsCount(L[k], M[k])
    <3>1. CASE IsInterface(L[k], c, i)
      BY <1>1, <1>2, <2>1, <3>1, SettingsKeepCounts DEF IsInterface
    <3>2. CASE ~IsInterface(L[k], c, i)
      BY <1>1, <1>2, <2>1, <3>2
    <3> QED BY <3>1, <3>2
  <2> QED BY <2>1, <2>2
<1>7. Kept
  <2> HIDE DEF Kept
  <2> QED BY <1>3, <1>4, <1>5, <1>6
<1>8. Len(M) = Len(L)
  <2>1. Len(M) \in Nat /\ DOMAIN M = 1..Len(M)
    BY LenProperties DEF BuilderInv, BuilderTypeOK
  <2> QED BY <1>1, <1>7, <2>1
<1>9. ASSUME NEW k \in 1..Len(L)
      PROVE  /\ M[k].type = L[k].type
             /\ L[k].type = "endp" => M[k] = L[k]
             /\ L[k].type = "conf" => M[k].index = L[k].index /\ L[k].count <= M[k].count
             /\ L[k].type = "interf" => /\ M[k].conf = L[k].conf
                                        /\ M[k].index = L[k].index
                                        /\ M[k].count = L[k].count
  <2>1. L[k].type # "endp" => L[k].count \in Nat
    BY EntryAt DEF BuilderInv
  <2>2. KeepsCount(L[k], M[k])
    BY <1>7
  <2> HIDE DEF L, M
  <2> QED BY <2>1, <2>2 DEF KeepsCount
<1>10. numConfs <= numConfs' /\ Len(L) <= Len(M) /\ \A k \in (Len(L) + 1)..Len(M) : FALSE
  BY <1>1, <1>8
<1> HIDE DEF M
<1> QED BY <1>9, <1>10, CountsKept DEF M

\* The endpoints copied behind an interface are those of its entry.
LEMMA EndpointsCopied ==
  ASSUME BuilderTypeOK, NEW c, NEW i
  PROVE  /\ EndpointsOf(c, i) \in Seq(Entries)
         /\ Len(EndpointsOf(c, i)) = Cardinality(EndpointPlaces(DescriptorList, c, i))
         /\ \A k \in 1..Len(EndpointsOf(c, i)) : IsEndpoint(EndpointsOf(c, i)[k], c, i)
<1> DEFINE L == DescriptorList
           N == Len(L)
           parts == [k \in 1..N |-> IF IsEndpoint(L[k], c, i) THEN <<L[k]>> ELSE <<>>]
           D == EndpointPlaces(L, c, i)
           owner == [d \in D |-> d]
<1>1. N \in Nat /\ DOMAIN L = 1..N /\ \A k \in 1..N : L[k] \in Entries
  BY LenProperties, EntryAt DEF BuilderTypeOK
<1>2. EndpointsOf(c, i) = FlattenSeq(parts)
  BY <1>1 DEF EndpointsOf, Walk
<1>3. \A k \in 1..N : parts[k] = IF IsEndpoint(L[k], c, i) THEN <<L[k]>> ELSE <<>>
  OBVIOUS
<1>4. parts \in [1..N -> Seq(Entries)]
  <2>1. \A k \in 1..N : <<L[k]>> \in Seq(Entries) /\ <<>> \in Seq(Entries)
    BY <1>1
  <2> QED BY <2>1
<1>5. D \subseteq 1..N /\ owner \in [D -> 1..N] /\ \A d \in D : owner[d] = d
  BY DEF EndpointPlaces
<1>6. IsFiniteSet(D)
  BY PlacesFinite
<1> HIDE DEF parts, owner
<1>7. ASSUME NEW n \in 1..N PROVE Len(parts[n]) = Cardinality({d \in D : owner[d] = n})
  <2>1. CASE IsEndpoint(L[n], c, i)
    <3>1. {d \in D : owner[d] = n} = {n}
      BY <1>5, <2>1 DEF EndpointPlaces
    <3>2. parts[n] = <<L[n]>>
      BY <1>3, <2>1, Zenon
    <3>3. Len(parts[n]) = 1
      BY <3>2
    <3> QED BY <3>1, <3>3, FS_Singleton
  <2>2. CASE ~IsEndpoint(L[n], c, i)
    <3>1. {d \in D : owner[d] = n} = {}
      BY <1>5, <2>2 DEF EndpointPlaces
    <3>2. parts[n] = <<>>
      BY <1>3, <2>2, Zenon
    <3>3. Len(parts[n]) = 0
      BY <3>2
    <3> QED BY <3>1, <3>3, FS_EmptySet
  <2> QED BY <2>1, <2>2
<1>8. FlattenSeq(parts) \in Seq(Entries) /\ Len(FlattenSeq(parts)) = Cardinality(D)
  <2>1. Shares(D, owner, N, parts)
    BY <1>5, <1>7 DEF Shares
  <2>2. N \in Nat
    BY <1>1
  <2> HIDE DEF D, N
  <2> QED BY <1>4, <1>6, <2>1, <2>2, FlattenLen
<1>9. ASSUME NEW k \in 1..Len(FlattenSeq(parts))
      PROVE  IsEndpoint(FlattenSeq(parts)[k], c, i)
  <2>1. PICK n \in 1..N : \E j \in 1..Len(parts[n]) : FlattenSeq(parts)[k] = parts[n][j]
    <3>1. N \in Nat
      BY <1>1
    <3> HIDE DEF N
    <3>2. ComesFrom(FlattenSeq(parts), N, parts)
      BY <1>4, <3>1, FlattenFrom
    <3> QED BY <3>2 DEF ComesFrom
  <2>2. PICK j \in 1..Len(parts[n]) : FlattenSeq(parts)[k] = parts[n][j]
    BY <2>1
  <2>3. CASE IsEndpoint(L[n], c, i)
    <3>1. parts[n] = <<L[n]>>
      BY <1>3, <2>3, Zenon
    <3>2. parts[n][j] = L[n]
      BY <2>2, <3>1
    <3> QED BY <2>2, <2>3, <3>2
  <2>4. CASE ~IsEndpoint(L[n], c, i)
    <3>1. parts[n] = <<>>
      BY <1>3, <2>4, Zenon
    <3> QED BY <2>2, <3>1
  <2> QED BY <2>3, <2>4
<1> QED BY <1>2, <1>8, <1>9

\* What is copied at an interface: its entry and its endpoints, as many as it counts.
BranchOf(c, i) == <<DescriptorList[TheInterface(c, i)]>> \o EndpointsOf(c, i)

LEMMA BranchCopied ==
  ASSUME BuilderInv, EndpointsCounted, NEW c \in 1..numConfs, NEW i \in 1..Interfaces(c)
  PROVE  /\ Walk(LAMBDA e : IF IsInterface(e, c, i) THEN <<e>> \o EndpointsOf(c, i) ELSE <<>>)
              = BranchOf(c, i)
         /\ BranchOf(c, i) \in Seq(Entries) /\ Branch(BranchOf(c, i), i)
         /\ Len(BranchOf(c, i)) = 1 + Cardinality(EndpointPlaces(DescriptorList, c, i))
<1> DEFINE L == DescriptorList
           N == Len(L)
           p == TheInterface(c, i)
           rest == EndpointsOf(c, i)
           b == BranchOf(c, i)
           parts == [k \in 1..N |-> IF IsInterface(L[k], c, i) THEN <<L[k]>> \o rest ELSE <<>>]
<1>1. N \in Nat /\ DOMAIN L = 1..N /\ \A k \in 1..N : L[k] \in Entries
  BY LenProperties, EntryAt DEF BuilderInv, BuilderTypeOK
<1>2. p \in 1..N /\ \A k \in 1..N : IsInterface(L[k], c, i) <=> k = p
  BY EntriesFound DEF BuilderInv, Searches
<1>3. /\ rest \in Seq(Entries) /\ Len(rest) = Cardinality(EndpointPlaces(L, c, i))
      /\ \A k \in 1..Len(rest) : IsEndpoint(rest[k], c, i)
      /\ Len(rest) \in Nat
  BY EndpointsCopied, LenProperties DEF BuilderInv
<1> HIDE DEF rest, p
<1>4. /\ b = <<L[p]>> \o rest
      /\ <<L[p]>> \in Seq(Entries) /\ Len(<<L[p]>>) = 1 /\ <<L[p]>>[1] = L[p]
  BY <1>1, <1>2 DEF BranchOf, p, rest
<1>5. /\ b \in Seq(Entries) /\ Len(b) = 1 + Len(rest)
      /\ \A k \in 1..(1 + Len(rest)) : b[k] = IF k <= 1 THEN <<L[p]>>[k] ELSE rest[k - 1]
  BY <1>3, <1>4, ConcatProperties
<1> HIDE DEF b
<1>6. b[1] = L[p] /\ \A k \in 2..Len(b) : k - 1 \in 1..Len(rest) /\ b[k] = rest[k - 1]
  BY <1>3, <1>4, <1>5
<1>7. Branch(b, i)
  <2>1. L[p].type = "interf" /\ L[p].conf = c /\ L[p].index = i
    BY <1>2 DEF IsInterface
  <2>2. L[p].count = Len(b) - 1
    <3>1. L[p].count = Cardinality(EndpointPlaces(L, c, i))
      BY <1>2, <2>1 DEF EndpointsCounted
    <3> QED BY <1>3, <1>5, <3>1
  <2>3. \A k \in 2..Len(b) : b[k].type = "endp" /\ b[k].interf = i
    BY <1>3, <1>6 DEF IsEndpoint
  <2>4. Len(b) > 0
    BY <1>3, <1>5
  <2> QED BY <1>6, <2>1, <2>2, <2>3, <2>4 DEF Branch
<1>8. FlattenSeq(parts) = b
  <2>1. /\ \A k \in 1..N : k # p => parts[k] = <<>>
        /\ parts[p] = b
    BY <1>2, <1>4
  <2>2. parts \in [1..N -> Seq(Entries)]
    <3>1. \A k \in 1..N : parts[k] \in Seq(Entries)
      BY <1>5, <2>1, EmptySeq
    <3>2. parts = [k \in 1..N |-> parts[k]]
      OBVIOUS
    <3> HIDE DEF parts
    <3> QED BY <3>1, <3>2
  <2> HIDE DEF parts, N
  <2> QED BY <1>1, <1>2, <2>1, <2>2, FlattenOne
<1>9. Walk(LAMBDA e : IF IsInterface(e, c, i) THEN <<e>> \o rest ELSE <<>>) = FlattenSeq(parts)
  BY <1>1 DEF Walk
<1> QED BY <1>3, <1>5, <1>7, <1>8, <1>9 DEF b, rest

\* The list has as many interfaces of a configuration as it counts.
Interfs(c) == {k \in 1..Len(DescriptorList) :
                 DescriptorList[k].type = "interf" /\ DescriptorList[k].conf = c}

LEMMA InterfacesListed ==
  ASSUME BuilderInv, NEW c \in 1..numConfs
  PROVE  Cardinality(Interfs(c)) = Interfaces(c)
<1> DEFINE L == DescriptorList
           S == 1..Interfaces(c)
           T == Interfs(c)
           f == [i \in S |-> TheInterface(c, i)]
<1>1. Interfaces(c) \in Nat
  BY EntriesFound DEF BuilderInv, Searches
<1>2. /\ \A i \in S : /\ f[i] \in 1..Len(L)
                      /\ IsInterface(L[f[i]], c, i)
                      /\ \A j \in 1..Len(L) : IsInterface(L[j], c, i) => j = f[i]
  BY EntriesFound DEF BuilderInv, Searches
<1>3. f \in [S -> T]
  <2>1. \A i \in S : f[i] \in T
    BY <1>2 DEF Interfs, IsInterface
  <2>2. f = [i \in S |-> f[i]]
    OBVIOUS
  <2> HIDE DEF f, S, T
  <2> QED BY <2>1, <2>2
<1> HIDE DEF f
<1>4. \A i, j \in S : f[i] = f[j] => i = j
  BY <1>2 DEF IsInterface
<1>5. \A k \in T : \E i \in S : f[i] = k
  <2> SUFFICES ASSUME NEW k \in 1..Len(L), L[k].type = "interf", L[k].conf = c
               PROVE  \E i \in S : f[i] = k
    BY DEF Interfs
  <2>1. PICK d \in 1..numConfs : \E i \in 1..Interfaces(d) : IsInterface(L[k], d, i)
    BY DEF BuilderInv, EntriesAreUnique
  <2>2. PICK i \in 1..Interfaces(d) : IsInterface(L[k], d, i)
    BY <2>1
  <2>3. d = c
    BY <2>2 DEF IsInterface
  <2> QED BY <1>2, <2>2, <2>3
<1>6. IsFiniteSet(S) /\ Cardinality(S) = Interfaces(c)
  BY <1>1, FS_Interval
<1>7. ExistsBijection(S, T)
  <2> HIDE DEF S, T
  <2> QED BY <1>3, <1>4, <1>5 DEF ExistsBijection, Bijection, Injection, Surjection, IsInjective
<1> QED BY <1>6, <1>7, FS_Bijection

\* The bytes of a set of entries, from how many there are and how many have 9 bytes.
LEMMA BytesCounted ==
  ASSUME NEW s, NEW P, IsFiniteSet(P), NEW I, I = {k \in P : s[k].type # "endp"}
  PROVE  /\ Cardinality(P) \in Nat /\ Cardinality(I) \in Nat
         /\ Bytes(s, P) = 7 * (Cardinality(P) - Cardinality(I)) + 9 * Cardinality(I)
<1> DEFINE A == {k \in P : s[k].type = "endp"}
<1>1. P \ A = I /\ A \in SUBSET P /\ I \in SUBSET P /\ A \cup I = P /\ A \cap I = {}
  OBVIOUS
<1>2. Bytes(s, P) = 7 * Cardinality(A) + 9 * Cardinality(I)
  BY <1>1 DEF Bytes
<1> HIDE DEF A
<1>3. IsFiniteSet(A) /\ IsFiniteSet(I)
  BY <1>1, FS_Subset
<1>4. Cardinality(A \cup I) = Cardinality(A) + Cardinality(I) - Cardinality(A \cap I)
  BY <1>3, FS_Union
<1>5. Cardinality(A) \in Nat /\ Cardinality(I) \in Nat /\ Cardinality(P) \in Nat
  BY <1>3, FS_CardinalityType
<1>6. Cardinality(P) = Cardinality(A) + Cardinality(I)
  <2>1. Cardinality(A \cap I) = 0
    BY <1>1, FS_EmptySet
  <2>2. Cardinality(A \cup I) = Cardinality(P)
    BY <1>1
  <2> QED BY <1>4, <1>5, <2>1, <2>2
<1> QED BY <1>2, <1>5, <1>6

\* What is copied of a configuration is a tree of all its entries.
LEMMA SubtreeIsTree ==
  ASSUME BuilderInv, EndpointsCounted, NEW c \in 1..numConfs
  PROVE  /\ Subtree(c) \in Seq(Entries)
         /\ Grown(Subtree(c), Interfaces(c))
         /\ \A k \in 1..Len(Subtree(c)) : Subtree(c)[k].type \in {"interf", "endp"}
         /\ Len(Subtree(c)) =
              Cardinality({k \in 1..Len(DescriptorList) : DescriptorList[k].conf = c})
         /\ Desclen(c) = 9 + Length(Subtree(c))
<1> DEFINE L == DescriptorList
           N == Interfaces(c)
           Part(i) == Walk(LAMBDA e : IF IsInterface(e, c, i)
                                      THEN <<e>> \o EndpointsOf(c, i) ELSE <<>>)
           parts == [i \in 1..N |-> BranchOf(c, i)]
           t == Subtree(c)
           D == {k \in 1..Len(L) : L[k].conf = c}
           owner == [k \in D |-> IF L[k].type = "interf" THEN L[k].index ELSE L[k].interf]
<1>1. /\ N \in Nat /\ Len(L) \in Nat /\ DOMAIN L = 1..Len(L) /\ c \in Nat /\ c # 0
      /\ \A k \in 1..Len(L) : /\ L[k].type \in {"conf", "interf", "endp"}
                              /\ L[k].type = "conf" => L[k].conf = 0
  BY LenProperties, EntriesFound, EntryAt DEF BuilderInv, BuilderTypeOK, Searches
<1>2. \A i \in 1..N :
        /\ Part(i) = BranchOf(c, i)
        /\ BranchOf(c, i) \in Seq(Entries) /\ Branch(BranchOf(c, i), i)
        /\ Len(BranchOf(c, i)) = 1 + Cardinality(EndpointPlaces(L, c, i))
  BY BranchCopied
<1>3. t = FlattenSeq(parts)
  <2>1. t = FlattenSeq([i \in 1..N |-> Part(i)])
    BY DEF Subtree
  <2> HIDE DEF Part
  <2> QED BY <1>2, <2>1
<1> HIDE DEF t, Part
<1>4. /\ parts \in [1..N -> Seq(Entries)]
      /\ \A i \in 1..N : parts[i] = BranchOf(c, i)
  BY <1>2
<1> HIDE DEF parts
<1>5. Grown(t, N)
  <2>1. \A i \in 1..N : Branch(parts[i], i)
    BY <1>2, <1>4
  <2> HIDE DEF N
  <2> QED BY <1>1, <1>3, <1>4, <2>1, TreeGrows
<1>6. \A k \in 1..Len(L) : L[k].conf = c /\ L[k].type # "interf" => L[k].type = "endp"
  BY <1>1
<1>7. ASSUME NEW k \in D PROVE owner[k] \in 1..N
  <2>1. CASE L[k].type = "interf"
    <3>1. PICK d \in 1..numConfs : \E i \in 1..Interfaces(d) : IsInterface(L[k], d, i)
      BY <2>1 DEF BuilderInv, EntriesAreUnique
    <3> QED BY <2>1, <3>1 DEF IsInterface
  <2>2. CASE L[k].type # "interf"
    BY <1>6, <2>2 DEF EndpointsCounted
  <2> QED BY <2>1, <2>2
<1>8. ASSUME NEW i \in 1..N
      PROVE  Len(parts[i]) = Cardinality({k \in D : owner[k] = i})
  <2> DEFINE P == EndpointPlaces(L, c, i)
             p == TheInterface(c, i)
             share == {k \in D : owner[k] = i}
  <2>1. p \in 1..Len(L) /\ \A k \in 1..Len(L) : IsInterface(L[k], c, i) <=> k = p
    BY EntriesFound DEF BuilderInv, Searches
  <2>2. \A k \in D : owner[k] = i <=> IsInterface(L[k], c, i) \/ IsEndpoint(L[k], c, i)
    BY <1>6 DEF IsInterface, IsEndpoint
  <2>3. share = P \cup {p}
    <3>1. \A k \in 1..Len(L) : IsInterface(L[k], c, i) \/ IsEndpoint(L[k], c, i) => k \in D
      BY DEF IsInterface, IsEndpoint
    <3>2. \A k : k \in P <=> k \in 1..Len(L) /\ IsEndpoint(L[k], c, i)
      BY DEF EndpointPlaces
    <3>3. \A k \in D : k \in 1..Len(L)
      OBVIOUS
    <3> HIDE DEF owner, P, p, D
    <3> QED BY <2>1, <2>2, <3>1, <3>2, <3>3
  <2>4. IsFiniteSet(P) /\ p \notin P
    <3>1. IsFiniteSet(P)
      BY PlacesFinite DEF BuilderInv
    <3>2. L[p].type = "interf"
      BY <2>1 DEF IsInterface
    <3>3. \A k \in P : L[k].type = "endp"
      BY DEF EndpointPlaces, IsEndpoint
    <3> HIDE DEF P, p
    <3> QED BY <3>1, <3>2, <3>3
  <2>5. Cardinality(P) \in Nat /\ Cardinality(P \cup {p}) = Cardinality(P) + 1
    BY <2>4, FS_AddElement, FS_CardinalityType
  <2>6. Len(parts[i]) = 1 + Cardinality(P)
    BY <1>2, <1>4
  <2> HIDE DEF P, p, share
  <2>7. Len(parts[i]) = Cardinality(share)
    BY <2>3, <2>5, <2>6
  <2> QED BY <2>7 DEF share
<1>9. t \in Seq(Entries) /\ Len(t) = Cardinality(D) /\ IsFiniteSet(D)
  <2>1. Shares(D, owner, N, parts)
    <3>1. owner \in [D -> 1..N]
      BY <1>7
    <3> QED BY <1>8, <3>1 DEF Shares
  <2>2. IsFiniteSet(D)
    BY PlacesFinite DEF BuilderInv
  <2> HIDE DEF D, N, owner
  <2> QED BY <1>1, <1>3, <1>4, <2>1, <2>2, FlattenLen
<1>10. ASSUME NEW k \in 1..Len(t) PROVE t[k].type \in {"interf", "endp"}
  <2>1. ComesFrom(t, N, parts)
    <3> HIDE DEF N
    <3> QED BY <1>1, <1>3, <1>4, FlattenFrom
  <2>2. PICK n \in 1..N : \E j \in 1..Len(parts[n]) : t[k] = parts[n][j]
    BY <2>1 DEF ComesFrom
  <2>3. PICK j \in 1..Len(parts[n]) : t[k] = parts[n][j]
    BY <2>2
  <2>4. Branch(parts[n], n) /\ Len(parts[n]) \in Nat
    BY <1>2, <1>4, LenProperties
  <2>5. j = 1 \/ j \in 2..Len(parts[n])
    BY <2>4
  <2> QED BY <2>3, <2>4, <2>5 DEF Branch
<1>11. Desclen(c) = 9 + Length(t)
  <2> DEFINE I == InterfacePlaces(t)
             J == Interfs(c)
             n == Len(t)
  <2>1. n \in Nat /\ DOMAIN t = 1..n
    BY <1>9, LenProperties
  <2>2. I = {k \in 1..n : t[k].type # "endp"} /\ Cardinality(I) = N
    BY <1>5, <1>10, <2>1 DEF InterfacePlaces, Grown
  <2>3. J = {k \in D : L[k].type # "endp"} /\ Cardinality(J) = N
    BY <1>6, InterfacesListed DEF Interfs
  <2>4. IsFiniteSet(1..n) /\ Cardinality(1..n) = n
    <3> HIDE DEF n
    <3>1. n \in Int /\ 1 \in Int
      BY <2>1
    <3>2. IsFiniteSet(1..n) /\ Cardinality(1..n) = IF 1 > n THEN 0 ELSE n - 1 + 1
      BY <3>1, FS_Interval
    <3> QED BY <2>1, <3>2
  <2>5. Desclen(c) = 9 + Bytes(L, D)
    BY <1>1 DEF Desclen, Places
  <2>6. Length(t) = Bytes(t, 1..n)
    BY <2>1 DEF Length
  <2> HIDE DEF D, I, J, L
  <2>7. Bytes(L, D) = 7 * (Cardinality(D) - Cardinality(J)) + 9 * Cardinality(J)
    BY <1>9, <2>3, BytesCounted
  <2>8. Bytes(t, 1..n) = 7 * (n - Cardinality(I)) + 9 * Cardinality(I)
    BY <2>2, <2>4, BytesCounted
  <2> QED BY <1>9, <2>2, <2>3, <2>5, <2>6, <2>7, <2>8
<1> QED BY <1>5, <1>9, <1>10, <1>11 DEF t

\* The field of the one configuration a device has.
LEMMA TreeBuilt ==
  ASSUME BuilderInv, EndpointsCounted, numConfs = 1, Build
  PROVE  (TreeIsComplete /\ FieldFits)'
<1> DEFINE L == DescriptorList
           t == Subtree(1)
           N == Interfaces(1)
           p == TheConfig(1)
           I == InterfacePlaces(t)
<1>1. UNCHANGED <<DescriptorList, numConfs>> /\ CreateConfDescrField
  BY DEF Build, deviceVars
<1>2. /\ p \in 1..Len(L) /\ N \in Nat /\ Len(L) \in Nat /\ DOMAIN L = 1..Len(L)
      /\ \A k \in 1..Len(L) : L[k].type = "conf" <=> k = p
      /\ \A k \in 1..Len(L) : L[k].conf = 1 <=> k # p
  <2>1. /\ Len(L) \in Nat /\ DOMAIN L = 1..Len(L)
        /\ \A k \in 1..Len(L) : /\ L[k].type \in {"conf", "interf", "endp"}
                                /\ L[k].type = "conf" => L[k].conf = 0
    BY LenProperties, EntryAt DEF BuilderInv, BuilderTypeOK
  <2>2. /\ p \in 1..Len(L) /\ N \in Nat
        /\ \A k \in 1..Len(L) : IsConfig(L[k], 1) <=> k = p
    BY EntriesFound DEF BuilderInv, Searches
  <2>3. ASSUME NEW k \in 1..Len(L) PROVE L[k].type = "conf" <=> k = p
    <3>1. L[k].type = "conf" => L[k].index = 1
      BY DEF BuilderInv, EntriesAreUnique
    <3> QED BY <2>2, <3>1 DEF IsConfig
  <2>4. ASSUME NEW k \in 1..Len(L) PROVE L[k].conf = 1 <=> k # p
    <3>1. CASE L[k].type = "conf"
      BY <2>1, <2>3, <3>1
    <3>2. CASE L[k].type = "interf"
      <4>1. PICK d \in 1..numConfs : \E i \in 1..Interfaces(d) : IsInterface(L[k], d, i)
        BY <3>2 DEF BuilderInv, EntriesAreUnique
      <4> QED BY <2>3, <3>2, <4>1 DEF IsInterface
    <3>3. CASE L[k].type = "endp"
      BY <2>3, <3>3 DEF EndpointsCounted
    <3> QED BY <2>1, <3>1, <3>2, <3>3
  <2> QED BY <2>1, <2>2, <2>3, <2>4
<1>3. Configurations = 1
  <2>1. Places(LAMBDA e : e.type = "conf") = {p}
    <3> HIDE DEF p
    <3> QED BY <1>2 DEF Places
  <2>2. Cardinality({p}) = 1
    BY FS_Singleton
  <2> QED BY <2>1, <2>2 DEF Configurations
<1>4. /\ t \in Seq(Entries) /\ Grown(t, N)
      /\ \A k \in 1..Len(t) : t[k].type \in {"interf", "endp"}
      /\ Len(t) = Cardinality({k \in 1..Len(L) : L[k].conf = 1})
      /\ Desclen(1) = 9 + Length(t)
  BY SubtreeIsTree
<1>5. Len(t) \in Nat /\ DOMAIN t = 1..Len(t)
  BY <1>4, LenProperties
<1>6. Len(t) = Len(L) - 1
  <2> DEFINE D == {k \in 1..Len(L) : L[k].conf = 1}
  <2>1. D = (1..Len(L)) \ {p}
    BY <1>2
  <2>2. IsFiniteSet(1..Len(L)) /\ Cardinality(1..Len(L)) = Len(L)
    <3> DEFINE n == Len(L)
    <3>1. n \in Int /\ 1 \in Int /\ n \in Nat
      BY <1>2
    <3> HIDE DEF n
    <3>2. IsFiniteSet(1..n) /\ Cardinality(1..n) = IF 1 > n THEN 0 ELSE n - 1 + 1
      BY <3>1, FS_Interval
    <3>3. IsFiniteSet(1..n) /\ Cardinality(1..n) = n
      BY <3>1, <3>2
    <3> QED BY <3>3 DEF n
  <2>3. Cardinality((1..Len(L)) \ {p}) = Len(L) - 1
    <3> DEFINE all == 1..Len(L)
    <3>1. p \in all /\ IsFiniteSet(all)
      BY <1>2, <2>2
    <3> HIDE DEF all, p
    <3>2. Cardinality(all \ {p}) = Cardinality(all) - 1
      BY <3>1, FS_RemoveElement
    <3> QED BY <2>2, <3>2 DEF all
  <2> HIDE DEF D
  <2>4. Cardinality(D) = Len(L) - 1
    BY <2>1, <2>3
  <2> QED BY <1>4, <2>4 DEF D
<1>7. /\ confSpace'[1] = Desclen(1)
      /\ confField'[1].header = <<L[p]>>
      /\ confField'[1].start = 9 + Length(<<>>)
      /\ confField'[1].tree = t
  <2>1. FlattenSeq([d \in 1..(1 - 1) |-> Subtree(d)]) = <<>>
    <3>1. [d \in 1..(1 - 1) |-> Subtree(d)] = <<>>
      OBVIOUS
    <3> QED BY <3>1, FlattenNone
  <2> QED BY <1>1, <1>3, <2>1 DEF CreateConfDescrField
<1>8. FieldFits'
  <2>1. Length(<<>>) = 0
    <3>1. Cardinality({}) = 0
      BY FS_EmptySet
    <3>2. DOMAIN <<>> = {}
      OBVIOUS
    <3> QED BY <3>1, <3>2 DEF Length, Bytes
  <2> QED BY <1>4, <1>7, <2>1 DEF FieldFits
<1>9. TreeIsComplete'
  <2>0. I = {k \in DOMAIN t : t[k].type = "interf"}
    BY DEF InterfacePlaces
  <2> HIDE DEF t, N, p, I
  <2>1. Cardinality(I) = confField'[1].header[1].count
    BY <1>4, <1>7 DEF Grown, Interfaces, I, N, p
  <2>2. ASSUME NEW k \in I
        PROVE  /\ t[k].index = Cardinality({j \in I : j <= k})
               /\ k + t[k].count <= Len(t)
               /\ \A n \in (k + 1)..Len(t) :
                    n <= k + t[k].count <=> (\A x \in (k + 1)..n : t[x].type = "endp")
               /\ \A n \in (k + 1)..(k + t[k].count) : t[n].interf = t[k].index
    <3>1. /\ t[k].index = Cardinality({j \in I : j <= k})
          /\ t[k].count \in Nat /\ k + t[k].count <= Len(t)
          /\ k + t[k].count < Len(t) => k + t[k].count + 1 \in I
          /\ \A x \in (k + 1)..(k + t[k].count) :
               t[x].type = "endp" /\ t[x].interf = t[k].index
      BY <1>4 DEF Grown, I
    <3>2. k \in 1..Len(t) /\ \A x \in I : t[x].type = "interf"
      BY <1>5, <2>0
    <3> DEFINE end == k + t[k].count
    <3>3. end \in Nat /\ k \in Nat /\ end >= k
      BY <1>5, <3>1, <3>2
    <3>4. \A x \in (k + 1)..end : t[x].type = "endp"
      BY <3>1
    <3>5. end < Len(t) => end + 1 \in I
      BY <3>1
    <3> HIDE DEF end
    <3>6. ASSUME NEW n \in (k + 1)..Len(t)
          PROVE  n <= end <=> (\A x \in (k + 1)..n : t[x].type = "endp")
      <4>1. CASE n <= end
        <5>1. \A x \in (k + 1)..n : x \in (k + 1)..end
          BY <1>5, <3>3, <4>1
        <5> QED BY <3>4, <4>1, <5>1
      <4>2. CASE ~(n <= end)
        <5>1. end + 1 \in (k + 1)..n /\ end < Len(t)
          BY <1>5, <3>3, <4>2
        <5>2. t[end + 1].type = "interf"
          BY <3>2, <3>5, <5>1
        <5> QED BY <4>2, <5>1, <5>2
      <4> QED BY <4>1, <4>2
    <3> QED BY <3>1, <3>6 DEF end
  <2>3. Len(t) = Len(DescriptorList') - 1
    BY <1>1, <1>6
  <2> DEFINE tree == confField'[1].tree
             interfaces == {k \in DOMAIN tree : tree[k].type = "interf"}
             list == DescriptorList'
             Ordered(s, places) ==
               \A k \in places :
                 /\ s[k].index = Cardinality({j \in places : j <= k})
                 /\ k + s[k].count <= Len(s)
                 /\ \A n \in (k + 1)..Len(s) :
                      n <= k + s[k].count <=> (\A x \in (k + 1)..n : s[x].type = "endp")
                 /\ \A n \in (k + 1)..(k + s[k].count) : s[n].interf = s[k].index
  <2>4. tree = t /\ interfaces = I
    BY <1>7, <2>0
  <2> HIDE DEF tree, interfaces, list
  <2>5. Ordered(tree, interfaces)
    <3>1. Ordered(t, I)
      BY <2>2
    <3> HIDE DEF Ordered
    <3> QED BY <2>4, <3>1
  <2>6. Len(tree) = Len(list) - 1
    BY <2>3, <2>4 DEF list
  <2>7. Cardinality(interfaces) = confField'[1].header[1].count
    BY <2>1, <2>4
  <2> QED BY <2>5, <2>6, <2>7, Zenon DEF TreeIsComplete, tree, interfaces, list
<1> QED BY <1>8, <1>9

FieldInv == BuilderInv /\ EndpointsCounted /\ FieldIsTree

LEMMA FieldInitInv == BuilderInit => FieldInv
<1> SUFFICES ASSUME BuilderInit PROVE FieldInv
  OBVIOUS
<1>1. DescriptorList = <<>> /\ ~built
  BY DEF BuilderInit
<1> QED BY <1>1, BuilderInitInv DEF FieldInv, EndpointsCounted, FieldIsTree, OneConfiguration

\* The calls before USBNStart, in any order.
LEMMA CallsCounted ==
  ASSUME BuilderInv, BuilderInv', EndpointsCounted, BuilderNext
  PROVE  EndpointsCounted'
<1>1. ASSUME NEW name \in Names,
             \/ AddLanguage(name)
             \/ \E which \in DOMAIN ids : NameDevice(which, name)
             \/ \E c \in 1..numConfs :
                  \/ ConfigurationName(c, name)
                  \/ \E i \in 1..Interfaces(c) : InterfaceName(c, i, name)
      PROVE  EndpointsCounted'
  <2>1. CASE AddLanguage(name) \/ \E which \in DOMAIN ids : NameDevice(which, name)
    <3>1. UNCHANGED <<DescriptorList, numConfs>>
      BY <2>1 DEF AddLanguage, NameDevice, deviceVars
    <3> QED BY <3>1, RestCounted
  <2>2. CASE \E c \in 1..numConfs :
               \/ ConfigurationName(c, name)
               \/ \E i \in 1..Interfaces(c) : InterfaceName(c, i, name)
    <3>1. UNCHANGED numConfs
      BY <2>2 DEF ConfigurationName, InterfaceName, deviceVars
    <3> QED BY <2>2, <3>1, RestCounted
  <2> QED BY <1>1, <2>1, <2>2
<1>2. ASSUME NEW c \in 1..numConfs, NEW i \in 1..Interfaces(c),
             NEW setting \in Settings, AlternateSetting(c, i, setting)
      PROVE  EndpointsCounted'
  <2>1. UNCHANGED numConfs
    BY <1>2 DEF AlternateSetting, deviceVars
  <2> QED BY <1>2, <2>1, RestCounted
<1>3. ASSUME NEW c \in 1..numConfs, NEW i \in 1..Interfaces(c), NEW ep \in Endpoints,
             \/ \E fkt \in Functions : AddOutEndpoint(c, i, ep, fkt)
             \/ \E fkt \in Functions \cup {NoFunction} : AddInEndpoint(c, i, ep, fkt)
      PROVE  EndpointsCounted'
  <2>1. AddEndpoint(c, i, ep)
    BY <1>3 DEF AddOutEndpoint, AddInEndpoint
  <2> QED BY <2>1, EndpointCounted
<1>4. ASSUME Build PROVE EndpointsCounted'
  <2>1. UNCHANGED <<DescriptorList, numConfs>>
    BY <1>4 DEF Build, deviceVars
  <2> QED BY <2>1, RestCounted
<1> QED BY <1>1, <1>2, <1>3, <1>4, ConfigurationCounted, InterfaceCounted DEF BuilderNext

\* USBNStart runs once, and nothing is called after it.
LEMMA OnlyBuildBuilds ==
  ASSUME BuilderNext, ~Build
  PROVE  ~built'
<1> USE DEF fields, Roomy
<1>1. ASSUME NEW name \in Names,
             \/ AddLanguage(name)
             \/ \E which \in DOMAIN ids : NameDevice(which, name)
             \/ \E c \in 1..numConfs :
                  \/ ConfigurationName(c, name)
                  \/ \E i \in 1..Interfaces(c) : InterfaceName(c, i, name)
      PROVE  ~built'
  BY <1>1 DEF AddLanguage, NameDevice, ConfigurationName, InterfaceName, AddString
<1>2. ASSUME AddConfiguration \/ \E c \in 1..numConfs : AddInterface(c) PROVE ~built'
  BY <1>2 DEF AddConfiguration, AddInterface
<1>3. ASSUME NEW c, NEW i, NEW setting \in Settings, AlternateSetting(c, i, setting)
      PROVE  ~built'
  BY <1>3 DEF AlternateSetting
<1>4. ASSUME NEW c, NEW i, NEW ep \in Endpoints,
             \/ \E fkt \in Functions : AddOutEndpoint(c, i, ep, fkt)
             \/ \E fkt \in Functions \cup {NoFunction} : AddInEndpoint(c, i, ep, fkt)
      PROVE  ~built'
  BY <1>4 DEF AddOutEndpoint, AddInEndpoint, AddEndpoint
<1> QED BY <1>1, <1>2, <1>3, <1>4 DEF BuilderNext

LEMMA FieldNextInv == FieldInv /\ [BuilderNext]_builderVars => FieldInv'
<1> SUFFICES ASSUME FieldInv, [BuilderNext]_builderVars PROVE FieldInv'
  OBVIOUS
<1>1. BuilderInv'
  BY BuilderNextInv, BuilderStutter DEF FieldInv
<1>2. CASE UNCHANGED builderVars
  <2>1. UNCHANGED <<DescriptorList, numConfs, built, confField, confSpace>>
    BY <1>2 DEF builderVars, deviceVars, fields
  <2>2. EndpointsCounted'
    BY <1>1, <2>1, RestCounted DEF FieldInv
  <2>3. FieldIsTree'
    <3> DEFINE Complete(field, list) ==
                 LET tree == field[1].tree
                     interfaces == {k \in DOMAIN tree : tree[k].type = "interf"}
                 IN /\ Cardinality(interfaces) = field[1].header[1].count
                    /\ \A k \in interfaces :
                         /\ tree[k].index = Cardinality({j \in interfaces : j <= k})
                         /\ k + tree[k].count <= Len(tree)
                         /\ \A n \in (k + 1)..Len(tree) :
                              n <= k + tree[k].count
                                <=> (\A x \in (k + 1)..n : tree[x].type = "endp")
                         /\ \A n \in (k + 1)..(k + tree[k].count) : tree[n].interf = tree[k].index
                    /\ Len(tree) = Len(list) - 1
    <3>1. TreeIsComplete = Complete(confField, DescriptorList)
      BY Zenon DEF TreeIsComplete
    <3>2. TreeIsComplete' = Complete(confField', DescriptorList')
      BY Zenon DEF TreeIsComplete
    <3> HIDE DEF Complete
    <3>3. TreeIsComplete' = TreeIsComplete /\ FieldFits' = FieldFits
      BY <2>1, <3>1, <3>2 DEF FieldFits
    <3> QED BY <2>1, <3>3 DEF FieldInv, FieldIsTree, OneConfiguration
  <2> QED BY <1>1, <2>2, <2>3 DEF FieldInv
<1>3. CASE BuilderNext
  <2>1. EndpointsCounted'
    BY <1>1, <1>3, CallsCounted DEF FieldInv
  <2>2. FieldIsTree'
    <3>1. SUFFICES ASSUME built', numConfs' = 1 PROVE (TreeIsComplete /\ FieldFits)'
      BY DEF FieldIsTree, OneConfiguration
    <3>2. Build
      BY <1>3, <3>1, OnlyBuildBuilds
    <3>3. numConfs = 1
      BY <3>1, <3>2 DEF Build, deviceVars
    <3> QED BY <3>2, <3>3, TreeBuilt DEF FieldInv
  <2> QED BY <1>1, <2>1, <2>2 DEF FieldInv
<1> QED BY <1>2, <1>3

\* What USBNStart builds of a device with one configuration is a tree the host can
\* parse (_USBNCreateConfDescrField): every interface in order with the endpoints that
\* were added to it, as many as its descriptor says, nothing missing, and just as long
\* as the memory reserved for it; for calls in any order and any number of entries.
THEOREM FieldIsATree == BuilderSpec => []FieldIsTree
<1>1. FieldInv => FieldIsTree
  BY DEF FieldInv
<1> QED BY <1>1, FieldInitInv, FieldNextInv, PTL DEF BuilderSpec

-----------------------------------------------------------------------------
(* The driver for Linux                                                     *)

Messages == Devices \cup {NoDevice}   \* what a read is under way to

DriverTypeOK ==
  /\ dev \in Messages
  /\ bound \subseteq Devices
  /\ leaving \subseteq bound
  /\ ulock \in Readers \cup {"free"}
  /\ reader \in [Readers -> {"closed", "open", "locked"} \cup Messages]
  /\ stale \in [Readers -> BOOLEAN]

\* Who is past the semaphore holds it, so that there is one at most.
HolderReads ==
  \A r \in Readers : reader[r] \in Messages \cup {"locked"} => ulock = r

DriverInv == DriverTypeOK /\ HolderReads /\ NoDisconnectNow

LEMMA DriverInitInv == DriverInit => DriverInv
BY DriverAssumption
   DEF DriverInit, DriverInv, DriverTypeOK, HolderReads, NoDisconnectNow, Messages,
       NoDevice

\* A probe and an unplugged device change no read and only add to the devices.
LEMMA DriverProbeInv ==
  ASSUME DriverInv, NEW d \in Devices, Probe(d) \/ Unplug(d)
  PROVE  DriverInv'
<1>1. DriverTypeOK'
  BY DEF DriverInv, DriverTypeOK, Probe, Unplug, Messages
<1>2. UNCHANGED <<reader, ulock, stale>> /\ bound \subseteq bound'
  BY DEF Probe, Unplug
<1> QED BY <1>1, <1>2 DEF DriverInv, HolderReads, NoDisconnectNow

\* usbn_disconnect waits for the semaphore: no read is under way to anything.
LEMMA DriverDisconnectInv ==
  ASSUME DriverInv, NEW d \in Devices, Disconnect(d)
  PROVE  DriverInv'
<1>1. DriverTypeOK'
  BY DEF DriverInv, DriverTypeOK, Disconnect, Messages
<1>2. HolderReads'
  BY DEF DriverInv, HolderReads, Disconnect
<1>3. \A r \in Readers : reader[r] \notin Devices
  BY DriverAssumption DEF DriverInv, HolderReads, Disconnect, Messages
<1>4. NoDisconnectNow'
  BY <1>3 DEF NoDisconnectNow, Disconnect
<1> QED BY <1>1, <1>2, <1>4 DEF DriverInv

LEMMA DriverReadInv ==
  ASSUME DriverInv, NEW r \in Readers,
         OpenFile(r) \/ CloseFile(r) \/ ReadLock(r) \/ ReadMessage(r) \/ ReadEnd(r)
  PROVE  DriverInv'
<1> USE DriverAssumption DEF DriverInv, DriverTypeOK, Messages, NoDevice
<1>1. CASE OpenFile(r) \/ CloseFile(r)
  <2>1. DriverTypeOK' /\ HolderReads'
    BY ZenonT(40), <1>1 DEF OpenFile, CloseFile, HolderReads
  <2>2. NoDisconnectNow'
    BY <1>1 DEF OpenFile, CloseFile, NoDisconnectNow
  <2> QED BY <2>1, <2>2
<1>2. CASE ReadLock(r)
  <2>1. \A s \in Readers : reader[s] \notin Messages \cup {"locked"}
    BY <1>2 DEF ReadLock, HolderReads
  <2>2. DriverTypeOK' /\ HolderReads'
    BY <1>2, <2>1 DEF ReadLock, HolderReads
  <2>3. NoDisconnectNow'
    BY <1>2 DEF ReadLock, NoDisconnectNow
  <2> QED BY <2>2, <2>3
<1>3. CASE ReadMessage(r)
  <2>1. DriverTypeOK' /\ HolderReads'
    BY <1>3 DEF ReadMessage, HolderReads
  <2>2. reader'[r] \in bound \/ stale'[r]
    BY <1>3 DEF ReadMessage
  <2>3. NoDisconnectNow'
    BY <1>3, <2>2 DEF ReadMessage, NoDisconnectNow
  <2> QED BY <2>1, <2>3
<1>4. CASE ReadEnd(r)
  <2>1. \A s \in Readers \ {r} : reader[s] \notin Messages \cup {"locked"}
    BY <1>4 DEF ReadEnd, HolderReads
  <2>2. DriverTypeOK' /\ HolderReads'
    BY <1>4, <2>1 DEF ReadEnd, HolderReads
  <2>3. NoDisconnectNow'
    BY <1>4 DEF ReadEnd, NoDisconnectNow
  <2> QED BY <2>2, <2>3
<1> QED BY <1>1, <1>2, <1>3, <1>4

\* "No disconnect now" (usbn_read): while a read's message is under way its device
\* stays bound, unless dev was left at one that had gone before; for any number of
\* devices, plugged in and out, and of processes that open, read and close.
THEOREM DriverSafe == DriverSpec => []NoDisconnectNow
<1>1. ASSUME DriverInv, [DriverNext]_driverVars
      PROVE  DriverInv'
  <2>1. CASE UNCHANGED driverVars
    BY <1>1, <2>1 DEF driverVars, DriverInv, DriverTypeOK, HolderReads, NoDisconnectNow
  <2> QED BY <1>1, <2>1, DriverProbeInv, DriverDisconnectInv, DriverReadInv
         DEF DriverNext
<1>2. DriverInv => NoDisconnectNow
  BY DEF DriverInv
<1> QED BY <1>1, <1>2, DriverInitInv, PTL DEF DriverSpec

-----------------------------------------------------------------------------
(* The virtual lab                                                          *)

Ports == SUBSET Pins

VlabTypeOK ==
  /\ client \in {"done", "open", "asked"}
  /\ command \in Commands \cup {Empty}
  /\ outFifo \in Commands \cup {Empty, Flushed}
  /\ inFifo \in {<<>>} \cup {<<p>> : p \in Ports}
  /\ portB \in Ports
  /\ own \in {<<>>} \cup {<<p>> : p \in Ports}
  /\ chance \in BOOLEAN

\* The answer to the client's command, once it has been handled.
Answer == IF command.port = 1 THEN <<PinsA>> ELSE own

\* What is in the FIFOs belongs to the client that runs.  Before it has asked there
\* is nothing of its predecessor but a flushed command; while it waits there is
\* its command or the answer to it, never both; and what a client leaves behind
\* in the receive FIFO is its own command.
FifosAreOwn ==
  /\ client # "done" => command \in Commands
  /\ client = "open" => outFifo \in {Empty, Flushed}
  /\ client = "open" /\ ~chance => inFifo = <<>>
  /\ client = "asked" /\ ~chance =>
       /\ outFifo \in Commands => outFifo = command /\ inFifo = <<>>
       /\ inFifo # <<>> => inFifo = Answer

\* A client that has printed an answer has left no command behind, so that a late
\* interrupt cannot change what its command is remembered by.
PrintedIsFinal ==
  client = "done" /\ printed \notin {<<>>, <<{}>>} /\ ~chance =>
    outFifo \in {Empty, Flushed} /\ printed = Answer

VlabInv == VlabTypeOK /\ FifosAreOwn /\ PrintedIsFinal

\* A command is neither of the other two things a FIFO may hold, and leaves port 2
\* a set of pins.
LEMMA CommandsAreCommands ==
  /\ Empty \notin Commands /\ Flushed \notin Commands /\ Empty # Flushed
  /\ \A c \in Commands : portB \in Ports => SetPort(c) \in Ports
<1>1. \A c \in Commands : c.kind \in {"get", "set"} /\ (c.kind = "set" => c.pin \in Pins)
  BY DEF Commands
<1>2. Empty.kind = "empty" /\ Flushed.kind = "flushed"
  BY DEF Empty, Flushed
<1>3. \A c \in Commands : portB \in Ports => SetPort(c) \in Ports
  BY <1>1 DEF SetPort, Ports
<1> QED BY <1>1, <1>2, <1>3

LEMMA VlabInitInv == VlabInit => VlabInv
BY DEF VlabInit, VlabInv, VlabTypeOK, FifosAreOwn, PrintedIsFinal, Ports

\* The handler answers the command in the FIFO, which is the client's own, unless
\* it was flushed.
LEMMA SetGetPortInv ==
  ASSUME VlabInv, SetGetPort
  PROVE  VlabInv'
<1> USE CommandsAreCommands DEF VlabInv, VlabTypeOK
<1>1. PICK c \in IF outFifo = Flushed THEN Commands ELSE {outFifo} :
        /\ portB' = SetPort(c)
        /\ inFifo' = <<IF c.port = 1 THEN PinsA ELSE portB'>>
        /\ own' = IF outFifo = Flushed THEN own ELSE <<portB'>>
  BY DEF SetGetPort
<1>2. c \in Commands
  BY <1>1 DEF SetGetPort
<1>3. portB' \in Ports /\ PinsA \in Ports
  BY <1>1, <1>2 DEF PinsA, Ports
<1>4. VlabTypeOK'
  BY <1>1, <1>3 DEF SetGetPort
<1>5. chance' = (chance \/ outFifo = Flushed) /\ outFifo' = Empty
      /\ UNCHANGED <<client, command, printed>>
  BY DEF SetGetPort
<1>6. FifosAreOwn'
  <2>1. ASSUME client = "asked", ~chance'
        PROVE  inFifo' = Answer'
    <3>1. outFifo = command /\ c = command
      BY <1>1, <1>2, <1>5, <2>1 DEF SetGetPort, FifosAreOwn
    <3> QED BY <1>1, <1>5, <2>1, <3>1 DEF Answer
  <2> QED BY <1>5, <2>1 DEF FifosAreOwn, SetGetPort
<1>7. PrintedIsFinal'
  BY <1>5 DEF PrintedIsFinal, SetGetPort
<1> QED BY <1>4, <1>6, <1>7

\* vlab_open, whose SET_CONFIGURATION empties the FIFOs.
LEMMA VlabOpenInv ==
  ASSUME VlabInv, NEW c \in Commands, VlabOpen(c)
  PROVE  VlabInv'
BY CommandsAreCommands
   DEF VlabInv, VlabTypeOK, FifosAreOwn, PrintedIsFinal, VlabOpen, Ports

LEMMA BulkInv ==
  ASSUME VlabInv, BulkRead \/ \E taken \in BOOLEAN : BulkWrite(taken)
  PROVE  VlabInv'
<1> USE CommandsAreCommands DEF VlabInv, VlabTypeOK, FifosAreOwn, PrintedIsFinal
<1>1. CASE BulkRead
  <2>1. UNCHANGED Answer
    BY <1>1 DEF BulkRead, Answer
  <2>2. <<{}>> \in {<<p>> : p \in Ports}
    BY DEF Ports
  <2> QED BY <1>1, <2>1, <2>2 DEF BulkRead
<1>2. ASSUME NEW taken \in BOOLEAN, BulkWrite(taken)
      PROVE  VlabInv'
  <2>1. UNCHANGED Answer
    BY <1>2 DEF BulkWrite, Answer
  <2> QED BY <1>2, <2>1 DEF BulkWrite
<1> QED BY <1>1, <1>2

\* A client that prints a port that is not 0 prints the answer to its own command,
\* with port 2 as it was when that had been obeyed, however late the interrupts come
\* and whatever was lost; for any pins and clients.  Nothing is said of a 0, which is
\* also what a read that timed out leaves, nor of a client in whose time a command is
\* handled that was flushed under its event.
THEOREM VlabAnswers == VlabSpec => []AnswerIsOwn
<1>1. ASSUME VlabInv, [VlabNext]_vlabVars
      PROVE  VlabInv'
  <2>1. CASE UNCHANGED vlabVars
    BY <1>1, <2>1
       DEF vlabVars, VlabInv, VlabTypeOK, FifosAreOwn, PrintedIsFinal, Answer
  <2> QED BY <1>1, <2>1, SetGetPortInv, VlabOpenInv, BulkInv DEF VlabNext
<1>2. VlabInv => AnswerIsOwn
  BY DEF VlabInv, PrintedIsFinal, AnswerIsOwn, Answer
<1> QED BY <1>1, <1>2, VlabInitInv, PTL DEF VlabSpec

-----------------------------------------------------------------------------
(* The ring buffer                                                         *)

\* What the assumptions give, without the product of the two byte sizes.
LEMMA Sizes ==
  /\ Size \in Nat /\ Size > 0
  /\ Byte \in Nat /\ Byte > 0
  /\ Word \in Nat /\ 2 * Size < Word
BY FifoAssumption

\* The two bytes of a number make the number.
LEMMA TwoBytes ==
  ASSUME NEW n \in Int
  PROVE  Low(n) \in Int /\ High(n) \in Int /\ High(n) + Low(n) = n
<1>1. Low(n) \in Int
  BY Sizes DEF Low
<1> QED BY <1>1 DEF High

\* A pointer and its distance to the end stay a pointer and its distance.
LEMMA Advance ==
  ASSUME NEW p \in Cells, NEW left \in 1..Size, p + left = Size
  PROVE  /\ NextPointer(p, left) \in Cells
         /\ NextLeft(left) \in 1..Size
         /\ NextPointer(p, left) + NextLeft(left) = Size
         /\ NextPointer(p, left) = IF p = Size - 1 THEN 0 ELSE p + 1
BY Sizes DEF Cells, NextPointer, NextLeft

-----------------------------------------------------------------------------
(* The pointers of the ring buffer *)

\* What the consumer is about to store is a pointer and its distance, too.
Pointers ==
  /\ pc \in Steps
  /\ pread \in Cells /\ read2end \in 1..Size
  /\ pwrite \in Cells /\ write2end \in 1..Size /\ pwrite + write2end = Size
  /\ pc # "read2end" => pread + read2end = Size
  /\ pc \in {"pread", "read2end"} =>
       lread \in Cells /\ lend \in 1..Size /\ lread + lend = Size
  /\ pc = "read2end" => pread = lread

\* An initialised buffer has its pointers in place.
LEMMA PointersInit == Init => Pointers
BY Sizes DEF Init, Pointers, Steps, Cells

\* Every step but fifo_init keeps them there.
LEMMA PointersNext ==
  ASSUME Pointers, [Next]_vars, FifoInit => pc = "idle"
  PROVE  Pointers'
<1> USE DEF Pointers
<1>1. CASE FifoInit
  BY <1>1, Sizes DEF FifoInit, Cells, Steps
<1>2. ASSUME NEW d \in Data, Put(d)
      PROVE  Pointers'
  <2>1. pwrite' = NextPointer(pwrite, write2end) /\ write2end' = NextLeft(write2end)
    BY <1>2 DEF Put
  <2>2. pwrite' \in Cells /\ write2end' \in 1..Size /\ pwrite' + write2end' = Size
    BY <2>1, Advance
  <2> QED BY <1>2, <2>2 DEF Put, locals
<1>3. CASE GetNothing
  BY <1>3 DEF GetNothing, pointers, locals
<1>4. CASE Fetch
  <2>1. lread' = NextPointer(pread, read2end) /\ lend' = NextLeft(read2end)
    BY <1>4 DEF Fetch
  <2>2. lread' \in Cells /\ lend' \in 1..Size /\ lread' + lend' = Size
    BY <1>4, <2>1, Advance DEF Fetch
  <2> QED BY <1>4, <2>2 DEF Fetch, pointers, Steps
<1>5. CASE StoreRead
  BY <1>5 DEF StoreRead, locals, Steps
<1>6. CASE StoreEnd
  BY <1>6 DEF StoreEnd, locals, Steps
<1>7. CASE LoadLow \/ LoadHigh \/ StoreHigh \/ StoreLow
  BY <1>7 DEF LoadLow, LoadHigh, StoreHigh, StoreLow, pointers, locals, Steps
<1>8. CASE UNCHANGED vars
  BY <1>8 DEF vars, pointers, locals
<1> QED BY <1>1, <1>2, <1>3, <1>4, <1>5, <1>6, <1>7, <1>8 DEF Next, Get

\* However often fifo_put interrupts fifo_get, and whatever that does to count,
\* no pointer leaves the buffer as long as no handler calls fifo_init.
THEOREM PointersStay ==
  ASSUME Restarts = FALSE
  PROVE  Spec => []PointersInBuffer
<1>1. Pointers => PointersInBuffer
  BY DEF Pointers, PointersInBuffer
<1>2. Pointers /\ [Next]_vars => Pointers'
  BY PointersNext DEF FifoInit
<1> QED BY <1>1, <1>2, PointersInit, PTL DEF Spec

-----------------------------------------------------------------------------
(* The ring buffer as a queue, with a consumer that nothing interrupts *)

\* Where the oldest element lies: before the read pointer once it has moved on.
ReadPos == IF pc \in {"idle", "pread"} THEN pread
           ELSE IF pread = 0 THEN Size - 1 ELSE pread - 1

\* Both pointers and count agree, and a get that is under way works on the
\* oldest element and on the count as it was.
Agree ==
  /\ high \in Int /\ low \in Int /\ llow \in Int /\ lcount \in Int
  /\ held \in Int
  /\ Logical \in 0..Size
  /\ pwrite - ReadPos = Logical \/ pwrite - ReadPos = Logical - Size
  /\ pc # "idle" => Logical > 0 /\ data = buf[ReadPos]
  /\ pc = "pread" => lread = IF pread = Size - 1 THEN 0 ELSE pread + 1
  /\ pc = "loadhigh" => llow = low
  /\ pc = "storehigh" => lcount = Count - 1
  /\ pc = "storelow" => high = High(lcount)
  /\ held = IF pc = "idle" THEN Logical ELSE Logical - 1

Elements ==
  /\ buf \in [Cells -> Data \cup {Unset}]
  /\ data \in Data \cup {Unset}
  /\ lread \in Cells /\ lend \in 1..Size
  /\ out \in Data \cup {Unset, Nothing}

QueueInv == Pointers /\ Agree /\ Elements

\* An initialised buffer agrees with an empty queue.
LEMMA QueueInit == Init => QueueInv
<1> SUFFICES ASSUME Init PROVE QueueInv
  OBVIOUS
<1>1. Agree
  <2>1. Logical = 0 /\ ReadPos = 0 /\ 0 - Size = -Size
    BY Sizes DEF Init, ReadPos, Logical, Count
  <2>2. /\ high = 0 /\ low = 0 /\ llow = 0 /\ lcount = 0 /\ held = 0
        /\ pwrite = 0 /\ pc = "idle"
    BY DEF Init
  <2> QED BY <2>1, <2>2, Sizes DEF Agree
<1>2. Elements
  BY Sizes DEF Init, Elements, Cells
<1> QED BY <1>1, <1>2, PointersInit DEF QueueInv

\* A handler that puts finds the buffer at rest.
LEMMA PutAgrees ==
  ASSUME QueueInv, ~Interruptible, NEW d \in Data, Put(d)
  PROVE  /\ pc = "idle" /\ pc' = "idle"
         /\ Logical < Size /\ Logical' = Logical + 1
         /\ pwrite' = (IF pwrite = Size - 1 THEN 0 ELSE pwrite + 1)
         /\ buf' = [buf EXCEPT ![pwrite] = d]
         /\ Agree' /\ Elements'
<1>1. pc = "idle" /\ pc' = "idle" /\ UNCHANGED <<pread, locals, out>>
  BY DEF Put, HandlerMayRun
<1>2. Logical = Count /\ Count \in 0..Size
  BY <1>1 DEF Logical, QueueInv, Agree
<1>3. Signed(Count) = Count
  BY <1>2, Sizes DEF Signed
<1>4. Count < Size
  BY <1>2, <1>3, Sizes DEF Put, Full
<1>5. Count' = Count + 1
  <2>1. high' = High(Count + 1) /\ low' = Low(Count + 1)
    BY <1>2, <1>4, Sizes DEF Put, SetCount
  <2>2. High(Count + 1) + Low(Count + 1) = Count + 1
    BY <1>2, TwoBytes
  <2> QED BY <2>1, <2>2 DEF Count
<1>6. Logical' = Logical + 1
  BY <1>1, <1>2, <1>5 DEF Logical
<1>7. pwrite' = (IF pwrite = Size - 1 THEN 0 ELSE pwrite + 1)
  BY Advance DEF Put, QueueInv, Pointers
<1>8. buf' = [buf EXCEPT ![pwrite] = d] /\ held' = held + 1
  BY DEF Put
<1>9. high' \in Int /\ low' \in Int
  BY <1>2, <1>4, Sizes, TwoBytes DEF Put, SetCount
<1>10. Agree'
  <2>1. pread \in Cells /\ pwrite \in Cells
    BY DEF QueueInv, Pointers
  <2>2. ReadPos = pread /\ ReadPos' = pread
    BY <1>1 DEF ReadPos
  <2>3. pwrite - pread = Logical \/ pwrite - pread = Logical - Size
    BY <2>2 DEF QueueInv, Agree
  <2>4. pwrite' - pread = Logical + 1 \/ pwrite' - pread = Logical + 1 - Size
    BY <1>2, <1>4, <1>7, <2>1, <2>3, Sizes DEF Cells
  <2>5. Logical' \in 0..Size
    BY <1>2, <1>4, <1>6, Sizes
  <2>6. llow' \in Int /\ lcount' \in Int /\ held' \in Int /\ held' = Logical'
    BY <1>1, <1>2, <1>6, <1>8 DEF QueueInv, Agree, locals
  <2>7. pwrite' - ReadPos' = Logical' \/ pwrite' - ReadPos' = Logical' - Size
    BY <1>2, <1>6, <2>2, <2>4, Sizes
  <2> QED BY <1>1, <1>9, <2>5, <2>6, <2>7 DEF Agree
<1>11. Elements'
  BY <1>1, <1>8 DEF QueueInv, Elements, locals
<1> QED BY <1>1, <1>2, <1>4, <1>6, <1>7, <1>8, <1>10, <1>11

\* Every step keeps the agreement.
LEMMA QueueNext ==
  ASSUME QueueInv, ~Interruptible, [Next]_vars
  PROVE  QueueInv'
<1>0. FifoInit => pc = "idle"
  BY DEF FifoInit, HandlerMayRun
<1>1. Pointers'
  BY <1>0, PointersNext DEF QueueInv
<1>2. Agree' /\ Elements'
  <2> USE DEF QueueInv
  <2>1. CASE FifoInit
    <3>1. high' \in Int /\ low' \in Int /\ high' + low' = 0
      BY <2>1, TwoBytes DEF FifoInit, SetCount
    <3>2. pc = "idle" /\ pc' = "idle" /\ pwrite' = 0 /\ pread' = 0 /\ held' = 0
      BY <1>0, <2>1 DEF FifoInit
    <3>3. Logical' = 0 /\ ReadPos' = 0
      BY <3>1, <3>2 DEF Logical, Count, ReadPos
    <3>4. UNCHANGED <<locals, buf, out>>
      BY <2>1 DEF FifoInit
    <3> QED BY <3>1, <3>2, <3>3, <3>4, Sizes DEF Agree, Elements, locals
  <2>2. ASSUME NEW d \in Data, Put(d)
        PROVE  Agree' /\ Elements'
    BY <2>2, PutAgrees
  <2>3. CASE GetNothing
    BY <2>3 DEF GetNothing, Agree, Elements, pointers, locals, Logical, Count, ReadPos
  <2>4. CASE Fetch
    <3>1. pc = "idle" /\ pc' = "pread" /\ Count # 0
          /\ UNCHANGED <<high, low, pread, pwrite, buf, llow, lcount, out>>
          /\ data' = buf[pread] /\ held' = held - 1
      BY <2>4 DEF Fetch, pointers
    <3>2. Logical = Count /\ Logical' = Count /\ ReadPos = pread /\ ReadPos' = pread
      BY <3>1 DEF Logical, Count, ReadPos
    <3>3. Logical' > 0 /\ Logical' \in 0..Size
      BY <3>1, <3>2, Sizes DEF Agree
    <3>4. lread' = IF pread = Size - 1 THEN 0 ELSE pread + 1
      BY <2>4, Advance DEF Fetch, Pointers
    <3>5. lread' \in Cells /\ lend' \in 1..Size
      BY <2>4, Advance DEF Fetch, Pointers
    <3>6. Agree'
      BY <3>1, <3>2, <3>3, <3>4 DEF Agree
    <3>7. Elements'
      BY <3>1, <3>5 DEF Elements, Pointers
    <3> QED BY <3>6, <3>7
  <2>5. CASE StoreRead
    <3>1. pc = "pread" /\ pc' = "read2end" /\ pread' = lread
          /\ UNCHANGED <<high, low, pwrite, buf, locals, out, held>>
      BY <2>5 DEF StoreRead
    <3>2. ReadPos' = ReadPos
      BY <3>1, Sizes DEF ReadPos, Agree, Pointers, Cells
    <3>3. Logical' = Logical
      BY <3>1 DEF Logical, Count
    <3> QED BY <3>1, <3>2, <3>3 DEF Agree, Elements, locals
  <2>6. CASE StoreEnd
    BY <2>6 DEF StoreEnd, Agree, Elements, locals, Logical, Count, ReadPos
  <2>7. CASE LoadLow
    BY <2>7 DEF LoadLow, Agree, Elements, pointers, Logical, Count, ReadPos
  <2>8. CASE LoadHigh
    <3>1. high + low > 0 /\ llow = low
      BY <2>8 DEF LoadHigh, Agree, Logical, Count
    <3>2. lcount' = Count - 1
      BY <2>8, <3>1 DEF LoadHigh, Agree, Count
    <3> QED BY <2>8, <3>1, <3>2
            DEF LoadHigh, Agree, Elements, pointers, Logical, Count, ReadPos
  <2>9. CASE StoreHigh
    <3>1. pc = "storehigh" /\ pc' = "storelow" /\ high' = High(lcount)
          /\ UNCHANGED <<low, pread, pwrite, buf, locals, out, held>>
      BY <2>9 DEF StoreHigh, pointers
    <3>2. high' \in Int
      BY <3>1, TwoBytes DEF Agree
    <3>3. Logical' = Logical /\ ReadPos' = ReadPos
      BY <3>1 DEF Agree, Logical, Count, ReadPos, locals
    <3> QED BY <3>1, <3>2, <3>3 DEF Agree, Elements, locals
  <2>10. CASE StoreLow
    <3>1. pc = "storelow" /\ pc' = "idle" /\ low' = Low(lcount) /\ out' = data
          /\ UNCHANGED <<high, pread, pwrite, buf, locals, held>>
      BY <2>10 DEF StoreLow, pointers
    <3>2. low' \in Int /\ Count' = lcount
      BY <3>1, TwoBytes DEF Agree, Count
    <3>3. Logical = lcount + 1 /\ Logical' = lcount
      BY <3>1, <3>2 DEF Logical
    <3>4. ReadPos = (IF pread = 0 THEN Size - 1 ELSE pread - 1) /\ ReadPos' = pread
      BY <3>1 DEF ReadPos
    <3>5. pwrite - pread = lcount \/ pwrite - pread = lcount - Size
      BY <3>1, <3>3, <3>4, Sizes DEF Agree, Pointers, Cells
    <3>6. lcount \in 0..Size
      BY <3>1, <3>3, Sizes DEF Agree
    <3>7. Agree'
      BY <3>1, <3>2, <3>3, <3>4, <3>5, <3>6 DEF Agree, locals
    <3> QED BY <3>1, <3>7 DEF Elements, locals
  <2>11. CASE UNCHANGED vars
    BY <2>11 DEF vars, pointers, locals, Agree, Elements, Logical, Count, ReadPos
  <2> QED
    BY <2>1, <2>2, <2>3, <2>4, <2>5, <2>6, <2>7, <2>8, <2>9, <2>10, <2>11 DEF Next, Get
<1> QED BY <1>1, <1>2 DEF QueueInv

\* count is the number of elements in the buffer between two gets.
THEOREM CountCorrect ==
  ASSUME Interruptible = FALSE
  PROVE  Spec => []CountIsFill
<1>1. QueueInv => CountIsFill
  BY DEF QueueInv, Agree, CountIsFill, Logical
<1>2. QueueInv /\ [Next]_vars => QueueInv'
  BY QueueNext
<1> QED BY <1>1, <1>2, QueueInit, PTL DEF Spec

\* Every variable keeps its type.
THEOREM TypeCorrect ==
  ASSUME Interruptible = FALSE
  PROVE  Spec => []TypeOK
<1>1. QueueInv => TypeOK
  BY DEF QueueInv, Pointers, Agree, Elements, TypeOK
<1>2. QueueInv /\ [Next]_vars => QueueInv'
  BY QueueNext
<1> QED BY <1>1, <1>2, QueueInit, PTL DEF Spec

-----------------------------------------------------------------------------
(* It implements the bounded queue *)

\* The queue of the refinement mapping.
Q == [i \in 1..Logical |-> buf[Slot(i)]]

\* Slots of held elements are cells, each element has its own, none is the cell
\* that is written next, and the first is the oldest.
LEMMA Slots ==
  ASSUME QueueInv
  PROVE  /\ \A i \in 1..Logical : Slot(i) \in Cells
         /\ Logical < Size => \A i \in 1..Logical : Slot(i) # pwrite
         /\ Logical > 0 => Slot(1) = ReadPos
<1>1. /\ Logical \in 0..Size /\ pwrite \in Cells /\ ReadPos \in Cells
      /\ pwrite - ReadPos = Logical \/ pwrite - ReadPos = Logical - Size
  BY Sizes DEF QueueInv, Agree, Pointers, ReadPos, Cells
<1> QED BY <1>1, Sizes DEF Slot, Cells

\* A function on 1..n is a sequence of length n.
LEMMA FunctionIsSequence ==
  ASSUME NEW S, NEW n \in Nat, NEW f \in [1..n -> S]
  PROVE  f \in Seq(S) /\ Len(f) = n
OBVIOUS

\* What the buffer stands for is a sequence of data.
LEMMA QSequence ==
  QueueInv => /\ Q \in Seq(Data \cup {Unset}) /\ Len(Q) = Logical
              /\ \A i \in 1..Logical : Q[i] = buf[Slot(i)]
<1> SUFFICES ASSUME QueueInv
             PROVE  /\ Q \in Seq(Data \cup {Unset}) /\ Len(Q) = Logical
                    /\ \A i \in 1..Logical : Q[i] = buf[Slot(i)]
  OBVIOUS
<1>1. Logical \in Nat
  BY Sizes DEF QueueInv, Agree
<1>2. \A i \in 1..Logical : buf[Slot(i)] \in Data \cup {Unset}
  BY Slots DEF QueueInv, Elements
<1> QED BY <1>1, <1>2 DEF Q

\* fifo_put appends.
LEMMA PutRefines ==
  ASSUME QueueInv, ~Interruptible, NEW d \in Data, Put(d)
  PROVE  Len(Q) < Size /\ Q' = Append(Q, d) /\ out' = out
<1> DEFINE S == Data \cup {Unset}
<1>1. /\ Logical < Size /\ Logical' = Logical + 1
      /\ pwrite' = (IF pwrite = Size - 1 THEN 0 ELSE pwrite + 1)
      /\ buf' = [buf EXCEPT ![pwrite] = d]
  BY PutAgrees
<1>2. /\ Logical \in 0..Size /\ pwrite \in Cells
      /\ buf \in [Cells -> S]
  BY DEF QueueInv, Agree, Pointers, Elements
<1>3. Q \in Seq(S) /\ Len(Q) = Logical /\ \A i \in 1..Logical : Q[i] = buf[Slot(i)]
  BY QSequence
<1>4. /\ Append(Q, d) \in Seq(S) /\ Len(Append(Q, d)) = Logical + 1
      /\ \A i \in 1..Logical : Append(Q, d)[i] = Q[i]
      /\ Append(Q, d)[Logical + 1] = d
  BY <1>2, <1>3, AppendProperties
<1>5. ASSUME NEW i \in 1..(Logical + 1)
      PROVE  buf'[Slot(i)'] = Append(Q, d)[i] /\ Append(Q, d)[i] \in S
  <2>1. CASE i = Logical + 1
    <3>1. Slot(i)' = pwrite
      BY <1>1, <1>2, <2>1, Sizes DEF Slot, Cells
    <3> QED BY <1>1, <1>2, <1>4, <2>1, <3>1
  <2>2. CASE i # Logical + 1
    <3>1. i \in 1..Logical
      BY <1>2, <2>2
    <3>2. Slot(i) \in Cells /\ Slot(i) # pwrite
      BY <1>1, <3>1, Slots
    <3>3. Slot(i)' = Slot(i)
      BY <1>1, <1>2, <3>1, Sizes DEF Slot, Cells
    <3> QED BY <1>1, <1>2, <1>3, <1>4, <3>1, <3>2, <3>3
  <2> QED BY <2>1, <2>2
<1>6. Q' = [i \in 1..(Logical + 1) |-> buf'[Slot(i)']]
  BY <1>1 DEF Q
<1>7. /\ Q' \in Seq(S) /\ Len(Q') = Logical + 1
      /\ \A i \in 1..(Logical + 1) : Q'[i] = Append(Q, d)[i]
  <2>1. Q' \in [1..(Logical + 1) -> S]
    BY <1>5, <1>6
  <2>2. Q' \in Seq(S) /\ Len(Q') = Logical + 1
    BY <1>2, <2>1, FunctionIsSequence
  <2>3. ASSUME NEW i \in 1..(Logical + 1)
        PROVE  Q'[i] = Append(Q, d)[i]
    BY <1>5, <1>6
  <2> QED BY <2>2, <2>3
<1>8. Q' = Append(Q, d)
  BY <1>4, <1>7, SeqEqual
<1> QED BY <1>1, <1>3, <1>8 DEF Put, locals

\* The end of a get takes the first element out.
LEMMA GetRefines ==
  ASSUME QueueInv, ~Interruptible, StoreLow
  PROVE  Q # <<>> /\ Q' = Tail(Q) /\ out' = Head(Q)
<1> DEFINE S == Data \cup {Unset}
<1>1. /\ Logical \in 1..Size /\ Logical' = Logical - 1
      /\ UNCHANGED <<pwrite, buf>> /\ out' = data /\ data = buf[Slot(1)]
  <2>1. pc = "storelow" /\ pc' = "idle" /\ high = High(lcount) /\ lcount \in Int
    BY DEF StoreLow, QueueInv, Agree
  <2>2. Logical = lcount + 1 /\ Logical' = lcount
    BY <2>1, TwoBytes DEF StoreLow, Logical, Count
  <2>3. Logical \in 1..Size /\ data = buf[ReadPos]
    BY <2>1, Sizes DEF QueueInv, Agree
  <2>4. Slot(1) = ReadPos
    BY <2>3, Slots
  <2> QED BY <2>1, <2>2, <2>3, <2>4 DEF StoreLow, pointers
<1>2. Q \in Seq(S) /\ Len(Q) = Logical /\ \A i \in 1..Logical : Q[i] = buf[Slot(i)]
  BY QSequence
<1>3. Q # <<>>
  BY <1>1, <1>2
<1>4. /\ Tail(Q) \in Seq(S) /\ Len(Tail(Q)) = Logical - 1
      /\ \A i \in 1..(Logical - 1) : Tail(Q)[i] = Q[i + 1]
  BY <1>2, <1>3, HeadTailProperties
<1>5. ASSUME NEW i \in 1..(Logical - 1)
      PROVE  buf'[Slot(i)'] = Tail(Q)[i] /\ Tail(Q)[i] \in S
  <2>1. Slot(i)' = Slot(i + 1)
    <3>1. pwrite \in Int
      BY DEF QueueInv, Pointers, Cells
    <3> QED BY <1>1, <3>1, Sizes DEF Slot
  <2>2. i + 1 \in 1..Logical
    BY <1>1
  <2>3. Tail(Q)[i] \in S
    BY <1>4, ElementOfSeq
  <2> QED BY <1>1, <1>2, <1>4, <2>1, <2>2, <2>3
<1>6. Q' = [i \in 1..(Logical - 1) |-> buf'[Slot(i)']]
  BY <1>1 DEF Q
<1>7. /\ Q' \in Seq(S) /\ Len(Q') = Logical - 1
      /\ \A i \in 1..(Logical - 1) : Q'[i] = Tail(Q)[i]
  <2>1. Q' \in [1..(Logical - 1) -> S]
    BY <1>5, <1>6
  <2>2. Logical - 1 \in Nat
    BY <1>1
  <2>3. Q' \in Seq(S) /\ Len(Q') = Logical - 1
    BY <2>1, <2>2, FunctionIsSequence
  <2>4. ASSUME NEW i \in 1..(Logical - 1)
        PROVE  Q'[i] = Tail(Q)[i]
    BY <1>5, <1>6
  <2> QED BY <2>3, <2>4
<1>8. Q' = Tail(Q)
  BY <1>4, <1>7, SeqEqual
<1>9. Head(Q) = Q[1] /\ Q[1] = buf[Slot(1)]
  BY <1>1, <1>2, <1>3
<1> QED BY <1>1, <1>3, <1>8, <1>9

\* An empty buffer is an empty queue.
LEMMA QEmpty == Logical = 0 => Q = <<>>
BY DEF Q

\* Every step of the buffer is a step of the queue, or leaves it alone.
LEMMA QueueStep ==
  ASSUME QueueInv, ~Interruptible, [Next]_vars
  PROVE  [Queue!Next]_<<Q, out>>
<1> USE DEF Queue!Next
<1>1. CASE FifoInit
  <2>1. Logical' = 0
    <3>1. pc' = "idle" /\ high' + low' = 0
      BY <1>1, TwoBytes DEF FifoInit, HandlerMayRun, SetCount
    <3> QED BY <3>1 DEF Logical, Count
  <2>2. Q' = <<>>
    BY <2>1 DEF Q
  <2>3. out' = out
    BY <1>1 DEF FifoInit
  <2> QED BY <2>2, <2>3 DEF Queue!Clear, Q
<1>2. ASSUME NEW d \in Data, Put(d)
      PROVE  [Queue!Next]_<<Q, out>>
  <2>1. Len(Q) < Size /\ Q' = Append(Q, d) /\ out' = out
    BY <1>2, PutRefines
  <2>2. Queue!Put(d)
    BY <2>1 DEF Queue!Put, Q
  <2> QED BY <2>2
<1>3. CASE GetNothing
  <2>1. Logical = 0 /\ Logical' = 0 /\ out' = Nothing
    BY <1>3 DEF GetNothing, Logical, Count
  <2>2. Q = <<>> /\ Q' = <<>>
    BY <2>1 DEF Q
  <2> QED BY <2>1, <2>2 DEF Queue!GetNothing, Q
<1>4. CASE StoreLow
  <2>1. Q # <<>> /\ Q' = Tail(Q) /\ out' = Head(Q)
    BY <1>4, GetRefines
  <2> QED BY <2>1 DEF Queue!Get, Q
<1>5. CASE Fetch \/ StoreRead \/ StoreEnd \/ LoadLow \/ LoadHigh \/ StoreHigh \/ UNCHANGED vars
  <2>1. Logical' = Logical
    BY <1>5 DEF Fetch, StoreRead, StoreEnd, LoadLow, LoadHigh, StoreHigh, vars,
                pointers, locals, Logical, Count, QueueInv, Agree
  <2>2. UNCHANGED <<pwrite, buf, out>>
    BY <1>5 DEF Fetch, StoreRead, StoreEnd, LoadLow, LoadHigh, StoreHigh, vars,
                pointers, locals
  <2>3. Q' = Q
    BY <2>1, <2>2 DEF Q, Slot
  <2> QED BY <2>2, <2>3
<1> QED BY <1>1, <1>2, <1>3, <1>4, <1>5 DEF Next, Get

\* With a consumer that nothing interrupts the ring buffer is a bounded queue,
\* whatever its size, however often its pointers wrap around and whenever
\* fifo_init empties it.
THEOREM RingBufferIsQueue ==
  ASSUME Interruptible = FALSE
  PROVE  Spec => QueueSpec
<1>1. Init => Queue!Init
  <2> SUFFICES ASSUME Init PROVE Queue!Init
    OBVIOUS
  <2>1. Logical = 0 /\ out = Nothing
    BY DEF Init, Logical, Count
  <2>2. Q = <<>>
    BY <2>1, QEmpty
  <2> QED BY <2>1, <2>2 DEF Queue!Init, Q
<1>2. QueueInv /\ [Next]_vars => QueueInv'
  BY QueueNext
<1>3. QueueInv /\ [Next]_vars => [Queue!Next]_<<Q, out>>
  BY QueueStep
<1> QED BY <1>1, <1>2, <1>3, QueueInit, PTL DEF Spec, QueueSpec, Queue!Spec, Q

=============================================================================
