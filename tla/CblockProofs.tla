----------------------------- MODULE CblockProofs -----------------------------
(***************************************************************************)
(* Proofs about Cblock and CblockFind.  For any number of blocks and any   *)
(* names, the blocks stay a forest that _parent and _sub agree about, what *)
(* has been generated stays under the root or under a block that is not    *)
(* placed yet, and no operation disturbs the order of the code of others.  *)
(* The path searches find what is there and nothing else, a full path      *)
(* leads back to its block, and an #undef covers the scope of its #define. *)
(*                                                                         *)
(* The proofs about Cblock come first.  Those about the searches start at  *)
(* "Recursion", those about define() at "define()".                        *)
(***************************************************************************)
EXTENDS CblockFind, SequenceTheorems, FiniteSetTheorems, TLAPS

-----------------------------------------------------------------------------
(* Lists of sub-blocks *)

\* q without its element at k
Dropped(q, k) == [i \in 1..(Len(q) - 1) |-> IF i < k THEN q[i] ELSE q[i + 1]]

\* q with c put at p
Inserted(q, p, c) ==
  [i \in 1..(Len(q) + 1) |-> IF i < p THEN q[i] ELSE IF i = p THEN c ELSE q[i - 1]]

(* Taking the first occurrence out of a list without repetitions leaves    *)
(* the rest as it was.                                                     *)
LEMMA RemoveFirstIsDropped ==
  ASSUME NEW S, NEW q \in Seq(S), IsInjective(q), NEW k \in 1..Len(q)
  PROVE  RemoveFirst(q, q[k]) = Dropped(q, k)
<1> DEFINE f == SubSeq(q, 1, k - 1)
           g == SubSeq(q, k + 1, Len(q))
<1>1. Len(q) \in Nat /\ k \in Nat /\ DOMAIN q = 1..Len(q)
  BY LenProperties
<1>2. {i \in 1..Len(q) : q[i] = q[k]} = {k}
  BY <1>1 DEF IsInjective
<1>3. SelectInSeq(q, LAMBDA v : v = q[k]) = k
  <2>1. Min({k}) = k
    BY <1>1 DEF Min
  <2> QED BY <1>2, <2>1 DEF SelectInSeq
<1>4. RemoveFirst(q, q[k]) = f \o g
  BY <1>1, <1>3 DEF RemoveFirst, RemoveAt
<1>5. f \in Seq(S) /\ Len(f) = k - 1 /\ \A i \in 1..(k - 1) : f[i] = q[i]
  BY <1>1, SubSeqProperties
<1>6. g \in Seq(S) /\ Len(g) = Len(q) - k /\ \A i \in 1..(Len(q) - k) : g[i] = q[k + i]
  <2>1. Len(q) \in Nat /\ k \in 1..Len(q)
    BY <1>1
  <2> QED BY <2>1
<1> HIDE DEF f, g
<1>7. /\ f \o g \in Seq(S) /\ Len(f \o g) = Len(f) + Len(g)
      /\ \A i \in 1..(Len(f) + Len(g)) : (f \o g)[i] = IF i <= Len(f) THEN f[i] ELSE g[i - Len(f)]
  BY <1>5, <1>6, ConcatProperties
<1>8. Len(f) + Len(g) = Len(q) - 1 /\ Len(q) - 1 \in Nat
  BY <1>1, <1>5, <1>6
<1> DEFINE d == f \o g
<1>9. d \in [1..(Len(q) - 1) -> S]
  BY <1>7, <1>8, LenProperties
<1>10. \A i \in 1..(Len(q) - 1) : d[i] = IF i <= k - 1 THEN f[i] ELSE g[i - (k - 1)]
  BY <1>5, <1>7, <1>8
<1> HIDE DEF d
<1>11. ASSUME NEW i \in 1..(Len(q) - 1)
       PROVE  d[i] = IF i < k THEN q[i] ELSE q[i + 1]
  <2>1. CASE i < k
    <3>1. i <= k - 1 /\ i \in 1..(k - 1)
      BY <1>1, <2>1
    <3> QED BY <1>5, <1>10, <2>1, <3>1
  <2>2. CASE ~(i < k)
    <3>1. ~(i <= k - 1) /\ i - (k - 1) \in 1..(Len(q) - k) /\ k + (i - (k - 1)) = i + 1
      BY <1>1, <2>2
    <3>2. g[i - (k - 1)] = q[i + 1]
      BY <1>6, <3>1
    <3> QED BY <1>10, <2>2, <3>1, <3>2
  <2> QED BY <2>1, <2>2
<1>12. d = Dropped(q, k)
  BY <1>9, <1>11 DEF Dropped
<1> QED BY <1>4, <1>12 DEF d

LEMMA InsertAtIsInserted ==
  ASSUME NEW S, NEW q \in Seq(S), NEW p \in 1..Len(q), NEW c \in S
  PROVE  InsertAt(q, p, c) = Inserted(q, p, c)
<1> DEFINE f == SubSeq(q, 1, p - 1)
           g == SubSeq(q, p, Len(q))
           d == f \o <<c>>
<1>1. Len(q) \in Nat /\ p \in Nat
  BY LenProperties
<1>2. f \in Seq(S) /\ Len(f) = p - 1 /\ \A i \in 1..(p - 1) : f[i] = q[i]
  BY <1>1, SubSeqProperties
<1>3. /\ g \in Seq(S) /\ Len(g) = Len(q) - p + 1
      /\ \A i \in 1..(Len(q) - p + 1) : g[i] = q[p + i - 1]
  BY <1>1, SubSeqProperties
<1> HIDE DEF f, g
<1>4. d \in Seq(S) /\ Len(d) = p /\ \A i \in 1..p : d[i] = IF i < p THEN q[i] ELSE c
  BY <1>1, <1>2
<1> HIDE DEF d
<1>5. /\ d \o g \in Seq(S) /\ Len(d \o g) = Len(d) + Len(g)
      /\ \A i \in 1..(Len(d) + Len(g)) : (d \o g)[i] = IF i <= Len(d) THEN d[i] ELSE g[i - Len(d)]
  BY <1>3, <1>4, ConcatProperties
<1>6. Len(d) + Len(g) = Len(q) + 1
  BY <1>1, <1>3, <1>4
<1> DEFINE e == d \o g
<1>7. e \in [1..(Len(q) + 1) -> S]
  BY <1>5, <1>6, LenProperties
<1>8. \A i \in 1..(Len(q) + 1) : e[i] = IF i <= p THEN d[i] ELSE g[i - p]
  BY <1>4, <1>5, <1>6
<1>9. InsertAt(q, p, c) = e
  BY DEF InsertAt, d, f, g
<1> HIDE DEF e
<1>10. ASSUME NEW i \in 1..(Len(q) + 1)
       PROVE  e[i] = IF i < p THEN q[i] ELSE IF i = p THEN c ELSE q[i - 1]
  <2>1. CASE i <= p
    <3>1. i \in 1..p
      BY <1>1, <2>1
    <3> QED BY <1>4, <1>8, <2>1, <3>1
  <2>2. CASE ~(i <= p)
    <3>1. i - p \in 1..(Len(q) - p + 1) /\ p + (i - p) - 1 = i - 1 /\ ~(i < p) /\ i # p
      BY <1>1, <2>2
    <3>2. g[i - p] = q[i - 1]
      BY <1>3, <3>1
    <3> QED BY <1>8, <2>2, <3>1, <3>2
  <2> QED BY <2>1, <2>2
<1> QED BY <1>7, <1>9, <1>10 DEF Inserted

LEMMA AppendIsInserted ==
  ASSUME NEW S, NEW q \in Seq(S), NEW c \in S
  PROVE  Append(q, c) = Inserted(q, Len(q) + 1, c)
<1>1. Len(q) \in Nat
  BY LenProperties
<1>2. /\ Append(q, c) \in [1..(Len(q) + 1) -> S]
      /\ \A i \in 1..Len(q) : Append(q, c)[i] = q[i]
      /\ Append(q, c)[Len(q) + 1] = c
  <2>1. Append(q, c) \in Seq(S) /\ Len(Append(q, c)) = Len(q) + 1
    OBVIOUS
  <2>2. Append(q, c) \in [1..(Len(q) + 1) -> S]
    BY <2>1, LenProperties
  <2> QED BY <1>1, <2>2
<1> DEFINE e == Append(q, c)
<1> HIDE DEF e
<1>3. \A i \in 1..(Len(q) + 1) : e[i] = IF i < Len(q) + 1 THEN q[i] ELSE c
  BY <1>1, <1>2 DEF e
<1>4. Inserted(q, Len(q) + 1, c) = [i \in 1..(Len(q) + 1) |-> IF i < Len(q) + 1 THEN q[i] ELSE c]
  BY <1>1 DEF Inserted
<1> QED BY <1>2, <1>3, <1>4 DEF e

LEMMA DroppedFacts ==
  ASSUME NEW S, NEW q \in Seq(S), IsInjective(q), NEW k \in 1..Len(q)
  PROVE  LET d == Dropped(q, k)
         IN /\ d \in Seq(S) /\ IsInjective(d)
            /\ ToSet(d) = ToSet(q) \ {q[k]}
            /\ SameOrder(q, d, {})
            /\ Last(q) # q[k] => d # <<>> /\ Last(d) = Last(q)
<1> DEFINE d == Dropped(q, k)
           n == Len(q)
<1>1. n \in Nat /\ n >= 1 /\ k \in Nat /\ DOMAIN q = 1..n /\ \A i \in 1..n : q[i] \in S
  BY LenProperties
<1> HIDE DEF n
<1>2. d = [i \in 1..(n - 1) |-> IF i < k THEN q[i] ELSE q[i + 1]]
  BY DEF Dropped, n
<1>3. k \in 1..n
  BY DEF n
<1> HIDE DEF d
<1>4. d \in [1..(n - 1) -> S]
  BY <1>1, <1>2, <1>3
<1>5. d \in Seq(S) /\ Len(d) = n - 1 /\ DOMAIN d = 1..(n - 1)
  BY <1>1, <1>4
\* where an element of q other than the k-th is in d, and back
<1> DEFINE To(i) == IF i < k THEN i ELSE i - 1
           From(i) == IF i < k THEN i ELSE i + 1
<1>6. \A i \in 1..(n - 1) : From(i) \in 1..n /\ From(i) # k /\ d[i] = q[From(i)]
  BY <1>1, <1>2, <1>3
<1>7. \A i \in 1..n : i # k => To(i) \in 1..(n - 1) /\ d[To(i)] = q[i]
  BY <1>1, <1>2, <1>3
<1>8. \A i, j \in 1..(n - 1) : From(i) = From(j) => i = j
  BY <1>1, <1>3
<1>9. \A i, j \in 1..n : i # k /\ j # k /\ i < j => To(i) < To(j)
  BY <1>1, <1>3
<1>10. \A i, j \in 1..n : q[i] = q[j] => i = j
  BY <1>1 DEF IsInjective
<1> HIDE DEF To, From
<1>11. IsInjective(d)
  <2>1. ASSUME NEW i \in 1..(n - 1), NEW j \in 1..(n - 1), d[i] = d[j] PROVE i = j
    <3>1. From(i) \in 1..n /\ From(j) \in 1..n /\ q[From(i)] = q[From(j)]
      BY <1>6, <2>1
    <3>2. From(i) = From(j)
      BY <1>10, <3>1
    <3> QED BY <1>8, <3>2
  <2> QED BY <1>5, <2>1 DEF IsInjective
<1>12. ToSet(d) = ToSet(q) \ {q[k]}
  <2>1. \A i \in 1..(n - 1) : \E j \in 1..n : d[i] = q[j] /\ q[j] # q[k]
    BY <1>3, <1>6, <1>10
  <2>2. \A i \in 1..n : q[i] # q[k] => \E j \in 1..(n - 1) : d[j] = q[i]
    BY <1>7
  <2>3. ToSet(q) = {q[i] : i \in 1..n} /\ ToSet(d) = {d[i] : i \in 1..(n - 1)}
    BY <1>1, <1>5 DEF ToSet
  <2>4. \A x : x \in ToSet(d) => x \in ToSet(q) /\ x # q[k]
    BY <2>1, <2>3
  <2>5. \A x : x \in ToSet(q) /\ x # q[k] => x \in ToSet(d)
    BY <2>2, <2>3
  <2> QED BY <2>4, <2>5
<1>13. SameOrder(q, d, {})
  <2> SUFFICES ASSUME NEW x \in ToSet(q) \cap ToSet(d), NEW y \in ToSet(q) \cap ToSet(d),
                      Before(q, x, y)
               PROVE  Before(d, x, y)
    BY DEF SameOrder
  <2>1. PICK i \in 1..n, j \in 1..n : i < j /\ q[i] = x /\ q[j] = y
    BY <1>1 DEF Before
  <2>2. i # k /\ j # k
    BY <1>12, <2>1
  <2>3. To(i) \in DOMAIN d /\ To(j) \in DOMAIN d /\ To(i) < To(j) /\ d[To(i)] = x /\ d[To(j)] = y
    BY <1>5, <1>7, <1>9, <2>1, <2>2
  <2> QED BY <2>3 DEF Before
<1>14. ASSUME Last(q) # q[k] PROVE d # <<>> /\ Last(d) = Last(q)
  <2>1. Last(q) = q[n] /\ n \in 1..n
    BY <1>1 DEF Last, n
  <2>2. n # k /\ k < n
    BY <1>1, <1>3, <1>14, <2>1
  <2>3. To(n) = n - 1 /\ n - 1 >= 1
    BY <1>1, <1>3, <2>2 DEF To
  <2>4. d[n - 1] = q[n]
    BY <1>7, <2>1, <2>2, <2>3
  <2>5. Last(d) = d[n - 1] /\ Len(d) # 0
    BY <1>1, <1>5, <2>3 DEF Last
  <2>6. Len(<<>>) = 0
    OBVIOUS
  <2> QED BY <2>1, <2>4, <2>5, <2>6
<1> QED BY <1>5, <1>11, <1>12, <1>13, <1>14 DEF d

LEMMA InsertedFacts ==
  ASSUME NEW S, NEW q \in Seq(S), IsInjective(q), NEW p \in 1..(Len(q) + 1),
         NEW c \in S, c \notin ToSet(q)
  PROVE  LET d == Inserted(q, p, c)
         IN /\ d \in Seq(S) /\ IsInjective(d) /\ d # <<>>
            /\ ToSet(d) = ToSet(q) \cup {c}
            /\ SameOrder(q, d, {})
            /\ Last(d) = IF p = Len(q) + 1 THEN c ELSE Last(q)
<1> DEFINE d == Inserted(q, p, c)
           n == Len(q)
<1>1. n \in Nat /\ p \in Nat /\ DOMAIN q = 1..n /\ \A i \in 1..n : q[i] \in S
  BY LenProperties
<1> HIDE DEF n
<1>2. d = [i \in 1..(n + 1) |-> IF i < p THEN q[i] ELSE IF i = p THEN c ELSE q[i - 1]]
  BY DEF Inserted, n
<1>3. p \in 1..(n + 1)
  BY DEF n
<1> HIDE DEF d
<1>4. d \in [1..(n + 1) -> S]
  BY <1>1, <1>2, <1>3
<1>5. d \in Seq(S) /\ Len(d) = n + 1 /\ DOMAIN d = 1..(n + 1)
  BY <1>1, <1>4
\* where an element of q is in d, and back
<1> DEFINE To(i) == IF i < p THEN i ELSE i + 1
           From(i) == IF i < p THEN i ELSE i - 1
<1>6. d[p] = c /\ \A i \in 1..(n + 1) : i # p => From(i) \in 1..n /\ d[i] = q[From(i)]
  BY <1>1, <1>2, <1>3
<1>7. \A i \in 1..n : To(i) \in 1..(n + 1) /\ d[To(i)] = q[i]
  BY <1>1, <1>2, <1>3
<1>8. \A i, j \in 1..(n + 1) : i # p /\ j # p /\ From(i) = From(j) => i = j
  BY <1>1, <1>3
<1>9. \A i, j \in 1..n : i < j => To(i) < To(j)
  BY <1>1, <1>3
<1>10. /\ \A i, j \in 1..n : q[i] = q[j] => i = j
       /\ \A i \in 1..n : q[i] # c
  BY <1>1 DEF IsInjective, ToSet
<1> HIDE DEF To, From
<1>11. IsInjective(d)
  BY <1>5, <1>6, <1>8, <1>10 DEF IsInjective
<1>12. ToSet(d) = ToSet(q) \cup {c}
  <2>1. \A i \in 1..(n + 1) : d[i] = c \/ \E j \in 1..n : d[i] = q[j]
    BY <1>6
  <2>2. \A i \in 1..n : \E j \in 1..(n + 1) : d[j] = q[i]
    BY <1>7
  <2>3. ToSet(q) = {q[i] : i \in 1..n} /\ ToSet(d) = {d[i] : i \in 1..(n + 1)}
    BY <1>1, <1>5 DEF ToSet
  <2> QED BY <1>3, <1>6, <2>1, <2>2, <2>3
<1>13. SameOrder(q, d, {})
  <2> SUFFICES ASSUME NEW x \in ToSet(q) \cap ToSet(d), NEW y \in ToSet(q) \cap ToSet(d),
                      Before(q, x, y)
               PROVE  Before(d, x, y)
    BY DEF SameOrder
  <2>1. PICK i \in 1..n, j \in 1..n : i < j /\ q[i] = x /\ q[j] = y
    BY <1>1 DEF Before
  <2>2. To(i) \in DOMAIN d /\ To(j) \in DOMAIN d /\ To(i) < To(j) /\ d[To(i)] = x /\ d[To(j)] = y
    BY <1>5, <1>7, <1>9, <2>1
  <2> QED BY <2>2 DEF Before
<1>14. d # <<>>
  <2>1. Len(d) # 0 /\ Len(<<>>) = 0
    BY <1>1, <1>5
  <2> QED BY <2>1
<1>15. Last(d) = IF p = n + 1 THEN c ELSE Last(q)
  <2>1. Last(d) = d[n + 1] /\ Last(q) = q[n]
    BY <1>5 DEF Last, n
  <2>2. p # n + 1 => From(n + 1) = n
    BY <1>1, <1>3 DEF From
  <2> QED BY <1>1, <1>6, <2>1, <2>2
<1> QED BY <1>5, <1>11, <1>12, <1>13, <1>14, <1>15 DEF d, n

LEMMA RemoveFirstFacts ==
  ASSUME NEW S, NEW q \in Seq(S), IsInjective(q), NEW e \in ToSet(q)
  PROVE  LET d == RemoveFirst(q, e)
         IN /\ d \in Seq(S) /\ IsInjective(d)
            /\ ToSet(d) = ToSet(q) \ {e}
            /\ SameOrder(q, d, {})
            /\ Last(q) # e => d # <<>> /\ Last(d) = Last(q)
<1>1. PICK k \in 1..Len(q) : q[k] = e
  BY DEF ToSet
<1>2. RemoveFirst(q, e) = Dropped(q, k)
  BY <1>1, RemoveFirstIsDropped
<1> QED BY <1>1, <1>2, DroppedFacts

(* append puts a block last, or just before a block named "last".          *)
LEMMA PlaceFacts ==
  ASSUME NEW t, NEW q \in Seq(Blocks), IsInjective(q), NEW c \in Blocks, c \notin ToSet(q)
  PROVE  LET d == Place(t, q, c)
         IN /\ d \in Seq(Blocks) /\ IsInjective(d) /\ d # <<>>
            /\ ToSet(d) = ToSet(q) \cup {c}
            /\ SameOrder(q, d, {})
            /\ Last(d) = IF q # <<>> /\ t.name[Last(q)] = "last" THEN Last(q) ELSE c
<1>1. Len(q) \in Nat /\ (q # <<>> => Len(q) \in 1..Len(q))
  BY LenProperties
<1>2. CASE q # <<>> /\ t.name[Last(q)] = "last"
  <2>1. Place(t, q, c) = Inserted(q, Len(q), c)
    BY <1>1, <1>2, InsertAtIsInserted DEF Place
  <2>2. Len(q) \in 1..(Len(q) + 1) /\ Len(q) # Len(q) + 1
    BY <1>1, <1>2
  <2> QED BY <1>2, <2>1, <2>2, InsertedFacts
<1>3. CASE ~(q # <<>> /\ t.name[Last(q)] = "last")
  <2>1. Place(t, q, c) = Inserted(q, Len(q) + 1, c)
    BY <1>3, AppendIsInserted DEF Place
  <2>2. Len(q) + 1 \in 1..(Len(q) + 1)
    BY <1>1
  <2> QED BY <1>3, <2>1, <2>2, InsertedFacts
<1> QED BY <1>2, <1>3

LEMMA LeastNat ==
  ASSUME NEW S \in SUBSET Nat, S # {}
  PROVE  \E m \in S : \A k \in S : m <= k
<1> DEFINE R == OpToRel(<, Nat)
<1>1. IsWellFoundedOn(R, Nat)
  BY NatLessThanWellFounded
<1>2. \A x, y \in Nat : <<y, x>> \in R <=> y < x
  BY DEF OpToRel
<1> HIDE DEF R
<1>3. PICK m \in S : \A k \in S : ~(<<k, m>> \in R)
  BY <1>1, WFMin
<1>4. \A k \in S : ~(k < m)
  BY <1>2, <1>3
<1> QED BY <1>4

LEMMA MinIsLeast ==
  ASSUME NEW S \in SUBSET Nat, S # {}
  PROVE  Min(S) \in S /\ \A k \in S : Min(S) <= k
BY LeastNat DEF Min

-----------------------------------------------------------------------------
(* What is under a block *)

Typed(t) == t.sub \in [Blocks -> Seq(Blocks)]

(* A block is under itself, and so is everything that is listed under it.  *)
LEMMA SubtreeClosed ==
  ASSUME NEW t, Typed(t), NEW b \in Blocks
  PROVE  Subtree(t, b) \subseteq Blocks /\ b \in Subtree(t, b) /\ Closed(t, Subtree(t, b))
<1>1. ASSUME NEW x \in Subtree(t, b), NEW y \in ToSet(t.sub[x])
      PROVE  y \in Subtree(t, b)
  <2>1. x \in Blocks /\ t.sub[x] \in Seq(Blocks)
    BY DEF Subtree, Typed
  <2>2. y \in Blocks
    <3>1. PICK i \in DOMAIN t.sub[x] : y = t.sub[x][i]
      BY DEF ToSet
    <3> QED BY <2>1, <3>1
  <2>3. ASSUME NEW S \in SUBSET Blocks, b \in S, Closed(t, S) PROVE y \in S
    <3>1. x \in S
      BY <2>3 DEF Subtree
    <3> QED BY <2>3, <3>1 DEF Closed
  <2> QED BY <2>2, <2>3 DEF Subtree
<1>2. Closed(t, Subtree(t, b))
  BY <1>1 DEF Closed
<1> QED BY <1>2 DEF Subtree

LEMMA SubtreeLeast ==
  ASSUME NEW t, NEW b, NEW S \in SUBSET Blocks, b \in S, Closed(t, S)
  PROVE  Subtree(t, b) \subseteq S
BY DEF Subtree

(* Whatever else is under a block is listed by something under it.         *)
LEMMA SubtreeReached ==
  ASSUME NEW t, Typed(t), NEW b \in Blocks, NEW c \in Subtree(t, b), c # b
  PROVE  \E x \in Subtree(t, b) : c \in ToSet(t.sub[x])
<1> SUFFICES ASSUME \A x \in Subtree(t, b) : c \notin ToSet(t.sub[x])
             PROVE  FALSE
  OBVIOUS
<1> DEFINE S == Subtree(t, b) \ {c}
<1>1. S \in SUBSET Blocks /\ b \in S
  BY SubtreeClosed
<1>2. Closed(t, S)
  BY SubtreeClosed DEF Closed
<1>3. Subtree(t, b) \subseteq S
  <2> HIDE DEF S
  <2> QED BY <1>1, <1>2, SubtreeLeast
<1> QED BY <1>3

-----------------------------------------------------------------------------
(* The inductive invariant: besides what the runs check, every listed or   *)
(* living block has been made, the root has no other parent, parents live, *)
(* and nothing is left of the links of deleted blocks.                     *)

Shape(t) ==
  /\ t.parent[Root] = Root
  /\ \A b \in t.live : b <= t.used /\ t.parent[b] \in t.live
  /\ \A b \in Blocks \ t.live : t.sub[b] = <<>> /\ t.parent[b] = Null

Inv == TypeOK /\ TreeConsistent /\ ProgramIsTree /\ Shape(tree)

\* the same of any tree, also one that is only passed through
TreeSet == [used : Blocks, live : SUBSET Blocks, name : [Blocks -> Names],
            parent : [Blocks -> Blocks \cup {Null}], sub : [Blocks -> Seq(Blocks)]]
Consistent(t) ==
  /\ Root \in t.live
  /\ \A b \in t.live : /\ IsInjective(t.sub[b])
                       /\ ToSet(t.sub[b]) = {c \in t.live : t.parent[c] = b /\ c # b}
IsTree(t) == \A b \in t.live : \E top \in t.live : t.parent[top] = top /\ b \in Subtree(t, top)
TreeOK(t) == t \in TreeSet /\ Consistent(t) /\ IsTree(t) /\ Shape(t)

LEMMA InvIsTreeOK == (Inv <=> TreeOK(tree)) /\ (Inv' <=> TreeOK(tree'))
<1>1. Inv <=> TreeOK(tree)
  BY DEF Inv, TypeOK, TreeConsistent, ProgramIsTree, TreeOK, TreeSet, Consistent, IsTree
<1>2. Inv' <=> TreeOK(tree')
  BY DEF Inv, TypeOK, TreeConsistent, ProgramIsTree, TreeOK, TreeSet, Consistent, IsTree
<1> QED BY <1>1, <1>2

\* a block is listed by its parent, and by no other
LEMMA ListedIn ==
  ASSUME NEW t, TreeOK(t), NEW x \in Blocks, NEW c
  PROVE  /\ IsInjective(t.sub[x])
         /\ t.sub[x] \in Seq(Blocks)
         /\ c \in ToSet(t.sub[x]) <=> /\ x \in t.live /\ c \in t.live
                                      /\ t.parent[c] = x /\ c # x
<1>1. t.sub[x] \in Seq(Blocks)
  BY DEF TreeOK, TreeSet
<1>2. CASE x \in t.live
  BY <1>1, <1>2 DEF TreeOK, Consistent
<1>3. CASE x \notin t.live
  <2>1. t.sub[x] = <<>>
    BY <1>3 DEF TreeOK, Shape
  <2>2. DOMAIN <<>> = {}
    OBVIOUS
  <2>3. IsInjective(<<>>) /\ ToSet(<<>>) = {}
    BY <2>2 DEF IsInjective, ToSet
  <2> QED BY <1>1, <1>3, <2>1, <2>3
<1> QED BY <1>2, <1>3

LEMMA Listed ==
  ASSUME Inv, NEW x \in Blocks, NEW c
  PROVE  /\ IsInjective(tree.sub[x])
         /\ tree.sub[x] \in Seq(Blocks)
         /\ c \in ToSet(tree.sub[x]) <=> /\ x \in tree.live /\ c \in tree.live
                                         /\ tree.parent[c] = x /\ c # x
<1>1. TreeOK(tree)
  BY InvIsTreeOK
<1> QED BY <1>1, ListedIn

LEMMA InvFacts ==
  ASSUME Inv
  PROVE  /\ Typed(tree) /\ tree.live \subseteq Blocks /\ Root \in tree.live
         /\ tree.used \in Blocks /\ tree.name \in [Blocks -> Names]
         /\ tree.parent \in [Blocks -> Blocks \cup {Null}]
         /\ \A b \in tree.live : tree.parent[b] \in tree.live
BY DEF Inv, TypeOK, TreeConsistent, Shape, Typed

LEMMA TreeFacts ==
  ASSUME NEW t, TreeOK(t)
  PROVE  /\ t \in TreeSet /\ Typed(t) /\ t.live \subseteq Blocks /\ Root \in t.live
         /\ t.used \in Blocks /\ t.name \in [Blocks -> Names]
         /\ t.parent \in [Blocks -> Blocks \cup {Null}] /\ t.sub \in [Blocks -> Seq(Blocks)]
         /\ \A b \in t.live : t.parent[b] \in t.live
BY DEF TreeOK, TreeSet, Consistent, Shape, Typed

(* operator[] and a path component find the first sub-block of a name.     *)
LEMMA SubNamedNone ==
  ASSUME NEW t, t.sub \in [Blocks -> Seq(Blocks)], NEW b \in Blocks, NEW n,
         SubNamed(t, b, n) = Null, NEW x \in ToSet(t.sub[b])
  PROVE  t.name[x] # n
<1> DEFINE C == Called(t, b, n)
<1>1. t.sub[b] \in Seq(Blocks)
  OBVIOUS
<1>2. C \in SUBSET Nat /\ \A i : i \in C <=> i \in DOMAIN t.sub[b] /\ t.name[t.sub[b][i]] = n
  BY <1>1 DEF Called
<1>3. C = {}
  <2> SUFFICES ASSUME C # {} PROVE FALSE
    OBVIOUS
  <2>1. SubNamed(t, b, n) = t.sub[b][Min(C)]
    BY DEF SubNamed
  <2>2. PICK m \in C : m = Min(C)
    <3> HIDE DEF C
    <3> QED BY <1>2, MinIsLeast
  <2>3. t.sub[b][m] \in Blocks
    <3>1. m \in DOMAIN t.sub[b]
      BY <1>2
    <3> QED BY <1>1, <3>1
  <2> QED BY <2>1, <2>2, <2>3 DEF Null, Blocks
<1>4. PICK i \in DOMAIN t.sub[b] : x = t.sub[b][i]
  BY DEF ToSet
<1> QED BY <1>2, <1>3, <1>4

IsFirst(t, b, n, i) ==
  /\ i \in DOMAIN t.sub[b] /\ t.name[t.sub[b][i]] = n
  /\ \A j \in DOMAIN t.sub[b] : j < i => t.name[t.sub[b][j]] # n

LEMMA SubNamedFirst ==
  ASSUME NEW t, t.sub \in [Blocks -> Seq(Blocks)], NEW b \in Blocks, NEW n,
         SubNamed(t, b, n) # Null
  PROVE  \E i : SubNamed(t, b, n) = t.sub[b][i] /\ IsFirst(t, b, n, i)
<1> DEFINE C == Called(t, b, n)
<1>1. t.sub[b] \in Seq(Blocks)
  OBVIOUS
<1>2. C \in SUBSET Nat /\ \A i : i \in C <=> i \in DOMAIN t.sub[b] /\ t.name[t.sub[b][i]] = n
  BY <1>1 DEF Called
<1>3. C # {} /\ SubNamed(t, b, n) = t.sub[b][Min(C)]
  BY DEF SubNamed
<1>4. PICK m \in C : m = Min(C) /\ \A k \in C : m <= k
  <2> HIDE DEF C
  <2> QED BY <1>2, <1>3, MinIsLeast
<1>5. m \in DOMAIN t.sub[b] /\ t.name[t.sub[b][m]] = n /\ m \in Nat
  BY <1>1, <1>2, <1>4
<1>6. ASSUME NEW j \in DOMAIN t.sub[b], j < m PROVE t.name[t.sub[b][j]] # n
  <2> SUFFICES ASSUME t.name[t.sub[b][j]] = n PROVE FALSE
    OBVIOUS
  <2>1. j \in Nat /\ j \in C
    BY <1>1, <1>2
  <2>2. m <= j
    BY <1>4, <2>1
  <2> QED BY <1>5, <1>6, <2>1, <2>2
<1> QED BY <1>3, <1>4, <1>5, <1>6 DEF IsFirst

LEMMA SubNamedFound ==
  ASSUME NEW t, t.sub \in [Blocks -> Seq(Blocks)], NEW b \in Blocks, NEW n,
         SubNamed(t, b, n) # Null
  PROVE  /\ SubNamed(t, b, n) \in ToSet(t.sub[b]) /\ SubNamed(t, b, n) \in Blocks
         /\ t.name[SubNamed(t, b, n)] = n
<1>1. PICK i \in DOMAIN t.sub[b] : SubNamed(t, b, n) = t.sub[b][i] /\ t.name[t.sub[b][i]] = n
  BY SubNamedFirst DEF IsFirst
<1>2. t.sub[b] \in Seq(Blocks)
  OBVIOUS
<1>3. t.sub[b][i] \in ToSet(t.sub[b]) /\ t.sub[b][i] \in Blocks
  BY <1>2 DEF ToSet
<1> QED BY <1>1, <1>3

LEMMA SubtreeLives ==
  ASSUME Inv, NEW b \in tree.live
  PROVE  Subtree(tree, b) \subseteq tree.live
<1>1. Closed(tree, tree.live)
  BY Listed, InvFacts DEF Closed
<1> QED BY <1>1, InvFacts, SubtreeLeast

(* What is under b, and is not b, has its parent under b.                  *)
LEMMA ParentUnder ==
  ASSUME Inv, NEW b \in tree.live, NEW c \in Subtree(tree, b), c # b
  PROVE  tree.parent[c] \in Subtree(tree, b) /\ tree.parent[c] # c
<1>1. PICK x \in Subtree(tree, b) : c \in ToSet(tree.sub[x])
  BY InvFacts, SubtreeReached
<1>2. x \in Blocks
  BY DEF Subtree
<1> QED BY <1>1, <1>2, Listed

(* No block is under itself the long way: following the parents leads up   *)
(* to a block that is its own.                                             *)
LEMMA NoLoop ==
  ASSUME Inv, NEW b \in tree.live, tree.parent[b] # b
  PROVE  tree.parent[b] \notin Subtree(tree, b)
<1> SUFFICES ASSUME tree.parent[b] \in Subtree(tree, b) PROVE FALSE
  OBVIOUS
<1>1. PICK top \in tree.live : tree.parent[top] = top /\ b \in Subtree(tree, top)
  BY DEF Inv, ProgramIsTree
<1> DEFINE Z == Subtree(tree, top) \ Subtree(tree, b)
<1>2. top \notin Subtree(tree, b)
  BY <1>1, ParentUnder
<1>3. Z \in SUBSET Blocks /\ top \in Z
  BY <1>1, <1>2, InvFacts, SubtreeClosed
<1>4. ASSUME NEW x \in Z, NEW c \in ToSet(tree.sub[x]) PROVE c \in Z
  <2>1. c \in Subtree(tree, top)
    BY <1>1, InvFacts, SubtreeClosed DEF Closed
  <2>2. tree.parent[c] = x
    BY <1>3, Listed
  <2>3. c \notin Subtree(tree, b)
    BY <2>2, ParentUnder
  <2> QED BY <2>1, <2>3
<1>5. Closed(tree, Z)
  BY <1>4 DEF Closed
<1>6. Subtree(tree, top) \subseteq Z
  <2> HIDE DEF Z
  <2> QED BY <1>3, <1>5, SubtreeLeast
<1>7. b \in Subtree(tree, b)
  BY InvFacts, SubtreeClosed
<1> QED BY <1>1, <1>6, <1>7

-----------------------------------------------------------------------------
(* What the operations do to the fields of the tree *)

LEMMA ConstructedFields ==
  ASSUME NEW t \in TreeSet, NEW p \in Blocks, NEW n \in Names, NewBlock(t) \in Blocks
  PROVE  LET u == Constructed(t, p, n)
         IN /\ u \in TreeSet
            /\ u.used = NewBlock(t) /\ u.live = t.live \cup {NewBlock(t)} /\ u.sub = t.sub
            /\ u.name = [t.name EXCEPT ![NewBlock(t)] = n]
            /\ u.parent = [t.parent EXCEPT ![NewBlock(t)] = p]
<1> DEFINE c == NewBlock(t)
<1>1. c \in Blocks
  OBVIOUS
<1> HIDE DEF c
<1>2. Constructed(t, p, n) = [t EXCEPT !.used = c, !.live = @ \cup {c}, !.name[c] = n, !.parent[c] = p]
  BY DEF Constructed, c
<1> DEFINE u == Constructed(t, p, n)
<1> HIDE DEF u
<1>3. u = [t EXCEPT !.used = c, !.live = @ \cup {c}, !.name[c] = n, !.parent[c] = p]
  BY <1>2 DEF u
<1>4. u \in TreeSet
  BY <1>1, <1>3 DEF TreeSet
<1>5. u.used = c /\ u.live = t.live \cup {c} /\ u.sub = t.sub
  BY <1>3 DEF TreeSet
<1>6. u.name = [t.name EXCEPT ![c] = n]
  BY <1>3 DEF TreeSet
<1>7. u.parent = [t.parent EXCEPT ![c] = p]
  BY <1>3 DEF TreeSet
<1> QED BY <1>4, <1>5, <1>6, <1>7 DEF c, u

LEMMA AppendedFields ==
  ASSUME NEW t \in TreeSet, NEW b \in Blocks, NEW c \in Blocks,
         Place(t, t.sub[b], c) \in Seq(Blocks)
  PROVE  LET u == Appended(t, b, c)
         IN /\ u \in TreeSet
            /\ u.used = t.used /\ u.live = t.live /\ u.name = t.name
            /\ \A x \in Blocks : u.parent[x] = IF x = c THEN b ELSE t.parent[x]
            /\ \A x \in Blocks : u.sub[x] = IF x = b THEN Place(t, t.sub[b], c) ELSE t.sub[x]
<1> DEFINE q == Place(t, t.sub[b], c)
           u == Appended(t, b, c)
<1>1. u = [t EXCEPT !.parent[c] = b, !.sub[b] = q]
  BY DEF Appended, TreeSet
<1>2. q \in Seq(Blocks)
  OBVIOUS
<1> HIDE DEF q, u
<1>3. u \in TreeSet
  BY <1>1, <1>2 DEF TreeSet
<1>4. u.used = t.used /\ u.live = t.live /\ u.name = t.name
  BY <1>1 DEF TreeSet
<1>5. \A x \in Blocks : u.parent[x] = IF x = c THEN b ELSE t.parent[x]
  BY <1>1 DEF TreeSet
<1>6. \A x \in Blocks : u.sub[x] = IF x = b THEN q ELSE t.sub[x]
  BY <1>1 DEF TreeSet
<1> QED BY <1>3, <1>4, <1>5, <1>6 DEF q, u

(* after(): wherever b was listed it is taken out, and it is put under     *)
(* prev.                                                                   *)
LEMMA AfterFields ==
  ASSUME Inv, NEW b \in tree.live, NEW prev \in tree.live, prev # b,
         tree' = Appended(Unlink(tree, b), prev, b)
  PROVE  /\ tree' \in TreeSet
         /\ tree'.used = tree.used /\ tree'.live = tree.live /\ tree'.name = tree.name
         /\ \A x \in Blocks : tree'.parent[x] = IF x = b THEN prev ELSE tree.parent[x]
         /\ tree.name[b] = "last" => EndsInLast(tree', prev)
         /\ \A x \in Blocks :
              LET q == tree.sub[x]  d == tree'.sub[x]
              IN /\ IsInjective(d)
                 /\ ToSet(d) = (ToSet(q) \ {b}) \cup (IF x = prev THEN {b} ELSE {})
                 /\ SameOrder(q, d, {b})
                 /\ EndsInLast(tree, x) /\ Last(q) \in ToSet(d) => EndsInLast(tree', x)
<1> DEFINE u == Unlink(tree, b)
<1>1. tree \in TreeSet /\ b \in Blocks /\ prev \in Blocks
  BY InvFacts DEF Inv, TypeOK, TreeSet
\* out of the old list
<1>2. /\ u \in TreeSet
      /\ u.used = tree.used /\ u.live = tree.live /\ u.name = tree.name
      /\ \A x \in Blocks : x # b => u.parent[x] = tree.parent[x]
      /\ \A x \in Blocks :
           LET q == tree.sub[x]  d == u.sub[x]
           IN /\ IsInjective(d)
              /\ ToSet(d) = ToSet(q) \ {b}
              /\ SameOrder(q, d, {})
              /\ q # <<>> /\ Last(q) # b => d # <<>> /\ Last(d) = Last(q)
  <2>1. CASE Linked(tree, b)
    <3> DEFINE p == tree.parent[b]
               r == RemoveFirst(tree.sub[p], b)
    <3>1. p \in Blocks /\ p # b
      BY <1>1, <2>1 DEF Linked, TreeSet
    <3>2. b \in ToSet(tree.sub[p]) /\ IsInjective(tree.sub[p]) /\ tree.sub[p] \in Seq(Blocks)
      BY <3>1, InvFacts, Listed
    <3>3. /\ r \in Seq(Blocks) /\ IsInjective(r) /\ ToSet(r) = ToSet(tree.sub[p]) \ {b}
          /\ SameOrder(tree.sub[p], r, {})
          /\ Last(tree.sub[p]) # b => r # <<>> /\ Last(r) = Last(tree.sub[p])
      <4> HIDE DEF p
      <4> QED BY <3>2, RemoveFirstFacts
    <3> HIDE DEF p, r
    <3>4. u = [tree EXCEPT !.sub[p] = r, !.parent[b] = Null]
      BY <1>1, <2>1 DEF Unlink, p, r, TreeSet
    <3> HIDE DEF u
    <3>5. /\ u \in TreeSet
          /\ u.used = tree.used /\ u.live = tree.live /\ u.name = tree.name
          /\ \A x \in Blocks : x # b => u.parent[x] = tree.parent[x]
          /\ \A x \in Blocks : u.sub[x] = IF x = p THEN r ELSE tree.sub[x]
      <4>1. u \in TreeSet
        BY <1>1, <3>1, <3>3, <3>4 DEF TreeSet
      <4>2. u.used = tree.used /\ u.live = tree.live /\ u.name = tree.name
        BY <1>1, <3>4 DEF TreeSet
      <4>3. \A x \in Blocks : x # b => u.parent[x] = tree.parent[x]
        BY <1>1, <3>4 DEF TreeSet
      <4>4. \A x \in Blocks : u.sub[x] = IF x = p THEN r ELSE tree.sub[x]
        BY <1>1, <3>4 DEF TreeSet
      <4> QED BY <4>1, <4>2, <4>3, <4>4
    <3>6. ASSUME NEW x \in Blocks, x # p
          PROVE  /\ u.sub[x] = tree.sub[x] /\ b \notin ToSet(tree.sub[x])
                 /\ IsInjective(tree.sub[x])
      BY <3>5, <3>6, <1>1, Listed DEF p, TreeSet
    <3>7. \A q : SameOrder(q, q, {})
      BY DEF SameOrder
    <3>8. u.sub[p] = r
      BY <1>1, <3>1, <3>5 DEF TreeSet
    <3> QED BY <3>3, <3>5, <3>6, <3>7, <3>8
  <2>2. CASE ~Linked(tree, b)
    <3>1. u = tree /\ tree.parent[b] = b
      <4>1. tree.parent[b] \in {b, Null}
        BY <2>2 DEF Linked
      <4>2. tree.parent[b] # Null
        <5>1. tree.parent[b] \in tree.live
          BY InvFacts
        <5>2. tree.parent[b] \in 1..MaxBlocks
          BY <5>1, InvFacts DEF Blocks
        <5> QED BY <5>2 DEF Null
      <4> QED BY <2>2, <4>1, <4>2 DEF Unlink
    <3>2. \A x \in Blocks : b \notin ToSet(tree.sub[x]) /\ IsInjective(tree.sub[x])
      BY <3>1, Listed
    <3>3. \A q : SameOrder(q, q, {})
      BY DEF SameOrder
    <3> HIDE DEF u
    <3> QED BY <1>1, <3>1, <3>2, <3>3
  <2> QED BY <2>1, <2>2
<1> HIDE DEF u
\* into the new one
<1> DEFINE q == Place(u, u.sub[prev], b)
<1>3. u.sub[prev] \in Seq(Blocks) /\ IsInjective(u.sub[prev]) /\ b \notin ToSet(u.sub[prev])
  BY <1>1, <1>2 DEF TreeSet
<1>4. /\ q \in Seq(Blocks) /\ IsInjective(q) /\ q # <<>>
      /\ ToSet(q) = ToSet(u.sub[prev]) \cup {b}
      /\ SameOrder(u.sub[prev], q, {})
      /\ Last(q) = IF u.sub[prev] # <<>> /\ u.name[Last(u.sub[prev])] = "last"
                   THEN Last(u.sub[prev]) ELSE b
  BY <1>1, <1>3, PlaceFacts
<1>5. /\ tree' \in TreeSet
      /\ tree'.used = u.used /\ tree'.live = u.live /\ tree'.name = u.name
      /\ \A x \in Blocks : tree'.parent[x] = IF x = b THEN prev ELSE u.parent[x]
      /\ \A x \in Blocks : tree'.sub[x] = IF x = prev THEN q ELSE u.sub[x]
  BY <1>1, <1>2, <1>4, AppendedFields DEF u
<1> HIDE DEF q
<1>6. \A x \in Blocks : tree'.parent[x] = IF x = b THEN prev ELSE tree.parent[x]
  BY <1>2, <1>5
<1>7. ASSUME NEW x \in Blocks
      PROVE  LET old == tree.sub[x]  new == tree'.sub[x]
             IN /\ IsInjective(new)
                /\ ToSet(new) = (ToSet(old) \ {b}) \cup (IF x = prev THEN {b} ELSE {})
                /\ SameOrder(old, new, {b})
                /\ EndsInLast(tree, x) /\ Last(old) \in ToSet(new) => EndsInLast(tree', x)
  <2> DEFINE mid == u.sub[x]
             old == tree.sub[x]
             new == tree'.sub[x]
  <2>1. /\ IsInjective(mid) /\ ToSet(mid) = ToSet(old) \ {b} /\ SameOrder(old, mid, {})
        /\ old # <<>> /\ Last(old) # b => mid # <<>> /\ Last(mid) = Last(old)
    BY <1>2
  <2>2. /\ x # prev => new = mid
        /\ x = prev => new = q
    BY <1>1, <1>5
  <2>3. IsInjective(new)
    BY <1>4, <2>1, <2>2
  <2>4. ToSet(new) = ToSet(mid) \cup (IF x = prev THEN {b} ELSE {})
    BY <1>4, <2>2
  <2>5. SameOrder(mid, new, {})
    <3>1. SameOrder(mid, mid, {})
      BY DEF SameOrder
    <3> QED BY <1>4, <2>2, <3>1
  <2> HIDE DEF mid, old, new
  <2>6. SameOrder(old, new, {b})
    BY <2>1, <2>4, <2>5 DEF SameOrder
  <2>7. EndsInLast(tree, x) /\ Last(old) \in ToSet(new) => EndsInLast(tree', x)
    <3> SUFFICES ASSUME old # <<>>, tree.name[Last(old)] = "last", Last(old) \in ToSet(new)
                 PROVE  new # <<>> /\ tree.name[Last(new)] = "last"
      BY <1>2, <1>5 DEF EndsInLast, old, new
    <3>1. CASE x # prev
      <4>1. Last(old) # b
        BY <2>1, <2>4, <3>1
      <4> QED BY <2>1, <2>2, <3>1, <4>1
    <3>2. CASE x = prev
      <4>1. new = q /\ mid = u.sub[prev]
        BY <2>2, <3>2 DEF mid
      <4>2. CASE Last(old) = b
        BY <1>2, <1>4, <4>1, <4>2
      <4>3. CASE Last(old) # b
        BY <1>2, <1>4, <2>1, <4>1, <4>3
      <4> QED BY <4>2, <4>3
    <3> QED BY <3>1, <3>2
  <2> QED BY <2>1, <2>3, <2>4, <2>6, <2>7 DEF old, new
<1>8. tree.name[b] = "last" => EndsInLast(tree', prev)
  <2>1. tree'.sub[prev] = q /\ tree'.name = tree.name /\ u.name = tree.name
    BY <1>1, <1>2, <1>5
  <2> QED BY <1>4, <2>1 DEF EndsInLast
<1> QED BY <1>2, <1>5, <1>6, <1>7, <1>8

LEMMA ClearFields ==
  ASSUME Inv, NEW b \in tree.live, clear(b)
  PROVE  LET D == Deleted(tree, b)
         IN /\ tree' \in TreeSet
            /\ tree'.used = tree.used /\ tree'.live = tree.live \ D /\ tree'.name = tree.name
            /\ tree'.parent = [x \in Blocks |-> IF x \in D THEN Null ELSE tree.parent[x]]
            /\ tree'.sub = [x \in Blocks |-> IF x \in D \cup {b} THEN <<>> ELSE tree.sub[x]]
<1> DEFINE D == Deleted(tree, b)
<1>1. tree \in TreeSet
  BY DEF Inv, TypeOK, TreeSet
<1> HIDE DEF D
<1>2. tree' = [tree EXCEPT
        !.live = @ \ D,
        !.parent = [x \in Blocks |-> IF x \in D THEN Null ELSE @[x]],
        !.sub = [x \in Blocks |-> IF x \in D \cup {b} THEN <<>> ELSE @[x]]]
  BY DEF clear, D
<1>3. tree'.used = tree.used /\ tree'.live = tree.live \ D /\ tree'.name = tree.name
  BY <1>1, <1>2 DEF TreeSet
<1>4. tree'.parent = [x \in Blocks |-> IF x \in D THEN Null ELSE tree.parent[x]]
  BY <1>1, <1>2 DEF TreeSet
<1>5. tree'.sub = [x \in Blocks |-> IF x \in D \cup {b} THEN <<>> ELSE tree.sub[x]]
  BY <1>1, <1>2 DEF TreeSet
<1>6. tree' \in TreeSet
  <2>1. tree.parent \in [Blocks -> Blocks \cup {Null}] /\ tree.sub \in [Blocks -> Seq(Blocks)]
    BY <1>1 DEF TreeSet
  <2>2. tree'.parent \in [Blocks -> Blocks \cup {Null}]
    BY <1>4, <2>1
  <2>3. tree'.sub \in [Blocks -> Seq(Blocks)]
    BY <1>5, <2>1
  <2>4. tree' = [tree EXCEPT !.live = tree'.live, !.parent = tree'.parent, !.sub = tree'.sub]
    BY <1>2, <1>3, <1>4, <1>5
  <2>5. tree'.live \in SUBSET Blocks
    BY <1>1, <1>3 DEF TreeSet
  <2> QED BY <1>1, <2>2, <2>3, <2>4, <2>5 DEF TreeSet
<1> QED BY <1>3, <1>4, <1>5, <1>6 DEF D

-----------------------------------------------------------------------------
(* Every step keeps the invariant and the order of the code                *)

LastStep ==
  \A b \in tree.live \cap tree'.live :
    EndsInLast(tree, b) /\ Last(tree.sub[b]) \in ToSet(tree'.sub[b]) => EndsInLast(tree', b)

InOrder(s, t) == IF ToSet(s) = ToSet(t) THEN \E m \in Blocks : SameOrder(s, t, {m})
                                        ELSE SameOrder(s, t, {})
OrderStep == \A b \in tree.live \cap tree'.live : InOrder(tree.sub[b], tree'.sub[b])

LEMMA RootIsBlock == Root \in Blocks
BY CblockAssumption DEF Root, Blocks

LEMMA NothingMoved ==
  ASSUME NEW s, NEW t, SameOrder(s, t, {})
  PROVE  InOrder(s, t)
<1>1. SameOrder(s, t, {Root})
  BY DEF SameOrder
<1> QED BY <1>1, RootIsBlock DEF InOrder

LEMMA SameInOrder ==
  ASSUME NEW s
  PROVE  InOrder(s, s) /\ InOrder(s, <<>>)
<1>1. DOMAIN <<>> = {}
  OBVIOUS
<1>2. ToSet(<<>>) = {}
  BY <1>1 DEF ToSet
<1>3. SameOrder(s, s, {}) /\ SameOrder(s, <<>>, {})
  BY <1>2 DEF SameOrder
<1> QED BY <1>3, NothingMoved

(* When lists only gain blocks, so does what is under a block.             *)
LEMMA SubtreeGrows ==
  ASSUME NEW t, NEW u, Typed(t), Typed(u), NEW b \in Blocks,
         \A x \in Blocks : ToSet(t.sub[x]) \subseteq ToSet(u.sub[x])
  PROVE  Subtree(t, b) \subseteq Subtree(u, b)
<1>1. Subtree(u, b) \in SUBSET Blocks /\ b \in Subtree(u, b) /\ Closed(u, Subtree(u, b))
  BY SubtreeClosed
<1>2. Closed(t, Subtree(u, b))
  BY <1>1 DEF Closed
<1> QED BY <1>1, <1>2, SubtreeLeast

LEMMA ConstructKeeps ==
  ASSUME Inv, NEW n \in Names, construct(n)
  PROVE  Inv' /\ LastStep /\ OrderStep
<1> DEFINE c == NewBlock(tree)
<1>1. tree \in TreeSet
  BY DEF Inv, TypeOK, TreeSet
<1>2. /\ c \in Blocks /\ c \notin tree.live
      /\ tree.used \in Nat /\ c = tree.used + 1
  <2>1. tree.used \in 1..MaxBlocks /\ tree.used < MaxBlocks /\ MaxBlocks \in Nat
    BY <1>1, CblockAssumption DEF TreeSet, Blocks, construct
  <2>2. c \in Blocks /\ tree.used \in Nat /\ c = tree.used + 1
    BY <2>1 DEF NewBlock, Blocks
  <2>3. \A b \in tree.live : b <= tree.used
    BY DEF Inv, Shape
  <2> QED BY <2>1, <2>2, <2>3
<1>3. tree' = Constructed(tree, c, n)
  BY DEF construct, NewBlock
<1>4. /\ tree' \in TreeSet
      /\ tree'.used = c /\ tree'.live = tree.live \cup {c} /\ tree'.sub = tree.sub
      /\ tree'.name = [tree.name EXCEPT ![c] = n]
      /\ tree'.parent = [tree.parent EXCEPT ![c] = c]
  BY <1>1, <1>2, <1>3, ConstructedFields
<1> HIDE DEF c
<1>5. tree.parent \in [Blocks -> Blocks \cup {Null}] /\ tree.name \in [Blocks -> Names]
  BY <1>1 DEF TreeSet
<1>6. /\ \A x \in tree.live : x # c /\ tree'.parent[x] = tree.parent[x]
      /\ tree'.parent[c] = c
  BY <1>2, <1>4, <1>5, InvFacts
<1>7. TypeOK'
  BY <1>4 DEF TypeOK, TreeSet
<1>8. TreeConsistent'
  <2>1. ASSUME NEW b \in tree'.live
        PROVE  /\ IsInjective(tree.sub[b])
               /\ ToSet(tree.sub[b]) = {x \in tree'.live : tree'.parent[x] = b /\ x # b}
    <3>1. b \in Blocks
      BY <1>2, <1>4, <2>1, InvFacts
    <3>2. \A x : x \in ToSet(tree.sub[b]) <=> x \in tree'.live /\ tree'.parent[x] = b /\ x # b
      <4>1. CASE b = c
        BY <1>2, <1>4, <1>6, <3>1, <4>1, Listed, InvFacts
      <4>2. CASE b # c
        BY <1>2, <1>4, <1>6, <3>1, <4>2, <2>1, Listed
      <4> QED BY <4>1, <4>2
    <3> QED BY <3>1, <3>2, Listed
  <2> QED BY <1>4, <2>1, InvFacts DEF TreeConsistent
<1>9. ProgramIsTree'
  <2>1. \A b : Subtree(tree', b) = Subtree(tree, b)
    BY <1>4 DEF Subtree, Closed
  <2>2. ASSUME NEW b \in tree'.live
        PROVE  \E top \in tree'.live : tree'.parent[top] = top /\ b \in Subtree(tree', top)
    <3>1. CASE b = c
      BY <1>2, <1>6, <2>1, <2>2, <3>1, SubtreeClosed, InvFacts
    <3>2. CASE b # c
      <4>1. PICK top \in tree.live : tree.parent[top] = top /\ b \in Subtree(tree, top)
        BY <1>4, <3>2 DEF Inv, ProgramIsTree
      <4> QED BY <1>4, <1>6, <2>1, <4>1
    <3> QED BY <3>1, <3>2
  <2> QED BY <2>2 DEF ProgramIsTree
<1>10. Shape(tree')
  <2>1. tree'.parent[Root] = Root
    BY <1>6, InvFacts DEF Inv, Shape
  <2>2. \A b \in tree'.live : b <= tree'.used /\ tree'.parent[b] \in tree'.live
    <3>1. \A b \in tree.live : b \in Nat /\ b <= tree.used /\ tree.parent[b] \in tree.live
      BY InvFacts DEF Inv, Shape, Blocks
    <3> QED BY <1>2, <1>4, <1>6, <3>1
  <2>3. ASSUME NEW b \in Blocks \ tree'.live
        PROVE  tree'.sub[b] = <<>> /\ tree'.parent[b] = Null
    <3>1. b \notin tree.live /\ tree'.parent[b] = tree.parent[b]
      BY <1>4, <1>5, <2>3
    <3> QED BY <1>4, <3>1 DEF Inv, Shape
  <2> QED BY <2>1, <2>2, <2>3 DEF Shape
<1>11. LastStep
  <2> SUFFICES ASSUME NEW b \in tree.live, EndsInLast(tree, b),
                      Last(tree.sub[b]) \in ToSet(tree.sub[b])
               PROVE  EndsInLast(tree', b)
    BY <1>4 DEF LastStep
  <2>1. Last(tree.sub[b]) \in tree.live
    BY Listed, InvFacts
  <2>2. tree'.name[Last(tree.sub[b])] = tree.name[Last(tree.sub[b])]
    BY <1>2, <1>4, <1>5, <2>1, InvFacts
  <2> QED BY <1>4, <2>2 DEF EndsInLast
<1>12. OrderStep
  BY <1>4, SameInOrder DEF OrderStep
<1> QED BY <1>7, <1>8, <1>9, <1>10, <1>11, <1>12 DEF Inv

(* operator[] on a missing name makes a block and appends it.              *)
LEMMA IndexFields ==
  ASSUME NEW m \in TreeSet, NEW a \in Blocks, NEW c \in Blocks,
         IsInjective(m.sub[a]), c \notin ToSet(m.sub[a])
  PROVE  LET u == Appended(m, a, c)
         IN /\ u \in TreeSet
            /\ u.used = m.used /\ u.live = m.live /\ u.name = m.name
            /\ \A x \in Blocks : u.parent[x] = IF x = c THEN a ELSE m.parent[x]
            /\ \A x \in Blocks : x # a => u.sub[x] = m.sub[x]
            /\ IsInjective(u.sub[a]) /\ u.sub[a] # <<>>
            /\ ToSet(u.sub[a]) = ToSet(m.sub[a]) \cup {c}
            /\ SameOrder(m.sub[a], u.sub[a], {})
            /\ Last(u.sub[a]) = IF m.sub[a] # <<>> /\ m.name[Last(m.sub[a])] = "last"
                                THEN Last(m.sub[a]) ELSE c
<1>1. m.sub[a] \in Seq(Blocks)
  BY DEF TreeSet
<1> DEFINE d == Place(m, m.sub[a], c)
           u == Appended(m, a, c)
<1>2. /\ d \in Seq(Blocks) /\ IsInjective(d) /\ d # <<>>
      /\ ToSet(d) = ToSet(m.sub[a]) \cup {c}
      /\ SameOrder(m.sub[a], d, {})
      /\ Last(d) = IF m.sub[a] # <<>> /\ m.name[Last(m.sub[a])] = "last"
                   THEN Last(m.sub[a]) ELSE c
  BY <1>1, PlaceFacts
<1>3. /\ u \in TreeSet
      /\ u.used = m.used /\ u.live = m.live /\ u.name = m.name
      /\ \A x \in Blocks : u.parent[x] = IF x = c THEN a ELSE m.parent[x]
      /\ \A x \in Blocks : u.sub[x] = IF x = a THEN d ELSE m.sub[x]
  BY <1>2, AppendedFields
<1> HIDE DEF d, u
<1>4. u.sub[a] = d /\ \A x \in Blocks : x # a => u.sub[x] = m.sub[x]
  BY <1>3
<1> QED BY <1>2, <1>3, <1>4 DEF u

(* operator[] on any tree, made or only passed through: it only grows.     *)
LastAtEnd(t) == \A a \in t.live : \A x \in ToSet(t.sub[a]) : t.name[x] = "last" => x = Last(t.sub[a])

Grown(t, u) ==
  /\ t.live \subseteq u.live
  /\ \A x \in t.live : /\ u.name[x] = t.name[x] /\ u.parent[x] = t.parent[x]
                       /\ ToSet(t.sub[x]) \subseteq ToSet(u.sub[x])
                       /\ SameOrder(t.sub[x], u.sub[x], {})
                       /\ EndsInLast(t, x) => EndsInLast(u, x)
  /\ LastAtEnd(t) => LastAtEnd(u)

LEMMA GrownTransitive ==
  ASSUME NEW t, NEW u, NEW v, Grown(t, u), Grown(u, v)
  PROVE  Grown(t, v)
BY DEF Grown, SameOrder

LEMMA NotEmpty ==
  ASSUME NEW q, NEW x \in ToSet(q)
  PROVE  q # <<>>
<1>1. DOMAIN <<>> = {}
  OBVIOUS
<1> QED BY <1>1 DEF ToSet

LEMMA LastIsListed ==
  ASSUME NEW q \in Seq(Blocks), q # <<>>
  PROVE  Last(q) \in ToSet(q)
<1>1. Len(q) \in DOMAIN q
  OBVIOUS
<1> QED BY <1>1 DEF Last, ToSet

\* only a's list may have changed, and it has a block named n
Gained(t, u, a, n) == /\ \E x \in ToSet(u.sub[a]) : u.name[x] = n
                      /\ \A x \in Blocks \ {a} : u.sub[x] = t.sub[x]

LEMMA IndexGrows ==
  ASSUME NEW t, TreeOK(t), NEW a \in t.live, NEW n \in Names,
         t.used < MaxBlocks, SubNamed(t, a, n) = Null,
         NEW u, u = Index(t, a, n)
  PROVE  TreeOK(u) /\ Grown(t, u) /\ u.used = t.used + 1 /\ Gained(t, u, a, n)
<1> DEFINE new == NewBlock(t)
           made == Constructed(t, a, n)
<1>1. t \in TreeSet /\ a \in Blocks
  BY TreeFacts DEF TreeOK
<1>2. new \in Blocks /\ new \notin t.live /\ t.used \in Nat /\ new = t.used + 1
  <2>1. t.used \in 1..MaxBlocks /\ t.used < MaxBlocks /\ MaxBlocks \in Nat
    BY <1>1, CblockAssumption DEF TreeSet, Blocks
  <2>2. new \in Blocks /\ t.used \in Nat /\ new = t.used + 1
    BY <2>1 DEF NewBlock, Blocks
  <2>3. \A b \in t.live : b <= t.used
    BY DEF TreeOK, Shape
  <2> QED BY <2>1, <2>2, <2>3
<1>3. made = Constructed(t, a, n) /\ u = Appended(made, a, new)
  BY DEF Index
<1> HIDE DEF new, made
<1>4. /\ made \in TreeSet
      /\ made.used = new /\ made.live = t.live \cup {new} /\ made.sub = t.sub
      /\ made.name = [t.name EXCEPT ![new] = n]
      /\ made.parent = [t.parent EXCEPT ![new] = a]
  BY <1>1, <1>2, <1>3, ConstructedFields DEF new
<1>5. /\ IsInjective(t.sub[a]) /\ t.sub[a] \in Seq(Blocks) /\ new \notin ToSet(t.sub[a])
      /\ ToSet(t.sub[a]) \subseteq t.live
  BY <1>1, <1>2, ListedIn
<1>6. /\ u \in TreeSet
      /\ u.used = made.used /\ u.live = made.live /\ u.name = made.name
      /\ \A x \in Blocks : u.parent[x] = IF x = new THEN a ELSE made.parent[x]
      /\ \A x \in Blocks : x # a => u.sub[x] = t.sub[x]
      /\ IsInjective(u.sub[a]) /\ u.sub[a] # <<>>
      /\ ToSet(u.sub[a]) = ToSet(t.sub[a]) \cup {new}
      /\ SameOrder(t.sub[a], u.sub[a], {})
      /\ Last(u.sub[a]) = IF t.sub[a] # <<>> /\ made.name[Last(t.sub[a])] = "last"
                              THEN Last(t.sub[a]) ELSE new
  <2>1. /\ made \in TreeSet /\ a \in Blocks /\ new \in Blocks
        /\ IsInjective(made.sub[a]) /\ new \notin ToSet(made.sub[a])
    BY <1>1, <1>2, <1>4, <1>5
  <2>2. made.sub = t.sub
    BY <1>4
  <2> QED BY <1>3, <2>1, <2>2, IndexFields
<1>7. u.used = new /\ u.live = t.live \cup {new}
  BY <1>4, <1>6
<1>8. /\ t.parent \in [Blocks -> Blocks \cup {Null}] /\ t.name \in [Blocks -> Names]
      /\ t.sub \in [Blocks -> Seq(Blocks)]
  BY <1>1 DEF TreeSet
<1>9. /\ \A x \in t.live : x # new /\ u.parent[x] = t.parent[x] /\ u.name[x] = t.name[x]
      /\ u.parent[new] = a /\ new # a
  <2>1. made.parent \in [Blocks -> Blocks \cup {Null}]
    BY <1>4 DEF TreeSet
  <2>2. u.parent[new] = a /\ new # a
    BY <1>2, <1>6, <2>1
  <2>3. ASSUME NEW x \in t.live
        PROVE  x # new /\ u.parent[x] = t.parent[x] /\ u.name[x] = t.name[x]
    <3>1. x # new /\ x \in Blocks
      BY <1>2, TreeFacts
    <3>2. made.parent[x] = t.parent[x] /\ made.name[x] = t.name[x]
      BY <1>4, <1>8, <3>1
    <3> QED BY <1>6, <2>1, <3>1, <3>2
  <2> QED BY <2>2, <2>3
<1> DEFINE q == u.sub[a]
<1>10. q = u.sub[a] /\ \A x \in Blocks : x # a => u.sub[x] = t.sub[x]
  BY <1>6
<1> HIDE DEF q
<1>11. u \in TreeSet
  BY <1>6
<1>12. Consistent(u)
  <2>1. ASSUME NEW b \in u.live
        PROVE  /\ IsInjective(u.sub[b])
               /\ ToSet(u.sub[b]) = {x \in u.live : u.parent[x] = b /\ x # b}
    <3>1. b \in Blocks
      BY <1>2, <1>7, <2>1, TreeFacts
    <3>2. \A x : x \in ToSet(t.sub[b]) <=> b \in t.live /\ x \in t.live /\ t.parent[x] = b /\ x # b
      BY <3>1, ListedIn
    <3>3. \A x : x \in ToSet(u.sub[b]) <=> x \in u.live /\ u.parent[x] = b /\ x # b
      <4>1. CASE b = a
        BY <1>6, <1>7, <1>9, <1>10, <3>2, <4>1
      <4>2. CASE b = new
        BY <1>2, <1>7, <1>9, <1>10, <3>1, <3>2, <4>2, TreeFacts
      <4>3. CASE b # a /\ b # new
        BY <1>7, <1>9, <1>10, <2>1, <3>1, <3>2, <4>3
      <4> QED BY <4>1, <4>2, <4>3
    <3>4. IsInjective(u.sub[b])
      BY <1>6, <1>10, <3>1, ListedIn
    <3> QED BY <3>3, <3>4
  <2> QED BY <1>7, <2>1, TreeFacts DEF Consistent
<1>13. IsTree(u)
  <2>1. Typed(u)
    BY <1>6 DEF Typed, TreeSet
  <2>2. ASSUME NEW b \in Blocks PROVE Subtree(t, b) \subseteq Subtree(u, b)
    <3>1. \A x \in Blocks : ToSet(t.sub[x]) \subseteq ToSet(u.sub[x])
      BY <1>6, <1>10
    <3> QED BY <2>1, <3>1, SubtreeGrows, TreeFacts
  <2>3. ASSUME NEW b \in t.live
        PROVE  \E top \in u.live : u.parent[top] = top /\ b \in Subtree(u, top)
    <3>1. PICK top \in t.live : t.parent[top] = top /\ b \in Subtree(t, top)
      BY DEF TreeOK, IsTree
    <3> QED BY <1>7, <1>9, <2>2, <3>1, TreeFacts
  <2>4. \E top \in u.live : u.parent[top] = top /\ new \in Subtree(u, top)
    <3>1. PICK top \in u.live : u.parent[top] = top /\ a \in Subtree(u, top)
      BY <2>3
    <3>2. top \in Blocks
      BY <1>2, <1>7, <3>1, TreeFacts
    <3>3. new \in ToSet(u.sub[a])
      BY <1>6, <1>10
    <3>4. new \in Subtree(u, top)
      BY <2>1, <3>1, <3>2, <3>3, SubtreeClosed DEF Closed
    <3> QED BY <3>1, <3>4
  <2> QED BY <1>7, <2>3, <2>4 DEF IsTree
<1>14. Shape(u)
  <2>1. u.parent[Root] = Root
    BY <1>9, TreeFacts DEF TreeOK, Shape
  <2>2. \A b \in u.live : b <= u.used /\ u.parent[b] \in u.live
    <3>1. \A b \in t.live : b \in Nat /\ b <= t.used /\ t.parent[b] \in t.live
      BY TreeFacts DEF TreeOK, Shape, Blocks
    <3> QED BY <1>2, <1>7, <1>9, <3>1
  <2>3. ASSUME NEW b \in Blocks \ u.live PROVE u.sub[b] = <<>> /\ u.parent[b] = Null
    <3>1. b # new /\ b \notin t.live /\ b # a
      BY <1>7, <2>3
    <3>2. u.parent[b] = t.parent[b]
      BY <1>4, <1>6, <1>8, <3>1
    <3> QED BY <1>10, <3>1, <3>2 DEF TreeOK, Shape
  <2> QED BY <2>1, <2>2, <2>3 DEF Shape
\* a list that ended in "last" still does
<1>15. ASSUME NEW b \in t.live, EndsInLast(t, b) PROVE EndsInLast(u, b)
  <2>1. t.sub[b] # <<>> /\ t.name[Last(t.sub[b])] = "last" /\ b \in Blocks
    BY <1>15, TreeFacts DEF EndsInLast
  <2>2. Last(t.sub[b]) \in t.live
    BY <2>1, LastIsListed, ListedIn, TreeFacts
  <2>3. u.name[Last(t.sub[b])] = "last"
    BY <1>9, <2>1, <2>2
  <2>4. CASE b = a
    BY <1>4, <1>6, <1>9, <2>1, <2>2, <2>3, <2>4 DEF EndsInLast
  <2>5. CASE b # a
    BY <1>10, <2>1, <2>3, <2>5 DEF EndsInLast
  <2> QED BY <2>4, <2>5
<1>16. ASSUME NEW b \in t.live
       PROVE  ToSet(t.sub[b]) \subseteq ToSet(u.sub[b]) /\ SameOrder(t.sub[b], u.sub[b], {})
  <2>1. CASE b = a
    BY <1>6, <1>10, <2>1
  <2>2. CASE b # a
    BY <1>10, <2>2, TreeFacts DEF SameOrder
  <2> QED BY <2>1, <2>2
\* a new "last" comes at the end: a had none
<1>17. ASSUME LastAtEnd(t), NEW b \in u.live, NEW x \in ToSet(u.sub[b]), u.name[x] = "last"
       PROVE  x = Last(u.sub[b])
  <2>1. b \in Blocks
    BY <1>2, <1>7, TreeFacts
  <2>2. CASE b # a
    <3>1. u.sub[b] = t.sub[b] /\ x \in t.live /\ b \in t.live
      BY <1>10, <1>17, <2>1, <2>2, ListedIn
    <3> QED BY <1>9, <1>17, <3>1 DEF LastAtEnd
  <2>3. CASE b = a
    <3>1. CASE x = new
      <4>1. n = "last"
        BY <1>2, <1>4, <1>6, <1>8, <1>17, <3>1
      <4>2. \A y \in ToSet(t.sub[a]) : t.name[y] # "last"
        BY <1>1, <1>8, <4>1, SubNamedNone
      <4>3. ASSUME t.sub[a] # <<>> PROVE t.name[Last(t.sub[a])] # "last"
        BY <1>1, <4>2, <4>3, LastIsListed, TreeFacts
      <4>4. ASSUME t.sub[a] # <<>> PROVE made.name[Last(t.sub[a])] = t.name[Last(t.sub[a])]
        <5>1. Last(t.sub[a]) \in t.live
          BY <1>1, <4>4, LastIsListed, ListedIn, TreeFacts
        <5> QED BY <1>6, <1>9, <5>1
      <4> QED BY <1>6, <2>3, <3>1, <4>3, <4>4
    <3>2. CASE x # new
      <4>1. x \in ToSet(t.sub[a]) /\ x \in t.live
        BY <1>1, <1>6, <1>17, <2>3, <3>2, ListedIn
      <4>2. x = Last(t.sub[a]) /\ made.name[x] = "last" /\ t.sub[a] # <<>>
        <5>1. t.sub[a] # <<>>
          BY <4>1, NotEmpty
        <5> QED BY <1>6, <1>9, <1>17, <4>1, <5>1 DEF LastAtEnd
      <4> QED BY <1>6, <2>3, <4>2
    <3> QED BY <3>1, <3>2
  <2> QED BY <2>2, <2>3
<1>18. Grown(t, u)
  BY <1>7, <1>9, <1>15, <1>16, <1>17 DEF Grown, LastAtEnd
<1>19. Gained(t, u, a, n)
  <2>1. new \in ToSet(u.sub[a]) /\ u.name[new] = n
    BY <1>2, <1>4, <1>6, <1>8
  <2> QED BY <1>10, <2>1 DEF Gained
<1> QED BY <1>2, <1>7, <1>11, <1>12, <1>13, <1>14, <1>18, <1>19 DEF TreeOK

LEMMA GrowthKeepsOrder ==
  ASSUME Grown(tree, tree')
  PROVE  LastStep /\ OrderStep
BY NothingMoved DEF Grown, LastStep, OrderStep

LEMMA IndexKeeps ==
  ASSUME Inv, NEW a \in tree.live, NEW n \in Names, index(a, n)
  PROVE  Inv' /\ LastStep /\ OrderStep
<1>1. TreeOK(tree') /\ Grown(tree, tree')
  <2>1. TreeOK(tree) /\ tree.used < MaxBlocks /\ SubNamed(tree, a, n) = Null
    BY InvIsTreeOK DEF index
  <2>2. ASSUME NEW u, u = Index(tree, a, n) PROVE TreeOK(u) /\ Grown(tree, u)
    BY <2>1, <2>2, IndexGrows
  <2> QED BY <2>2 DEF index
<1> QED BY <1>1, InvIsTreeOK, GrowthKeepsOrder

LEMMA AfterKeeps ==
  ASSUME Inv, NEW b \in tree.live, NEW prev \in tree.live, after(b, prev)
  PROVE  Inv' /\ LastStep /\ OrderStep
<1>1. b # Root /\ prev \notin Subtree(tree, b) /\ b \in Subtree(tree, b) /\ prev # b
  BY InvFacts, SubtreeClosed DEF after
<1>2. /\ tree' \in TreeSet
      /\ tree'.used = tree.used /\ tree'.live = tree.live /\ tree'.name = tree.name
      /\ \A x \in Blocks : tree'.parent[x] = IF x = b THEN prev ELSE tree.parent[x]
      /\ tree.name[b] = "last" => EndsInLast(tree', prev)
      /\ \A x \in Blocks :
           LET q == tree.sub[x]  d == tree'.sub[x]
           IN /\ IsInjective(d)
              /\ ToSet(d) = (ToSet(q) \ {b}) \cup (IF x = prev THEN {b} ELSE {})
              /\ SameOrder(q, d, {b})
              /\ EndsInLast(tree, x) /\ Last(q) \in ToSet(d) => EndsInLast(tree', x)
  BY <1>1, AfterFields DEF after
<1>3. tree.live \subseteq Blocks /\ b \in Blocks /\ prev \in Blocks
  BY InvFacts
<1>4. tree'.parent[b] = prev /\ \A x \in tree.live : x # b => tree'.parent[x] = tree.parent[x]
  BY <1>2, <1>3, InvFacts
<1>5. TypeOK' /\ Typed(tree')
  BY <1>2 DEF TypeOK, TreeSet, Typed
<1>6. TreeConsistent'
  <2>1. ASSUME NEW x \in tree.live
        PROVE  ToSet(tree'.sub[x]) = {c \in tree.live : tree'.parent[c] = x /\ c # x}
    <3>1. \A c : c \in ToSet(tree.sub[x]) <=> c \in tree.live /\ tree.parent[c] = x /\ c # x
      BY <1>3, Listed
    <3>2. \A c : c \in ToSet(tree'.sub[x]) <=> (c \in ToSet(tree.sub[x]) /\ c # b) \/ (c = b /\ x = prev)
      BY <1>2, <1>3
    <3>3. \A c : c \in ToSet(tree'.sub[x]) <=> c \in tree.live /\ tree'.parent[c] = x /\ c # x
      BY <1>1, <1>4, <3>1, <3>2
    <3> QED BY <3>3
  <2> QED BY <1>2, <1>3, <2>1, InvFacts DEF TreeConsistent
<1>7. ProgramIsTree'
  \* what is under x together with what is under a block that has b now
  <2>1. ASSUME NEW x \in Blocks, NEW S \in SUBSET Blocks, b \in S, Closed(tree, S)
        PROVE  Closed(tree, Subtree(tree', x) \cup S)
    <3>1. Closed(tree', Subtree(tree', x)) /\ Subtree(tree', x) \subseteq Blocks
      BY <1>5, SubtreeClosed
    <3>2. \A y \in Blocks : ToSet(tree.sub[y]) \subseteq ToSet(tree'.sub[y]) \cup {b}
      BY <1>2
    <3> QED BY <2>1, <3>1, <3>2 DEF Closed
  <2>2. PICK P \in tree.live : tree.parent[P] = P /\ prev \in Subtree(tree, P)
    BY DEF Inv, ProgramIsTree
  <2>3. P # b /\ P \in Blocks /\ tree'.parent[P] = P
    BY <1>1, <1>3, <1>4, <2>2
  <2>4. prev \in Subtree(tree', P)
    <3>1. /\ Subtree(tree, b) \in SUBSET Blocks /\ Closed(tree, Subtree(tree, b))
          /\ P \in Subtree(tree', P) /\ Subtree(tree', P) \subseteq Blocks
      BY <1>3, <1>5, <2>3, SubtreeClosed, InvFacts
    <3>2. Closed(tree, Subtree(tree', P) \cup Subtree(tree, b))
      BY <1>1, <2>1, <2>3, <3>1
    <3>3. Subtree(tree, P) \subseteq Subtree(tree', P) \cup Subtree(tree, b)
      BY <3>1, <3>2, SubtreeLeast
    <3> QED BY <1>1, <2>2, <3>3
  <2>5. /\ b \in Subtree(tree', P) /\ Subtree(tree', P) \in SUBSET Blocks
        /\ Closed(tree', Subtree(tree', P))
    <3>1. b \in ToSet(tree'.sub[prev])
      BY <1>2, <1>3
    <3> QED BY <1>5, <2>3, <2>4, <3>1, SubtreeClosed DEF Closed
  <2>6. Closed(tree, Subtree(tree', P))
    <3>1. \A y \in Blocks : ToSet(tree.sub[y]) \subseteq ToSet(tree'.sub[y]) \cup {b}
      BY <1>2
    <3> QED BY <2>5, <3>1 DEF Closed
  <2>7. ASSUME NEW x \in tree.live
        PROVE  \E top \in tree.live : tree'.parent[top] = top /\ x \in Subtree(tree', top)
    <3>1. PICK T \in tree.live : tree.parent[T] = T /\ x \in Subtree(tree, T)
      BY DEF Inv, ProgramIsTree
    <3>2. CASE T = b
      <4>1. Subtree(tree, b) \subseteq Subtree(tree', P)
        BY <2>5, <2>6, SubtreeLeast
      <4> QED BY <2>2, <2>3, <3>1, <3>2, <4>1
    <3>3. CASE T # b
      <4>1. T \in Blocks /\ tree'.parent[T] = T
        BY <1>3, <1>4, <3>1, <3>3
      <4>2. Closed(tree, Subtree(tree', T) \cup Subtree(tree', P))
        BY <2>1, <2>5, <2>6, <4>1
      <4>3. T \in Subtree(tree', T) /\ Subtree(tree', T) \subseteq Blocks
        BY <1>5, <4>1, SubtreeClosed
      <4>4. Subtree(tree, T) \subseteq Subtree(tree', T) \cup Subtree(tree', P)
        BY <2>5, <4>2, <4>3, SubtreeLeast
      <4> QED BY <2>2, <2>3, <3>1, <4>1, <4>4
    <3> QED BY <3>2, <3>3
  <2> QED BY <1>2, <2>7 DEF ProgramIsTree
<1>8. Shape(tree')
  <2>1. tree'.parent[Root] = Root
    BY <1>1, <1>4, InvFacts DEF Inv, Shape
  <2>2. \A x \in tree'.live : x <= tree'.used /\ tree'.parent[x] \in tree'.live
    BY <1>2, <1>4 DEF Inv, Shape
  <2>3. ASSUME NEW x \in Blocks \ tree'.live PROVE tree'.sub[x] = <<>> /\ tree'.parent[x] = Null
    <3>1. tree.sub[x] = <<>> /\ x # prev
      BY <1>2 DEF Inv, Shape
    <3>2. ToSet(<<>>) = {}
      BY DEF ToSet
    <3>3. ToSet(tree'.sub[x]) = {}
      BY <1>2, <3>1, <3>2
    <3>4. tree'.sub[x] \in Seq(Blocks)
      BY <1>5 DEF Typed
    <3>5. DOMAIN tree'.sub[x] = {}
      BY <3>3 DEF ToSet
    <3>6. Len(tree'.sub[x]) = 0
      BY <3>4, <3>5
    <3>7. tree'.sub[x] = <<>>
      BY <3>4, <3>6, EmptySeq
    <3>8. tree'.parent[x] = Null
      BY <1>2 DEF Inv, Shape
    <3> QED BY <3>7, <3>8
  <2> QED BY <2>1, <2>2, <2>3 DEF Shape
<1>9. LastStep
  BY <1>2, <1>3 DEF LastStep
<1>10. OrderStep
  <2> SUFFICES ASSUME NEW x \in tree.live
               PROVE  InOrder(tree.sub[x], tree'.sub[x])
    BY DEF OrderStep
  <2> DEFINE q == tree.sub[x]
             d == tree'.sub[x]
  <2>1. /\ ToSet(d) = (ToSet(q) \ {b}) \cup (IF x = prev THEN {b} ELSE {})
        /\ SameOrder(q, d, {b})
    BY <1>2, <1>3
  <2> HIDE DEF q, d
  <2>2. ASSUME ToSet(q) = ToSet(d) PROVE InOrder(q, d)
    BY <1>3, <2>1, <2>2 DEF InOrder
  <2>3. ASSUME ToSet(q) # ToSet(d) PROVE InOrder(q, d)
    <3>1. b \notin ToSet(q) \cap ToSet(d)
      BY <2>1, <2>3
    <3>2. SameOrder(q, d, {})
      BY <2>1, <3>1 DEF SameOrder
    <3> QED BY <2>3, <3>2 DEF InOrder
  <2> QED BY <2>2, <2>3 DEF q, d
<1> QED BY <1>5, <1>6, <1>7, <1>8, <1>9, <1>10 DEF Inv

LEMMA ClearKeeps ==
  ASSUME Inv, NEW b \in tree.live, clear(b)
  PROVE  Inv' /\ LastStep /\ OrderStep
<1> DEFINE D == Deleted(tree, b)
<1>1. /\ tree' \in TreeSet
      /\ tree'.used = tree.used /\ tree'.live = tree.live \ D /\ tree'.name = tree.name
      /\ tree'.parent = [x \in Blocks |-> IF x \in D THEN Null ELSE tree.parent[x]]
      /\ tree'.sub = [x \in Blocks |-> IF x \in D \cup {b} THEN <<>> ELSE tree.sub[x]]
  BY ClearFields
<1>2. /\ b \notin D /\ Subtree(tree, b) = D \cup {b}
      /\ tree.live \subseteq Blocks /\ b \in Blocks
  BY InvFacts, SubtreeClosed DEF Deleted
\* what is under b has its parent under b, and b has not
<1>3. /\ \A c \in D : tree.parent[c] \in D \cup {b} /\ tree.parent[c] # c
      /\ tree.parent[b] \notin D
      /\ \A x \in D \cup {b} : ToSet(tree.sub[x]) \subseteq D
  <2>1. \A c \in D : tree.parent[c] \in D \cup {b} /\ tree.parent[c] # c
    BY <1>2, ParentUnder
  <2>2. tree.parent[b] \notin D
    BY <1>2, NoLoop
  <2>3. ASSUME NEW x \in D \cup {b}, NEW c \in ToSet(tree.sub[x]) PROVE c \in D
    <3>1. Closed(tree, Subtree(tree, b)) /\ x \in Subtree(tree, b) /\ x \in Blocks
      BY <1>2, InvFacts, SubtreeClosed
    <3>2. c \in D \cup {b}
      BY <1>2, <3>1 DEF Closed
    <3>3. tree.parent[c] = x /\ c # x
      BY <3>1, Listed
    <3> QED BY <2>2, <3>2, <3>3
  <2> QED BY <2>1, <2>2, <2>3
<1> HIDE DEF D
<1>4. /\ \A x \in tree'.live : x \in tree.live /\ x \notin D /\ tree'.parent[x] = tree.parent[x]
      /\ \A x \in Blocks : tree'.sub[x] = IF x \in D \cup {b} THEN <<>> ELSE tree.sub[x]
  BY <1>1, <1>2
<1>5. ToSet(<<>>) = {} /\ IsInjective(<<>>)
  <2>1. DOMAIN <<>> = {}
    OBVIOUS
  <2> QED BY <2>1 DEF ToSet, IsInjective
<1>6. \A x \in tree.live : tree.parent[x] = x => x \notin D
  BY <1>3
<1>7. TypeOK' /\ Typed(tree')
  BY <1>1 DEF TypeOK, TreeSet, Typed
<1>8. TreeConsistent'
  <2>1. ASSUME NEW x \in tree'.live
        PROVE  /\ IsInjective(tree'.sub[x])
               /\ ToSet(tree'.sub[x]) = {c \in tree'.live : tree'.parent[c] = x /\ c # x}
    <3>1. x \in Blocks /\ x \in tree.live /\ x \notin D
      BY <1>2, <1>4
    <3>2. \A c : c \in ToSet(tree.sub[x]) <=> c \in tree.live /\ tree.parent[c] = x /\ c # x
      BY <3>1, Listed
    <3>3. CASE x = b
      <4>1. tree'.sub[x] = <<>>
        BY <1>4, <3>1, <3>3
      <4>2. \A c : ~(c \in tree'.live /\ tree'.parent[c] = x /\ c # x)
        BY <1>3, <1>4, <3>2, <3>3
      <4> QED BY <1>5, <4>1, <4>2
    <3>4. CASE x # b
      <4>1. tree'.sub[x] = tree.sub[x] /\ IsInjective(tree.sub[x])
        BY <1>4, <3>1, <3>4, Listed
      <4>2. \A c : c \in ToSet(tree.sub[x]) => c \notin D
        BY <1>3, <3>1, <3>2, <3>4
      <4>3. \A c : c \in ToSet(tree.sub[x]) <=> c \in tree'.live /\ tree'.parent[c] = x /\ c # x
        BY <1>1, <1>4, <3>2, <4>2
      <4> QED BY <4>1, <4>3
    <3> QED BY <3>3, <3>4
  <2>2. Root \in tree'.live
    BY <1>1, <1>6, InvFacts DEF Inv, Shape
  <2> QED BY <2>1, <2>2 DEF TreeConsistent
<1>9. ProgramIsTree'
  <2>1. ASSUME NEW x \in tree'.live
        PROVE  \E top \in tree'.live : tree'.parent[top] = top /\ x \in Subtree(tree', top)
    <3>1. PICK top \in tree.live : tree.parent[top] = top /\ x \in Subtree(tree, top)
      BY <1>4 DEF Inv, ProgramIsTree
    <3>2. top \in tree'.live /\ tree'.parent[top] = top /\ top \in Blocks
      BY <1>1, <1>2, <1>4, <1>6, <3>1
    <3> DEFINE S == Subtree(tree', top) \cup D
    <3>3. /\ Subtree(tree', top) \subseteq Blocks /\ top \in Subtree(tree', top)
          /\ Closed(tree', Subtree(tree', top))
      BY <1>7, <3>2, SubtreeClosed
    <3>4. D \subseteq Blocks
      BY <1>2 DEF D, Deleted, Subtree
    <3>5. ASSUME NEW y \in S PROVE ToSet(tree.sub[y]) \subseteq S
      <4>1. CASE y \in D \cup {b}
        BY <1>3, <4>1
      <4>2. CASE y \notin D \cup {b}
        <5>1. y \in Subtree(tree', top) /\ y \in Blocks
          BY <3>3, <4>2
        <5>2. tree'.sub[y] = tree.sub[y]
          BY <1>4, <4>2, <5>1
        <5> QED BY <3>3, <5>1, <5>2 DEF Closed
      <4> QED BY <4>1, <4>2
    <3>6. S \in SUBSET Blocks /\ top \in S /\ Closed(tree, S)
      BY <3>3, <3>4, <3>5 DEF Closed
    <3>7. Subtree(tree, top) \subseteq S
      <4> HIDE DEF S
      <4> QED BY <3>6, SubtreeLeast
    <3>8. x \in Subtree(tree', top)
      BY <1>4, <3>1, <3>7
    <3> QED BY <3>2, <3>8
  <2> QED BY <2>1 DEF ProgramIsTree
<1>10. Shape(tree')
  <2>1. tree'.parent[Root] = Root
    BY <1>1, <1>4, <1>6, InvFacts DEF Inv, Shape
  <2>2. ASSUME NEW x \in tree'.live
        PROVE  x <= tree'.used /\ tree'.parent[x] \in tree'.live
    <3>1. x \in tree.live /\ x \notin D /\ x <= tree.used /\ tree.parent[x] \in tree.live
      BY <1>4 DEF Inv, Shape
    <3>2. tree.parent[x] \notin D
      <4> SUFFICES ASSUME tree.parent[x] \in D PROVE FALSE
        OBVIOUS
      <4>1. x \in ToSet(tree.sub[tree.parent[x]]) /\ tree.parent[x] \in Blocks
        BY <1>2, <3>1, Listed
      <4> QED BY <1>3, <3>1, <4>1
    <3> QED BY <1>1, <1>4, <3>1, <3>2
  <2>3. ASSUME NEW x \in Blocks \ tree'.live PROVE tree'.sub[x] = <<>> /\ tree'.parent[x] = Null
    <3>1. x \in D \/ (tree.sub[x] = <<>> /\ tree.parent[x] = Null)
      BY <1>1 DEF Inv, Shape
    <3> QED BY <1>1, <1>4, <3>1
  <2> QED BY <2>1, <2>2, <2>3 DEF Shape
<1>11. LastStep
  <2> SUFFICES ASSUME NEW x \in tree'.live, EndsInLast(tree, x),
                      Last(tree.sub[x]) \in ToSet(tree'.sub[x])
               PROVE  EndsInLast(tree', x)
    BY DEF LastStep
  <2>1. tree'.sub[x] = tree.sub[x]
    BY <1>2, <1>4, <1>5
  <2> QED BY <1>1, <2>1 DEF EndsInLast
<1>12. OrderStep
  BY <1>2, <1>4, SameInOrder DEF OrderStep
<1> QED BY <1>7, <1>8, <1>9, <1>10, <1>11, <1>12 DEF Inv

-----------------------------------------------------------------------------
(* The theorems about the tree                                             *)

LEMMA InitInv == Init => Inv
<1> SUFFICES ASSUME Init PROVE Inv
  OBVIOUS
<1>1. PICK n \in Names :
        tree = [used |-> 1, live |-> {Root}, name |-> [b \in Blocks |-> n],
                parent |-> [b \in Blocks |-> IF b = Root THEN Root ELSE Null],
                sub |-> [b \in Blocks |-> <<>>]]
  BY DEF Init
<1>2. /\ tree.used = 1 /\ tree.live = {Root} /\ tree.parent[Root] = Root
      /\ \A b \in Blocks : tree.sub[b] = <<>> /\ (b # Root => tree.parent[b] = Null)
  BY <1>1, RootIsBlock
<1>3. TypeOK
  <2>1. 1 \in Blocks /\ {Root} \subseteq Blocks
    BY CblockAssumption, RootIsBlock DEF Blocks
  <2>2. [b \in Blocks |-> <<>>] \in [Blocks -> Seq(Blocks)]
    OBVIOUS
  <2>3. [b \in Blocks |-> IF b = Root THEN Root ELSE Null] \in [Blocks -> Blocks \cup {Null}]
    BY RootIsBlock
  <2> QED BY <1>1, <2>1, <2>2, <2>3 DEF TypeOK
<1>4. ToSet(<<>>) = {} /\ IsInjective(<<>>)
  <2>1. DOMAIN <<>> = {}
    OBVIOUS
  <2> QED BY <2>1 DEF ToSet, IsInjective
<1>5. TreeConsistent
  BY <1>2, <1>4, RootIsBlock DEF TreeConsistent
<1>6. ProgramIsTree
  <2>1. Typed(tree)
    BY <1>3 DEF TypeOK, Typed
  <2> QED BY <1>2, <2>1, RootIsBlock, SubtreeClosed DEF ProgramIsTree
<1>7. Shape(tree)
  BY <1>2 DEF Shape, Root
<1> QED BY <1>3, <1>5, <1>6, <1>7 DEF Inv

LEMMA StepKeeps ==
  Inv /\ [Next]_tree => Inv' /\ (tree' = tree \/ (LastStep /\ OrderStep))
<1> SUFFICES ASSUME Inv, [Next]_tree
             PROVE  Inv' /\ (tree' = tree \/ (LastStep /\ OrderStep))
  OBVIOUS
<1>1. CASE \E n \in Names : construct(n)
  BY <1>1, ConstructKeeps
<1>2. CASE \E b \in tree.live : \E n \in Names : index(b, n)
  BY <1>2, IndexKeeps
<1>3. CASE \E b \in tree.live : \E prev \in tree.live : after(b, prev)
  BY <1>3, AfterKeeps
<1>4. CASE \E b \in tree.live : clear(b)
  BY <1>4, ClearKeeps
<1>5. CASE tree' = tree
  <2>1. Inv'
    BY <1>5 DEF Inv, TypeOK, TreeConsistent, ProgramIsTree, Shape
  <2> QED BY <1>5, <2>1
<1> QED BY <1>1, <1>2, <1>3, <1>4, <1>5 DEF Next

LEMMA SpecInv == Spec => []Inv
<1>1. Init => Inv
  BY InitInv
<1>2. Inv /\ [Next]_tree => Inv'
  BY StepKeeps
<1> QED BY <1>1, <1>2, PTL DEF Spec

(* The fields of the tree keep their types.                                *)
THEOREM TypeCorrect == Spec => []TypeOK
<1>1. Inv => TypeOK
  BY DEF Inv
<1> QED BY <1>1, SpecInv, PTL

(* _parent and _sub agree: a block is listed once, by its parent, and      *)
(* nothing that is deleted is listed, however blocks are made, moved and   *)
(* deleted.                                                                *)
THEOREM ListsMatchParents == Spec => []TreeConsistent
<1>1. Inv => TreeConsistent
  BY DEF Inv
<1> QED BY <1>1, SpecInv, PTL

(* Every block is under the root or under a block that is not placed yet:  *)
(* moving and deleting blocks never makes a loop, nor loses code.          *)
THEOREM NothingIsLost == Spec => []ProgramIsTree
<1>1. Inv => ProgramIsTree
  BY DEF Inv
<1> QED BY <1>1, SpecInv, PTL

(* A block named "last" loses its place only by being moved or deleted.    *)
THEOREM LastKeepsItsPlace == Spec => LastStaysLast
<1>1. Inv /\ [Next]_tree => [LastStep]_tree
  BY StepKeeps
<1>2. LastStep <=> (\A b \in tree.live \cap tree'.live :
        EndsInLast(tree, b) /\ Last(tree.sub[b]) \in ToSet(tree'.sub[b])
          => EndsInLast(tree', b))
  BY DEF LastStep
<1> QED BY <1>1, <1>2, SpecInv, PTL DEF Spec, LastStaysLast

(* No operation reorders the code of blocks it does not move.              *)
THEOREM CodeKeepsItsOrder == Spec => OrderKept
<1>1. Inv /\ [Next]_tree => [OrderStep]_tree
  BY StepKeeps
<1>2. OrderStep <=> (\A b \in tree.live \cap tree'.live :
        LET s == tree.sub[b]  t == tree'.sub[b]
        IN IF ToSet(s) = ToSet(t) THEN \E m \in Blocks : SameOrder(s, t, {m})
                                  ELSE SameOrder(s, t, {}))
  BY DEF OrderStep, InOrder
<1> QED BY <1>1, <1>2, SpecInv, PTL DEF Spec, OrderKept

-----------------------------------------------------------------------------
(* Recursion.  What a search finds depends on other searches of a smaller  *)
(* rank, so there is one function of all their results, which is what the  *)
(* definition of Find chooses; and what holds of a search when it holds of *)
(* those of a smaller rank holds of all.                                   *)

Inherited(D, rank, S) == \A x \in D : (\A y \in D : rank[y] < rank[x] => y \in S) => x \in S

LEMMA RankInduction ==
  ASSUME NEW D, NEW rank \in [D -> Nat], NEW S, Inherited(D, rank, S)
  PROVE  D \subseteq S
<1> SUFFICES ASSUME NEW z \in D, z \notin S PROVE FALSE
  OBVIOUS
<1> DEFINE R == {n \in Nat : \E x \in D \ S : rank[x] = n}
<1>1. PICK m \in R : \A k \in R : m <= k
  <2>1. R \in SUBSET Nat /\ R # {}
    OBVIOUS
  <2> HIDE DEF R
  <2> QED BY <2>1, LeastNat
<1>2. PICK x \in D \ S : rank[x] = m
  BY <1>1
<1>3. ASSUME NEW y \in D, rank[y] < rank[x] PROVE y \in S
  <2> SUFFICES ASSUME y \notin S PROVE FALSE
    OBVIOUS
  <2>1. rank[y] \in R
    OBVIOUS
  <2>2. m <= rank[y]
    BY <1>1, <2>1
  <2> QED BY <1>1, <1>2, <1>3, <2>2
<1> QED BY <1>2, <1>3 DEF Inherited

\* H[x] is what x is, given what all others are, of which only those of a
\* smaller rank count
Local(D, V, rank, H) ==
  \A x \in D : \A f, g \in [D -> V] :
    (\A y \in D : rank[y] < rank[x] => f[y] = g[y]) => H[x][f] = H[x][g]
Solves(D, rank, H, f, n) == \A x \in D : rank[x] < n => f[x] = H[x][f]

\* v is some value
Recursive(D, V, v, rank, H) ==
  v \in V /\ rank \in [D -> Nat] /\ H \in [D -> [[D -> V] -> V]] /\ Local(D, V, rank, H)

LEMMA SolutionsExist ==
  ASSUME NEW D, NEW V, NEW v \in V, NEW rank \in [D -> Nat], NEW H \in [D -> [[D -> V] -> V]],
         Local(D, V, rank, H),
         NEW n \in Nat
  PROVE  \E f \in [D -> V] : Solves(D, rank, H, f, n)
<1> DEFINE Bad == {k \in Nat : ~ \E f \in [D -> V] : Solves(D, rank, H, f, k)}
<1> SUFFICES ASSUME Bad # {} PROVE FALSE
  OBVIOUS
<1>1. PICK m \in Bad : \A k \in Bad : m <= k
  <2>1. Bad \in SUBSET Nat
    OBVIOUS
  <2> HIDE DEF Bad
  <2> QED BY <2>1, LeastNat
<1>2. m \in Nat /\ ~ \E f \in [D -> V] : Solves(D, rank, H, f, m)
  BY <1>1
<1>3. m # 0
  <2> DEFINE f == [x \in D |-> v]
  <2>1. f \in [D -> V]
    OBVIOUS
  <2>2. \A x \in D : ~(rank[x] < 0)
    <3>1. \A x \in D : rank[x] \in Nat
      OBVIOUS
    <3> QED BY <3>1
  <2>3. Solves(D, rank, H, f, 0)
    BY <2>2 DEF Solves
  <2> QED BY <1>2, <2>1, <2>3
<1>4. m - 1 \in Nat /\ m - 1 \notin Bad
  <2>1. m - 1 \in Nat /\ ~(m <= m - 1)
    BY <1>2, <1>3
  <2> HIDE DEF Bad
  <2> QED BY <1>1, <2>1
<1>5. PICK f \in [D -> V] : Solves(D, rank, H, f, m - 1)
  BY <1>4
<1> DEFINE g == [x \in D |-> H[x][f]]
<1>6. g \in [D -> V]
  OBVIOUS
<1>7. \A x \in D : g[x] = H[x][f]
  OBVIOUS
<1> HIDE DEF g
<1>8. ASSUME NEW x \in D, rank[x] < m PROVE g[x] = H[x][g]
  <2>1. ASSUME NEW y \in D, rank[y] < rank[x] PROVE f[y] = g[y]
    <3>1. rank[x] \in Nat /\ rank[y] \in Nat
      OBVIOUS
    <3>2. rank[y] < m - 1
      BY <1>2, <1>8, <2>1, <3>1
    <3> QED BY <1>5, <1>7, <3>2 DEF Solves
  <2>2. H[x][f] = H[x][g]
    BY <1>6, <2>1 DEF Local
  <2> QED BY <1>7, <2>2
<1>9. Solves(D, rank, H, g, m)
  BY <1>8 DEF Solves
<1> QED BY <1>2, <1>6, <1>9

LEMMA RecursionExists ==
  ASSUME NEW D, NEW V, NEW v, NEW rank, NEW H, Recursive(D, V, v, rank, H)
  PROVE  \E f \in [D -> V] : \A x \in D : f[x] = H[x][f]
<1> v \in V /\ rank \in [D -> Nat] /\ H \in [D -> [[D -> V] -> V]] /\ Local(D, V, rank, H)
  BY DEF Recursive
<1> DEFINE Sol(n) == CHOOSE f \in [D -> V] : Solves(D, rank, H, f, n)
           F == [x \in D |-> Sol(rank[x] + 1)[x]]
<1>1. ASSUME NEW n \in Nat PROVE Sol(n) \in [D -> V] /\ Solves(D, rank, H, Sol(n), n)
  <2>1. \E f \in [D -> V] : Solves(D, rank, H, f, n)
    BY SolutionsExist
  <2> QED BY <2>1
<1> HIDE DEF Sol
<1>2. ASSUME NEW x \in D
      PROVE  rank[x] \in Nat /\ rank[x] + 1 \in Nat /\ rank[x] < rank[x] + 1 /\ F[x] = Sol(rank[x] + 1)[x]
  <2>1. rank[x] \in Nat
    OBVIOUS
  <2> QED BY <2>1
<1>3. F \in [D -> V]
  <2>1. ASSUME NEW x \in D PROVE Sol(rank[x] + 1)[x] \in V
    BY <1>1, <1>2
  <2> QED BY <2>1
<1> HIDE DEF F
<1>4. ASSUME NEW n \in Nat, NEW m \in Nat, NEW f \in [D -> V], NEW g \in [D -> V],
             Solves(D, rank, H, f, n), Solves(D, rank, H, g, m),
             NEW z \in D, rank[z] < n, rank[z] < m
      PROVE  f[z] = g[z]
  <2> DEFINE S == {x \in D : rank[x] < n /\ rank[x] < m => f[x] = g[x]}
  <2>1. ASSUME NEW x \in D, \A y \in D : rank[y] < rank[x] => y \in S PROVE x \in S
    <3> SUFFICES ASSUME rank[x] < n, rank[x] < m PROVE f[x] = g[x]
      OBVIOUS
    <3>1. ASSUME NEW y \in D, rank[y] < rank[x] PROVE f[y] = g[y]
      <4>1. rank[x] \in Nat /\ rank[y] \in Nat
        OBVIOUS
      <4>2. rank[y] < n /\ rank[y] < m
        BY <3>1, <4>1
      <4> QED BY <2>1, <3>1, <4>2
    <3>2. H[x][f] = H[x][g]
      BY <3>1 DEF Local
    <3> QED BY <1>4, <3>2 DEF Solves
  <2>2. D \subseteq S
    <3> HIDE DEF S
    <3>1. Inherited(D, rank, S)
      BY <2>1 DEF Inherited
    <3> QED BY <3>1, RankInduction
  <2> QED BY <1>4, <2>2
<1>5. ASSUME NEW x \in D PROVE F[x] = H[x][F]
  <2> DEFINE f == Sol(rank[x] + 1)
  <2>1. f \in [D -> V] /\ Solves(D, rank, H, f, rank[x] + 1)
    BY <1>1, <1>2
  <2>2. ASSUME NEW y \in D, rank[y] < rank[x] PROVE F[y] = f[y]
    <3> DEFINE g == Sol(rank[y] + 1)
    <3>1. g \in [D -> V] /\ Solves(D, rank, H, g, rank[y] + 1)
      BY <1>1, <1>2
    <3>2. rank[y] < rank[x] + 1 /\ rank[y] < rank[y] + 1 /\ rank[x] + 1 \in Nat /\ rank[y] + 1 \in Nat
      BY <1>2, <2>2
    <3>3. F[y] = g[y]
      BY <1>2
    <3> HIDE DEF f, g
    <3>4. f[y] = g[y]
      BY <1>4, <2>1, <3>1, <3>2
    <3> QED BY <3>2, <3>3, <3>4
  <2>3. F[x] = f[x]
    BY <1>2
  <2> HIDE DEF f
  <2>4. f[x] = H[x][f]
    BY <1>2, <2>1 DEF Solves
  <2>5. H[x][F] = H[x][f]
    BY <1>3, <2>1, <2>2 DEF Local
  <2> QED BY <2>3, <2>4, <2>5
<1> QED BY <1>3, <1>5

-----------------------------------------------------------------------------
(* The rank of a search *)

Size(b) == Cardinality(Subtree(tree, b))

LEMMA BlocksFinite == IsFiniteSet(Blocks) /\ Cardinality(Blocks) = MaxBlocks /\ MaxBlocks \in Nat
<1>1. MaxBlocks \in Nat /\ 1 \in Int /\ MaxBlocks \in Int /\ 1 <= MaxBlocks
  BY CblockAssumption
<1>2. IsFiniteSet(1..MaxBlocks) /\ Cardinality(1..MaxBlocks) = MaxBlocks - 1 + 1
  BY <1>1, FS_Interval
<1> QED BY <1>1, <1>2 DEF Blocks

LEMMA SizeBound ==
  ASSUME Inv, NEW b \in Blocks
  PROVE  Size(b) \in 0..MaxBlocks /\ IsFiniteSet(Subtree(tree, b))
<1>1. Subtree(tree, b) \subseteq Blocks
  BY InvFacts, SubtreeClosed
<1>2. Cardinality(Subtree(tree, b)) <= MaxBlocks /\ IsFiniteSet(Subtree(tree, b))
  BY <1>1, BlocksFinite, FS_Subset
<1>3. Cardinality(Subtree(tree, b)) \in Nat
  BY <1>2, FS_CardinalityType
<1> QED BY <1>2, <1>3, BlocksFinite DEF Size

\* everything under c is under the blocks that c is under
LEMMA UnderNests ==
  ASSUME Inv, NEW b \in Blocks, NEW c \in Subtree(tree, b)
  PROVE  Subtree(tree, c) \subseteq Subtree(tree, b)
BY InvFacts, SubtreeClosed, SubtreeLeast

LEMMA ParentIsBigger ==
  ASSUME Inv, NEW c \in tree.live, tree.parent[c] # c
  PROVE  /\ Subtree(tree, c) \subseteq Subtree(tree, tree.parent[c])
         /\ Size(c) < Size(tree.parent[c])
<1> DEFINE b == tree.parent[c]
<1>1. b \in tree.live /\ b \in Blocks /\ c \in Blocks
  BY InvFacts
<1>2. c \in ToSet(tree.sub[b])
  BY <1>1, Listed
<1>3. c \in Subtree(tree, b) /\ b \in Subtree(tree, b)
  BY <1>1, <1>2, InvFacts, SubtreeClosed DEF Closed
<1>4. b \notin Subtree(tree, c)
  BY NoLoop
<1>5. Subtree(tree, c) \subseteq Subtree(tree, b)
  BY <1>1, <1>3, UnderNests
<1>6. Subtree(tree, c) # Subtree(tree, b)
  BY <1>3, <1>4
<1>7. IsFiniteSet(Subtree(tree, b)) /\ Size(b) \in Nat /\ Size(c) \in Nat
  BY <1>1, SizeBound
<1> QED BY <1>5, <1>6, <1>7, FS_Subset DEF Size

LEMMA ChildIsSmaller ==
  ASSUME Inv, NEW b \in Blocks, NEW c \in ToSet(tree.sub[b])
  PROVE  c \in tree.live /\ b \in tree.live /\ c \in Blocks /\ tree.parent[c] = b /\ c # b /\ Size(c) < Size(b)
<1>1. c \in tree.live /\ b \in tree.live /\ tree.parent[c] = b /\ c # b
  BY Listed
<1> QED BY <1>1, ParentIsBigger, InvFacts

\* shorter paths first; "..*/rest" goes up, and down with "**/rest"
Level(b, p) == IF Head(p) = "..*" THEN (MaxBlocks + 1) + (MaxBlocks - Size(b)) ELSE Size(b)
Searches == Blocks \X Paths
Rank == [x \in Searches |-> Len(x[2]) * (2 * (MaxBlocks + 1)) + Level(x[1], x[2])]

LEMMA LevelBound ==
  ASSUME Inv, NEW b \in Blocks, NEW p \in Paths
  PROVE  Level(b, p) \in Nat /\ Level(b, p) < 2 * (MaxBlocks + 1)
BY SizeBound, BlocksFinite DEF Level

LEMMA Lexicographic ==
  ASSUME NEW n \in Nat, NEW m \in Nat, n < m, NEW k \in Nat, NEW r \in Nat, r < k, NEW s \in Nat
  PROVE  n * k + r < m * k + s
<1>1. PICK d \in Nat : m = n + 1 + d
  <2>1. m - n - 1 \in Nat /\ m = n + 1 + (m - n - 1)
    OBVIOUS
  <2> QED BY <2>1
<1>2. m * k = n * k + k + d * k
  BY <1>1
<1>3. d * k \in Nat /\ n * k \in Nat
  OBVIOUS
<1> QED BY <1>2, <1>3

LEMMA RankType ==
  ASSUME Inv
  PROVE  Rank \in [Searches -> Nat]
<1>1. ASSUME NEW x \in Searches PROVE Len(x[2]) * (2 * (MaxBlocks + 1)) + Level(x[1], x[2]) \in Nat
  <2>1. x[1] \in Blocks /\ x[2] \in Paths
    BY DEF Searches
  <2>2. Len(x[2]) \in Nat
    BY <2>1, LenProperties DEF Paths
  <2>3. 2 * (MaxBlocks + 1) \in Nat
    BY BlocksFinite
  <2>4. Len(x[2]) * (2 * (MaxBlocks + 1)) \in Nat
    <3> DEFINE n == Len(x[2])
               k == 2 * (MaxBlocks + 1)
    <3>1. n \in Nat /\ k \in Nat
      BY <2>2, <2>3
    <3> HIDE DEF n, k
    <3>2. n * k \in Nat
      BY <3>1
    <3> QED BY <3>2 DEF n, k
  <2> QED BY <2>1, <2>4, LevelBound
<1> QED BY <1>1 DEF Rank

LEMMA ShorterPath ==
  ASSUME Inv, NEW b \in Blocks, NEW c \in Blocks, NEW p \in Paths, NEW q \in Paths, Len(q) < Len(p)
  PROVE  Rank[<<c, q>>] < Rank[<<b, p>>]
<1>1. <<b, p>> \in Searches /\ <<c, q>> \in Searches
  BY DEF Searches
<1> DEFINE k == 2 * (MaxBlocks + 1)
<1>2. k \in Nat
  BY BlocksFinite
<1>3. Rank[<<b, p>>] = Len(p) * k + Level(b, p) /\ Rank[<<c, q>>] = Len(q) * k + Level(c, q)
  BY <1>1 DEF Rank
<1>4. Level(b, p) \in Nat /\ Level(c, q) \in Nat /\ Level(c, q) < k
  BY LevelBound
<1>5. Len(p) \in Nat /\ Len(q) \in Nat
  BY LenProperties DEF Paths
<1> HIDE DEF k
<1>6. Len(q) * k + Level(c, q) < Len(p) * k + Level(b, p)
  BY <1>2, <1>4, <1>5, Lexicographic
<1> QED BY <1>3, <1>6

LEMMA SameLength ==
  ASSUME Inv, NEW b \in Blocks, NEW c \in Blocks, NEW p \in Paths, NEW q \in Paths, Len(q) = Len(p),
         Level(c, q) < Level(b, p)
  PROVE  Rank[<<c, q>>] < Rank[<<b, p>>]
<1>1. <<b, p>> \in Searches /\ <<c, q>> \in Searches
  BY DEF Searches
<1> DEFINE k == 2 * (MaxBlocks + 1)
<1>2. k \in Nat
  BY BlocksFinite
<1>3. Rank[<<b, p>>] = Len(p) * k + Level(b, p) /\ Rank[<<c, q>>] = Len(p) * k + Level(c, q)
  BY <1>1 DEF Rank
<1>4. Level(b, p) \in Nat /\ Level(c, q) \in Nat
  BY LevelBound
<1> DEFINE n == Len(p) * k
<1>5. n \in Nat
  <2>1. Len(p) \in Nat
    BY LenProperties DEF Paths
  <2> HIDE DEF k
  <2> QED BY <1>2, <2>1
<1> HIDE DEF n, k
<1>6. n + Level(c, q) < n + Level(b, p)
  BY <1>4, <1>5
<1> QED BY <1>3, <1>6 DEF n

-----------------------------------------------------------------------------
(* What a search uses of other searches *)

Hits == Blocks \cup {Null}

LEMMA PathParts ==
  ASSUME NEW p \in Paths
  PROVE  /\ Head(p) \in Components /\ Len(p) \in Nat
         /\ Tail(p) # <<>> => Tail(p) \in Paths /\ Len(Tail(p)) < Len(p)
         /\ p = <<Head(p)>> \o Tail(p)
         /\ Tail(p) \in Seq(Components)
<1>1. p \in Seq(Components) /\ p # <<>>
  BY DEF Paths
<1>2. Head(p) \in Components /\ Tail(p) \in Seq(Components) /\ Len(p) \in Nat /\ Len(Tail(p)) = Len(p) - 1
  BY <1>1, HeadTailProperties, LenProperties
<1>3. p = <<Head(p)>> \o Tail(p)
  BY <1>1
<1> QED BY <1>2, <1>3 DEF Paths

LEMMA SidePath ==
  ASSUME NEW p \in Paths
  PROVE  LET q == <<"**">> \o Tail(p)
         IN q \in Paths /\ Len(q) = Len(p) /\ Head(q) = "**" /\ Tail(q) = Tail(p)
<1>1. p \in Seq(Components) /\ p # <<>>
  BY DEF Paths
<1>2. Tail(p) \in Seq(Components) /\ Len(p) \in Nat /\ Len(Tail(p)) = Len(p) - 1
  BY <1>1, HeadTailProperties, LenProperties
<1>3. <<"**">> \in Seq(Components) /\ Len(<<"**">>) = 1
  BY DEF Components
<1> DEFINE r == Tail(p)
           q == <<"**">> \o r
<1>4. r \in Seq(Components)
  BY <1>2
<1> HIDE DEF r
<1>5. q \in Seq(Components) /\ Len(q) = 1 + Len(r) /\ q # <<>> /\ Head(q) = "**" /\ Tail(q) = r
  BY <1>3, <1>4
<1> QED BY <1>2, <1>5 DEF Paths, r

LEMMA SubIsListed ==
  ASSUME Inv, NEW b \in Blocks, NEW i \in DOMAIN tree.sub[b]
  PROVE  tree.sub[b][i] \in ToSet(tree.sub[b]) /\ tree.sub[b][i] \in Blocks
<1>1. tree.sub[b] \in Seq(Blocks)
  BY Listed
<1> QED BY <1>1 DEF ToSet

\* the searches that one at b along p may use
LEMMA UsesSmaller ==
  ASSUME Inv, NEW b \in Blocks, NEW p \in Paths
  PROVE  /\ Tail(p) # <<>> => \A c \in Blocks : Rank[<<c, Tail(p)>>] < Rank[<<b, p>>]
         /\ Head(p) # "..*" => \A i \in DOMAIN tree.sub[b] : Rank[<<tree.sub[b][i], p>>] < Rank[<<b, p>>]
         /\ Head(p) = "..*" =>
              \A c \in Blocks : Rank[<<c, <<"**">> \o Tail(p)>>] < Rank[<<b, p>>]
         /\ Head(p) = "..*" /\ tree.parent[b] \notin {Null, b} =>
              tree.parent[b] \in Blocks /\ Rank[<<tree.parent[b], p>>] < Rank[<<b, p>>]
<1>1. ASSUME Tail(p) # <<>>, NEW c \in Blocks PROVE Rank[<<c, Tail(p)>>] < Rank[<<b, p>>]
  BY <1>1, PathParts, ShorterPath
<1>2. ASSUME Head(p) # "..*", NEW i \in DOMAIN tree.sub[b]
      PROVE  Rank[<<tree.sub[b][i], p>>] < Rank[<<b, p>>]
  <2> DEFINE c == tree.sub[b][i]
  <2>1. c \in ToSet(tree.sub[b]) /\ c \in Blocks
    BY SubIsListed
  <2> HIDE DEF c
  <2>2. Level(c, p) < Level(b, p)
    BY <1>2, <2>1, ChildIsSmaller DEF Level
  <2>3. Rank[<<c, p>>] < Rank[<<b, p>>]
    BY <2>1, <2>2, SameLength
  <2> QED BY <2>3 DEF c
<1>3. ASSUME Head(p) = "..*", NEW c \in Blocks
      PROVE  Rank[<<c, <<"**">> \o Tail(p)>>] < Rank[<<b, p>>]
  <2> DEFINE q == <<"**">> \o Tail(p)
  <2>1. q \in Paths /\ Len(q) = Len(p) /\ Head(q) = "**"
    BY SidePath
  <2> HIDE DEF q
  <2>2. Level(c, q) = Size(c) /\ Level(b, p) = (MaxBlocks + 1) + (MaxBlocks - Size(b))
    BY <1>3, <2>1 DEF Level
  <2>3. Level(c, q) < Level(b, p)
    BY <2>2, SizeBound, BlocksFinite
  <2>4. Rank[<<c, q>>] < Rank[<<b, p>>]
    BY <2>1, <2>3, SameLength
  <2> QED BY <2>4 DEF q
<1>4. ASSUME Head(p) = "..*", tree.parent[b] \notin {Null, b}
      PROVE  tree.parent[b] \in Blocks /\ Rank[<<tree.parent[b], p>>] < Rank[<<b, p>>]
  <2> DEFINE c == tree.parent[b]
  <2>1. b \in tree.live /\ c \in Blocks
    BY <1>4, InvFacts DEF Inv, Shape
  <2>2. Size(b) < Size(c) /\ Size(b) \in 0..MaxBlocks /\ Size(c) \in 0..MaxBlocks
    BY <1>4, <2>1, ParentIsBigger, SizeBound
  <2> HIDE DEF c
  <2>3. Level(c, p) < Level(b, p)
    BY <1>4, <2>2, BlocksFinite DEF Level
  <2>4. Rank[<<c, p>>] < Rank[<<b, p>>]
    BY <2>1, <2>3, SameLength
  <2> QED BY <2>1, <2>4 DEF c
<1> QED BY <1>1, <1>2, <1>3, <1>4

LEMMA FirstHitNone ==
  ASSUME NEW s, DOMAIN s \in SUBSET Nat, FirstHit(s) = Null, NEW i \in DOMAIN s
  PROVE  s[i] = Null
<1> DEFINE h == {j \in DOMAIN s : s[j] # Null}
<1> SUFFICES ASSUME s[i] # Null PROVE FALSE
  OBVIOUS
<1>1. h # {} /\ h \in SUBSET Nat
  OBVIOUS
<1>2. FirstHit(s) = s[Min(h)]
  BY <1>1 DEF FirstHit
<1>3. PICK m \in h : m = Min(h)
  <2> HIDE DEF h
  <2> QED BY <1>1, MinIsLeast
<1> QED BY <1>2, <1>3

LEMMA FirstHitSome ==
  ASSUME NEW s, DOMAIN s \in SUBSET Nat, FirstHit(s) # Null
  PROVE  \E i \in DOMAIN s : FirstHit(s) = s[i]
<1> DEFINE h == {j \in DOMAIN s : s[j] # Null}
<1>1. h # {} /\ FirstHit(s) = s[Min(h)]
  BY DEF FirstHit
<1>2. h \in SUBSET Nat
  OBVIOUS
<1>3. PICK m \in h : m = Min(h)
  <2> HIDE DEF h
  <2> QED BY <1>1, <1>2, MinIsLeast
<1> QED BY <1>1, <1>3

-----------------------------------------------------------------------------
(* The results of all searches *)

LEMMA DeeperTyped ==
  ASSUME Inv, NEW f \in [Searches -> Hits], NEW b \in Blocks, NEW p \in Paths, Tail(p) \in Paths
  PROVE  Deeper(tree, f, b, p) \in Hits
<1> DEFINE s == [i \in DOMAIN tree.sub[b] |->
                  Or(f[<<tree.sub[b][i], Tail(p)>>], IF Head(p) = "**" THEN f[<<tree.sub[b][i], p>>] ELSE Null)]
<1>1. DOMAIN s \in SUBSET Nat
  BY Listed
<1>2. \A i \in DOMAIN s : s[i] \in Hits
  BY SubIsListed DEF Or, Hits, Searches
<1>3. Deeper(tree, f, b, p) = FirstHit(s)
  BY DEF Deeper
<1> HIDE DEF s
<1> QED BY <1>1, <1>2, <1>3, FirstHitSome DEF Hits

LEMMA AsideTyped ==
  ASSUME Inv, NEW f \in [Searches -> Hits], NEW b \in Blocks, NEW p \in Paths, tree.parent[b] \in Blocks
  PROVE  Aside(tree, f, b, p) \in Hits
<1> DEFINE q == tree.sub[tree.parent[b]]
           r == <<"**">> \o Tail(p)
           s == [i \in DOMAIN q |-> IF i \in Siblings(tree, b) THEN f[<<q[i], r>>] ELSE Null]
<1>1. DOMAIN s \in SUBSET Nat
  BY Listed
<1>2. r \in Paths
  BY SidePath
<1>3. Aside(tree, f, b, p) = FirstHit(s)
  BY DEF Aside
<1>4. \A i \in DOMAIN s : s[i] \in Hits
  <2> HIDE DEF r
  <2>1. \A i \in DOMAIN q : q[i] \in Blocks
    BY SubIsListed
  <2> HIDE DEF q
  <2> QED BY <1>2, <2>1 DEF Hits, Searches
<1> HIDE DEF s
<1> QED BY <1>1, <1>3, <1>4, FirstHitSome DEF Hits

LEMMA AlongTyped ==
  ASSUME Inv, NEW f \in [Searches -> Hits], NEW b \in Blocks, NEW p \in Paths
  PROVE  Along(tree, f, b, p) \in Hits
<1> DEFINE c == Head(p)
           r == Tail(p)
<1>1. tree.parent[b] \in Hits /\ Root \in Blocks
  BY InvFacts, RootIsBlock DEF Hits
<1>2. SubNamed(tree, b, c) \in Hits
  BY InvFacts, SubNamedFound DEF Hits, Typed
<1>3. r # <<>> => r \in Paths
  BY PathParts
<1>4. \A d \in Blocks : r # <<>> => f[<<d, r>>] \in Hits
  BY <1>3 DEF Searches
<1>5. FindOne(tree, b, c) \in Hits
  BY <1>1, <1>2 DEF FindOne, Hits
<1>6. r # <<>> => Deeper(tree, f, b, p) \in Hits
  BY <1>3, DeeperTyped
<1>7. r # <<>> => Up(tree, f, b, p) \in Hits
  <2> SUFFICES ASSUME r # <<>>, tree.parent[b] \notin {Null, b} PROVE Up(tree, f, b, p) \in Hits
    BY DEF Up, Hits
  <2>1. tree.parent[b] \in Blocks
    BY <1>1 DEF Hits
  <2>2. Aside(tree, f, b, p) \in Hits
    BY <2>1, AsideTyped
  <2>3. f[<<tree.parent[b], p>>] \in Hits /\ f[<<tree.parent[b], r>>] \in Hits
    BY <1>4, <2>1 DEF Searches
  <2> QED BY <2>2, <2>3 DEF Up, Or
<1> HIDE DEF c, r
<1>8. Along(tree, f, b, p) =
        CASE c = "/" -> IF r = <<>> THEN Root ELSE f[<<Root, r>>]
          [] c # "/" /\ r = <<>> -> FindOne(tree, b, c)
          [] c = "." /\ r # <<>> -> f[<<b, r>>]
          [] c = ".." /\ r # <<>> -> IF tree.parent[b] = Null THEN Null ELSE f[<<tree.parent[b], r>>]
          [] c = "*" /\ r # <<>> -> Deeper(tree, f, b, p)
          [] c = "**" /\ r # <<>> -> Or(f[<<b, r>>], Deeper(tree, f, b, p))
          [] c = "..*" /\ r # <<>> -> Up(tree, f, b, p)
          [] OTHER -> IF SubNamed(tree, b, c) = Null THEN Null ELSE f[<<SubNamed(tree, b, c), r>>]
  BY DEF Along, c, r
<1>9. CASE r = <<>>
  BY <1>1, <1>5, <1>8, <1>9 DEF Hits
<1>10. CASE r # <<>>
  BY <1>1, <1>2, <1>4, <1>6, <1>7, <1>8, <1>10 DEF Hits, Or
<1> QED BY <1>9, <1>10

LEMMA AlongLocal ==
  ASSUME Inv, NEW f, NEW g, NEW b \in Blocks, NEW p \in Paths,
         \A y \in Searches : Rank[y] < Rank[<<b, p>>] => f[y] = g[y]
  PROVE  Along(tree, f, b, p) = Along(tree, g, b, p)
<1> DEFINE c == Head(p)
           r == Tail(p)
<1>1. tree.parent[b] \in Hits /\ Root \in Blocks
  BY InvFacts, RootIsBlock DEF Hits
<1>2. SubNamed(tree, b, c) \in Hits
  BY InvFacts, SubNamedFound DEF Hits, Typed
<1>3. ASSUME r # <<>>, NEW d \in Blocks PROVE f[<<d, r>>] = g[<<d, r>>]
  <2>1. <<d, r>> \in Searches
    BY <1>3, PathParts DEF Searches
  <2> QED BY <1>3, <2>1, UsesSmaller
<1>4. ASSUME r # <<>>, c # "..*" PROVE Deeper(tree, f, b, p) = Deeper(tree, g, b, p)
  <2>1. ASSUME NEW i \in DOMAIN tree.sub[b]
        PROVE  /\ f[<<tree.sub[b][i], p>>] = g[<<tree.sub[b][i], p>>]
               /\ f[<<tree.sub[b][i], r>>] = g[<<tree.sub[b][i], r>>]
    <3>1. tree.sub[b][i] \in Blocks
      BY SubIsListed
    <3>2. <<tree.sub[b][i], p>> \in Searches
      BY <3>1 DEF Searches
    <3>3. Rank[<<tree.sub[b][i], p>>] < Rank[<<b, p>>]
      BY <1>4, UsesSmaller
    <3> QED BY <1>3, <1>4, <3>1, <3>2, <3>3
  <2> DEFINE s(h) == [i \in DOMAIN tree.sub[b] |->
                  Or(h[<<tree.sub[b][i], Tail(p)>>], IF Head(p) = "**" THEN h[<<tree.sub[b][i], p>>] ELSE Null)]
  <2>2. s(f) = s(g)
    BY <2>1
  <2>3. Deeper(tree, f, b, p) = FirstHit(s(f)) /\ Deeper(tree, g, b, p) = FirstHit(s(g))
    BY DEF Deeper
  <2> HIDE DEF s
  <2> QED BY <2>2, <2>3
<1>5. ASSUME r # <<>>, c = "..*" PROVE Up(tree, f, b, p) = Up(tree, g, b, p)
  <2> DEFINE P == tree.parent[b]
             q == <<"**">> \o Tail(p)
  <2> SUFFICES ASSUME P \notin {Null, b} PROVE Up(tree, f, b, p) = Up(tree, g, b, p)
    BY DEF Up
  <2>1. P \in Blocks /\ q \in Paths
    BY <1>1, SidePath DEF Hits
  <2>2. f[<<P, p>>] = g[<<P, p>>] /\ f[<<P, r>>] = g[<<P, r>>]
    <3>1. <<P, p>> \in Searches
      BY <2>1 DEF Searches
    <3>2. Rank[<<P, p>>] < Rank[<<b, p>>]
      BY <1>5, UsesSmaller
    <3> QED BY <1>3, <1>5, <2>1, <3>1, <3>2
  <2>3. \A d \in Blocks : f[<<d, q>>] = g[<<d, q>>]
    <3> SUFFICES ASSUME NEW d \in Blocks PROVE f[<<d, q>>] = g[<<d, q>>]
      OBVIOUS
    <3>1. <<d, q>> \in Searches
      BY <2>1 DEF Searches
    <3>2. Rank[<<d, q>>] < Rank[<<b, p>>]
      BY <1>5, UsesSmaller
    <3> QED BY <3>1, <3>2
  <2>4. Aside(tree, f, b, p) = Aside(tree, g, b, p)
    <3> DEFINE s(h) == [i \in DOMAIN tree.sub[P] |->
                         IF i \in Siblings(tree, b) THEN h[<<tree.sub[P][i], q>>] ELSE Null]
    <3>1. \A i \in DOMAIN tree.sub[P] : tree.sub[P][i] \in Blocks
      BY <2>1, SubIsListed
    <3>2. Aside(tree, f, b, p) = FirstHit(s(f)) /\ Aside(tree, g, b, p) = FirstHit(s(g))
      BY DEF Aside
    <3>3. s(f) = s(g)
      <4> HIDE DEF P, q
      <4> QED BY <2>3, <3>1
    <3> HIDE DEF s
    <3> QED BY <3>2, <3>3
  <2> QED BY <2>2, <2>4 DEF Up
<1> DEFINE A(h) ==
        CASE c = "/" -> IF r = <<>> THEN Root ELSE h[<<Root, r>>]
          [] c # "/" /\ r = <<>> -> FindOne(tree, b, c)
          [] c = "." /\ r # <<>> -> h[<<b, r>>]
          [] c = ".." /\ r # <<>> -> IF tree.parent[b] = Null THEN Null ELSE h[<<tree.parent[b], r>>]
          [] c = "*" /\ r # <<>> -> Deeper(tree, h, b, p)
          [] c = "**" /\ r # <<>> -> Or(h[<<b, r>>], Deeper(tree, h, b, p))
          [] c = "..*" /\ r # <<>> -> Up(tree, h, b, p)
          [] OTHER -> IF SubNamed(tree, b, c) = Null THEN Null ELSE h[<<SubNamed(tree, b, c), r>>]
<1>6. Along(tree, f, b, p) = A(f) /\ Along(tree, g, b, p) = A(g)
  BY DEF Along
<1>7. A(f) = A(g)
  <2> HIDE DEF c, r
  <2>1. CASE r = <<>>
    BY <2>1
  <2>2. CASE r # <<>>
    BY <1>1, <1>2, <1>3, <1>4, <1>5, <2>2 DEF Hits
  <2> QED BY <2>1, <2>2
<1> QED BY <1>6, <1>7

Finder(t) == CHOOSE find : find = [x \in Blocks \X Paths |-> Along(t, find, x[1], x[2])]

LEMMA FinderIs ==
  ASSUME NEW t, NEW b, NEW p
  PROVE  Find(t, b, p) = Finder(t)[<<b, p>>]
BY DEF Find, Finder

LEMMA FinderFacts ==
  ASSUME Inv
  PROVE  /\ Finder(tree) \in [Searches -> Hits]
         /\ \A b \in Blocks : \A p \in Paths :
              Finder(tree)[<<b, p>>] = Along(tree, Finder(tree), b, p)
<1> DEFINE H == [x \in Searches |-> [f \in [Searches -> Hits] |-> Along(tree, f, x[1], x[2])]]
<1>1. \A x \in Searches : x[1] \in Blocks /\ x[2] \in Paths /\ x = <<x[1], x[2]>>
  BY DEF Searches
<1>2. H \in [Searches -> [[Searches -> Hits] -> Hits]]
  BY <1>1, AlongTyped
<1>3. \A x \in Searches : \A f \in [Searches -> Hits] : H[x][f] = Along(tree, f, x[1], x[2])
  OBVIOUS
<1> HIDE DEF H
<1>4. Local(Searches, Hits, Rank, H)
  <2> SUFFICES ASSUME NEW x \in Searches, NEW f \in [Searches -> Hits], NEW g \in [Searches -> Hits],
                      \A y \in Searches : Rank[y] < Rank[x] => f[y] = g[y]
               PROVE  H[x][f] = H[x][g]
    BY DEF Local
  <2>1. \A y \in Searches : Rank[y] < Rank[<<x[1], x[2]>>] => f[y] = g[y]
    BY <1>1
  <2>2. Along(tree, f, x[1], x[2]) = Along(tree, g, x[1], x[2])
    BY <1>1, <2>1, AlongLocal
  <2> QED BY <1>3, <2>2
<1>5. PICK F \in [Searches -> Hits] : \A x \in Searches : F[x] = H[x][F]
  <2>1. Null \in Hits /\ Rank \in [Searches -> Nat]
    BY RankType DEF Hits
  <2>2. Recursive(Searches, Hits, Null, Rank, H)
    BY <1>2, <1>4, <2>1 DEF Recursive
  <2> QED BY <2>2, RecursionExists
<1>6. F = [x \in Searches |-> Along(tree, F, x[1], x[2])]
  BY <1>3, <1>5
<1>7. Finder(tree) = [x \in Searches |-> Along(tree, Finder(tree), x[1], x[2])]
  BY <1>6 DEF Finder, Searches
<1> DEFINE G == Finder(tree)
<1> HIDE DEF G
\* there is no other one
<1>8. \A x \in Searches : G[x] = Along(tree, G, x[1], x[2]) /\ F[x] = Along(tree, F, x[1], x[2])
  BY <1>6, <1>7 DEF G
<1> DEFINE S == {x \in Searches : G[x] = F[x]}
<1>9. ASSUME NEW x \in Searches, \A y \in Searches : Rank[y] < Rank[x] => y \in S
      PROVE  G[x] = F[x]
  <2>1. \A y \in Searches : Rank[y] < Rank[<<x[1], x[2]>>] => G[y] = F[y]
    BY <1>1, <1>9
  <2>2. Along(tree, G, x[1], x[2]) = Along(tree, F, x[1], x[2])
    BY <1>1, <2>1, AlongLocal
  <2> QED BY <1>8, <2>2
<1>10. Inherited(Searches, Rank, S)
  BY <1>9 DEF Inherited
<1>11. Searches \subseteq S
  <2> HIDE DEF S
  <2> QED BY <1>10, RankInduction, RankType
<1>12. G \in [Searches -> Hits]
  <2>1. \A x \in Searches : G[x] \in Hits
    BY <1>5, <1>11
  <2> QED BY <1>7, <2>1 DEF G
<1>13. ASSUME NEW b \in Blocks, NEW p \in Paths PROVE G[<<b, p>>] = Along(tree, G, b, p)
  <2>1. <<b, p>> \in Searches
    BY DEF Searches
  <2> QED BY <1>8, <2>1
<1> QED BY <1>12, <1>13 DEF G

-----------------------------------------------------------------------------
(* Single searches *)

LEMMA SearchIs ==
  ASSUME Inv, NEW b \in Blocks, NEW p \in Paths
  PROVE  Find(tree, b, p) = Along(tree, Finder(tree), b, p) /\ Find(tree, b, p) \in Hits
<1>1. <<b, p>> \in Searches
  BY DEF Searches
<1> QED BY <1>1, FinderIs, FinderFacts

LEMMA OneStepPath ==
  ASSUME NEW c \in Components
  PROVE  <<c>> \in Paths /\ Head(<<c>>) = c /\ Tail(<<c>>) = <<>>
BY DEF Paths

LEMMA TwoStepPath ==
  ASSUME NEW c \in Components, NEW d \in Components
  PROVE  <<c, d>> \in Paths /\ Head(<<c, d>>) = c /\ Tail(<<c, d>>) = <<d>>
BY DEF Paths

LEMMA LongPath ==
  ASSUME NEW c \in Components, NEW q \in Paths
  PROVE  <<c>> \o q \in Paths /\ Head(<<c>> \o q) = c /\ Tail(<<c>> \o q) = q /\ q # <<>>
BY DEF Paths

\* what a path may end in, other than a step: a name, or what only looks like one
Sought == Names \cup {"body)"}

LEMMA NamesAreComponents ==
  ASSUME NEW n \in Sought
  PROVE  n \in Components /\ n \notin {"/", ".", "..", "*", "**", "..*"}
BY FindAssumption DEF Components, Sought

LEMMA FindByName ==
  ASSUME Inv, NEW b \in Blocks, NEW n \in Sought
  PROVE  Find(tree, b, <<n>>) = IF tree.name[b] = n THEN b ELSE SubNamed(tree, b, n)
<1>1. <<n>> \in Paths /\ Head(<<n>>) = n /\ Tail(<<n>>) = <<>>
  BY NamesAreComponents, OneStepPath
<1>2. Find(tree, b, <<n>>) = FindOne(tree, b, n)
  BY <1>1, NamesAreComponents, SearchIs DEF Along
<1> QED BY <1>2, NamesAreComponents DEF FindOne

LEMMA FindParent ==
  ASSUME Inv, NEW b \in Blocks
  PROVE  Find(tree, b, <<"..">>) = tree.parent[b]
<1>1. ".." \in Components
  BY DEF Components
<1>2. <<"..">> \in Paths /\ Head(<<"..">>) = ".." /\ Tail(<<"..">>) = <<>>
  BY <1>1, OneStepPath
<1>3. Find(tree, b, <<"..">>) = FindOne(tree, b, "..")
  BY <1>2, SearchIs DEF Along
<1>4. tree.name[b] \in Names
  BY InvFacts
<1> QED BY <1>3, <1>4, NamesAreComponents DEF FindOne

LEMMA FindDeep ==
  ASSUME Inv, NEW b \in Blocks, NEW n \in Sought
  PROVE  Find(tree, b, <<"**", n>>) =
           Or(Find(tree, b, <<n>>),
              FirstHit([i \in DOMAIN tree.sub[b] |->
                Or(Find(tree, tree.sub[b][i], <<n>>), Find(tree, tree.sub[b][i], <<"**", n>>))]))
<1> DEFINE p == <<"**", n>>
<1>1. p \in Paths /\ Head(p) = "**" /\ Tail(p) = <<n>> /\ Tail(p) # <<>>
  <2>1. "**" \in Components
    BY DEF Components
  <2> QED BY <2>1, NamesAreComponents, TwoStepPath
<1>2. \A x : Finder(tree)[<<x, p>>] = Find(tree, x, p) /\ Finder(tree)[<<x, <<n>>>>] = Find(tree, x, <<n>>)
  BY FinderIs
<1> HIDE DEF p
<1>3. Find(tree, b, p) = Or(Find(tree, b, <<n>>), Deeper(tree, Finder(tree), b, p))
  BY <1>1, <1>2, SearchIs DEF Along
<1>4. Deeper(tree, Finder(tree), b, p) =
        FirstHit([i \in DOMAIN tree.sub[b] |->
          Or(Find(tree, tree.sub[b][i], <<n>>), Find(tree, tree.sub[b][i], p))])
  BY <1>1, <1>2 DEF Deeper
<1> QED BY <1>3, <1>4 DEF p

LEMMA FindUp ==
  ASSUME Inv, NEW b \in Blocks, NEW n \in Sought
  PROVE  Find(tree, b, <<"..*", n>>) =
           LET top == tree.parent[b]
           IN IF top \in {Null, b} THEN Null
              ELSE Or(Find(tree, top, <<n>>),
                      Or(FirstHit([i \in DOMAIN tree.sub[top] |->
                                    IF i \in Siblings(tree, b) THEN Find(tree, tree.sub[top][i], <<"**", n>>)
                                    ELSE Null]),
                         Find(tree, top, <<"..*", n>>)))
<1> DEFINE p == <<"..*", n>>
           top == tree.parent[b]
<1>1. p \in Paths /\ Head(p) = "..*" /\ Tail(p) = <<n>> /\ Tail(p) # <<>>
  <2>1. "..*" \in Components
    BY DEF Components
  <2> QED BY <2>1, NamesAreComponents, TwoStepPath
<1>2. <<"**">> \o <<n>> = <<"**", n>>
  <2> DEFINE C == Components
             r == <<"**">>
             s == <<n>>
             u == r \o s
             v == <<"**", n>>
  <2>1. "**" \in C /\ n \in C
    BY NamesAreComponents DEF Components
  <2>2. r \in Seq(C) /\ s \in Seq(C) /\ Len(r) = 1 /\ Len(s) = 1 /\ r[1] = "**" /\ s[1] = n
    BY <2>1
  <2>3. v \in Seq(C) /\ Len(v) = 2 /\ v[1] = "**" /\ v[2] = n
    BY <2>1
  <2> HIDE DEF r, s, v
  <2>4. u \in Seq(C) /\ Len(u) = 2 /\ u[1] = "**" /\ u[2] = n
    BY <2>2, ConcatProperties
  <2> HIDE DEF u
  <2>5. u = v
    BY <2>3, <2>4
  <2> QED BY <2>5 DEF u, v, r, s
<1>3. \A x, q : Finder(tree)[<<x, q>>] = Find(tree, x, q)
  BY FinderIs
<1> HIDE DEF p
<1>4. Find(tree, b, p) = Up(tree, Finder(tree), b, p)
  BY <1>1, SearchIs DEF Along
<1>5. Aside(tree, Finder(tree), b, p) =
        FirstHit([i \in DOMAIN tree.sub[top] |->
                   IF i \in Siblings(tree, b) THEN Find(tree, tree.sub[top][i], <<"**", n>>) ELSE Null])
  BY <1>1, <1>2, <1>3 DEF Aside
<1>6. Up(tree, Finder(tree), b, p) =
        IF top \in {Null, b} THEN Null
        ELSE Or(Find(tree, top, <<n>>), Or(Aside(tree, Finder(tree), b, p), Find(tree, top, p)))
  BY <1>1, <1>3 DEF Up
<1> QED BY <1>4, <1>5, <1>6 DEF p

LEMMA FindFromRoot ==
  ASSUME Inv, NEW b \in Blocks
  PROVE  /\ Find(tree, b, <<"/">>) = Root
         /\ \A q \in Paths : Find(tree, b, <<"/">> \o q) = Find(tree, Root, q)
<1>1. "/" \in Components
  BY DEF Components
<1>2. Find(tree, b, <<"/">>) = Root
  <2>1. <<"/">> \in Paths /\ Head(<<"/">>) = "/" /\ Tail(<<"/">>) = <<>>
    BY <1>1, OneStepPath
  <2> QED BY <2>1, SearchIs DEF Along
<1>3. ASSUME NEW q \in Paths PROVE Find(tree, b, <<"/">> \o q) = Find(tree, Root, q)
  <2> DEFINE p == <<"/">> \o q
  <2>1. p \in Paths /\ Head(p) = "/" /\ Tail(p) = q /\ q # <<>>
    BY <1>1, LongPath
  <2> HIDE DEF p
  <2>2. Find(tree, b, p) = Finder(tree)[<<Root, q>>]
    BY <2>1, SearchIs DEF Along
  <2> QED BY <2>2, FinderIs DEF p
<1> QED BY <1>2, <1>3

LEMMA FindThrough ==
  ASSUME Inv, NEW b \in Blocks, NEW n \in Sought, SubNamed(tree, b, n) # Null, NEW q \in Paths
  PROVE  Find(tree, b, <<n>> \o q) = Find(tree, SubNamed(tree, b, n), q)
<1> DEFINE p == <<n>> \o q
<1>1. p \in Paths /\ Head(p) = n /\ Tail(p) = q /\ q # <<>>
  BY NamesAreComponents, LongPath
<1> HIDE DEF p
<1>2. Find(tree, b, p) = Finder(tree)[<<SubNamed(tree, b, n), q>>]
  BY <1>1, NamesAreComponents, SearchIs DEF Along
<1> QED BY <1>2, FinderIs DEF p

-----------------------------------------------------------------------------
(* Searches down and up *)

\* whatever else is under a block is under one of its sub-blocks
LEMMA UnderSub ==
  ASSUME Inv, NEW b \in Blocks, NEW c \in Subtree(tree, b), c # b
  PROVE  \E i \in DOMAIN tree.sub[b] : c \in Subtree(tree, tree.sub[b][i])
<1> DEFINE S == {b} \cup UNION {Subtree(tree, x) : x \in ToSet(tree.sub[b])}
<1>1. ASSUME NEW x \in ToSet(tree.sub[b])
      PROVE  Subtree(tree, x) \subseteq Blocks /\ x \in Subtree(tree, x) /\ Closed(tree, Subtree(tree, x))
  BY ChildIsSmaller, InvFacts, SubtreeClosed
<1>2. S \in SUBSET Blocks /\ b \in S
  BY <1>1
<1>3. ASSUME NEW y \in S PROVE ToSet(tree.sub[y]) \subseteq S
  BY <1>1, <1>3 DEF Closed
<1>4. Closed(tree, S)
  BY <1>3 DEF Closed
<1>5. Subtree(tree, b) \subseteq S
  <2> HIDE DEF S
  <2> QED BY <1>2, <1>4, SubtreeLeast
<1>6. PICK x \in ToSet(tree.sub[b]) : c \in Subtree(tree, x)
  BY <1>5
<1> QED BY <1>6 DEF ToSet

LEMMA UnderMySub ==
  ASSUME Inv, NEW b \in Blocks, NEW i \in DOMAIN tree.sub[b]
  PROVE  Subtree(tree, tree.sub[b][i]) \subseteq Subtree(tree, b)
<1>1. tree.sub[b][i] \in Subtree(tree, b)
  BY SubIsListed, InvFacts, SubtreeClosed DEF Closed
<1> QED BY <1>1, UnderNests

FoundUnder(b, n) ==
  LET hit == Find(tree, b, <<"**", n>>)
  IN IF Named(Within(b), n) = {} THEN hit = Null ELSE hit \in Named(Within(b), n)

\* a name alone finds the block itself or a sub-block
LEMMA NameHits ==
  ASSUME Inv, NEW b \in Blocks, NEW n \in Sought
  PROVE  LET hit == Find(tree, b, <<n>>)
         IN /\ hit # Null => hit \in Named(Within(b), n) /\ (hit = b \/ hit \in ToSet(tree.sub[b]))
            /\ hit = Null => tree.name[b] # n /\ \A x \in ToSet(tree.sub[b]) : tree.name[x] # n
<1> DEFINE hit == Find(tree, b, <<n>>)
<1>1. hit = IF tree.name[b] = n THEN b ELSE SubNamed(tree, b, n)
  BY FindByName
<1>2. b \in Subtree(tree, b) /\ ToSet(tree.sub[b]) \subseteq Subtree(tree, b) /\ tree.sub \in [Blocks -> Seq(Blocks)]
  BY InvFacts, SubtreeClosed DEF Closed, Typed
<1>3. b # Null
  BY DEF Null, Blocks
<1> HIDE DEF hit
<1>4. CASE tree.name[b] = n
  BY <1>1, <1>2, <1>3, <1>4 DEF Named, Within, hit
<1>5. CASE tree.name[b] # n /\ SubNamed(tree, b, n) = Null
  BY <1>1, <1>2, <1>5, SubNamedNone DEF hit
<1>6. CASE tree.name[b] # n /\ SubNamed(tree, b, n) # Null
  <2>1. SubNamed(tree, b, n) \in ToSet(tree.sub[b]) /\ tree.name[SubNamed(tree, b, n)] = n
    BY <1>2, <1>6, SubNamedFound
  <2> QED BY <1>1, <1>2, <1>6, <2>1 DEF Named, Within, hit
<1> QED BY <1>4, <1>5, <1>6

LEMMA DeepSearch ==
  ASSUME Inv, NEW n \in Sought
  PROVE  \A b \in Blocks : FoundUnder(b, n)
<1> DEFINE S == {b \in Blocks : FoundUnder(b, n)}
           size == [b \in Blocks |-> Size(b)]
<1>1. ASSUME NEW b \in Blocks, \A c \in Blocks : size[c] < size[b] => c \in S PROVE b \in S
  <2> DEFINE here == Find(tree, b, <<n>>)
             s == [i \in DOMAIN tree.sub[b] |->
                    Or(Find(tree, tree.sub[b][i], <<n>>), Find(tree, tree.sub[b][i], <<"**", n>>))]
             hit == Find(tree, b, <<"**", n>>)
  <2>1. hit = Or(here, FirstHit(s))
    BY FindDeep
  <2>2. DOMAIN s \in SUBSET Nat /\ DOMAIN s = DOMAIN tree.sub[b]
    BY Listed
  <2>3. ASSUME NEW i \in DOMAIN tree.sub[b]
        PROVE  /\ s[i] # Null => s[i] \in Named(Within(b), n)
               /\ s[i] = Null => Named(Within(tree.sub[b][i]), n) = {}
    <3> DEFINE c == tree.sub[b][i]
    <3>1. c \in Blocks /\ Size(c) < Size(b) /\ Subtree(tree, c) \subseteq Subtree(tree, b)
      BY SubIsListed, ChildIsSmaller, UnderMySub
    <3>2. s[i] = Or(Find(tree, c, <<n>>), Find(tree, c, <<"**", n>>))
      OBVIOUS
    <3> HIDE DEF c, s
    <3>3. FoundUnder(c, n)
      BY <1>1, <3>1
    <3>4. Find(tree, c, <<n>>) # Null => Find(tree, c, <<n>>) \in Named(Within(c), n)
      BY <3>1, NameHits
    <3>5. Named(Within(c), n) \subseteq Named(Within(b), n)
      BY <3>1 DEF Named, Within
    <3>6. s[i] # Null => s[i] \in Named(Within(c), n)
      BY <3>2, <3>3, <3>4 DEF FoundUnder, Or
    <3>7. s[i] = Null => Named(Within(c), n) = {}
      <4>1. ASSUME s[i] = Null PROVE Find(tree, c, <<"**", n>>) = Null
        BY <3>2, <4>1 DEF Or
      <4>2. \A x \in Within(c) : x # Null
        BY <3>1, InvFacts, SubtreeClosed DEF Within, Null, Blocks
      <4>3. Null \notin Named(Within(c), n)
        BY <4>2 DEF Named
      <4> QED BY <3>3, <4>1, <4>3 DEF FoundUnder
    <3> QED BY <3>5, <3>6, <3>7 DEF c
  <2> HIDE DEF s, hit, here
  <2>4. here # Null => here \in Named(Within(b), n)
    BY NameHits DEF here
  <2>5. here = Null => tree.name[b] # n
    BY NameHits DEF here
  <2>6. ASSUME here = Null, FirstHit(s) # Null PROVE FirstHit(s) \in Named(Within(b), n)
    <3>1. PICK i \in DOMAIN s : FirstHit(s) = s[i]
      BY <2>2, <2>6, FirstHitSome
    <3> QED BY <2>2, <2>3, <2>6, <3>1
  <2>7. ASSUME here = Null, FirstHit(s) = Null PROVE Named(Within(b), n) = {}
    <3> SUFFICES ASSUME NEW x \in Within(b), tree.name[x] = n PROVE FALSE
      BY DEF Named
    <3>1. x # b
      BY <2>5, <2>7
    <3>2. PICK i \in DOMAIN tree.sub[b] : x \in Subtree(tree, tree.sub[b][i])
      BY <3>1, UnderSub DEF Within
    <3>3. s[i] = Null
      BY <2>2, <2>7, FirstHitNone
    <3>4. Named(Within(tree.sub[b][i]), n) = {}
      BY <2>3, <3>3
    <3> QED BY <3>2, <3>4 DEF Named, Within
  <2>8. FoundUnder(b, n)
    <3>1. CASE here # Null
      BY <2>1, <2>4, <3>1 DEF FoundUnder, Or, hit
    <3>2. CASE here = Null /\ FirstHit(s) # Null
      BY <2>1, <2>6, <3>2 DEF FoundUnder, Or, hit
    <3>3. CASE here = Null /\ FirstHit(s) = Null
      BY <2>1, <2>7, <3>3 DEF FoundUnder, Or, hit
    <3> QED BY <3>1, <3>2, <3>3
  <2> QED BY <2>8
<1>2. Inherited(Blocks, size, S)
  BY <1>1 DEF Inherited
<1>3. size \in [Blocks -> Nat]
  <2>1. ASSUME NEW b \in Blocks PROVE Size(b) \in Nat
    BY SizeBound
  <2> QED BY <2>1
<1>4. Blocks \subseteq S
  <2> HIDE DEF S, size
  <2> QED BY <1>2, <1>3, RankInduction
<1> QED BY <1>4

LEMMA DownwardHolds == Inv => DownwardSearch
<1> SUFFICES ASSUME Inv, NEW b \in tree.live, NEW n \in Names PROVE FoundUnder(b, n)
  BY DEF DownwardSearch, FoundUnder
<1> QED BY DeepSearch, InvFacts DEF Sought

LEMMA SiblingsApart ==
  ASSUME Inv, NEW b \in tree.live, NEW c \in tree.live, b # c,
         tree.parent[b] = tree.parent[c], tree.parent[b] \notin {b, c}
  PROVE  Subtree(tree, b) \cap Subtree(tree, c) = {}
<1> DEFINE P == tree.parent[b]
           Z == Subtree(tree, b) \ Subtree(tree, c)
<1>1. P \notin Subtree(tree, b) /\ P \notin Subtree(tree, c)
  BY NoLoop
<1>2. b \in Blocks /\ c \in Blocks /\ b \in Subtree(tree, b) /\ Subtree(tree, b) \subseteq Blocks
  BY InvFacts, SubtreeClosed
<1>3. b \notin Subtree(tree, c)
  BY <1>1, ParentUnder
<1>4. ASSUME NEW y \in Z, NEW d \in ToSet(tree.sub[y]) PROVE d \in Z
  <2>1. d \in Subtree(tree, b)
    BY <1>2, InvFacts, SubtreeClosed DEF Closed
  <2>2. tree.parent[d] = y /\ y \in Blocks
    BY <1>2, Listed
  <2>3. d # c
    BY <1>1, <2>2
  <2>4. d \notin Subtree(tree, c)
    BY <2>2, <2>3, ParentUnder
  <2> QED BY <2>1, <2>4
<1>5. Z \in SUBSET Blocks /\ b \in Z /\ Closed(tree, Z)
  BY <1>2, <1>3, <1>4 DEF Closed
<1>6. Subtree(tree, b) \subseteq Z
  <2> HIDE DEF Z
  <2> QED BY <1>5, SubtreeLeast
<1> QED BY <1>6

\* all of the tree that b is in
LEMMA WholeFacts ==
  ASSUME Inv, NEW b \in tree.live
  PROVE  /\ tree.parent[b] = b => Whole(b) = Within(b)
         /\ tree.parent[b] # b => Whole(tree.parent[b]) = Whole(b)
         /\ \A x \in tree.live : b \in Within(x) => Within(x) \subseteq Whole(b)
<1> DEFINE P == tree.parent[b]
<1>1. b \in Within(b) /\ P \in tree.live
  BY InvFacts, SubtreeClosed DEF Within
<1>2. \A x \in tree.live : b \in Within(x) => x = b \/ (P \in Within(x) /\ P # b)
  BY ParentUnder DEF Within
<1>3. ASSUME P = b PROVE Whole(b) = Within(b)
  BY <1>1, <1>2, <1>3 DEF Whole
<1>4. ASSUME P # b PROVE Whole(P) = Whole(b)
  <2>1. b \in ToSet(tree.sub[P]) /\ P \in Blocks
    BY <1>1, <1>4, InvFacts, Listed
  <2>2. \A x \in tree.live : P \in Within(x) => b \in Within(x)
    BY <2>1, InvFacts, SubtreeClosed DEF Within, Closed
  <2>3. Within(b) \subseteq Within(P) /\ P \in Within(P)
    BY <1>1, <1>4, ParentIsBigger, InvFacts, SubtreeClosed DEF Within
  <2>4. Whole(P) \subseteq Whole(b)
    BY <2>2 DEF Whole
  <2>5. ASSUME NEW x \in tree.live, b \in Within(x), NEW y \in Within(x) PROVE y \in Whole(P)
    <3>1. CASE x = b
      BY <1>1, <2>3, <2>5, <3>1 DEF Whole
    <3>2. CASE P \in Within(x)
      BY <2>5, <3>2 DEF Whole
    <3> QED BY <1>2, <2>5, <3>1, <3>2
  <2>6. Whole(b) \subseteq Whole(P)
    BY <2>5 DEF Whole
  <2> QED BY <2>4, <2>6
<1>5. ASSUME NEW x \in tree.live, b \in Within(x) PROVE Within(x) \subseteq Whole(b)
  BY <1>5 DEF Whole
<1> QED BY <1>3, <1>4, <1>5

Outside(b, n) == Named(Whole(b) \ Within(b), n)
FoundAbove(b, n) ==
  LET hit == Find(tree, b, <<"..*", n>>)
  IN /\ hit # Null => hit \in Outside(b, n) \cup {b} /\ tree.name[hit] = n
     /\ Outside(b, n) # {} => hit # Null

\* what the search from b adds to the one from its parent
LEMMA AboveParent ==
  ASSUME Inv, NEW b \in tree.live, NEW n \in Sought, tree.parent[b] # b,
         FoundAbove(tree.parent[b], n)
  PROVE  FoundAbove(b, n)
<1> DEFINE P == tree.parent[b]
           here == Find(tree, P, <<n>>)
           s == [i \in DOMAIN tree.sub[P] |->
                  IF i \in Siblings(tree, b) THEN Find(tree, tree.sub[P][i], <<"**", n>>) ELSE Null]
           above == Find(tree, P, <<"..*", n>>)
           hit == Find(tree, b, <<"..*", n>>)
<1>1. P \in tree.live /\ P \in Blocks /\ b \in Blocks /\ P # Null
  <2>1. P \in tree.live /\ P \in Blocks /\ b \in Blocks
    BY InvFacts
  <2> HIDE DEF P, here, s, above, hit
  <2>2. P # Null
    BY <2>1 DEF Null, Blocks
  <2> QED BY <2>1, <2>2
<1>2. hit = Or(here, Or(FirstHit(s), above))
  <2>1. P \notin {Null, b}
    BY <1>1
  <2>2. hit = IF P \in {Null, b} THEN Null ELSE Or(here, Or(FirstHit(s), above))
    BY <1>1, FindUp
  <2> HIDE DEF P, here, s, above, hit
  <2> QED BY <2>1, <2>2
<1>3. DOMAIN s \in SUBSET Nat /\ DOMAIN s = DOMAIN tree.sub[P]
  BY <1>1, Listed
<1>4. \A i \in DOMAIN tree.sub[P] :
        s[i] = IF tree.sub[P][i] # b THEN Find(tree, tree.sub[P][i], <<"**", n>>) ELSE Null
  BY DEF Siblings
<1>5. /\ P \notin Within(b) /\ P \in Within(P) /\ Within(b) \subseteq Within(P) /\ Within(P) \subseteq Whole(b)
      /\ Whole(P) = Whole(b)
  <2>1. P \notin Within(b) /\ P \in Within(P) /\ Within(b) \subseteq Within(P)
    BY <1>1, NoLoop, ParentIsBigger, InvFacts, SubtreeClosed DEF Within
  <2>2. b \in Within(b)
    BY <1>1, InvFacts, SubtreeClosed DEF Within
  <2> QED BY <1>1, <2>1, <2>2, WholeFacts
\* what is under the other sub-blocks of P is outside of b
<1>6. ASSUME NEW i \in DOMAIN tree.sub[P], tree.sub[P][i] # b
      PROVE  Within(tree.sub[P][i]) \subseteq Whole(b) \ Within(b)
  <2> DEFINE c == tree.sub[P][i]
  <2>1. c \in ToSet(tree.sub[P])
    BY <1>1, SubIsListed
  <2>2. c \in tree.live /\ tree.parent[c] = P /\ c # P
    BY <1>1, <2>1, ChildIsSmaller
  <2>3. Within(c) \subseteq Within(P)
    BY <1>1, UnderMySub DEF Within
  <2> HIDE DEF c
  <2>4. Within(c) \cap Within(b) = {}
    BY <1>6, <2>2, SiblingsApart DEF Within, c
  <2> QED BY <1>5, <2>3, <2>4 DEF c
<1>7. here # Null => here \in Outside(b, n) \cup {b} /\ tree.name[here] = n
  <2> SUFFICES ASSUME here # Null PROVE here \in Outside(b, n) \cup {b} /\ tree.name[here] = n
    OBVIOUS
  <2>1. here \in Named(Within(P), n) /\ (here = P \/ here \in ToSet(tree.sub[P]))
    BY <1>1, NameHits
  <2>2. CASE here = P
    BY <1>5, <2>1, <2>2 DEF Outside, Named
  <2>3. CASE here \in ToSet(tree.sub[P]) /\ here # b
    <3>1. PICK i \in DOMAIN tree.sub[P] : here = tree.sub[P][i]
      BY <2>3 DEF ToSet
    <3>2. here \in Blocks
      BY <1>1, <3>1, SubIsListed
    <3>3. here \in Within(here)
      BY <3>2, InvFacts, SubtreeClosed DEF Within
    <3> HIDE DEF here
    <3>4. here \in Whole(b) \ Within(b)
      BY <1>6, <2>3, <3>1, <3>3
    <3> QED BY <2>1, <3>4 DEF Outside, Named
  <2>4. CASE here = b
    BY <2>1, <2>4 DEF Named
  <2> QED BY <2>1, <2>2, <2>3, <2>4
<1>8. ASSUME NEW i \in DOMAIN s, s[i] # Null PROVE s[i] \in Outside(b, n)
  <2>1. tree.sub[P][i] # b /\ s[i] = Find(tree, tree.sub[P][i], <<"**", n>>)
    BY <1>3, <1>4, <1>8
  <2>2. FoundUnder(tree.sub[P][i], n)
    BY <1>1, <1>3, SubIsListed, DeepSearch
  <2>3. s[i] \in Named(Within(tree.sub[P][i]), n)
    BY <1>8, <2>1, <2>2 DEF FoundUnder
  <2> QED BY <1>3, <1>6, <2>1, <2>3 DEF Outside, Named
<1>9. FirstHit(s) # Null => FirstHit(s) \in Outside(b, n) /\ tree.name[FirstHit(s)] = n
  <2> HIDE DEF s
  <2> SUFFICES ASSUME FirstHit(s) # Null
               PROVE  FirstHit(s) \in Outside(b, n) /\ tree.name[FirstHit(s)] = n
    OBVIOUS
  <2>1. PICK i \in DOMAIN s : FirstHit(s) = s[i]
    BY <1>3, FirstHitSome
  <2> QED BY <1>8, <2>1 DEF Outside, Named
<1>10. above # Null => above \in Outside(b, n) /\ tree.name[above] = n
  BY <1>5 DEF FoundAbove, Outside, Named
<1>11. ASSUME here = Null, FirstHit(s) = Null, above = Null PROVE Outside(b, n) = {}
  <2> SUFFICES ASSUME NEW x \in Whole(b) \ Within(b), tree.name[x] = n PROVE FALSE
    BY DEF Outside, Named
  <2>1. CASE x \notin Within(P)
    <3>1. x \in Outside(P, n)
      BY <1>5, <2>1 DEF Outside, Named
    <3> QED BY <1>11, <3>1 DEF FoundAbove
  <2>2. CASE x = P
    BY <1>1, <1>11, <2>2, NameHits
  <2>3. CASE x \in Within(P) /\ x # P
    <3>1. PICK i \in DOMAIN tree.sub[P] : x \in Within(tree.sub[P][i])
      BY <1>1, <2>3, UnderSub DEF Within
    <3>2. tree.sub[P][i] # b
      BY <3>1
    <3>3. s[i] = Null
      <4> HIDE DEF s
      <4> QED BY <1>3, <1>11, FirstHitNone
    <3>4. Find(tree, tree.sub[P][i], <<"**", n>>) = Null
      BY <1>4, <3>2, <3>3
    <3>5. FoundUnder(tree.sub[P][i], n) /\ tree.sub[P][i] \in Blocks
      BY <1>1, SubIsListed, DeepSearch
    <3>6. x \in Named(Within(tree.sub[P][i]), n)
      BY <3>1 DEF Named
    <3>7. Null \notin Within(tree.sub[P][i])
      <4>1. Within(tree.sub[P][i]) \subseteq Blocks
        BY <3>5, InvFacts, SubtreeClosed DEF Within
      <4> QED BY <4>1 DEF Null, Blocks
    <3> QED BY <3>4, <3>5, <3>6, <3>7 DEF FoundUnder, Named
  <2> QED BY <2>1, <2>2, <2>3
<1> HIDE DEF here, s, above, hit
<1> QED BY <1>2, <1>7, <1>9, <1>10, <1>11 DEF FoundAbove, Or, hit

LEMMA UpSearch ==
  ASSUME Inv, NEW n \in Sought
  PROVE  \A b \in tree.live : FoundAbove(b, n)
<1> DEFINE S == {b \in tree.live : FoundAbove(b, n)}
           above == [b \in tree.live |-> MaxBlocks - Size(b)]
<1>1. ASSUME NEW b \in tree.live, \A c \in tree.live : above[c] < above[b] => c \in S PROVE b \in S
  <2>1. CASE tree.parent[b] = b
    <3>1. b \in Blocks
      BY InvFacts
    <3>2. Find(tree, b, <<"..*", n>>) = Null
      BY <2>1, <3>1, FindUp
    <3>3. Outside(b, n) = {}
      BY <2>1, WholeFacts DEF Outside, Named
    <3> QED BY <3>2, <3>3 DEF FoundAbove
  <2>2. CASE tree.parent[b] # b
    <3>1. tree.parent[b] \in tree.live /\ Size(b) < Size(tree.parent[b])
      BY <2>2, ParentIsBigger, InvFacts
    <3>2. Size(b) \in 0..MaxBlocks /\ Size(tree.parent[b]) \in 0..MaxBlocks
      BY <3>1, SizeBound, InvFacts
    <3>3. above[tree.parent[b]] < above[b]
      <4>1. above[tree.parent[b]] = MaxBlocks - Size(tree.parent[b]) /\ above[b] = MaxBlocks - Size(b)
        BY <3>1
      <4> HIDE DEF above
      <4> QED BY <3>1, <3>2, <4>1, BlocksFinite
    <3>4. FoundAbove(tree.parent[b], n)
      BY <1>1, <3>1, <3>3
    <3> QED BY <2>2, <3>4, AboveParent
  <2> QED BY <2>1, <2>2
<1>2. Inherited(tree.live, above, S)
  BY <1>1 DEF Inherited
<1>3. above \in [tree.live -> Nat]
  <2>1. ASSUME NEW b \in tree.live PROVE MaxBlocks - Size(b) \in Nat
    BY SizeBound, InvFacts, BlocksFinite
  <2> QED BY <2>1
<1>4. tree.live \subseteq S
  <2> HIDE DEF S, above
  <2> QED BY <1>2, <1>3, RankInduction
<1> QED BY <1>4

LEMMA UpwardHolds == Inv => UpwardSearch
<1> SUFFICES ASSUME Inv, NEW b \in tree.live, NEW n \in Names PROVE FoundAbove(b, n)
  BY DEF UpwardSearch, FoundAbove, Outside
<1> QED BY UpSearch DEF Sought

-----------------------------------------------------------------------------
(* Full paths *)

LEMMA FullpathIs ==
  ASSUME Inv
  PROVE  \A b \in tree.live :
           fullpath(tree, b) = IF tree.parent[b] = b THEN <<"/">>
                               ELSE Append(fullpath(tree, tree.parent[b]), tree.name[b])
<1> DEFINE D == tree.live
           V == Seq(Components)
           above == [b \in D |-> MaxBlocks - Size(b)]
           To(f, x) == IF tree.parent[x] = x THEN <<"/">> ELSE Append(f[tree.parent[x]], tree.name[x])
           H == [x \in D |-> [f \in [D -> V] |-> To(f, x)]]
           Pather == CHOOSE path : path = [x \in tree.live |->
                       IF tree.parent[x] = x THEN <<"/">>
                       ELSE Append(path[tree.parent[x]], tree.name[x])]
<1>1. above \in [D -> Nat]
  <2>1. ASSUME NEW b \in D PROVE MaxBlocks - Size(b) \in Nat
    BY SizeBound, InvFacts, BlocksFinite
  <2> QED BY <2>1
<1>2. ASSUME NEW x \in D, tree.parent[x] # x PROVE tree.parent[x] \in D /\ above[tree.parent[x]] < above[x]
  <2>1. tree.parent[x] \in D /\ Size(x) < Size(tree.parent[x])
    BY <1>2, ParentIsBigger, InvFacts
  <2>2. Size(x) \in 0..MaxBlocks /\ Size(tree.parent[x]) \in 0..MaxBlocks
    BY <2>1, SizeBound, InvFacts
  <2>3. above[tree.parent[x]] = MaxBlocks - Size(tree.parent[x]) /\ above[x] = MaxBlocks - Size(x)
    BY <2>1
  <2> HIDE DEF above
  <2> QED BY <2>1, <2>2, <2>3, BlocksFinite
<1> HIDE DEF above
<1>3. H \in [D -> [[D -> V] -> V]]
  <2>1. ASSUME NEW x \in D, NEW f \in [D -> V] PROVE To(f, x) \in V
    <3>1. "/" \in Components /\ tree.name[x] \in Components
      BY InvFacts, NamesAreComponents DEF Components
    <3>2. CASE tree.parent[x] = x
      BY <3>1, <3>2
    <3>3. CASE tree.parent[x] # x
      <4>1. f[tree.parent[x]] \in V
        BY <1>2, <3>3
      <4> QED BY <3>1, <3>3, <4>1
    <3> QED BY <3>2, <3>3
  <2> HIDE DEF To
  <2> QED BY <2>1
<1>4. \A x \in D : \A f \in [D -> V] : H[x][f] = To(f, x)
  OBVIOUS
<1>5. Local(D, V, above, H)
  <2> SUFFICES ASSUME NEW x \in D, NEW f \in [D -> V], NEW g \in [D -> V],
                      \A y \in D : above[y] < above[x] => f[y] = g[y]
               PROVE  H[x][f] = H[x][g]
    BY DEF Local
  <2>1. To(f, x) = To(g, x)
    BY <1>2
  <2> HIDE DEF H, To
  <2> QED BY <1>4, <2>1
<1>6. PICK F \in [D -> V] : \A x \in D : F[x] = H[x][F]
  <2>1. <<>> \in V
    OBVIOUS
  <2> HIDE DEF H, V, D
  <2>2. Recursive(D, V, <<>>, above, H)
    BY <1>1, <1>3, <1>5, <2>1 DEF Recursive
  <2> QED BY <2>2, RecursionExists
<1>7. F = [x \in tree.live |-> IF tree.parent[x] = x THEN <<"/">>
                               ELSE Append(F[tree.parent[x]], tree.name[x])]
  BY <1>4, <1>6
<1>8. Pather = [x \in tree.live |-> IF tree.parent[x] = x THEN <<"/">>
                                    ELSE Append(Pather[tree.parent[x]], tree.name[x])]
  BY <1>7
<1>9. \A b : fullpath(tree, b) = Pather[b]
  BY DEF fullpath
<1> HIDE DEF Pather
<1>10. ASSUME NEW b \in tree.live
       PROVE  Pather[b] = IF tree.parent[b] = b THEN <<"/">>
                          ELSE Append(Pather[tree.parent[b]], tree.name[b])
  BY <1>8
<1> QED BY <1>9, <1>10

\* the components below the root lead from there to b
LeadsTo(b) ==
  \E s \in Seq(Names) : /\ fullpath(tree, b) = <<"/">> \o s
                        /\ \A q \in Paths : Find(tree, Root, s \o q) = Find(tree, b, q)

Unhidden(b) == \A x \in Within(Root) \ {Root} : b \in Within(x) => ~Hidden(x)

LEMMA InProgram ==
  ASSUME Inv, NEW b \in Within(Root), b # Root
  PROVE  /\ b \in tree.live /\ b \in Blocks /\ tree.parent[b] # b
         /\ tree.parent[b] \in Within(Root) /\ tree.parent[b] \in tree.live /\ tree.parent[b] \in Blocks
         /\ Size(b) < Size(tree.parent[b])
         /\ Unhidden(b) => Unhidden(tree.parent[b]) /\ ~Hidden(b)
<1> DEFINE P == tree.parent[b]
<1>1. b \in tree.live /\ b \in Blocks
  BY SubtreeLives, InvFacts DEF Within
<1>2. P # b /\ P \in Within(Root)
  BY InvFacts, ParentUnder DEF Within
<1>3. P \in tree.live /\ P \in Blocks /\ Size(b) < Size(P)
  BY <1>1, <1>2, InvFacts, ParentIsBigger
<1>4. ASSUME Unhidden(b) PROVE Unhidden(P) /\ ~Hidden(b)
  <2>1. b \in Within(b)
    BY <1>1, InvFacts, SubtreeClosed DEF Within
  <2>2. b \in ToSet(tree.sub[P])
    BY <1>1, <1>2, <1>3, Listed
  <2>3. ASSUME NEW x \in Within(Root), P \in Within(x) PROVE b \in Within(x)
    <3>1. x \in Blocks
      BY DEF Within, Subtree
    <3> QED BY <2>2, <2>3, <3>1, InvFacts, SubtreeClosed DEF Within, Closed
  <2> QED BY <1>4, <2>1, <2>3 DEF Unhidden
<1> QED BY <1>1, <1>2, <1>3, <1>4

\* its name finds an unhidden block from its parent
LEMMA NamedByParent ==
  ASSUME Inv, NEW b \in Within(Root), b # Root, ~Hidden(b)
  PROVE  /\ SubNamed(tree, tree.parent[b], tree.name[b]) = b
         /\ tree.name[tree.parent[b]] # tree.name[b]
<1> DEFINE P == tree.parent[b]
           n == tree.name[b]
<1>1. P \in Blocks /\ b \in Blocks /\ b \in tree.live /\ P \in tree.live /\ P # b
  BY InProgram
<1>2. b \in ToSet(tree.sub[P]) /\ tree.sub[P] \in Seq(Blocks)
  BY <1>1, Listed
<1>3. PICK j \in DOMAIN tree.sub[P] : tree.sub[P][j] = b
  BY <1>2 DEF ToSet
<1>4. /\ tree.name[P] # n
      /\ \A i \in DOMAIN tree.sub[P] : i < j => tree.name[tree.sub[P][i]] # n
  BY <1>3 DEF Hidden
<1>5. tree.sub \in [Blocks -> Seq(Blocks)]
  BY InvFacts DEF Typed
<1> HIDE DEF P
<1>6. SubNamed(tree, P, n) # Null
  <2> SUFFICES ASSUME SubNamed(tree, P, n) = Null PROVE FALSE
    OBVIOUS
  <2>1. \A x \in ToSet(tree.sub[P]) : tree.name[x] # n
    <3> SUFFICES ASSUME NEW x \in ToSet(tree.sub[P]) PROVE tree.name[x] # n
      OBVIOUS
    <3> HIDE DEF n
    <3> QED BY <1>1, <1>5, SubNamedNone
  <2> QED BY <1>2, <2>1
<1>7. PICK i : SubNamed(tree, P, n) = tree.sub[P][i] /\ IsFirst(tree, P, n, i)
  <2> HIDE DEF n
  <2> QED BY <1>1, <1>5, <1>6, SubNamedFirst
<1>8. i \in Nat /\ j \in Nat /\ ~(i < j) /\ ~(j < i)
  BY <1>2, <1>3, <1>4, <1>7 DEF IsFirst
<1>9. i = j
  BY <1>8
<1> QED BY <1>3, <1>4, <1>7, <1>9 DEF P

LEMMA PathsLead ==
  ASSUME Inv
  PROVE  \A b \in Within(Root) : Unhidden(b) => LeadsTo(b)
<1> DEFINE D == Within(Root)
           S == {b \in D : Unhidden(b) => LeadsTo(b)}
           above == [b \in D |-> MaxBlocks - Size(b)]
<1>1. ASSUME NEW b \in D, \A c \in D : above[c] < above[b] => c \in S, Unhidden(b) PROVE LeadsTo(b)
  <2>1. CASE b = Root
    <3>1. fullpath(tree, Root) = <<"/">>
      BY FullpathIs, InvFacts DEF Inv, Shape
    <3>2. <<>> \in Seq(Names) /\ <<"/">> \o <<>> = <<"/">>
      OBVIOUS
    <3>3. \A q \in Paths : <<>> \o q = q
      BY DEF Paths
    <3> QED BY <2>1, <3>1, <3>2, <3>3 DEF LeadsTo
  <2>2. CASE b # Root
    <3> DEFINE P == tree.parent[b]
               n == tree.name[b]
    <3>1. /\ b \in tree.live /\ b \in Blocks /\ P # b /\ P \in D /\ P \in Blocks
          /\ Size(b) < Size(P) /\ Unhidden(P) /\ ~Hidden(b)
      BY <1>1, <2>2, InProgram
    <3>2. above[P] < above[b]
      <4>1. above[P] = MaxBlocks - Size(P) /\ above[b] = MaxBlocks - Size(b)
        BY <3>1
      <4>2. Size(b) \in 0..MaxBlocks /\ Size(P) \in 0..MaxBlocks
        BY <3>1, SizeBound
      <4> HIDE DEF above, P
      <4> QED BY <3>1, <4>1, <4>2, BlocksFinite
    <3>3. LeadsTo(P)
      BY <1>1, <3>1, <3>2
    <3>4. PICK s \in Seq(Names) : /\ fullpath(tree, P) = <<"/">> \o s
                                  /\ \A q \in Paths : Find(tree, Root, s \o q) = Find(tree, P, q)
      BY <3>3 DEF LeadsTo
    <3>5. n \in Names /\ n \in Sought
      BY <3>1, InvFacts DEF Sought
    <3> DEFINE r == Append(s, n)
    <3>6. r \in Seq(Names)
      BY <3>5
    <3>7. fullpath(tree, b) = <<"/">> \o r
      <4>1. fullpath(tree, b) = Append(<<"/">> \o s, n)
        BY <3>1, <3>4, FullpathIs
      <4>2. s \in Seq(Components) /\ n \in Components /\ "/" \in Components
        <5>1. Names \subseteq Components
          BY DEF Components
        <5> QED BY <3>5, <5>1 DEF Components
      <4>3. Append(<<"/">> \o s, n) = <<"/">> \o Append(s, n)
        BY <4>2
      <4> QED BY <4>1, <4>3
    <3>8. ASSUME NEW q \in Paths PROVE Find(tree, Root, r \o q) = Find(tree, b, q)
      <4>1. <<n>> \o q \in Paths
        BY <3>5, NamesAreComponents, LongPath
      <4>2. r \o q = s \o (<<n>> \o q)
        <5>1. s \in Seq(Components) /\ n \in Components /\ q \in Seq(Components)
          <6>1. Names \subseteq Components
            BY DEF Components
          <6> QED BY <3>5, <6>1 DEF Paths
        <5> HIDE DEF n
        <5> QED BY <5>1
      <4>3. Find(tree, P, <<n>> \o q) = Find(tree, b, q)
        <5>1. SubNamed(tree, P, n) = b /\ b # Null
          BY <2>2, <3>1, NamedByParent DEF Null, Blocks
        <5> HIDE DEF P, n
        <5> QED BY <3>1, <3>5, <5>1, FindThrough
      <4> QED BY <3>4, <4>1, <4>2, <4>3
    <3> QED BY <3>6, <3>7, <3>8 DEF LeadsTo
  <2> QED BY <2>1, <2>2
<1>2. Inherited(D, above, S)
  BY <1>1 DEF Inherited
<1>3. above \in [D -> Nat]
  <2>1. ASSUME NEW b \in D PROVE MaxBlocks - Size(b) \in Nat
    <3>1. b \in Blocks
      BY DEF Within, Subtree
    <3> QED BY <3>1, SizeBound, BlocksFinite
  <2> QED BY <2>1
<1>4. D \subseteq S
  <2> HIDE DEF S, above, D
  <2> QED BY <1>2, <1>3, RankInduction
<1> QED BY <1>4

LEMMA FullpathHolds == Inv => FullpathFinds
<1> SUFFICES ASSUME Inv, NEW b \in Within(Root), Unhidden(b), NEW from \in tree.live
             PROVE  Find(tree, from, fullpath(tree, b)) = b
  BY DEF FullpathFinds, Unhidden
<1>1. from \in Blocks /\ Root \in Blocks
  BY InvFacts, RootIsBlock
<1>2. CASE b = Root
  BY <1>1, <1>2, FullpathIs, FindFromRoot, InvFacts DEF Inv, Shape
<1>3. CASE b # Root
  <2> DEFINE P == tree.parent[b]
             n == tree.name[b]
  <2>1. b \in tree.live /\ b \in Blocks /\ P # b /\ P \in Within(Root) /\ P \in Blocks /\ Unhidden(P) /\ ~Hidden(b)
    BY <1>3, InProgram
  <2>2. PICK s \in Seq(Names) : /\ fullpath(tree, P) = <<"/">> \o s
                                /\ \A q \in Paths : Find(tree, Root, s \o q) = Find(tree, P, q)
    BY <2>1, PathsLead DEF LeadsTo
  <2>3. n \in Names /\ n \in Sought /\ n \in Components /\ <<n>> \in Paths
    <3>1. n \in Names /\ n \in Sought
      BY <2>1, InvFacts DEF Sought
    <3> QED BY <3>1, NamesAreComponents, OneStepPath
  <2>4. s \in Seq(Components) /\ "/" \in Components
    <3>1. Names \subseteq Components
      BY DEF Components
    <3> QED BY <3>1 DEF Components
  <2>5. fullpath(tree, b) = <<"/">> \o (s \o <<n>>) /\ s \o <<n>> \in Paths
    <3>1. fullpath(tree, b) = Append(<<"/">> \o s, n)
      BY <2>1, <2>2, FullpathIs
    <3> HIDE DEF n
    <3>2. Append(<<"/">> \o s, n) = <<"/">> \o (s \o <<n>>)
      BY <2>3, <2>4
    <3>3. s \o <<n>> \in Seq(Components) /\ s \o <<n>> # <<>>
      BY <2>3, <2>4
    <3> QED BY <3>1, <3>2, <3>3 DEF Paths
  <2>6. Find(tree, from, fullpath(tree, b)) = Find(tree, P, <<n>>)
    <3>1. Find(tree, from, fullpath(tree, b)) = Find(tree, Root, s \o <<n>>)
      BY <1>1, <2>5, FindFromRoot
    <3> QED BY <2>2, <2>3, <3>1
  <2>7. Find(tree, P, <<n>>) = SubNamed(tree, P, n)
    BY <1>3, <2>1, <2>3, FindByName, NamedByParent
  <2> QED BY <1>3, <2>1, <2>6, <2>7, NamedByParent
<1> QED BY <1>2, <1>3

-----------------------------------------------------------------------------
(* define() *)

\* searches from a block that lives find one, or none
LEMMA AlongLive ==
  ASSUME Inv, NEW f, NEW b \in tree.live, NEW p \in Paths,
         \A x \in tree.live : \A q \in Paths :
           Rank[<<x, q>>] < Rank[<<b, p>>] => f[<<x, q>>] \in tree.live \cup {Null}
  PROVE  Along(tree, f, b, p) \in tree.live \cup {Null}
<1> DEFINE c == Head(p)
           r == Tail(p)
           L == tree.live \cup {Null}
           P == tree.parent[b]
<1>1. b \in Blocks /\ P \in tree.live /\ Root \in tree.live /\ P \in Blocks /\ tree.live \subseteq Blocks
  BY InvFacts
<1>2. SubNamed(tree, b, c) \in L
  <2> SUFFICES ASSUME SubNamed(tree, b, c) # Null PROVE SubNamed(tree, b, c) \in tree.live
    OBVIOUS
  <2>1. SubNamed(tree, b, c) \in ToSet(tree.sub[b])
    BY <1>1, InvFacts, SubNamedFound DEF Typed
  <2> QED BY <1>1, <2>1, ChildIsSmaller
<1>3. ASSUME r # <<>>, NEW d \in tree.live PROVE f[<<d, r>>] \in L
  BY <1>1, <1>3, PathParts, UsesSmaller
<1>4. FindOne(tree, b, c) \in L
  BY <1>1, <1>2 DEF FindOne
<1>5. ASSUME r # <<>>, c # "..*" PROVE Deeper(tree, f, b, p) \in L
  <2> DEFINE s == [i \in DOMAIN tree.sub[b] |->
                    Or(f[<<tree.sub[b][i], Tail(p)>>], IF Head(p) = "**" THEN f[<<tree.sub[b][i], p>>] ELSE Null)]
  <2>1. DOMAIN s \in SUBSET Nat
    BY <1>1, Listed
  <2>2. ASSUME NEW i \in DOMAIN tree.sub[b] PROVE s[i] \in L
    <3>1. tree.sub[b][i] \in tree.live
      BY <1>1, SubIsListed, ChildIsSmaller
    <3>2. f[<<tree.sub[b][i], r>>] \in L
      BY <1>3, <1>5, <3>1
    <3>3. f[<<tree.sub[b][i], p>>] \in L
      BY <1>1, <1>5, <3>1, UsesSmaller
    <3> QED BY <3>2, <3>3 DEF Or
  <2>3. Deeper(tree, f, b, p) = FirstHit(s)
    BY DEF Deeper
  <2>4. DOMAIN s = DOMAIN tree.sub[b]
    OBVIOUS
  <2> HIDE DEF s
  <2>5. ASSUME FirstHit(s) # Null PROVE FirstHit(s) \in L
    <3>1. PICK i \in DOMAIN s : FirstHit(s) = s[i]
      BY <2>1, <2>5, FirstHitSome
    <3> QED BY <2>2, <2>4, <3>1
  <2> QED BY <2>3, <2>5
<1>6. ASSUME r # <<>>, c = "..*" PROVE Up(tree, f, b, p) \in L
  <2> SUFFICES ASSUME P \notin {Null, b} PROVE Up(tree, f, b, p) \in L
    BY DEF Up
  <2> DEFINE q == <<"**">> \o Tail(p)
             s == [i \in DOMAIN tree.sub[P] |-> IF i \in Siblings(tree, b) THEN f[<<tree.sub[P][i], q>>] ELSE Null]
  <2>1. DOMAIN s \in SUBSET Nat
    BY <1>1, Listed
  <2>2. ASSUME NEW i \in DOMAIN tree.sub[P] PROVE s[i] \in L
    <3>1. tree.sub[P][i] \in tree.live
      BY <1>1, SubIsListed, ChildIsSmaller
    <3>2. q \in Paths /\ Rank[<<tree.sub[P][i], q>>] < Rank[<<b, p>>]
      BY <1>1, <1>6, <3>1, SidePath, UsesSmaller
    <3> HIDE DEF q
    <3>3. f[<<tree.sub[P][i], q>>] \in L
      BY <3>1, <3>2
    <3> QED BY <3>3
  <2>3. Aside(tree, f, b, p) = FirstHit(s)
    BY DEF Aside
  <2>4. DOMAIN s = DOMAIN tree.sub[P]
    OBVIOUS
  <2> HIDE DEF s
  <2>5. ASSUME FirstHit(s) # Null PROVE FirstHit(s) \in L
    <3>1. PICK i \in DOMAIN s : FirstHit(s) = s[i]
      BY <2>1, <2>5, FirstHitSome
    <3> QED BY <2>2, <2>4, <3>1
  <2>6. Aside(tree, f, b, p) \in L
    BY <2>3, <2>5
  <2>7. f[<<P, p>>] \in L
    BY <1>1, <1>6, UsesSmaller
  <2>8. f[<<P, r>>] \in L
    BY <1>1, <1>3, <1>6
  <2> QED BY <2>6, <2>7, <2>8 DEF Up, Or
<1> DEFINE A ==
        CASE c = "/" -> IF r = <<>> THEN Root ELSE f[<<Root, r>>]
          [] c # "/" /\ r = <<>> -> FindOne(tree, b, c)
          [] c = "." /\ r # <<>> -> f[<<b, r>>]
          [] c = ".." /\ r # <<>> -> IF P = Null THEN Null ELSE f[<<P, r>>]
          [] c = "*" /\ r # <<>> -> Deeper(tree, f, b, p)
          [] c = "**" /\ r # <<>> -> Or(f[<<b, r>>], Deeper(tree, f, b, p))
          [] c = "..*" /\ r # <<>> -> Up(tree, f, b, p)
          [] OTHER -> IF SubNamed(tree, b, c) = Null THEN Null ELSE f[<<SubNamed(tree, b, c), r>>]
<1>7. Along(tree, f, b, p) = A
  BY DEF Along
<1>8. A \in L
  <2> HIDE DEF c, r, P
  <2>1. CASE r = <<>>
    BY <1>1, <1>4, <2>1
  <2>2. CASE r # <<>>
    BY <1>1, <1>2, <1>3, <1>5, <1>6, <2>2 DEF Or
  <2> QED BY <2>1, <2>2
<1> QED BY <1>7, <1>8

LEMMA FindLive ==
  ASSUME Inv, NEW b \in tree.live, NEW p \in Paths
  PROVE  Find(tree, b, p) \in tree.live \cup {Null}
<1> DEFINE S == {x \in Searches : x[1] \in tree.live => Finder(tree)[x] \in tree.live \cup {Null}}
<1>1. ASSUME NEW x \in Searches, \A y \in Searches : Rank[y] < Rank[x] => y \in S PROVE x \in S
  <2> SUFFICES ASSUME x[1] \in tree.live PROVE Finder(tree)[x] \in tree.live \cup {Null}
    OBVIOUS
  <2>1. x[1] \in Blocks /\ x[2] \in Paths /\ x = <<x[1], x[2]>>
    BY DEF Searches
  <2>2. ASSUME NEW y \in tree.live, NEW q \in Paths, Rank[<<y, q>>] < Rank[<<x[1], x[2]>>]
        PROVE  Finder(tree)[<<y, q>>] \in tree.live \cup {Null}
    <3>1. <<y, q>> \in Searches
      BY InvFacts DEF Searches
    <3>2. <<y, q>> \in S
      BY <1>1, <2>1, <2>2, <3>1
    <3> QED BY <3>2
  <2>3. Along(tree, Finder(tree), x[1], x[2]) \in tree.live \cup {Null}
    BY <2>1, <2>2, AlongLive
  <2> QED BY <2>1, <2>3, FinderFacts
<1>2. Inherited(Searches, Rank, S)
  BY <1>1 DEF Inherited
<1>3. Searches \subseteq S
  <2> HIDE DEF S
  <2> QED BY <1>2, RankInduction, RankType
<1>4. <<b, p>> \in Searches
  BY InvFacts DEF Searches
<1>5. Finder(tree)[<<b, p>>] \in tree.live \cup {Null}
  BY <1>3, <1>4
<1> QED BY <1>5, FinderIs

LEMMA GotoLive ==
  ASSUME Inv, NEW b \in tree.live
  PROVE  goto_defines(tree, b) \in tree.live
<1>1. "..*" \in Components /\ "body)" \in Components
  BY DEF Components
<1>2. Find(tree, b, <<"..*", "body)">>) \in tree.live \cup {Null}
  BY <1>1, TwoStepPath, FindLive
<1>3. Body(tree, b) \in tree.live
  BY <1>2 DEF Body
<1>4. Find(tree, Body(tree, b), <<"..">>) \in tree.live
  BY <1>3, FindParent, InvFacts
<1> QED BY <1>4 DEF goto_defines, Or

\* operator[] whether it finds or makes
LEMMA IndexAny ==
  ASSUME NEW t, TreeOK(t), NEW a \in t.live, NEW n \in Names,
         SubNamed(t, a, n) = Null => t.used < MaxBlocks,
         NEW u, u = Index(t, a, n)
  PROVE  /\ TreeOK(u) /\ Grown(t, u) /\ Gained(t, u, a, n)
         /\ SubNamed(u, a, n) # Null /\ SubNamed(u, a, n) \in ToSet(u.sub[a])
         /\ u.used = IF SubNamed(t, a, n) = Null THEN t.used + 1 ELSE t.used
<1>1. a \in Blocks /\ t.sub \in [Blocks -> Seq(Blocks)]
  BY TreeFacts
<1>2. CASE SubNamed(t, a, n) # Null
  <2>1. u = t
    BY <1>2 DEF Index
  <2>2. SubNamed(t, a, n) \in ToSet(t.sub[a]) /\ t.name[SubNamed(t, a, n)] = n
    BY <1>1, <1>2, SubNamedFound
  <2>3. Grown(t, t)
    BY DEF Grown, SameOrder
  <2>4. Gained(t, t, a, n)
    BY <2>2 DEF Gained
  <2> QED BY <1>2, <2>1, <2>2, <2>3, <2>4
<1>3. CASE SubNamed(t, a, n) = Null
  <2>1. TreeOK(u) /\ Grown(t, u) /\ u.used = t.used + 1 /\ Gained(t, u, a, n)
    BY <1>3, IndexGrows
  <2>2. u.sub \in [Blocks -> Seq(Blocks)]
    BY <2>1, TreeFacts
  <2>3. SubNamed(u, a, n) # Null
    <3> SUFFICES ASSUME SubNamed(u, a, n) = Null PROVE FALSE
      OBVIOUS
    <3>1. PICK x \in ToSet(u.sub[a]) : u.name[x] = n
      BY <2>1 DEF Gained
    <3>2. u.name[x] # n
      BY <1>1, <2>2, SubNamedNone
    <3> QED BY <3>1, <3>2
  <2>4. SubNamed(u, a, n) \in ToSet(u.sub[a])
    BY <1>1, <2>2, <2>3, SubNamedFound
  <2> QED BY <1>3, <2>1, <2>3, <2>4
<1> QED BY <1>2, <1>3

(* define() makes last/undefs at a place that lives, in two steps of       *)
(* operator[], and finds there the block it puts the #undef in.            *)
LEMMA UndefsMade ==
  ASSUME NEW t, TreeOK(t), NEW a \in t.live, t.used + Missing(t, a) <= MaxBlocks,
         "undefs" \in Names, NEW u, u = Undefs(t, a)
  PROVE  /\ TreeOK(u) /\ Grown(t, u)
         /\ SubNamed(u, SubNamed(u, a, "last"), "undefs") \in u.live
<1> DEFINE last == SubNamed(t, a, "last")
           t1 == Index(t, a, "last")
           l == SubNamed(t1, a, "last")
<1>1. "last" \in Names /\ MaxBlocks \in Nat
  BY CblockAssumption
<1>2. t.used \in Nat /\ a \in Blocks
  BY TreeFacts DEF Blocks
<1>3. /\ last = Null => t.used + 1 < MaxBlocks
      /\ last # Null /\ SubNamed(t, last, "undefs") = Null => t.used < MaxBlocks
  BY <1>1, <1>2 DEF Missing
<1>4. last = Null => t.used < MaxBlocks
  BY <1>1, <1>2, <1>3
<1>5. /\ TreeOK(t1) /\ Grown(t, t1) /\ l # Null /\ l \in ToSet(t1.sub[a])
      /\ t1.used = IF last = Null THEN t.used + 1 ELSE t.used
  <2> HIDE DEF t1
  <2>1. t1 = Index(t, a, "last")
    BY DEF t1
  <2> QED BY <1>1, <1>4, <2>1, IndexAny
<1>6. last # Null => t1 = t /\ l = last
  BY DEF Index
<1>7. u = Index(t1, l, "undefs")
  BY DEF Undefs
<1> HIDE DEF t1, last, l
<1>8. l \in t1.live /\ l # a /\ l \in Blocks
  BY <1>2, <1>5, ListedIn, TreeFacts
<1>9. SubNamed(t1, l, "undefs") = Null => t1.used < MaxBlocks
  <2>1. CASE last = Null
    BY <1>1, <1>2, <1>3, <1>5, <2>1
  <2>2. CASE last # Null
    BY <1>3, <1>5, <1>6, <2>2
  <2> QED BY <2>1, <2>2
<1>10. /\ TreeOK(u) /\ Grown(t1, u) /\ Gained(t1, u, l, "undefs")
       /\ SubNamed(u, l, "undefs") \in ToSet(u.sub[l])
  BY <1>5, <1>7, <1>8, <1>9, IndexAny
<1>11. SubNamed(u, l, "undefs") \in u.live
  BY <1>8, <1>10, ListedIn
<1>12. SubNamed(u, a, "last") = l
  <2>1. u.sub[a] = t1.sub[a] /\ t1.sub[a] \in Seq(Blocks)
    BY <1>2, <1>5, <1>8, <1>10, TreeFacts DEF Gained
  <2>2. \A i \in DOMAIN t1.sub[a] : u.name[t1.sub[a][i]] = t1.name[t1.sub[a][i]]
    <3>1. \A i \in DOMAIN t1.sub[a] : t1.sub[a][i] \in ToSet(t1.sub[a])
      BY DEF ToSet
    <3>2. \A x \in ToSet(t1.sub[a]) : x \in t1.live
      BY <1>2, <1>5, ListedIn
    <3> QED BY <1>10, <3>1, <3>2 DEF Grown
  <2>3. Called(u, a, "last") = Called(t1, a, "last")
    BY <2>1, <2>2 DEF Called
  <2> QED BY <2>1, <2>3 DEF SubNamed, l
<1> QED BY <1>5, <1>10, <1>11, <1>12, GrownTransitive

-----------------------------------------------------------------------------
(* The inductive invariant of FSpec: "last" is at the end of every list,   *)
(* also when none was there before, and the blocks of the macro live.      *)

MacroLives ==
  /\ macro \subseteq [user : Blocks, at : Blocks, undef : Blocks]
  /\ \A m \in macro : {m.user, m.at, m.undef} \subseteq tree.live

FInv == Inv /\ LastAtEnd(tree) /\ MacroLives

LEMMA DefineKeeps ==
  ASSUME FInv, NEW b \in tree.live, define(b)
  PROVE  FInv' /\ LastStep /\ OrderStep
<1> DEFINE a == goto_defines(tree, b)
<1>1. a \in tree.live /\ TreeOK(tree) /\ "undefs" \in Names
  BY GotoLive, InvIsTreeOK, FindAssumption DEF FInv
<1> HIDE DEF a
<1>2. /\ tree.used + Missing(tree, a) <= MaxBlocks
      /\ tree' = Undefs(tree, a)
      /\ macro' \in {macro, {[user |-> b, at |-> a,
                              undef |-> SubNamed(tree', SubNamed(tree', a, "last"), "undefs")]}}
  BY DEF define, a
<1>3. ASSUME NEW u, u = Undefs(tree, a)
      PROVE  /\ TreeOK(u) /\ Grown(tree, u)
             /\ SubNamed(u, SubNamed(u, a, "last"), "undefs") \in u.live
  BY <1>1, <1>2, <1>3, UndefsMade
<1>4. /\ TreeOK(tree') /\ Grown(tree, tree')
      /\ SubNamed(tree', SubNamed(tree', a, "last"), "undefs") \in tree'.live
  BY <1>2, <1>3
<1>5. tree.live \subseteq tree'.live /\ tree'.live \subseteq Blocks
  BY <1>4, TreeFacts DEF Grown
<1>6. MacroLives'
  <2>1. CASE macro' = macro
    BY <1>5, <2>1 DEF FInv, MacroLives
  <2>2. CASE macro' # macro
    <3> DEFINE m == [user |-> b, at |-> a,
                     undef |-> SubNamed(tree', SubNamed(tree', a, "last"), "undefs")]
    <3>1. macro' = {m}
      BY <1>2, <2>2
    <3>2. {m.user, m.at, m.undef} \subseteq tree'.live
      BY <1>1, <1>4, <1>5
    <3>3. m \in [user : Blocks, at : Blocks, undef : Blocks]
      BY <1>5, <3>2
    <3> QED BY <3>1, <3>2, <3>3 DEF MacroLives
  <2> QED BY <2>1, <2>2
<1>7. LastAtEnd(tree')
  BY <1>4 DEF FInv, Grown
<1>8. Inv'
  BY <1>4, InvIsTreeOK
<1> QED BY <1>4, <1>6, <1>7, <1>8, GrowthKeepsOrder DEF FInv

\* a block named "last" was there before, or is the last one now
Settled ==
  \A a \in tree'.live : \A x \in ToSet(tree'.sub[a]) :
    tree'.name[x] = "last" =>
      \/ a \in tree.live /\ x \in ToSet(tree.sub[a]) /\ tree.name[x] = "last"
      \/ EndsInLast(tree', a)

LEMMA ConstructSettles ==
  ASSUME Inv, NEW n \in Names, construct(n)
  PROVE  Settled
<1> DEFINE c == NewBlock(tree)
<1>1. tree.used \in 1..MaxBlocks /\ tree.used < MaxBlocks /\ MaxBlocks \in Nat
  BY CblockAssumption, InvFacts DEF Blocks, construct
<1>2. c \in Blocks /\ c = tree.used + 1 /\ tree.used \in Nat
  BY <1>1 DEF NewBlock, Blocks
<1>3. c \notin tree.live
  <2>1. \A b \in tree.live : b <= tree.used
    BY DEF Inv, Shape
  <2> QED BY <1>2, <2>1
<1>4. tree' = Constructed(tree, c, n) /\ tree \in TreeSet
  BY DEF construct, NewBlock, Inv, TypeOK, TreeSet
<1>5. /\ tree' \in TreeSet
      /\ tree'.used = c /\ tree'.live = tree.live \cup {c} /\ tree'.sub = tree.sub
      /\ tree'.name = [tree.name EXCEPT ![c] = n]
      /\ tree'.parent = [tree.parent EXCEPT ![c] = c]
  BY <1>2, <1>4, ConstructedFields
<1> HIDE DEF c
<1>6. ASSUME NEW a \in tree'.live, NEW x \in ToSet(tree'.sub[a]), tree'.name[x] = "last"
      PROVE  a \in tree.live /\ x \in ToSet(tree.sub[a]) /\ tree.name[x] = "last"
  <2>1. a \in tree.live /\ x \in tree.live /\ x \in ToSet(tree.sub[a])
    BY <1>2, <1>5, <1>6, Listed, InvFacts
  <2> QED BY <1>2, <1>3, <1>5, <1>6, <2>1, InvFacts
<1> QED BY <1>6 DEF Settled

LEMMA IndexSettles ==
  ASSUME Inv, LastAtEnd(tree), NEW b \in tree.live, NEW n \in Names, index(b, n)
  PROVE  Settled
<1>1. TreeOK(tree) /\ tree.used < MaxBlocks /\ SubNamed(tree, b, n) = Null
  BY InvIsTreeOK DEF index
<1>2. ASSUME NEW u, u = Index(tree, b, n) PROVE TreeOK(u) /\ Grown(tree, u)
  BY <1>1, <1>2, IndexGrows
<1>3. TreeOK(tree') /\ LastAtEnd(tree')
  BY <1>2 DEF index, Grown
<1>4. ASSUME NEW a \in tree'.live, NEW x \in ToSet(tree'.sub[a]), tree'.name[x] = "last"
      PROVE  EndsInLast(tree', a)
  BY <1>3, <1>4, NotEmpty DEF LastAtEnd, EndsInLast
<1> QED BY <1>4 DEF Settled

LEMMA AfterSettles ==
  ASSUME Inv, NEW b \in tree.live, NEW prev \in tree.live, after(b, prev)
  PROVE  Settled
<1>1. prev # b
  BY InvFacts, SubtreeClosed DEF after
<1>2. /\ tree' \in TreeSet
      /\ tree'.used = tree.used /\ tree'.live = tree.live /\ tree'.name = tree.name
      /\ \A x \in Blocks : tree'.parent[x] = IF x = b THEN prev ELSE tree.parent[x]
      /\ tree.name[b] = "last" => EndsInLast(tree', prev)
      /\ \A x \in Blocks :
           LET q == tree.sub[x]  d == tree'.sub[x]
           IN /\ IsInjective(d)
              /\ ToSet(d) = (ToSet(q) \ {b}) \cup (IF x = prev THEN {b} ELSE {})
              /\ SameOrder(q, d, {b})
              /\ EndsInLast(tree, x) /\ Last(q) \in ToSet(d) => EndsInLast(tree', x)
  BY <1>1, AfterFields DEF after
<1>3. \A a \in tree.live : ToSet(tree'.sub[a]) =
        (ToSet(tree.sub[a]) \ {b}) \cup (IF a = prev THEN {b} ELSE {})
  BY <1>2, InvFacts
<1> QED BY <1>2, <1>3 DEF Settled

LEMMA ClearSettles ==
  ASSUME Inv, NEW b \in tree.live, clear(b)
  PROVE  Settled
<1> DEFINE D == Deleted(tree, b)
<1>1. /\ tree'.live = tree.live \ D /\ tree'.name = tree.name
      /\ tree'.sub = [x \in Blocks |-> IF x \in D \cup {b} THEN <<>> ELSE tree.sub[x]]
  BY ClearFields
<1> HIDE DEF D
<1>2. ASSUME NEW a \in tree'.live, NEW x \in ToSet(tree'.sub[a])
      PROVE  a \in tree.live /\ x \in ToSet(tree.sub[a])
  <2>1. a \in tree.live /\ a \in Blocks
    BY <1>1, InvFacts
  <2>2. tree'.sub[a] # <<>>
    BY <1>2, NotEmpty
  <2> QED BY <1>1, <2>1, <2>2
<1> QED BY <1>1, <1>2 DEF Settled

LEMMA TreeStep ==
  ASSUME FInv, Next, OneLast(tree'), macro' = {m \in macro : Kept(m)}
  PROVE  FInv' /\ LastStep /\ OrderStep
<1>1. Inv /\ LastAtEnd(tree) /\ MacroLives
  BY DEF FInv
<1>2. Inv' /\ LastStep /\ OrderStep /\ Settled
  <2>1. CASE \E n \in Names : construct(n)
    BY <1>1, <2>1, ConstructKeeps, ConstructSettles
  <2>2. CASE \E b \in tree.live : \E n \in Names : index(b, n)
    BY <1>1, <2>2, IndexKeeps, IndexSettles
  <2>3. CASE \E b \in tree.live : \E prev \in tree.live : after(b, prev)
    BY <1>1, <2>3, AfterKeeps, AfterSettles
  <2>4. CASE \E b \in tree.live : clear(b)
    BY <1>1, <2>4, ClearKeeps, ClearSettles
  <2> QED BY <2>1, <2>2, <2>3, <2>4 DEF Next
<1>3. ASSUME NEW a \in tree'.live, NEW x \in ToSet(tree'.sub[a]), tree'.name[x] = "last"
      PROVE  x = Last(tree'.sub[a])
  <2>1. TreeOK(tree') /\ a \in Blocks
    BY <1>2, InvIsTreeOK, TreeFacts
  <2>2. EndsInLast(tree', a)
    <3> SUFFICES ASSUME a \in tree.live, x \in ToSet(tree.sub[a]), tree.name[x] = "last"
                 PROVE  EndsInLast(tree', a)
      BY <1>2, <1>3 DEF Settled
    <3>1. x = Last(tree.sub[a]) /\ tree.sub[a] # <<>>
      BY <1>1, NotEmpty DEF LastAtEnd
    <3> QED BY <1>2, <1>3, <3>1 DEF LastStep, EndsInLast
  <2>3. Last(tree'.sub[a]) \in ToSet(tree'.sub[a])
    BY <2>1, <2>2, ListedIn, LastIsListed DEF EndsInLast
  <2> QED BY <1>3, <2>2, <2>3 DEF OneLast, EndsInLast
<1>4. LastAtEnd(tree')
  BY <1>3 DEF LastAtEnd
<1>5. MacroLives'
  BY <1>1 DEF MacroLives, Kept
<1> QED BY <1>2, <1>4, <1>5 DEF FInv

LEMMA FInitInv == FInit => FInv
<1> SUFFICES ASSUME FInit PROVE FInv
  OBVIOUS
<1>1. Inv /\ macro = {}
  BY InitInv DEF FInit
<1>2. \A b \in tree.live : tree.sub[b] = <<>>
  <2>1. \A b \in Blocks : [x \in Blocks |-> <<>>][b] = <<>>
    OBVIOUS
  <2>2. tree.sub = [x \in Blocks |-> <<>>]
    BY DEF FInit, Init
  <2> QED BY <1>1, <2>1, <2>2, InvFacts
<1>3. LastAtEnd(tree)
  BY <1>2, NotEmpty DEF LastAtEnd
<1> QED BY <1>1, <1>3 DEF FInv, MacroLives

LEMMA FStepKeeps ==
  FInv /\ [FNext]_fvars => FInv' /\ (tree' = tree \/ (LastStep /\ OrderStep))
<1> SUFFICES ASSUME FInv, [FNext]_fvars
             PROVE  FInv' /\ (tree' = tree \/ (LastStep /\ OrderStep))
  OBVIOUS
<1>1. CASE \E b \in tree.live : define(b)
  BY <1>1, DefineKeeps
<1>2. CASE Next /\ OneLast(tree') /\ macro' = {m \in macro : Kept(m)}
  BY <1>2, TreeStep
<1>3. CASE UNCHANGED fvars
  <2>1. tree' = tree /\ macro' = macro
    BY <1>3 DEF fvars
  <2>2. Inv' /\ LastAtEnd(tree') /\ MacroLives'
    <3>1. Inv'
      BY <2>1, InvIsTreeOK DEF FInv
    <3> QED BY <2>1, <3>1 DEF FInv, MacroLives
  <2> QED BY <2>1, <2>2 DEF FInv
<1> QED BY <1>1, <1>2, <1>3 DEF FNext

LEMMA FSpecInv == FSpec => []FInv
<1>1. FInit => FInv
  BY FInitInv
<1>2. FInv /\ [FNext]_fvars => FInv'
  BY FStepKeeps
<1> QED BY <1>1, <1>2, PTL DEF FSpec

LEMMA MacroHolds == FInv => MacroCoversScope
<1> SUFFICES ASSUME FInv, NEW m \in macro,
                    tree.name[tree.parent[m.undef]] = "last",
                    tree.parent[tree.parent[m.undef]] = m.at,
                    tree.parent[m.undef] # m.at
             PROVE  tree.parent[m.undef] = Last(tree.sub[m.at])
  BY DEF MacroCoversScope
<1>1. Inv /\ LastAtEnd(tree) /\ m.undef \in tree.live /\ m.at \in tree.live
  BY DEF FInv, MacroLives
<1>2. tree.parent[m.undef] \in tree.live /\ m.at \in Blocks
  BY <1>1, InvFacts
<1>3. tree.parent[m.undef] \in ToSet(tree.sub[m.at])
  BY <1>1, <1>2, Listed
<1> QED BY <1>1, <1>3 DEF LastAtEnd
-----------------------------------------------------------------------------
(* What goto_defines() finds *)

DefinesAtParent == \A b \in tree.live : goto_defines(tree, b) = tree.parent[b]

LEMMA GotoParent == Inv => DefinesAtParent
<1> SUFFICES ASSUME Inv, NEW b \in tree.live PROVE goto_defines(tree, b) = tree.parent[b]
  BY DEF DefinesAtParent
<1>1. b \in Blocks /\ tree.parent[b] \in Blocks
  BY InvFacts
\* no block is named "body)"
<1>2. Find(tree, b, <<"..*", "body)">>) = Null
  <2> DEFINE hit == Find(tree, b, <<"..*", "body)">>)
  <2> SUFFICES ASSUME hit # Null PROVE FALSE
    OBVIOUS
  <2>1. FoundAbove(b, "body)")
    BY UpSearch DEF Sought
  <2>2. hit \in Blocks /\ tree.name[hit] = "body)"
    <3>1. hit \in Outside(b, "body)") \cup {b} /\ tree.name[hit] = "body)"
      BY <2>1 DEF FoundAbove
    <3>2. Outside(b, "body)") \subseteq Blocks
      BY DEF Outside, Named, Whole, Within, Subtree
    <3> QED BY <1>1, <3>1, <3>2
  <2> HIDE DEF hit
  <2> QED BY <2>2, InvFacts, FindAssumption
<1>3. Body(tree, b) = b
  BY <1>2 DEF Body
<1>4. goto_defines(tree, b) = Or(tree.parent[b], b)
  BY <1>1, <1>3, FindParent DEF goto_defines
<1>5. tree.parent[b] # Null
  BY <1>1 DEF Null, Blocks
<1> QED BY <1>4, <1>5 DEF Or

-----------------------------------------------------------------------------
(* The theorems of the searches and of define()                            *)

(* The fields of the tree keep their types, and so does the macro whose    *)
(* #define and #undef define() has placed.                                 *)
THEOREM DefineTypeCorrect == FSpec => []FTypeOK
<1>1. FInv => FTypeOK
  BY DEF FInv, MacroLives, Inv, FTypeOK
<1> QED BY <1>1, FSpecInv, PTL

(* What Cblock's theorems say of the tree stays so with define(), which    *)
(* makes up to two blocks at once: a block is listed once, by its parent.  *)
THEOREM DefineKeepsLists == FSpec => []TreeConsistent
<1>1. FInv => TreeConsistent
  BY DEF FInv, Inv
<1> QED BY <1>1, FSpecInv, PTL

(* With define() too, every block is under the root or under a block that  *)
(* is not placed yet.                                                      *)
THEOREM DefineLosesNothing == FSpec => []ProgramIsTree
<1>1. FInv => ProgramIsTree
  BY DEF FInv, Inv
<1> QED BY <1>1, FSpecInv, PTL

(* A block named "last" loses its place only by being moved or deleted,    *)
(* define() included.                                                      *)
THEOREM DefineKeepsLast == FSpec => LastStaysLast
<1>1. FInv /\ [FNext]_fvars => [LastStep]_tree
  BY FStepKeeps
<1>2. LastStep <=> (\A b \in tree.live \cap tree'.live :
        EndsInLast(tree, b) /\ Last(tree.sub[b]) \in ToSet(tree'.sub[b])
          => EndsInLast(tree', b))
  BY DEF LastStep
<1> QED BY <1>1, <1>2, FSpecInv, PTL DEF FSpec, LastStaysLast

(* No operation, define() included, reorders the code of blocks it does    *)
(* not move.                                                               *)
THEOREM DefineKeepsOrder == FSpec => OrderKept
<1>1. FInv /\ [FNext]_fvars => [OrderStep]_tree
  BY FStepKeeps
<1>2. OrderStep <=> (\A b \in tree.live \cap tree'.live :
        LET s == tree.sub[b]  t == tree'.sub[b]
        IN IF ToSet(s) = ToSet(t) THEN \E m \in Blocks : SameOrder(s, t, {m})
                                  ELSE SameOrder(s, t, {}))
  BY DEF OrderStep, InOrder
<1> QED BY <1>1, <1>2, FSpecInv, PTL DEF FSpec, OrderKept

(* find("**/n") finds a block named n whenever there is one at or under    *)
(* the block it starts from, and never anything else, whatever the tree.   *)
THEOREM DownwardFinds == FSpec => []DownwardSearch
<1>1. FInv => DownwardSearch
  BY DownwardHolds DEF FInv
<1> QED BY <1>1, FSpecInv, PTL

(* find("..*/n") finds a block named n whenever the tree has one that is   *)
(* not under the block it starts from, and nothing that is under it.       *)
THEOREM UpwardFinds == FSpec => []UpwardSearch
<1>1. FInv => UpwardSearch
  BY UpwardHolds DEF FInv
<1> QED BY <1>1, FSpecInv, PTL

(* find(fullpath(b)) is b, from anywhere in the program, unless a block on *)
(* the way is hidden by a parent or an earlier block of the same name.     *)
THEOREM FullpathFindsAgain == FSpec => []FullpathFinds
<1>1. FInv => FullpathFinds
  BY FullpathHolds DEF FInv
<1> QED BY <1>1, FSpecInv, PTL

(* The #undef that define() places in last/undefs comes after all the code *)
(* at the place of the #define, as long as last/undefs stays there.        *)
THEOREM MacroScopeCovered == FSpec => []MacroCoversScope
<1>1. FInv => MacroCoversScope
  BY MacroHolds
<1> QED BY <1>1, FSpecInv, PTL
(* A #define goes beside the block that asks for it, to its parent, and    *)
(* never to the scope around the nearest enclosing "body" unless that is   *)
(* the same: goto_defines() searches for a name that no block has.         *)
THEOREM DefinesGoToParent == FSpec => []DefinesAtParent
<1>1. FInv => DefinesAtParent
  BY GotoParent DEF FInv
<1> QED BY <1>1, FSpecInv, PTL
=============================================================================
