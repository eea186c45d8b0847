------------------------------ MODULE SpillProofs ------------------------------
(***************************************************************************)
(* Proofs about Spill: what the flags of a symbol say about its scope, and *)
(* that no operation loses the only copy of a value.                       *)
(***************************************************************************)
EXTENDS Spill, SymScopeProofs, WellFoundedInduction

-----------------------------------------------------------------------------
(* Scope operations and the flags *)

\* the flags after a scope operation: they are kept, except those of symbols
\* that became inactive and at most those of symbols that became active
FlagsFollow == /\ inReg' \subseteq inReg \cap (active' \cup (inReg \ active))
               /\ inMem' \subseteq inMem \cap (active' \cup (inMem \ active))
               /\ \A s \in active \cap active' : /\ s \in inReg => s \in inReg'
                                                 /\ s \in inMem => s \in inMem'
               /\ stale' = stale

LEMMA NothingDeactivated ==
  ASSUME active \subseteq active', UNCHANGED <<inReg, inMem, stale>>
  PROVE  FlagsFollow
BY DEF FlagsFollow

LEMMA FlagsDropped ==
  ASSUME DropFlags
  PROVE  FlagsFollow
BY DEF DropFlags, FlagsFollow, Switched

LEMMA NewsymKeepsActive ==
  ASSUME NEW n, newsym(n)
  PROVE  active \subseteq active'
BY DEF newsym

LEMMA ScopeOpsFollow ==
  ASSUME \/ OpenScope
         \/ CloseScope
         \/ \E c \in ScopeIds : ReopenScope(c)
         \/ \E sh \in Shapes : Declare(sh)
         \/ \E s \in SymIds : DeleteSymbol(s)
  PROVE  FlagsFollow
<1>1. CASE OpenScope
  BY <1>1, NothingDeactivated DEF OpenScope, begin_scope, spillVars
<1>2. CASE CloseScope
  BY <1>2, FlagsDropped DEF CloseScope
<1>3. ASSUME NEW c \in ScopeIds, ReopenScope(c) PROVE FlagsFollow
  BY <1>3, FlagsDropped DEF ReopenScope
<1>4. ASSUME NEW sh \in Shapes, Declare(sh) PROVE FlagsFollow
  BY <1>4, NewsymKeepsActive, NothingDeactivated DEF Declare
<1>5. ASSUME NEW s \in SymIds, DeleteSymbol(s) PROVE FlagsFollow
  BY <1>5, FlagsDropped DEF DeleteSymbol
<1> QED BY <1>1, <1>2, <1>3, <1>4, <1>5

\* the flags after spill(s), whether it stored or failed an assert
SpillResult(s) == /\ s \in active
                  /\ active' = active /\ inReg' = inReg
                  /\ \/ inMem' = inMem \cup {s} /\ stale' = stale \ {s}
                     \/ inMem' = inMem /\ stale' = stale

LEMMA SpillEffect ==
  ASSUME NEW s \in SymIds, spill(s)
  PROVE  SpillResult(s)
BY DEF spill, Spillable, Fail, spillVars, scopeVars, SpillResult

-----------------------------------------------------------------------------
(* Located symbols are active *)

LEMMA LocatedStep == LocatedIsActive /\ [Next]_vars => LocatedIsActive'
<1> SUFFICES ASSUME LocatedIsActive, [Next]_vars PROVE LocatedIsActive'
  OBVIOUS
<1>1. ASSUME FlagsFollow PROVE LocatedIsActive'
  BY <1>1 DEF LocatedIsActive, FlagsFollow
<1>2. CASE gc
  BY <1>2 DEF gc, MemAfterGc, scopeVars, LocatedIsActive
<1>3. ASSUME NEW s \in SymIds, setREG(s) PROVE LocatedIsActive'
  BY <1>3 DEF setREG, scopeVars, LocatedIsActive
<1>4. ASSUME NEW s \in SymIds, unsetREG(s) PROVE LocatedIsActive'
  BY <1>4 DEF unsetREG, scopeVars, LocatedIsActive
<1>5. ASSUME NEW s \in SymIds, unsetMEM(s) PROVE LocatedIsActive'
  BY <1>5 DEF unsetMEM, scopeVars, LocatedIsActive
<1>6. ASSUME NEW s \in SymIds, spill(s) PROVE LocatedIsActive'
  BY <1>6, SpillEffect DEF SpillResult, LocatedIsActive
<1>7. CASE UNCHANGED vars
  BY <1>7 DEF vars, LocatedIsActive
<1>8. ASSUME NEW s \in SymIds, erase(s) PROVE LocatedIsActive'
  BY <1>8 DEF erase, scopeVars, LocatedIsActive
<1> QED BY <1>1, <1>2, <1>3, <1>4, <1>5, <1>6, <1>7, <1>8, ScopeOpsFollow DEF Next

(* Whatever the order of scope operations, register assignments, spills    *)
(* and collections, only active symbols are in a register or in memory: a  *)
(* scope that ends gives its registers and its memory back.                *)
THEOREM LocatedSymbolsAreActive == Spec => []LocatedIsActive
<1>1. SpillInit => LocatedIsActive
  BY DEF SpillInit, Init, LocatedIsActive
<1> QED BY <1>1, LocatedStep, PTL DEF Spec

-----------------------------------------------------------------------------
(* Values are kept *)

LEMMA GcKeepsValues ==
  ASSUME gc, NEW s \in SymIds, HasValue(s)
  PROVE  HasValue(s)'
<1>1. active' = active /\ inReg' = inReg
  BY DEF gc, scopeVars
<1>2. CASE s \in inReg
  BY <1>1, <1>2 DEF HasValue
<1>3. CASE Fresh(s)
  <2>1. s \notin Dropped
    BY <1>3 DEF Fresh, Dropped, Garbage
  <2>2. s \in inMem' /\ s \notin stale'
    BY <1>3, <2>1 DEF gc, MemAfterGc, Fresh
  <2> QED BY <1>1, <1>3, <2>2 DEF HasValue, Fresh
<1> QED BY <1>2, <1>3 DEF HasValue

(* An active symbol's value, in a register or in a fresh memory copy, is   *)
(* lost only when the client gives it up with setREG(false) or             *)
(* setMEM(false): never by gc, a spill, or an operation on another scope.  *)
(* (A symbol that is activated loses its flags; that it had none to lose   *)
(* is LocatedIsActive.)                                                    *)
THEOREM ValuesAreKept == Spec => ValueKept
<1> DEFINE Kept == \A s \in SymIds : HasValue(s) /\ s \in active' =>
                     HasValue(s)' \/ unsetREG(s) \/ unsetMEM(s)
<1>1. ASSUME FlagsFollow, LocatedIsActive PROVE Kept
  BY <1>1 DEF FlagsFollow, LocatedIsActive, HasValue, Fresh
<1>2. ASSUME gc PROVE Kept
  BY <1>2, GcKeepsValues
<1>3. ASSUME NEW t \in SymIds, setREG(t) PROVE Kept
  <2>1. /\ active' = active /\ inMem' = inMem /\ inReg' = inReg \cup {t}
        /\ stale' \subseteq stale \cup {t}
    BY <1>3 DEF setREG, scopeVars, StaleAfterWrite
  <2> QED BY <2>1 DEF HasValue, Fresh
<1>4. ASSUME NEW t \in SymIds, unsetREG(t) PROVE Kept
  <2>1. active' = active /\ inMem' = inMem /\ stale' = stale /\ inReg' = inReg \ {t}
    BY <1>4 DEF unsetREG, scopeVars
  <2>2. ASSUME NEW s \in SymIds, HasValue(s), s # t PROVE HasValue(s)'
    BY <2>1, <2>2 DEF HasValue, Fresh
  <2> QED BY <1>4, <2>2
<1>5. ASSUME NEW t \in SymIds, unsetMEM(t) PROVE Kept
  <2>1. active' = active /\ inReg' = inReg /\ stale' = stale /\ inMem' = inMem \ {t}
    BY <1>5 DEF unsetMEM, scopeVars
  <2>2. ASSUME NEW s \in SymIds, HasValue(s), s # t PROVE HasValue(s)'
    BY <2>1, <2>2 DEF HasValue, Fresh
  <2> QED BY <1>5, <2>2
<1>6. ASSUME NEW t \in SymIds, spill(t) PROVE Kept
  BY <1>6, SpillEffect DEF SpillResult, HasValue, Fresh
<1>7. ASSUME NEW t \in SymIds, erase(t) PROVE Kept
  BY <1>7 DEF erase, scopeVars, HasValue, Fresh
<1> HIDE DEF Kept
<1>8. LocatedIsActive /\ Next => Kept
  BY <1>1, <1>2, <1>3, <1>4, <1>5, <1>6, <1>7, ScopeOpsFollow DEF Next
<1>9. LocatedIsActive /\ [Next]_vars => [Kept]_vars
  BY <1>8
<1> QED BY <1>9, LocatedSymbolsAreActive, PTL DEF Spec, ValueKept, Kept

-----------------------------------------------------------------------------
(* Lists and numbers *)

LEMMA LeastNat ==
  ASSUME NEW S \in SUBSET Nat, S # {}
  PROVE  \E m \in S : \A k \in S : m <= k
<1> DEFINE R == OpToRel(<, Nat)
<1>1. IsWellFoundedOn(R, Nat)
  BY NatLessThanWellFounded
<1>2. \A x, y \in Nat : <<y, x>> \in R <=> y < x
  BY DEF OpToRel
<1> HIDE DEF R
<1>3. PICK m \in S : \A k \in S : ~(<<k, m>> \in R)
  BY <1>1, WFMin
<1>4. \A k \in S : ~(k < m)
  BY <1>2, <1>3
<1> QED BY <1>4

LEMMA Enumeration ==
  ASSUME NEW n \in Nat, NEW I \in SUBSET (1..n)
  PROVE  \E h \in SeqOf(I, n) : /\ \A i, j \in DOMAIN h : i < j => h[i] < h[j]
                                /\ ToSet(h) = I
<1> DEFINE Listed(J, h) == /\ \A i, j \in DOMAIN h : i < j => h[i] < h[j]
                           /\ ToSet(h) = J
           Good(k) == \A J \in SUBSET (1..k) : \E h \in SeqOf(J, k) : Listed(J, h)
           Bad == {k \in Nat : ~Good(k)}
<1>1. ASSUME Bad # {} PROVE FALSE
  <2>1. PICK m \in Bad : \A k \in Bad : m <= k
    <3> HIDE DEF Bad
    <3>1. Bad \subseteq Nat
      BY DEF Bad
    <3> QED BY <1>1, <3>1, LeastNat
  <2>2. m # 0
    <3>1. ASSUME NEW J \in SUBSET (1..0) PROVE \E h \in SeqOf(J, 0) : Listed(J, h)
      <4>1. J = {} /\ <<>> \in SeqOf(J, 0)
        BY DEF SeqOf
      <4>2. Listed(J, <<>>)
        BY <4>1 DEF ToSet
      <4> QED BY <4>1, <4>2
    <3>2. Good(0)
      BY <3>1
    <3> QED BY <2>1, <3>2
  <2>3. m \in Nat /\ m - 1 \in Nat /\ ~Good(m)
    BY <2>1, <2>2
  <2>4. Good(m - 1)
    <3>1. m - 1 \notin Bad
      <4> HIDE DEF Bad
      <4> QED BY <2>1, <2>3
    <3> QED BY <2>3, <3>1
  <2>5. ASSUME NEW J \in SUBSET (1..m) PROVE \E h \in SeqOf(J, m) : Listed(J, h)
    <3> DEFINE K == J \ {m}
    <3>1. K \in SUBSET (1..(m - 1))
      BY <2>3
    <3>2. PICK g \in SeqOf(K, m - 1) : Listed(K, g)
      BY <2>4, <3>1
    <3>3. PICK l \in 0..(m - 1) : g \in [1..l -> K]
      BY <3>2 DEF SeqOf
    <3>4. \A i \in 1..l : g[i] \in 1..(m - 1)
      BY <3>1, <3>3
    <3>5. CASE m \in J
      <4> DEFINE h == [i \in 1..(l + 1) |-> IF i = l + 1 THEN m ELSE g[i]]
      <4>1. h \in [1..(l + 1) -> J] /\ l + 1 \in 0..m
        BY <2>3, <3>3, <3>5
      <4>2. h \in SeqOf(J, m)
        BY <4>1 DEF SeqOf
      <4>3. \A i, j \in DOMAIN h : i < j => h[i] < h[j]
        BY <2>3, <3>2, <3>3, <3>4
      <4>4. ToSet(h) = J
        <5>1. \A x \in K : \E i \in 1..l : g[i] = x
          BY <3>2, <3>3 DEF ToSet
        <5>2. \A x \in J : \E i \in 1..(l + 1) : h[i] = x
          BY <5>1, <3>3
        <5> QED BY <4>1, <5>2 DEF ToSet
      <4> QED BY <4>2, <4>3, <4>4
    <3>6. CASE m \notin J
      <4>1. K = J
        BY <3>6
      <4>2. g \in SeqOf(J, m)
        BY <2>3, <3>3, <4>1 DEF SeqOf
      <4> QED BY <3>2, <4>1, <4>2
    <3> QED BY <3>5, <3>6
  <2> QED BY <2>3, <2>5
<1>2. Good(n)
  BY <1>1
<1> QED BY <1>2

\* h lists the places in I in their order, and the regions at them are left
Lists(I, m, h) == /\ \A i, j \in 1..m : i < j => h[i] < h[j]
                  /\ \A i \in I : \E k \in 1..m : h[k] = i
                  /\ Remaining(I) = [k \in 1..m |-> use[h[k]]]
                  /\ Remaining(I) \in Seq(Region)

LEMMA RemainingFacts ==
  ASSUME use \in Seq(Region), NEW I \in SUBSET (DOMAIN use)
  PROVE  \E m \in 0..Len(use) : \E h \in [1..m -> I] : Lists(I, m, h)
<1> DEFINE Listed(h) == /\ \A i, j \in DOMAIN h : i < j => h[i] < h[j]
                        /\ ToSet(h) = I
           H == CHOOSE h \in SeqOf(I, Len(use)) : Listed(h)
<1>1. Len(use) \in Nat /\ DOMAIN use = 1..Len(use)
  BY LenProperties
<1>2. H \in SeqOf(I, Len(use)) /\ Listed(H)
  <2>1. \E h \in SeqOf(I, Len(use)) : Listed(h)
    BY <1>1, Enumeration
  <2> HIDE DEF Listed
  <2> QED BY <2>1
<1>3. Remaining(I) = [k \in DOMAIN H |-> use[H[k]]]
  BY DEF Remaining
<1> HIDE DEF H
<1>4. PICK m \in 0..Len(use) : H \in [1..m -> I]
  BY <1>2 DEF SeqOf
<1>5. \A i \in I : \E k \in 1..m : H[k] = i
  BY <1>2, <1>4 DEF ToSet
<1>6. \A i, j \in 1..m : i < j => H[i] < H[j]
  BY <1>2, <1>4
<1>7. \A i \in DOMAIN use : use[i] \in Region
  BY <1>1
<1>8. Remaining(I) = [k \in 1..m |-> use[H[k]]]
  BY <1>3, <1>4
<1>9. Remaining(I) \in [1..m -> Region] /\ m \in Nat
  BY <1>1, <1>4, <1>7, <1>8
<1>10. Remaining(I) \in Seq(Region) /\ Len(Remaining(I)) = m
  BY <1>9
<1>11. Lists(I, m, H)
  BY <1>5, <1>6, <1>8, <1>10 DEF Lists
<1> QED BY <1>4, <1>11

LEMMA InsertFacts ==
  ASSUME NEW S, NEW q \in Seq(S), NEW p \in 1..(Len(q) + 1), NEW r \in S
  PROVE  /\ InsertAt(q, p, r) \in Seq(S)
         /\ DOMAIN InsertAt(q, p, r) = 1..(Len(q) + 1)
         /\ \A i \in 1..(Len(q) + 1) :
              InsertAt(q, p, r)[i] = IF i < p THEN q[i] ELSE IF i = p THEN r ELSE q[i - 1]
<1> DEFINE f == SubSeq(q, 1, p - 1)
           g == SubSeq(q, p, Len(q))
           d == f \o <<r>>
<1>1. Len(q) \in Nat /\ p \in Nat
  BY LenProperties
<1>2. f \in Seq(S) /\ Len(f) = p - 1 /\ \A i \in 1..(p - 1) : f[i] = q[i]
  BY <1>1
<1>3. g \in Seq(S) /\ Len(g) = Len(q) - p + 1 /\ \A i \in 1..(Len(q) - p + 1) : g[i] = q[p + i - 1]
  BY <1>1
<1> HIDE DEF f, g
<1>4. d \in Seq(S) /\ Len(d) = p /\ \A i \in 1..p : d[i] = IF i < p THEN q[i] ELSE r
  BY <1>1, <1>2
<1> HIDE DEF d
<1>5. /\ d \o g \in Seq(S) /\ Len(d \o g) = Len(q) + 1
      /\ \A i \in 1..(Len(q) + 1) : (d \o g)[i] = IF i <= p THEN d[i] ELSE g[i - p]
  <2>1. /\ d \o g \in Seq(S) /\ Len(d \o g) = Len(d) + Len(g)
        /\ \A i \in 1..(Len(d) + Len(g)) : (d \o g)[i] = IF i <= Len(d) THEN d[i] ELSE g[i - Len(d)]
    BY <1>3, <1>4, ConcatProperties
  <2>2. Len(d) + Len(g) = Len(q) + 1
    BY <1>1, <1>3, <1>4
  <2> QED BY <1>4, <2>1, <2>2
<1> DEFINE e == d \o g
<1>6. InsertAt(q, p, r) = e
  BY DEF InsertAt, d, f, g
<1>7. /\ e \in Seq(S) /\ Len(e) = Len(q) + 1
      /\ \A i \in 1..(Len(q) + 1) : e[i] = IF i <= p THEN d[i] ELSE g[i - p]
  BY <1>5
<1> HIDE DEF e
<1>8. ASSUME NEW i \in 1..(Len(q) + 1)
      PROVE  e[i] = IF i < p THEN q[i] ELSE IF i = p THEN r ELSE q[i - 1]
  <2>1. CASE i <= p
    BY <1>1, <1>4, <1>7, <2>1
  <2>2. CASE i > p
    <3>1. i - p \in 1..(Len(q) - p + 1) /\ p + (i - p) - 1 = i - 1
      BY <1>1, <2>2
    <3>2. e[i] = g[i - p]
      BY <1>1, <1>7, <2>2
    <3>3. g[i - p] = q[i - 1]
      BY <1>3, <3>1
    <3> QED BY <1>1, <2>2, <3>2, <3>3
  <2> QED BY <1>1, <2>1, <2>2
<1> QED BY <1>6, <1>7, <1>8

LEMMA AlignUp ==
  ASSUME NEW i \in Int, NEW n \in Nat \ {0}
  PROVE  alignup(i, n) \in Int /\ alignup(i, n) >= i /\ alignup(i, n) % n = 0
<1> DEFINE x == i + n - 1
           k == x \div n
<1>1. x \in Int /\ k \in Int
  OBVIOUS
<1>2. x = n * k + (x % n) /\ x % n \in 0..(n - 1)
  BY <1>1
<1>3. k * n = n * k /\ k * n \in Int
  BY <1>1
<1>4. (k * n) % n = 0
  BY <1>1
<1>5. alignup(i, n) = k * n
  BY DEF alignup
<1>6. k * n >= i
  <2> DEFINE m == k * n
             r == x % n
  <2>1. m \in Int /\ r \in Int /\ r <= n - 1 /\ i + n - 1 = m + r
    BY <1>2, <1>3
  <2> HIDE DEF m, r, k, x
  <2> QED BY <2>1 DEF m
<1> QED BY <1>3, <1>4, <1>5, <1>6

LEMMA AlignDown ==
  ASSUME NEW i \in Int, NEW n \in Nat \ {0}
  PROVE  aligndown(i, n) \in Int /\ aligndown(i, n) <= i /\ aligndown(i, n) % n = 0
<1> DEFINE k == i \div n
<1>1. k \in Int
  OBVIOUS
<1>2. i = n * k + (i % n) /\ i % n \in 0..(n - 1)
  BY <1>1
<1>3. k * n = n * k /\ k * n \in Int
  BY <1>1
<1>4. (k * n) % n = 0
  BY <1>1
<1>5. aligndown(i, n) = k * n
  BY DEF aligndown
<1>6. k * n <= i
  <2> DEFINE m == k * n
             r == i % n
  <2>1. m \in Int /\ r \in Int /\ r >= 0 /\ i = m + r
    BY <1>2, <1>3
  <2> HIDE DEF m, r, k
  <2> QED BY <2>1 DEF m
<1> QED BY <1>3, <1>4, <1>5, <1>6
-----------------------------------------------------------------------------
(* The list of regions *)

\* the regions are between bottom and the frame pointer, each below all that
\* are listed before it: Contiguous, not only of neighbours
Geometry == /\ \A i \in DOMAIN use : bottom <= use[i].offset /\ End(use[i]) <= 0
            /\ \A i, j \in DOMAIN use : i < j => End(use[j]) <= use[i].offset

\* only symbols that were declared have regions
Declared == \A i \in DOMAIN use : use[i].symId <= maxidSym

LEMMA RegionTypes ==
  ASSUME TypeOK
  PROVE  /\ use \in Seq(Region) /\ Len(use) \in Nat /\ DOMAIN use = 1..Len(use)
         /\ \A i \in DOMAIN use :
              /\ use[i] \in Region /\ use[i].symId \in SymIds
              /\ use[i].offset \in Int /\ use[i].offset < 0
              /\ use[i].len \in Nat \ {0} /\ End(use[i]) \in Int
<1>1. use \in Seq(Region) /\ Len(use) \in Nat /\ DOMAIN use = 1..Len(use)
  BY LenProperties DEF TypeOK
<1>2. ASSUME NEW i \in DOMAIN use PROVE use[i] \in Region
  BY <1>1, <1>2
<1> QED BY <1>1, <1>2 DEF Region, End

LEMMA Tops ==
  ASSUME TypeOK, Geometry, NEW i \in 1..(Len(use) + 1)
  PROVE  /\ Top(i) \in Int /\ Top(i) <= 0
         /\ \A j \in DOMAIN use : j < i => Top(i) <= use[j].offset
         /\ i \in DOMAIN use => End(use[i]) <= Top(i)
<1>1. CASE i = 1
  BY <1>1, RegionTypes DEF Top, Geometry
<1>2. CASE i # 1
  <2>1. i - 1 \in DOMAIN use /\ Top(i) = use[i - 1].offset
    BY <1>2, RegionTypes DEF Top
  <2>2. ASSUME NEW j \in DOMAIN use, j < i PROVE use[i - 1].offset <= use[j].offset
    <3>0. i \in Nat /\ j \in Nat
      BY RegionTypes
    <3>1. CASE j = i - 1
      BY <3>1, <2>1, RegionTypes
    <3>2. CASE j # i - 1
      <4>1. j < i - 1
        BY <2>2, <3>0, <3>2
      <4>2. End(use[i - 1]) <= use[j].offset
        BY <2>1, <4>1 DEF Geometry
      <4>3. /\ use[i - 1].offset \in Int /\ use[i - 1].len \in Nat /\ use[j].offset \in Int
            /\ End(use[i - 1]) = use[i - 1].offset + use[i - 1].len
        BY <2>1, RegionTypes DEF End
      <4> QED BY <4>2, <4>3
    <3> QED BY <3>1, <3>2
  <2>3. i \in DOMAIN use => End(use[i]) <= use[i - 1].offset
    BY <2>1, RegionTypes DEF Geometry
  <2> QED BY <2>1, <2>2, <2>3, RegionTypes
<1> QED BY <1>1, <1>2

LEMMA GeometryIsContiguous ==
  ASSUME TypeOK, Geometry
  PROVE  Contiguous
BY RegionTypes, Tops DEF Contiguous, Geometry

LEMMA ShapeTypes ==
  ASSUME TypeOK, NEW s \in SymIds
  PROVE  shape[s].len \in Nat /\ shape[s].align \in Nat \ {0}
BY DEF TypeOK

LEMMA SlotFacts ==
  ASSUME TypeOK, NEW s \in SymIds, NEW i \in DOMAIN use
  PROVE  /\ Slot(i, s) \in Int /\ End(use[i]) <= Slot(i, s)
         /\ Slot(i, s) % shape[s].align = 0
BY RegionTypes, ShapeTypes, AlignUp DEF Slot

\* the hole that newspill takes is one that fits
LEMMA PlaceFits ==
  ASSUME TypeOK, Geometry, NEW s \in SymIds, Fits(s) # {}
  PROVE  Place(s) \in Fits(s)
<1>1. Fits(s) \subseteq DOMAIN use
  BY DEF Fits
<1>2. ASSUME NEW i \in Fits(s) PROVE Excess(i, s) \in Nat
  <2>1. i \in DOMAIN use /\ Top(i) - Slot(i, s) >= shape[s].len
    BY DEF Fits
  <2>2. Top(i) \in Int
    BY <2>1, Tops, RegionTypes
  <2>3. shape[s].len \in Nat /\ Slot(i, s) \in Int /\ End(use[i]) \in Int /\ End(use[i]) <= Slot(i, s)
    BY <2>1, ShapeTypes, SlotFacts, RegionTypes
  <2> QED BY <2>1, <2>2, <2>3 DEF Excess
<1> DEFINE X == {Excess(i, s) : i \in Fits(s)}
<1>3. PICK e \in X : \A f \in X : e <= f
  <2>1. X \in SUBSET Nat /\ X # {}
    BY <1>2
  <2> HIDE DEF X
  <2> QED BY <2>1, LeastNat
<1> DEFINE Y == {i \in Fits(s) : Excess(i, s) = e}
<1>4. PICK h \in Y : \A j \in Y : h <= j
  <2>1. Y \in SUBSET Nat /\ Y # {}
    BY <1>1, <1>3, RegionTypes
  <2> HIDE DEF Y
  <2> QED BY <2>1, LeastNat
<1> DEFINE Best(i) == \A j \in Fits(s) : \/ Excess(i, s) < Excess(j, s)
                                         \/ Excess(i, s) = Excess(j, s) /\ i <= j
<1>5. h \in Fits(s) /\ Best(h)
  <2>1. h \in Fits(s) /\ Excess(h, s) = e
    BY <1>4
  <2>2. ASSUME NEW j \in Fits(s)
        PROVE  \/ Excess(h, s) < Excess(j, s)
               \/ Excess(h, s) = Excess(j, s) /\ h <= j
    <3>1. e <= Excess(j, s) /\ Excess(j, s) \in Nat /\ e \in Nat
      BY <1>2, <1>3, <2>1
    <3>2. CASE Excess(j, s) = e
      <4>1. j \in Y
        BY <3>2
      <4>2. h <= j
        BY <1>4, <4>1
      <4> QED BY <2>1, <3>2, <4>2
    <3>3. CASE Excess(j, s) # e
      BY <2>1, <3>1, <3>3
    <3> QED BY <3>2, <3>3
  <2> QED BY <2>1, <2>2
<1>6. Place(s) = CHOOSE i \in Fits(s) : Best(i)
  BY DEF Place
<1> HIDE DEF Best
<1> QED BY <1>5, <1>6

LEMMA NewRegionFacts ==
  ASSUME TypeOK, Geometry, NEW s \in SymIds, shape[s].len > 0
  PROVE  LET p == Place(s)
             r == NewRegion(s)
         IN  /\ p \in 1..(Len(use) + 1)
             /\ r \in Region /\ r.symId = s /\ r.len = shape[s].len
             /\ r.offset % shape[s].align = 0
             /\ End(r) <= Top(p)
             /\ p \in DOMAIN use => End(use[p]) <= r.offset
<1> DEFINE p == Place(s)
           r == NewRegion(s)
           o == NewOffset(s)
<1>1. shape[s].len \in Nat \ {0} /\ shape[s].align \in Nat \ {0} /\ Len(use) \in Nat
      /\ DOMAIN use = 1..Len(use)
  BY ShapeTypes, RegionTypes
<1>2. r = [symId |-> s, offset |-> o, len |-> shape[s].len]
  BY DEF NewRegion
<1>3. /\ p \in 1..(Len(use) + 1) /\ o \in Int /\ o % shape[s].align = 0
      /\ o + shape[s].len <= Top(p)
      /\ p \in DOMAIN use => End(use[p]) <= o
  <2>1. CASE Fits(s) = {}
    <3>1. p = Len(use) + 1
      BY <2>1 DEF Place
    <3>2. p \in 1..(Len(use) + 1) /\ p \notin DOMAIN use
      BY <1>1, <3>1
    <3>3. Top(p) \in Int
      BY <3>2, Tops
    <3> DEFINE x == Top(p) - shape[s].len
    <3>4. x \in Int
      BY <1>1, <3>3
    <3>5. o = aligndown(x, shape[s].align)
      BY <2>1, <3>1 DEF NewOffset
    <3>6. o \in Int /\ o <= x /\ o % shape[s].align = 0
      <4> HIDE DEF x, o
      <4> QED BY <1>1, <3>4, <3>5, AlignDown
    <3> HIDE DEF o, p
    <3> QED BY <1>1, <3>2, <3>3, <3>6
  <2>2. CASE Fits(s) # {}
    <3>1. p \in Fits(s)
      BY <2>2, PlaceFits
    <3>2. p \in DOMAIN use /\ Top(p) - Slot(p, s) >= shape[s].len
      BY <3>1 DEF Fits
    <3>3. o = Slot(p, s)
      BY <2>2 DEF NewOffset
    <3> HIDE DEF o, p
    <3>4. Top(p) \in Int /\ p \in 1..(Len(use) + 1)
      BY <1>1, <3>2, Tops
    <3>5. o \in Int /\ End(use[p]) <= o /\ o % shape[s].align = 0
      BY <3>2, <3>3, SlotFacts
    <3> QED BY <1>1, <3>2, <3>3, <3>4, <3>5
  <2> QED BY <2>1, <2>2
<1>4. Top(p) \in Int /\ Top(p) <= 0
  BY <1>3, Tops
<1> HIDE DEF o, p
<1>5. o < 0
  BY <1>1, <1>3, <1>4
<1>6. r \in Region
  BY <1>1, <1>2, <1>3, <1>5 DEF Region
<1>7. End(r) = o + shape[s].len
  BY <1>2 DEF End
<1> HIDE DEF r
<1>8. r.symId = s /\ r.len = shape[s].len /\ r.offset = o
  BY <1>2
<1> QED BY <1>3, <1>6, <1>7, <1>8 DEF p, r

-----------------------------------------------------------------------------
(* What the operations do to the list *)

\* all that is known of the list, whatever the symbols' flags
RegionInv == Geometry /\ RegionFitsSymbol /\ Declared

LEMMA RegionInserted ==
  ASSUME TypeOK, RegionInv, NEW s \in SymIds, shape[s].len > 0, ~HasRegion(s), s <= maxidSym,
         use' = InsertAt(use, Place(s), NewRegion(s)),
         bottom' = IF NewOffset(s) < bottom THEN NewOffset(s) ELSE bottom,
         shape' = shape, maxidSym' = maxidSym
  PROVE  /\ use' \in Seq(Region) /\ bottom' \in Int
         /\ RegionInv'
         /\ \A j \in DOMAIN use' : use'[j] = NewRegion(s) \/ \E i \in DOMAIN use : use'[j] = use[i]
         /\ \E j \in DOMAIN use' : use'[j] = NewRegion(s)
         /\ \A i \in DOMAIN use : \E j \in DOMAIN use' : use'[j] = use[i]
<1> DEFINE p == Place(s)
           r == NewRegion(s)
           n == Len(use)
<1>1. /\ n \in Nat /\ DOMAIN use = 1..n /\ use \in Seq(Region) /\ bottom \in Int
      /\ p \in 1..(n + 1) /\ r \in Region /\ r.symId = s /\ r.len = shape[s].len
      /\ r.offset % shape[s].align = 0 /\ r.offset = NewOffset(s)
  BY RegionTypes, NewRegionFacts DEF RegionInv, TypeOK, NewRegion
<1>2. End(r) <= Top(p) /\ (p \in DOMAIN use => End(use[p]) <= r.offset)
  BY NewRegionFacts DEF RegionInv
<1>3. /\ use' \in Seq(Region) /\ DOMAIN use' = 1..(n + 1)
      /\ \A i \in 1..(n + 1) : use'[i] = IF i < p THEN use[i] ELSE IF i = p THEN r ELSE use[i - 1]
  <2>1. use' = InsertAt(use, p, r)
    OBVIOUS
  <2> HIDE DEF p, r
  <2>2. use \in Seq(Region) /\ p \in 1..(Len(use) + 1) /\ r \in Region
    BY <1>1
  <2> HIDE DEF n
  <2>3. /\ InsertAt(use, p, r) \in Seq(Region)
        /\ DOMAIN InsertAt(use, p, r) = 1..(Len(use) + 1)
        /\ \A i \in 1..(Len(use) + 1) :
             InsertAt(use, p, r)[i] = IF i < p THEN use[i] ELSE IF i = p THEN r ELSE use[i - 1]
    BY <2>2, InsertFacts
  <2> QED BY <2>1, <2>3 DEF n
<1>4. r.offset \in Int /\ r.len \in Nat \ {0} /\ r.offset < 0 /\ End(r) \in Int /\ r.offset <= End(r)
  BY <1>1 DEF Region, End
<1> HIDE DEF p, r
<1>5. bottom' \in Int /\ bottom' <= bottom /\ bottom' <= r.offset
  BY <1>1, <1>4
<1>6. Top(p) \in Int /\ Top(p) <= 0 /\ \A j \in DOMAIN use : j < p => Top(p) <= use[j].offset
  BY <1>1, Tops DEF RegionInv
<1>7. \A j \in DOMAIN use : use[j].symId # s
  BY DEF HasRegion
<1>8. \A j \in 1..(n + 1) : \/ j < p /\ j \in DOMAIN use /\ use'[j] = use[j]
                            \/ j = p /\ use'[j] = r
                            \/ j > p /\ j - 1 \in DOMAIN use /\ use'[j] = use[j - 1]
  BY <1>1, <1>3
<1>9. \A j \in DOMAIN use : use[j].offset \in Int /\ End(use[j]) \in Int /\ use[j].offset < End(use[j])
  BY RegionTypes DEF End
<1>10. ASSUME NEW j \in DOMAIN use, p <= j PROVE End(use[j]) <= r.offset
  <2>1. CASE j = p
    BY <1>2, <2>1
  <2>2. CASE j # p
    <3>1. p \in DOMAIN use /\ p < j
      BY <1>1, <1>10, <2>2
    <3>2. End(use[j]) <= use[p].offset /\ End(use[p]) <= r.offset
      BY <1>2, <3>1 DEF RegionInv, Geometry
    <3> QED BY <1>4, <1>9, <3>1, <3>2
  <2> QED BY <2>1, <2>2
<1>11. ASSUME NEW j \in DOMAIN use, j < p PROVE End(r) <= use[j].offset
  BY <1>2, <1>4, <1>6, <1>9, <1>11
<1>12. Geometry'
  <2>1. ASSUME NEW i \in DOMAIN use' PROVE bottom' <= use'[i].offset /\ End(use'[i]) <= 0
    <3>1. CASE use'[i] = r
      BY <1>2, <1>4, <1>5, <1>6, <3>1
    <3>2. ASSUME NEW j \in DOMAIN use, use'[i] = use[j]
          PROVE  bottom' <= use'[i].offset /\ End(use'[i]) <= 0
      <4>1. bottom <= use[j].offset /\ End(use[j]) <= 0
        BY DEF RegionInv, Geometry
      <4> QED BY <1>1, <1>5, <1>9, <3>2, <4>1
    <3> QED BY <1>3, <1>8, <3>1, <3>2
  <2>2. ASSUME NEW i \in DOMAIN use', NEW j \in DOMAIN use', i < j
        PROVE  End(use'[j]) <= use'[i].offset
    <3>1. CASE i < p /\ j < p
      BY <1>1, <1>3, <1>8, <2>2, <3>1 DEF RegionInv, Geometry
    <3>2. CASE i < p /\ j = p
      BY <1>1, <1>3, <1>8, <1>11, <3>2
    <3>3. CASE i < p /\ j > p
      <4>1. /\ i \in DOMAIN use /\ j - 1 \in DOMAIN use /\ i < j - 1
            /\ use'[i] = use[i] /\ use'[j] = use[j - 1]
        BY <1>1, <1>3, <1>8, <3>3
      <4> QED BY <4>1 DEF RegionInv, Geometry
    <3>4. CASE i = p
      <4>1. j - 1 \in DOMAIN use /\ p <= j - 1 /\ use'[i] = r /\ use'[j] = use[j - 1]
        BY <1>1, <1>3, <1>8, <2>2, <3>4
      <4> QED BY <1>10, <4>1
    <3>5. CASE i > p
      <4>1. /\ i - 1 \in DOMAIN use /\ j - 1 \in DOMAIN use /\ i - 1 < j - 1
            /\ use'[i] = use[i - 1] /\ use'[j] = use[j - 1]
        BY <1>1, <1>3, <1>8, <2>2, <3>5
      <4> QED BY <4>1 DEF RegionInv, Geometry
    <3> QED BY <1>1, <1>3, <2>2, <3>1, <3>2, <3>3, <3>4, <3>5
  <2> QED BY <2>1, <2>2 DEF Geometry, End
<1>13. RegionFitsSymbol' /\ Declared'
  <2>1. ASSUME NEW i \in DOMAIN use'
        PROVE  /\ use'[i].offset % shape'[use'[i].symId].align = 0
               /\ use'[i].len = shape'[use'[i].symId].len
               /\ use'[i].symId <= maxidSym'
    <3>1. CASE use'[i] = r
      BY <1>1, <3>1
    <3>2. ASSUME NEW j \in DOMAIN use, use'[i] = use[j]
          PROVE  /\ use'[i].offset % shape'[use'[i].symId].align = 0
                 /\ use'[i].len = shape'[use'[i].symId].len
                 /\ use'[i].symId <= maxidSym'
      BY <3>2 DEF RegionInv, RegionFitsSymbol, Declared
    <3> QED BY <1>3, <1>8, <3>1, <3>2
  <2>2. ASSUME NEW i \in DOMAIN use', NEW j \in DOMAIN use', use'[i].symId = use'[j].symId
        PROVE  i = j
    <3>0. ASSUME NEW k \in DOMAIN use' PROVE use'[k].symId = s <=> k = p
      <4>1. CASE k = p
        BY <1>1, <1>3, <4>1
      <4>2. CASE k # p
        <5>1. \E q \in DOMAIN use : use'[k] = use[q]
          BY <1>3, <1>8, <4>2
        <5> QED BY <1>7, <4>2, <5>1
      <4> QED BY <4>1, <4>2
    <3>1. CASE i = p \/ j = p
      BY <2>2, <3>0, <3>1
    <3>2. CASE i # p /\ j # p
      <4> DEFINE Old(k) == IF k < p THEN k ELSE k - 1
      <4>1. /\ Old(i) \in DOMAIN use /\ use'[i] = use[Old(i)]
            /\ Old(j) \in DOMAIN use /\ use'[j] = use[Old(j)]
        BY <1>1, <1>3, <1>8, <3>2
      <4>2. Old(i) = Old(j)
        <5> HIDE DEF Old
        <5> QED BY <2>2, <4>1 DEF RegionInv, RegionFitsSymbol
      <4> QED BY <1>1, <1>3, <3>2, <4>2
    <3> QED BY <3>1, <3>2
  <2> QED BY <2>1, <2>2 DEF RegionFitsSymbol, Declared
<1>14. \A j \in DOMAIN use' : use'[j] = r \/ \E i \in DOMAIN use : use'[j] = use[i]
  BY <1>3, <1>8
<1>15. \E j \in DOMAIN use' : use'[j] = r
  BY <1>1, <1>3
<1>16. ASSUME NEW i \in DOMAIN use PROVE \E j \in DOMAIN use' : use'[j] = use[i]
  <2>0. i \in 1..n /\ p \in Nat /\ i \in DOMAIN use' /\ i + 1 \in DOMAIN use'
    BY <1>1, <1>3
  <2>1. CASE i < p
    BY <1>3, <2>0, <2>1
  <2>2. CASE i >= p
    <3>0. ~(i + 1 < p) /\ i + 1 # p /\ (i + 1) - 1 = i
      BY <2>0, <2>2
    <3>1. i + 1 \in DOMAIN use' /\ use'[i + 1] = use[i]
      BY <1>3, <2>0, <3>0
    <3> QED BY <3>1
  <2> QED BY <2>0, <2>1, <2>2
<1> QED BY <1>3, <1>5, <1>12, <1>13, <1>14, <1>15, <1>16 DEF RegionInv, r

LEMMA RegionsTaken ==
  ASSUME TypeOK, RegionInv, NEW I \in SUBSET (DOMAIN use), use' = Remaining(I),
         bottom' = bottom, shape' = shape, maxidSym' = maxidSym
  PROVE  /\ use' \in Seq(Region)
         /\ RegionInv'
         /\ \A j \in DOMAIN use' : \E i \in I : use'[j] = use[i]
         /\ \A i \in I : \E j \in DOMAIN use' : use'[j] = use[i]
<1>0. PICK m \in 0..Len(use) : \E h \in [1..m -> I] : Lists(I, m, h)
  BY RemainingFacts, RegionTypes
<1>1. PICK h \in [1..m -> I] :
           /\ \A i, j \in 1..m : i < j => h[i] < h[j]
           /\ \A i \in I : \E k \in 1..m : h[k] = i
           /\ use' = [k \in 1..m |-> use[h[k]]]
           /\ use' \in Seq(Region)
  BY <1>0 DEF Lists
<1>2. DOMAIN use' = 1..m /\ \A k \in 1..m : use'[k] = use[h[k]] /\ h[k] \in I /\ h[k] \in DOMAIN use
  BY <1>1
<1>3. m \in Nat /\ \A k \in 1..m : h[k] \in Nat
  BY <1>2, RegionTypes
<1>4. Geometry'
  <2>1. \A k \in DOMAIN use' : bottom' <= use'[k].offset /\ End(use'[k]) <= 0
    BY <1>2 DEF RegionInv, Geometry
  <2>2. \A k, l \in DOMAIN use' : k < l => End(use'[l]) <= use'[k].offset
    BY <1>1, <1>2 DEF RegionInv, Geometry
  <2> QED BY <2>1, <2>2 DEF Geometry, End
<1>5. RegionFitsSymbol' /\ Declared'
  <2>1. \A k \in DOMAIN use' : /\ use'[k].offset % shape'[use'[k].symId].align = 0
                               /\ use'[k].len = shape'[use'[k].symId].len
                               /\ use'[k].symId <= maxidSym'
    BY <1>2 DEF RegionInv, RegionFitsSymbol, Declared
  <2>2. ASSUME NEW k \in DOMAIN use', NEW l \in DOMAIN use', use'[k].symId = use'[l].symId
        PROVE  k = l
    <3>1. h[k] = h[l]
      BY <1>2, <2>2 DEF RegionInv, RegionFitsSymbol
    <3>2. ~(k < l) /\ ~(l < k)
      BY <1>1, <1>2, <1>3, <3>1
    <3> QED BY <1>2, <1>3, <3>2
  <2> QED BY <2>1, <2>2 DEF RegionFitsSymbol, Declared
<1>6. \A j \in DOMAIN use' : \E i \in I : use'[j] = use[i]
  BY <1>2
<1>7. \A i \in I : \E j \in DOMAIN use' : use'[j] = use[i]
  BY <1>1, <1>2
<1> QED BY <1>1, <1>4, <1>5, <1>6, <1>7 DEF RegionInv

LEMMA RegionsKept ==
  ASSUME RegionInv, use' = use, bottom' = bottom,
         \A i \in DOMAIN use : shape'[use[i].symId] = shape[use[i].symId],
         \A i \in DOMAIN use : use[i].symId <= maxidSym'
  PROVE  RegionInv'
BY DEF RegionInv, Geometry, RegionFitsSymbol, Declared, End

-----------------------------------------------------------------------------
(* The inductive invariant of the spill area, erasures included *)

\* the scope tables are consistent (Inv of SymScopeProofs), and the list of
\* regions is in order, whatever the symbols do
SpillInv == Inv /\ TypeOK /\ RegionInv /\ LocatedIsActive /\ FreshCopyIntact

LEMMA ScopesStep ==
  ASSUME Inv, [Next]_vars
  PROVE  Inv'
<1>1. CASE UNCHANGED scopeVars
  BY <1>1, StutterInv
<1>2. CASE OpenScope
  BY <1>2, BeginScopeInv DEF OpenScope
<1>3. CASE CloseScope
  BY <1>3, EndScopeInv DEF CloseScope
<1>4. ASSUME NEW c \in ScopeIds, ReopenScope(c) PROVE Inv'
  BY <1>4, ActivateScopeInv DEF ReopenScope
<1>5. ASSUME NEW sh \in Shapes, Declare(sh) PROVE Inv'
  BY <1>5, NewsymInv DEF Declare
<1>6. ASSUME NEW s \in SymIds, DeleteSymbol(s) PROVE Inv'
  BY <1>6, DelsymInv DEF DeleteSymbol
<1>7. ASSUME NEW s \in SymIds, spill(s) PROVE Inv'
  <2>1. \/ Fail("spill: !getMEM() || getStale()")
        \/ Fail("spill: !getStale()")
        \/ UNCHANGED scopeVars
    BY <1>7 DEF spill
  <2>2. "spill: !getMEM() || getStale()" \in Failures /\ "spill: !getStale()" \in Failures
    BY DEF Failures
  <2> QED BY <2>1, <2>2, <1>1, FailInv
<1>8. ASSUME NEW s \in SymIds, setREG(s) \/ unsetREG(s) \/ unsetMEM(s) \/ erase(s)
      PROVE  UNCHANGED scopeVars
  BY <1>8 DEF setREG, unsetREG, unsetMEM, erase
<1>9. gc => UNCHANGED scopeVars
  BY DEF gc
<1>10. UNCHANGED vars => UNCHANGED scopeVars
  BY DEF vars, scopeVars
<1> QED BY <1>1, <1>2, <1>3, <1>4, <1>5, <1>6, <1>7, <1>8, <1>9, <1>10 DEF Next

LEMMA FreshFollows ==
  ASSUME LocatedIsActive, FreshCopyIntact, FlagsFollow, use' = use, intact' = intact
  PROVE  FreshCopyIntact'
BY DEF LocatedIsActive, FreshCopyIntact, FlagsFollow, Fresh, HasRegion

\* what is left to prove of an action once the scope tables are settled
Settled == /\ shape' \in [SymIds -> [len : Nat, align : Nat \ {0}]]
           /\ inReg' \subseteq SymIds /\ inMem' \subseteq SymIds /\ stale' \subseteq SymIds
           /\ bottom' \in Int /\ use' \in Seq(Region) /\ intact' \subseteq SymIds
           /\ RegionInv' /\ FreshCopyIntact'

LEMMA ScopeOpsSettled ==
  ASSUME SpillInv,
         \/ OpenScope
         \/ CloseScope
         \/ \E c \in ScopeIds : ReopenScope(c)
         \/ \E sh \in Shapes : Declare(sh)
         \/ \E s \in SymIds : DeleteSymbol(s)
  PROVE  Settled
<1>1. FlagsFollow
  BY ScopeOpsFollow
<1>2. UNCHANGED <<use, bottom, intact, stale>>
  BY DEF OpenScope, CloseScope, ReopenScope, Declare, DeleteSymbol, DropFlags, spillVars
<1>3. FreshCopyIntact'
  BY <1>1, <1>2, FreshFollows DEF SpillInv
<1>4. maxidSym \in Nat /\ maxidSym \in 0..MaxSym
  BY SymScopeAssumption DEF SpillInv, Inv, ScopeTypeOK
<1>5. \/ shape' = shape /\ maxidSym' = maxidSym
      \/ \E sh \in Shapes : /\ shape' = [shape EXCEPT ![maxidSym + 1] = sh]
                            /\ maxidSym' = maxidSym + 1
  <2>1. OpenScope => shape' = shape /\ maxidSym' = maxidSym
    BY DEF OpenScope, begin_scope, spillVars
  <2>2. CloseScope => shape' = shape /\ maxidSym' = maxidSym
    BY DEF CloseScope, end_scope, DropFlags, Fail, ssuVars
  <2>3. ASSUME NEW c \in ScopeIds, ReopenScope(c) PROVE shape' = shape /\ maxidSym' = maxidSym
    BY <2>3 DEF ReopenScope, activate_scope, DropFlags, Fail, ssuVars
  <2>4. ASSUME NEW s \in SymIds, DeleteSymbol(s) PROVE shape' = shape /\ maxidSym' = maxidSym
    BY <2>4 DEF DeleteSymbol, delsym, DropFlags, ssuVars
  <2>5. ASSUME NEW sh \in Shapes, Declare(sh)
        PROVE  shape' = [shape EXCEPT ![maxidSym + 1] = sh] /\ maxidSym' = maxidSym + 1
    BY <1>4, <2>5 DEF Declare, newsym, NextId
  <2> QED BY <2>1, <2>2, <2>3, <2>4, <2>5
<1>6. /\ shape' \in [SymIds -> [len : Nat, align : Nat \ {0}]]
      /\ maxidSym <= maxidSym'
      /\ \A s \in SymIds : s <= maxidSym => shape'[s] = shape[s]
  <2>1. shape \in [SymIds -> [len : Nat, align : Nat \ {0}]]
    BY DEF SpillInv, TypeOK
  <2>2. CASE shape' = shape /\ maxidSym' = maxidSym
    BY <1>4, <2>1, <2>2
  <2>3. ASSUME NEW sh \in Shapes, shape' = [shape EXCEPT ![maxidSym + 1] = sh],
               maxidSym' = maxidSym + 1
        PROVE  /\ shape' \in [SymIds -> [len : Nat, align : Nat \ {0}]]
               /\ maxidSym <= maxidSym'
               /\ \A s \in SymIds : s <= maxidSym => shape'[s] = shape[s]
    <3>1. sh \in [len : Nat, align : Nat \ {0}]
      BY ShapesAssumption
    <3>2. \A s \in SymIds : s <= maxidSym => s # maxidSym + 1
      BY <1>4 DEF SymIds
    <3>3. shape' \in [SymIds -> [len : Nat, align : Nat \ {0}]]
      BY <2>1, <2>3, <3>1
    <3>4. \A s \in SymIds : s <= maxidSym => shape'[s] = shape[s]
      BY <2>1, <2>3, <3>2
    <3> QED BY <1>4, <2>3, <3>3, <3>4
  <2> QED BY <1>5, <2>2, <2>3
<1>7. \A i \in DOMAIN use : use[i].symId \in SymIds /\ use[i].symId <= maxidSym
  BY RegionTypes DEF SpillInv, RegionInv, Declared
<1>8. maxidSym' \in Nat
  BY <1>4, <1>5
<1>9. RegionInv'
  <2>1. ASSUME NEW i \in DOMAIN use
        PROVE  shape'[use[i].symId] = shape[use[i].symId] /\ use[i].symId <= maxidSym'
    <3>1. use[i].symId \in Nat
      BY <1>7 DEF SymIds
    <3> QED BY <1>4, <1>6, <1>7, <1>8, <3>1
  <2> QED BY <1>2, <2>1, RegionsKept DEF SpillInv
<1>10. inReg' \subseteq SymIds /\ inMem' \subseteq SymIds
  BY <1>1 DEF SpillInv, TypeOK, FlagsFollow
<1> QED BY <1>2, <1>3, <1>6, <1>9, <1>10 DEF Settled, SpillInv, TypeOK

LEMMA FlagOpsSettled ==
  ASSUME SpillInv,
         \/ \E s \in SymIds : setREG(s) \/ unsetREG(s) \/ unsetMEM(s)
         \/ UNCHANGED vars
  PROVE  Settled
<1>1. UNCHANGED <<shape, bottom, use, maxidSym, active>>
  BY DEF setREG, unsetREG, unsetMEM, scopeVars, vars
<1>2. /\ inReg' \subseteq SymIds /\ inMem' \subseteq SymIds
      /\ stale' \subseteq SymIds /\ intact' \subseteq SymIds
  BY DEF SpillInv, TypeOK, setREG, unsetREG, unsetMEM, StaleAfterWrite, vars
<1>3. RegionInv'
  BY <1>1, RegionsKept DEF SpillInv, RegionInv, Declared
<1>4. FreshCopyIntact'
  <2>1. ASSUME NEW s \in SymIds, setREG(s) PROVE FreshCopyIntact'
    BY <1>1, <2>1 DEF SpillInv, setREG, StaleAfterWrite, FreshCopyIntact, Fresh, HasRegion
  <2>2. ASSUME NEW s \in SymIds, unsetREG(s) \/ unsetMEM(s) PROVE FreshCopyIntact'
    BY <1>1, <2>2 DEF SpillInv, unsetREG, unsetMEM, FreshCopyIntact, Fresh, HasRegion
  <2>3. CASE UNCHANGED vars
    BY <2>3 DEF SpillInv, vars, FreshCopyIntact, Fresh, HasRegion
  <2> QED BY <2>1, <2>2, <2>3
<1> QED BY <1>1, <1>2, <1>3, <1>4 DEF Settled, SpillInv, TypeOK

LEMMA GcSettled ==
  ASSUME SpillInv, gc
  PROVE  Settled
<1>1. /\ KeptPlaces \in SUBSET (DOMAIN use) /\ use' = Remaining(KeptPlaces)
      /\ bottom' = bottom /\ shape' = shape /\ maxidSym' = maxidSym /\ active' = active
      /\ inReg' = inReg /\ intact' = intact
      /\ inMem' = inMem \ Dropped /\ stale' = stale \ Dropped
  BY DEF gc, KeptRegions, KeptPlaces, MemAfterGc, scopeVars
<1>2. /\ use' \in Seq(Region) /\ RegionInv'
      /\ \A j \in DOMAIN use' : \E i \in KeptPlaces : use'[j] = use[i]
  BY <1>1, RegionsTaken DEF SpillInv
<1>3. FreshCopyIntact'
  <2> SUFFICES ASSUME NEW s \in SymIds, Fresh(s)', HasRegion(s)'
               PROVE  s \in intact'
    BY DEF FreshCopyIntact
  <2>1. PICK j \in DOMAIN use' : use'[j].symId = s
    BY DEF HasRegion
  <2>2. PICK i \in KeptPlaces : use'[j] = use[i]
    BY <1>2
  <2>3. i \in DOMAIN use /\ use[i].symId = s /\ ~Garbage(use[i])
    BY <2>1, <2>2 DEF KeptPlaces
  <2>4. Fresh(s) /\ HasRegion(s)
    BY <2>3 DEF Fresh, Garbage, HasRegion
  <2> QED BY <1>1, <2>4 DEF SpillInv, FreshCopyIntact
<1> QED BY <1>1, <1>2, <1>3 DEF Settled, SpillInv, TypeOK

LEMMA EraseSettled ==
  ASSUME SpillInv, NEW t \in SymIds, erase(t)
  PROVE  Settled
<1>1. PICK k \in DOMAIN use : use' = Remaining(DOMAIN use \ {k})
  BY DEF erase
<1>2. UNCHANGED <<maxidSym, active, shape, inReg, inMem, stale, bottom, intact>>
  BY DEF erase, scopeVars
<1>3. /\ use' \in Seq(Region) /\ RegionInv'
      /\ \A j \in DOMAIN use' : \E i \in DOMAIN use : use'[j] = use[i]
  <2> DEFINE J == DOMAIN use \ {k}
  <2>1. J \in SUBSET (DOMAIN use) /\ use' = Remaining(J)
    BY <1>1
  <2> HIDE DEF J
  <2>2. /\ use' \in Seq(Region) /\ RegionInv'
        /\ \A j \in DOMAIN use' : \E i \in J : use'[j] = use[i]
    BY <1>2, <2>1, RegionsTaken DEF SpillInv
  <2> QED BY <2>1, <2>2
<1>4. FreshCopyIntact'
  BY <1>2, <1>3 DEF SpillInv, FreshCopyIntact, Fresh, HasRegion
<1> QED BY <1>2, <1>3, <1>4 DEF Settled, SpillInv, TypeOK

\* a store into a region of the list leaves what other regions hold
LEMMA StoreApart ==
  ASSUME use' \in Seq(Region), RegionInv', NEW k \in DOMAIN use', NEW s, use'[k].symId = s,
         Store(s, use'[k]), NEW t \in intact, t # s
  PROVE  t \in intact'
<1>1. /\ DOMAIN use' = 1..Len(use') /\ Len(use') \in Nat
      /\ \A i \in DOMAIN use' : /\ use'[i].offset \in Int /\ use'[i].len \in Nat
                                /\ End(use'[i]) \in Int
  <2>1. DOMAIN use' = 1..Len(use') /\ Len(use') \in Nat
    BY LenProperties
  <2>2. ASSUME NEW i \in DOMAIN use' PROVE use'[i] \in Region
    BY <2>1
  <2> QED BY <2>1, <2>2 DEF Region, End
<1>2. ASSUME NEW j \in DOMAIN use', use'[j].symId = t PROVE ~Overlap(use'[j], use'[k])
  <2>1. j < k \/ k < j
    BY <1>1, <1>2
  <2>2. \A i, l \in DOMAIN use' : i < l => End(use'[l]) <= use'[i].offset
    BY DEF RegionInv, Geometry, End
  <2>3. End(use'[k]) <= use'[j].offset \/ End(use'[j]) <= use'[k].offset
    BY <2>1, <2>2
  <2> QED BY <1>1, <2>3 DEF Overlap
<1> QED BY <1>2 DEF Store

LEMMA SpillSettled ==
  ASSUME SpillInv, NEW s \in SymIds, spill(s)
  PROVE  Settled
<1>1. s \in active /\ s \in inReg /\ shape[s].len > 0
  BY DEF spill, Spillable
<1>2. s <= maxidSym
  <2>1. symScope[s] # 0
    BY <1>1 DEF SpillInv, Inv, ActiveInOpenScope, PsymsKnown
  <2> QED BY <2>1 DEF SpillInv, Inv, MembersConsistent
<1>3. CASE UNCHANGED spillVars /\ UNCHANGED <<maxidSym, active>>
  <2>1. RegionInv'
    BY <1>3, RegionsKept DEF SpillInv, RegionInv, Declared, spillVars
  <2>2. FreshCopyIntact'
    BY <1>3 DEF SpillInv, FreshCopyIntact, Fresh, HasRegion, spillVars
  <2> QED BY <1>3, <2>1, <2>2 DEF Settled, SpillInv, TypeOK, spillVars
<1>4. ASSUME UNCHANGED <<scopeVars, shape, inReg>>,
             inMem' = inMem \cup {s}, stale' = stale \ {s},
             use' \in Seq(Region), bottom' \in Int, RegionInv',
             NEW k \in DOMAIN use', use'[k].symId = s, Store(s, use'[k]),
             \A t \in SymIds : t # s /\ HasRegion(t)' => HasRegion(t)
      PROVE  Settled
  <2>1. UNCHANGED <<active, shape, inReg>>
    BY <1>4 DEF scopeVars
  <2>2. s \in intact' /\ intact' \subseteq intact \cup {s}
    BY <1>4 DEF Store
  <2>3. FreshCopyIntact'
    <3> SUFFICES ASSUME NEW t \in SymIds, Fresh(t)', HasRegion(t)', t # s
                 PROVE  t \in intact'
      BY <2>2 DEF FreshCopyIntact
    <3>1. Fresh(t) /\ HasRegion(t)
      BY <1>4, <2>1 DEF Fresh
    <3>2. t \in intact
      BY <3>1 DEF SpillInv, FreshCopyIntact
    <3> QED BY <1>4, <3>2, StoreApart
  <2> QED BY <1>4, <2>1, <2>2, <2>3 DEF Settled, SpillInv, TypeOK
<1>5. CASE HasRegion(s) /\ ~UNCHANGED spillVars
  <2>1. /\ use' = use /\ bottom' = bottom /\ UNCHANGED <<scopeVars, shape, inReg>>
        /\ inMem' = inMem \cup {s} /\ stale' = stale \ {s}
        /\ \E i \in DOMAIN use : use[i].symId = s /\ Store(s, use[i])
    BY <1>5 DEF spill
  <2>2. PICK i \in DOMAIN use : use[i].symId = s /\ Store(s, use[i])
    BY <2>1
  <2>3. RegionInv'
    BY <2>1, RegionsKept DEF SpillInv, RegionInv, Declared, scopeVars
  <2>4. use' \in Seq(Region) /\ bottom' \in Int
    BY <2>1 DEF SpillInv, TypeOK
  <2>5. \A t \in SymIds : HasRegion(t)' => HasRegion(t)
    BY <2>1 DEF HasRegion
  <2>6. i \in DOMAIN use' /\ use'[i].symId = s /\ Store(s, use'[i])
    BY <2>1, <2>2
  <2> QED BY <1>4, <2>1, <2>3, <2>4, <2>5, <2>6
<1>6. CASE ~HasRegion(s) /\ ~UNCHANGED spillVars
  <2> DEFINE r == NewRegion(s)
  <2>1. /\ UNCHANGED <<scopeVars, shape, inReg>>
        /\ inMem' = inMem \cup {s} /\ stale' = stale \ {s}
        /\ use' = InsertAt(use, Place(s), r)
        /\ bottom' = IF NewOffset(s) < bottom THEN NewOffset(s) ELSE bottom
        /\ Store(s, r)
    BY <1>6 DEF spill
  <2>2. shape' = shape /\ maxidSym' = maxidSym
    BY <2>1 DEF scopeVars
  <2>3. r.symId = s
    BY DEF NewRegion
  <2> HIDE DEF r
  <2>4. /\ use' \in Seq(Region) /\ bottom' \in Int
        /\ RegionInv'
        /\ \A j \in DOMAIN use' : use'[j] = r \/ \E i \in DOMAIN use : use'[j] = use[i]
        /\ \E j \in DOMAIN use' : use'[j] = r
    BY <1>1, <1>2, <1>6, <2>1, <2>2, RegionInserted DEF SpillInv, r
  <2>5. PICK k \in DOMAIN use' : use'[k] = r
    BY <2>4
  <2>6. \A t \in SymIds : t # s /\ HasRegion(t)' => HasRegion(t)
    BY <2>3, <2>4 DEF HasRegion
  <2>7. use'[k].symId = s /\ Store(s, use'[k])
    BY <2>1, <2>3, <2>5
  <2> QED BY <1>4, <2>1, <2>4, <2>6, <2>7
<1>7. UNCHANGED spillVars => UNCHANGED <<maxidSym, active>>
  BY DEF spill, Fail, ssuVars, scopeVars
<1> QED BY <1>3, <1>5, <1>6, <1>7

LEMMA SpillInvStep == SpillInv /\ [Next]_vars => SpillInv'
<1> SUFFICES ASSUME SpillInv, [Next]_vars PROVE SpillInv'
  OBVIOUS
<1>1. Settled
  <2>1. ASSUME NEW s \in SymIds, spill(s) PROVE Settled
    BY <2>1, SpillSettled
  <2>2. ASSUME NEW s \in SymIds, erase(s) PROVE Settled
    BY <2>2, EraseSettled
  <2> QED BY <2>1, <2>2, ScopeOpsSettled, FlagOpsSettled, GcSettled DEF Next
<1>2. Inv'
  BY ScopesStep DEF SpillInv
<1>3. LocatedIsActive'
  BY LocatedStep DEF SpillInv
<1>4. TypeOK'
  BY <1>1, <1>2 DEF TypeOK, Settled, Inv
<1> QED BY <1>1, <1>2, <1>3, <1>4 DEF SpillInv, Settled

LEMMA SpillInvInit == SpillInit => SpillInv
<1> SUFFICES ASSUME SpillInit PROVE SpillInv
  OBVIOUS
<1>1. Inv
  BY InitInv DEF SpillInit
<1>2. TypeOK
  BY <1>1 DEF SpillInit, TypeOK, Inv
<1>3. DOMAIN use = {}
  BY DEF SpillInit
<1>4. RegionInv
  BY <1>3 DEF RegionInv, Geometry, RegionFitsSymbol, Declared
<1>5. LocatedIsActive /\ FreshCopyIntact
  BY <1>3 DEF SpillInit, LocatedIsActive, FreshCopyIntact, HasRegion
<1> QED BY <1>1, <1>2, <1>4, <1>5 DEF SpillInv

LEMMA SpillInvariance == Spec => []SpillInv
<1> QED BY SpillInvInit, SpillInvStep, PTL DEF Spec

(* The flags, the list of regions and the scope tables have their types,   *)
(* whatever is spilled, collected and erased.                              *)
THEOREM AreaTypeCorrect == Spec => []TypeOK
<1>1. SpillInv => TypeOK
  BY DEF SpillInv
<1> QED BY <1>1, SpillInvariance, PTL

(* Regions never overlap and stay between bottom and the frame pointer,    *)
(* however holes come about and are filled (contiguity_check).             *)
THEOREM RegionsApart == Spec => []Contiguous
<1>1. SpillInv => Contiguous
  BY GeometryIsContiguous DEF SpillInv, RegionInv
<1> QED BY <1>1, SpillInvariance, PTL

(* A region is aligned and long as its symbol asks, and the only one of    *)
(* its symbol.                                                             *)
THEOREM RegionsFit == Spec => []RegionFitsSymbol
<1>1. SpillInv => RegionFitsSymbol
  BY DEF SpillInv, RegionInv
<1> QED BY <1>1, SpillInvariance, PTL

(* A memory copy that counts as fresh is the last value of its symbol: no  *)
(* spill of another symbol was stored over it.                             *)
THEOREM FreshCopiesIntact == Spec => []FreshCopyIntact
<1>1. SpillInv => FreshCopyIntact
  BY DEF SpillInv
<1> QED BY <1>1, SpillInvariance, PTL

-----------------------------------------------------------------------------
(* Fresh copies have regions *)

\* a copy that is fresh after the step has a region then, if it had one before
\* in case it was fresh then
Backed(s) == Fresh(s)' /\ ~HasRegion(s)' => Fresh(s) /\ ~HasRegion(s)

LEMMA GcKeepsBacked ==
  ASSUME SpillInv, gc, NEW s \in SymIds
  PROVE  Backed(s)
<1>1. /\ KeptPlaces \in SUBSET (DOMAIN use) /\ use' = Remaining(KeptPlaces)
      /\ bottom' = bottom /\ shape' = shape /\ maxidSym' = maxidSym /\ active' = active
      /\ inMem' = inMem \ Dropped /\ stale' = stale \ Dropped
  BY DEF gc, KeptRegions, KeptPlaces, MemAfterGc, scopeVars
<1>2. \A i \in KeptPlaces : \E j \in DOMAIN use' : use'[j] = use[i]
  BY <1>1, RegionsTaken DEF SpillInv
<1> SUFFICES ASSUME Fresh(s)', ~HasRegion(s)' PROVE Fresh(s) /\ ~HasRegion(s)
  BY DEF Backed
<1>3. s \in active /\ s \in inMem /\ s \notin Dropped /\ s \notin stale
  BY <1>1 DEF Fresh
<1>4. ASSUME NEW i \in DOMAIN use, use[i].symId = s PROVE FALSE
  <2>1. i \in KeptPlaces
    BY <1>3, <1>4 DEF KeptPlaces, Dropped
  <2> QED BY <1>2, <1>4, <2>1 DEF HasRegion
<1> QED BY <1>3, <1>4 DEF Fresh, HasRegion

LEMMA SpillKeepsBacked ==
  ASSUME SpillInv, NEW t \in SymIds, spill(t), NEW s \in SymIds
  PROVE  Backed(s)
<1>1. SpillResult(t)
  BY SpillEffect
<1>2. CASE UNCHANGED <<use, inMem, stale>>
  BY <1>1, <1>2 DEF SpillResult, Backed, Fresh, HasRegion
<1>3. CASE HasRegion(t) /\ use' = use
  BY <1>1, <1>3 DEF SpillResult, Backed, Fresh, HasRegion
<1>4. CASE /\ ~HasRegion(t) /\ UNCHANGED <<scopeVars, shape>>
           /\ use' = InsertAt(use, Place(t), NewRegion(t))
           /\ bottom' = IF NewOffset(t) < bottom THEN NewOffset(t) ELSE bottom
  <2>1. t \in active /\ shape[t].len > 0
    BY DEF spill, Spillable
  <2>2. t <= maxidSym
    <3>1. symScope[t] # 0
      BY <2>1 DEF SpillInv, Inv, ActiveInOpenScope, PsymsKnown
    <3> QED BY <3>1 DEF SpillInv, Inv, MembersConsistent
  <2>3. shape' = shape /\ maxidSym' = maxidSym
    BY <1>4 DEF scopeVars
  <2>4. /\ \E j \in DOMAIN use' : use'[j] = NewRegion(t)
        /\ \A i \in DOMAIN use : \E j \in DOMAIN use' : use'[j] = use[i]
    BY <1>4, <2>1, <2>2, <2>3, RegionInserted DEF SpillInv
  <2>5. NewRegion(t).symId = t
    BY DEF NewRegion
  <2>6. HasRegion(t)' /\ (HasRegion(s) => HasRegion(s)')
    BY <2>4, <2>5 DEF HasRegion
  <2> QED BY <1>1, <2>6 DEF SpillResult, Backed, Fresh
<1> QED BY <1>2, <1>3, <1>4 DEF spill, spillVars

(* Only erase takes the region of a fresh memory copy, and no step makes a *)
(* copy fresh that has no region: gc and the scope operations take back    *)
(* only what no symbol counts on.                                          *)
THEOREM FreshCopiesHaveRegions == Spec => FreshHasRegion
<1> DEFINE Step == \A s \in SymIds : Fresh(s)' /\ ~HasRegion(s)' =>
                     (Fresh(s) /\ ~HasRegion(s)) \/ erase(s)
<1>1. ASSUME FlagsFollow, LocatedIsActive, use' = use, NEW s \in SymIds PROVE Backed(s)
  BY <1>1 DEF LocatedIsActive, FlagsFollow, Backed, Fresh, HasRegion
<1>2. ASSUME NEW t \in SymIds, setREG(t) \/ unsetREG(t) \/ unsetMEM(t), NEW s \in SymIds
      PROVE  Backed(s)
  <2>1. active' = active /\ use' = use /\ inMem' \subseteq inMem /\ stale \subseteq stale'
    BY <1>2 DEF setREG, unsetREG, unsetMEM, StaleAfterWrite, scopeVars
  <2> QED BY <2>1 DEF Backed, Fresh, HasRegion
<1>3. ASSUME \/ OpenScope
             \/ CloseScope
             \/ \E c \in ScopeIds : ReopenScope(c)
             \/ \E sh \in Shapes : Declare(sh)
             \/ \E t \in SymIds : DeleteSymbol(t)
      PROVE  FlagsFollow /\ use' = use
  <2>1. use' = use
    BY <1>3 DEF OpenScope, CloseScope, ReopenScope, Declare, DeleteSymbol, DropFlags, spillVars
  <2> QED BY <1>3, <2>1, ScopeOpsFollow
<1>4. ASSUME SpillInv, NEW t \in SymIds, erase(t) PROVE Step
  <2>1. active' = active /\ inMem' = inMem /\ stale' = stale
    BY <1>4 DEF erase, scopeVars
  <2>2. PICK k \in DOMAIN use : use[k].symId = t /\ use' = Remaining(DOMAIN use \ {k})
    BY <1>4 DEF erase
  <2> DEFINE J == DOMAIN use \ {k}
  <2>3. /\ J \in SUBSET (DOMAIN use) /\ use' = Remaining(J)
        /\ UNCHANGED <<maxidSym, shape, bottom>>
    BY <1>4, <2>2 DEF erase, scopeVars
  <2> HIDE DEF J
  <2>4. \A i \in J : \E j \in DOMAIN use' : use'[j] = use[i]
    BY <1>4, <2>3, RegionsTaken DEF SpillInv
  <2>5. ASSUME NEW s \in SymIds, s # t, HasRegion(s) PROVE HasRegion(s)'
    <3>1. PICK i \in J : use[i].symId = s
      BY <2>2, <2>5 DEF HasRegion, J
    <3> QED BY <2>4, <3>1 DEF HasRegion
  <2> QED BY <1>4, <2>1, <2>5 DEF Fresh
<1>5. ASSUME SpillInv, Next PROVE Step
  <2>1. ASSUME \A s \in SymIds : Backed(s) PROVE Step
    BY <2>1 DEF Backed
  <2> HIDE DEF Step
  <2>2. LocatedIsActive
    BY <1>5 DEF SpillInv
  <2>3. ASSUME NEW t \in SymIds, spill(t) PROVE Step
    BY <1>5, <2>1, <2>3, SpillKeepsBacked
  <2>4. CASE gc
    BY <1>5, <2>1, <2>4, GcKeepsBacked
  <2>5. ASSUME FlagsFollow, use' = use PROVE Step
    BY <1>1, <2>1, <2>2, <2>5
  <2>6. ASSUME NEW t \in SymIds, setREG(t) \/ unsetREG(t) \/ unsetMEM(t) PROVE Step
    BY <1>2, <2>1, <2>6
  <2> QED BY <1>3, <1>4, <1>5, <2>3, <2>4, <2>5, <2>6 DEF Next
<1> HIDE DEF Step
<1>6. SpillInv /\ [Next]_vars => [Step]_vars
  BY <1>5
<1> QED BY <1>6, SpillInvariance, PTL DEF Spec, FreshHasRegion, Step

-----------------------------------------------------------------------------
(* Regions stay, and the area grows only when it has to *)

\* what an action does to the list: regions are new only for symbols that had none
LEMMA ListMoves ==
  ASSUME SpillInv, Next
  PROVE  \A j \in DOMAIN use' : \/ \E i \in DOMAIN use : use'[j] = use[i]
                                \/ ~HasRegion(use'[j].symId)
<1>1. use' = use => \A j \in DOMAIN use' : \E i \in DOMAIN use : use'[j] = use[i]
  OBVIOUS
<1>2. CASE \/ OpenScope
           \/ CloseScope
           \/ \E c \in ScopeIds : ReopenScope(c)
           \/ \E sh \in Shapes : Declare(sh)
           \/ \E s \in SymIds : DeleteSymbol(s)
           \/ \E s \in SymIds : setREG(s) \/ unsetREG(s) \/ unsetMEM(s)
  BY <1>1, <1>2 DEF OpenScope, CloseScope, ReopenScope, Declare, DeleteSymbol, DropFlags, spillVars,
                    setREG, unsetREG, unsetMEM
<1>3. CASE gc
  <2>1. /\ KeptPlaces \in SUBSET (DOMAIN use) /\ use' = Remaining(KeptPlaces)
        /\ bottom' = bottom /\ shape' = shape /\ maxidSym' = maxidSym
    BY <1>3 DEF gc, KeptRegions, KeptPlaces, scopeVars
  <2> QED BY <2>1, RegionsTaken DEF SpillInv
<1>4. ASSUME NEW s \in SymIds, erase(s)
      PROVE  \A j \in DOMAIN use' : \E i \in DOMAIN use : use'[j] = use[i]
  <2>1. PICK k \in DOMAIN use : use' = Remaining(DOMAIN use \ {k})
    BY <1>4 DEF erase
  <2>2. UNCHANGED <<maxidSym, shape, bottom>>
    BY <1>4 DEF erase, scopeVars
  <2> DEFINE J == DOMAIN use \ {k}
  <2>3. J \in SUBSET (DOMAIN use) /\ use' = Remaining(J)
    BY <2>1
  <2> HIDE DEF J
  <2>4. \A j \in DOMAIN use' : \E i \in J : use'[j] = use[i]
    BY <2>2, <2>3, RegionsTaken DEF SpillInv
  <2> QED BY <2>3, <2>4
<1>5. ASSUME NEW s \in SymIds, spill(s)
      PROVE  \/ use' = use
             \/ ~HasRegion(s) /\ \A j \in DOMAIN use' : \/ \E i \in DOMAIN use : use'[j] = use[i]
                                                        \/ use'[j].symId = s
  <2>1. CASE use' # use
    <3>1. /\ ~HasRegion(s) /\ UNCHANGED <<scopeVars, shape>>
          /\ use' = InsertAt(use, Place(s), NewRegion(s))
          /\ bottom' = IF NewOffset(s) < bottom THEN NewOffset(s) ELSE bottom
      BY <1>5, <2>1 DEF spill, spillVars
    <3>2. shape' = shape /\ maxidSym' = maxidSym
      BY <3>1 DEF scopeVars
    <3>3. s \in active /\ shape[s].len > 0
      BY <1>5 DEF spill, Spillable
    <3>4. s <= maxidSym
      <4>1. symScope[s] # 0
        BY <3>3 DEF SpillInv, Inv, ActiveInOpenScope, PsymsKnown
      <4> QED BY <4>1 DEF SpillInv, Inv, MembersConsistent
    <3>5. \A j \in DOMAIN use' : use'[j] = NewRegion(s) \/ \E i \in DOMAIN use : use'[j] = use[i]
      BY <3>1, <3>2, <3>3, <3>4, RegionInserted DEF SpillInv
    <3>6. NewRegion(s).symId = s
      BY DEF NewRegion
    <3> QED BY <3>1, <3>5, <3>6
  <2> QED BY <2>1
<1> QED BY <1>1, <1>2, <1>3, <1>4, <1>5 DEF Next

(* A region stays where it is while it exists, whatever is spilled,        *)
(* collected and erased around it.                                         *)
THEOREM RegionsKeepTheirPlace == Spec => RegionsStay
<1> DEFINE Stay == \A i \in DOMAIN use, j \in DOMAIN use' :
                     use[i].symId = use'[j].symId => use[i] = use'[j]
<1>1. ASSUME SpillInv, Next PROVE Stay
  <2> SUFFICES ASSUME NEW i \in DOMAIN use, NEW j \in DOMAIN use', use[i].symId = use'[j].symId
               PROVE  use[i] = use'[j]
    OBVIOUS
  <2>1. HasRegion(use'[j].symId)
    BY DEF HasRegion
  <2>2. PICK k \in DOMAIN use : use'[j] = use[k]
    BY <1>1, <2>1, ListMoves
  <2>3. k = i
    BY <1>1, <2>2 DEF SpillInv, RegionInv, RegionFitsSymbol
  <2> QED BY <2>2, <2>3
<1> HIDE DEF Stay
<1>2. SpillInv /\ [Next]_vars => [Stay]_vars
  BY <1>1
<1> QED BY <1>2, SpillInvariance, PTL DEF Spec, RegionsStay, Stay

\* rounding up goes to the least multiple
LEMMA AlignUpLeast ==
  ASSUME NEW i \in Int, NEW n \in Nat \ {0}, NEW o \in Int, o % n = 0, i <= o
  PROVE  alignup(i, n) <= o
<1> DEFINE x == i + n - 1
           k == x \div n
           q == o \div n
<1>1. x \in Int /\ k \in Int /\ q \in Int
  OBVIOUS
<1>2. x = n * k + (x % n) /\ x % n \in 0..(n - 1)
  BY <1>1
<1>3. o = n * q
  <2>1. o = n * q + (o % n)
    OBVIOUS
  <2> QED BY <1>1, <2>1
<1> HIDE DEF q
<1>4. n * k <= o + (n - 1)
  <2> DEFINE m == n * k
             r == x % n
  <2>1. m \in Int /\ r \in Int /\ r >= 0 /\ i + n - 1 = m + r
    BY <1>1, <1>2
  <2> HIDE DEF m, r, k, x
  <2> QED BY <2>1 DEF m
<1> HIDE DEF k, x
<1>5. k <= q
  <2> SUFFICES ASSUME k >= q + 1 PROVE FALSE
    BY <1>1
  <2>1. n * k >= n * (q + 1)
    BY <1>1
  <2>2. n * (q + 1) = n * q + n /\ n * q \in Int /\ n * k \in Int
    BY <1>1
  <2> DEFINE A == n * q
             B == n * k
             C == n * (q + 1)
  <2>3. C = A + n /\ A \in Int /\ B \in Int /\ B >= C /\ B <= A + (n - 1)
    BY <1>3, <1>4, <2>1, <2>2
  <2> HIDE DEF A, B, C
  <2> QED BY <2>3
<1>6. k * n <= q * n /\ q * n = n * q
  BY <1>1, <1>5
<1> QED BY <1>3, <1>6 DEF alignup, k, x

\* a free place between the lowest region and the frame pointer is in a hole
LEMMA FreePlaceFits ==
  ASSUME SpillInv, NEW s \in SymIds, shape[s].len > 0,
         NEW o \in Top(Len(use) + 1)..(0 - shape[s].len),
         o % shape[s].align = 0, Free(o, shape[s].len)
  PROVE  Fits(s) # {}
<1> DEFINE n == Len(use)
           len == shape[s].len
           J == {i \in DOMAIN use : End(use[i]) <= o}
<1>1. TypeOK /\ Geometry
  BY DEF SpillInv, RegionInv
<1>2. /\ n \in Nat /\ DOMAIN use = 1..n /\ len \in Nat \ {0} /\ shape[s].align \in Nat \ {0}
      /\ \A i \in DOMAIN use : /\ use[i].offset \in Int /\ End(use[i]) \in Int
                               /\ use[i].offset < End(use[i])
  BY <1>1, RegionTypes, ShapeTypes DEF End
<1>3. Top(n + 1) \in Int /\ o \in Int /\ Top(n + 1) <= o /\ o + len <= 0
  <2>1. Top(n + 1) \in Int
    BY <1>1, <1>2, Tops
  <2> HIDE DEF n, len
  <2>2. 0 - len \in Int
    BY <1>2
  <2>3. o \in Top(n + 1)..(0 - len)
    BY DEF n, len
  <2> QED BY <1>2, <2>1, <2>2, <2>3
<1>4. ASSUME NEW i \in DOMAIN use PROVE End(use[i]) <= o \/ o + len <= use[i].offset
  <2>1. ~Overlap([symId |-> 0, offset |-> o, len |-> len], use[i])
    BY DEF Free
  <2>2. ~(o < End(use[i]) /\ use[i].offset < o + len)
    BY <2>1 DEF Overlap, End
  <2> HIDE DEF len
  <2> QED BY <1>2, <1>3, <2>2
<1> HIDE DEF n, len
<1>5. n # 0
  BY <1>2, <1>3 DEF Top, n
<1>6. n \in J
  <2>1. n \in DOMAIN use /\ Top(n + 1) = use[n].offset
    BY <1>2, <1>5 DEF Top
  <2> QED BY <1>2, <1>3, <1>4, <2>1
<1>7. PICK m \in J : \A j \in J : m <= j
  <2>1. J \in SUBSET Nat /\ J # {}
    BY <1>2, <1>6
  <2> HIDE DEF J
  <2> QED BY <2>1, LeastNat
<1>8. m \in DOMAIN use /\ End(use[m]) <= o
  BY <1>7
<1>9. Top(m) \in Int /\ o + len <= Top(m)
  <2>1. CASE m = 1
    BY <1>3, <2>1 DEF Top
  <2>2. CASE m # 1
    <3>1. m - 1 \in DOMAIN use /\ Top(m) = use[m - 1].offset
      BY <1>2, <1>8, <2>2 DEF Top
    <3>2. m - 1 \notin J
      <4> HIDE DEF J
      <4> QED BY <1>2, <1>7, <1>8
    <3> QED BY <1>2, <1>4, <3>1, <3>2
  <2> QED BY <2>1, <2>2
<1>10. Slot(m, s) \in Int /\ Slot(m, s) <= o
  BY <1>1, <1>2, <1>3, <1>8, SlotFacts, AlignUpLeast DEF Slot
<1>11. Top(m) - Slot(m, s) >= len
  BY <1>2, <1>3, <1>9, <1>10
<1> QED BY <1>8, <1>11 DEF Fits, len

(* The area grows only when no aligned gap above its lowest region takes   *)
(* the new symbol.                                                         *)
THEOREM GrowsOnlyWhenFull == Spec => NoNeedlessGrowth
<1> DEFINE Full == bottom' < bottom =>
             \A s \in SymIds : HasRegion(s)' /\ ~HasRegion(s) =>
               ~\E o \in Top(Len(use) + 1)..(0 - shape[s].len) :
                   o % shape[s].align = 0 /\ Free(o, shape[s].len)
<1>1. ASSUME SpillInv, Next PROVE Full
  <2> SUFFICES ASSUME bottom' < bottom, NEW s \in SymIds, HasRegion(s)', ~HasRegion(s)
               PROVE  ~\E o \in Top(Len(use) + 1)..(0 - shape[s].len) :
                         o % shape[s].align = 0 /\ Free(o, shape[s].len)
    OBVIOUS
  <2>1. bottom \in Int /\ bottom' # bottom
    BY <1>1 DEF SpillInv, TypeOK
  <2>2. PICK t \in SymIds : spill(t)
    BY <1>1, <2>1 DEF Next, OpenScope, CloseScope, ReopenScope, Declare, DeleteSymbol,
       DropFlags, spillVars, setREG, unsetREG, unsetMEM, gc, erase
  <2>3. /\ ~HasRegion(t) /\ UNCHANGED <<scopeVars, shape>>
        /\ use' = InsertAt(use, Place(t), NewRegion(t))
        /\ bottom' = IF NewOffset(t) < bottom THEN NewOffset(t) ELSE bottom
        /\ shape[t].len > 0 /\ t \in active
    BY <2>1, <2>2 DEF spill, spillVars, Spillable
  <2>4. NewOffset(t) < bottom
    BY <2>1, <2>3
  <2>5. s = t
    <3>1. shape' = shape /\ maxidSym' = maxidSym
      BY <2>3 DEF scopeVars
    <3>2. t <= maxidSym
      <4>1. symScope[t] # 0
        BY <1>1, <2>3 DEF SpillInv, Inv, ActiveInOpenScope, PsymsKnown
      <4> QED BY <1>1, <4>1 DEF SpillInv, Inv, MembersConsistent
    <3>3. \A j \in DOMAIN use' : use'[j] = NewRegion(t) \/ \E i \in DOMAIN use : use'[j] = use[i]
      BY <1>1, <2>3, <3>1, <3>2, RegionInserted DEF SpillInv
    <3>4. NewRegion(t).symId = t
      BY DEF NewRegion
    <3> QED BY <3>3, <3>4 DEF HasRegion
  <2>6. Fits(t) = {}
    <3> SUFFICES ASSUME Fits(t) # {} PROVE FALSE
      OBVIOUS
    <3>1. TypeOK /\ Geometry
      BY <1>1 DEF SpillInv, RegionInv
    <3>2. Place(t) \in DOMAIN use
      BY <3>1, PlaceFits DEF Fits
    <3>3. NewOffset(t) = Slot(Place(t), t)
      BY DEF NewOffset
    <3> DEFINE p == Place(t)
    <3> HIDE DEF p
    <3>4. p \in DOMAIN use /\ NewOffset(t) = Slot(p, t)
      BY <3>2, <3>3 DEF p
    <3>5. End(use[p]) <= NewOffset(t) /\ NewOffset(t) \in Int
      BY <3>1, <3>4, SlotFacts
    <3>6. bottom <= use[p].offset
      BY <3>1, <3>4 DEF Geometry
    <3>7. use[p].offset \in Int /\ use[p].len \in Nat /\ End(use[p]) = use[p].offset + use[p].len
      BY <3>1, <3>4, RegionTypes DEF End
    <3> QED BY <2>1, <2>4, <3>5, <3>6, <3>7
  <2> QED BY <1>1, <2>3, <2>5, <2>6, FreePlaceFits
<1> HIDE DEF Full
<1>2. SpillInv /\ [Next]_vars => [Full]_vars
  BY <1>1
<1> QED BY <1>2, SpillInvariance, PTL DEF Spec, NoNeedlessGrowth, Full
=============================================================================
