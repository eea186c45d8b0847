------------------------------ MODULE S2RProofs ------------------------------
(***************************************************************************)
(* Proofs about S2R: for any number of symbols and registers, its          *)
(* containers stay consistent, and it implements the four-state map of     *)
(* SymRegMap.                                                              *)
(***************************************************************************)
EXTENDS S2R, SequenceTheorems, TLAPS

-----------------------------------------------------------------------------
(* Sequences without repetitions *)

(* std::find + erase on a list without repetitions takes out exactly the   *)
(* one element.                                                            *)
LEMMA RemoveFirstOnce ==
  ASSUME NEW S, NEW q \in Seq(S), IsInjective(q), NEW e \in ToSet(q)
  PROVE  /\ RemoveFirst(q, e) \in Seq(S)
         /\ IsInjective(RemoveFirst(q, e))
         /\ ToSet(RemoveFirst(q, e)) = ToSet(q) \ {e}
         /\ KeepsAge(q, RemoveFirst(q, e))
<1>1. PICK k \in 1..Len(q) : q[k] = e
  BY DEF ToSet
<1>2. {i \in 1..Len(q) : q[i] = e} = {k}
  BY <1>1 DEF IsInjective
<1>3. SelectInSeq(q, LAMBDA v : v = e) = k
  <2>1. Min({k}) = k
    BY <1>1 DEF Min
  <2> QED BY <1>2, <2>1 DEF SelectInSeq
<1>4. RemoveFirst(q, e) = SubSeq(q, 1, k-1) \o SubSeq(q, k+1, Len(q))
  BY <1>1, <1>3 DEF RemoveFirst, RemoveAt
<1> DEFINE p == SubSeq(q, 1, k-1)
           t == SubSeq(q, k+1, Len(q))
<1>5. /\ p \in Seq(S) /\ Len(p) = k-1
      /\ \A i \in 1..(k-1) : p[i] = q[i]
  BY <1>1, SubSeqProperties
<1>6. /\ t \in Seq(S) /\ Len(t) = Len(q) - k
      /\ \A i \in 1..(Len(q) - k) : t[i] = q[k + i]
  BY <1>1, SubSeqProperties
<1> HIDE DEF p, t
<1>7. /\ p \o t \in Seq(S)
      /\ Len(p \o t) = Len(q) - 1
      /\ \A i \in 1..(Len(q) - 1) : (p \o t)[i] = IF i < k THEN q[i] ELSE q[i + 1]
  <2>1. /\ p \o t \in Seq(S)
        /\ Len(p \o t) = Len(p) + Len(t)
        /\ \A i \in 1..(Len(p) + Len(t)) :
             (p \o t)[i] = IF i <= Len(p) THEN p[i] ELSE t[i - Len(p)]
    BY <1>5, <1>6, ConcatProperties
  <2>2. Len(q) \in Nat
    BY LenProperties
  <2>3. Len(p) + Len(t) = Len(q) - 1
    BY <1>1, <1>5, <1>6, <2>2
  <2>4. ASSUME NEW i \in 1..(Len(q) - 1)
        PROVE  (p \o t)[i] = IF i < k THEN q[i] ELSE q[i + 1]
    <3>1. CASE i < k
      BY <1>1, <1>5, <2>1, <2>2, <2>3, <3>1
    <3>2. CASE ~(i < k)
      <4>1. i \in Int /\ k \in Int /\ Len(p) = k - 1 /\ Len(q) \in Int
        BY <1>1, <1>5, <2>2
      <4>2. /\ i - Len(p) \in 1..(Len(q) - k)
            /\ k + (i - Len(p)) = i + 1
            /\ ~(i <= Len(p))
        BY <3>2, <4>1
      <4>3. (p \o t)[i] = t[i - Len(p)]
        BY <2>1, <2>3, <4>2
      <4> QED BY <1>6, <3>2, <4>2, <4>3
    <3> QED BY <3>1, <3>2
  <2> QED BY <2>1, <2>3, <2>4
<1> DEFINE d == p \o t
<1>8. d \in Seq(S) /\ RemoveFirst(q, e) = d /\ DOMAIN d = 1..(Len(q) - 1)
  <2>1. d \in Seq(S) /\ DOMAIN d = 1..(Len(q) - 1)
    BY <1>7, LenProperties
  <2>2. RemoveFirst(q, e) = d
    BY <1>4 DEF p, t
  <2> QED BY <2>1, <2>2
<1>9. /\ \A i \in 1..(Len(q) - 1) : d[i] = IF i < k THEN q[i] ELSE q[i + 1]
      /\ k \in Int /\ Len(q) \in Int /\ DOMAIN q = 1..Len(q)
  BY <1>1, <1>7, LenProperties
<1> HIDE DEF d
<1>10. IsInjective(d)
  <2> SUFFICES ASSUME NEW i \in DOMAIN d, NEW j \in DOMAIN d, d[i] = d[j]
               PROVE  i = j
    BY DEF IsInjective
  <2> DEFINE g(n) == IF n < k THEN n ELSE n + 1
  <2>1. /\ g(i) \in DOMAIN q /\ g(j) \in DOMAIN q
        /\ d[i] = q[g(i)] /\ d[j] = q[g(j)]
    BY <1>8, <1>9
  <2>2. g(i) = g(j)
    BY <2>1 DEF IsInjective
  <2> QED BY <1>8, <1>9, <2>2
<1>11. ASSUME NEW i \in DOMAIN d PROVE d[i] \in ToSet(q) \ {e}
  <2>1. CASE i < k
    BY <1>1, <1>8, <1>9, <2>1 DEF ToSet, IsInjective
  <2>2. CASE ~(i < k)
    <3>1. i + 1 \in DOMAIN q /\ i + 1 # k /\ d[i] = q[i + 1]
      BY <1>1, <1>8, <1>9, <2>2
    <3> QED BY <1>1, <1>9, <3>1 DEF ToSet, IsInjective
  <2> QED BY <2>1, <2>2
<1>12. ASSUME NEW x \in ToSet(q), x # e PROVE x \in ToSet(d)
  <2>1. PICK i \in 1..Len(q) : q[i] = x
    BY <1>9 DEF ToSet
  <2>2. CASE i < k
    BY <1>1, <1>8, <1>9, <2>1, <2>2 DEF ToSet
  <2>3. CASE ~(i < k)
    <3>1. i # k
      BY <1>1, <1>12, <2>1
    <3>2. i - 1 \in 1..(Len(q) - 1) /\ ~(i - 1 < k) /\ (i - 1) + 1 = i
      BY <1>1, <1>9, <2>3, <3>1
    <3>3. d[i - 1] = x
      BY <1>9, <2>1, <3>2
    <3> QED BY <1>8, <3>2, <3>3 DEF ToSet
  <2> QED BY <2>2, <2>3
<1>13. ToSet(d) = ToSet(q) \ {e}
  BY <1>11, <1>12 DEF ToSet
<1>14. KeepsAge(q, d)
  <2> SUFFICES ASSUME NEW a \in ToSet(d), NEW b \in ToSet(d)
               PROVE  Older(d, a, b) <=> Older(q, a, b)
    BY <1>13 DEF KeepsAge
  <2>1. a # e /\ b # e
    BY <1>13
  <2>2. ASSUME Older(d, a, b) PROVE Older(q, a, b)
    <3>1. PICK i \in DOMAIN d, j \in DOMAIN d : i < j /\ d[i] = a /\ d[j] = b
      BY <2>2 DEF Older
    <3> DEFINE g(n) == IF n < k THEN n ELSE n + 1
    <3>2. /\ g(i) \in DOMAIN q /\ g(j) \in DOMAIN q /\ g(i) < g(j)
          /\ d[i] = q[g(i)] /\ d[j] = q[g(j)]
      BY <1>8, <1>9, <3>1
    <3> QED BY <3>1, <3>2 DEF Older
  <2>3. ASSUME Older(q, a, b) PROVE Older(d, a, b)
    <3>1. PICK i \in DOMAIN q, j \in DOMAIN q : i < j /\ q[i] = a /\ q[j] = b
      BY <2>3 DEF Older
    <3>2. i # k /\ j # k
      BY <1>1, <2>1, <3>1
    <3> DEFINE h(n) == IF n < k THEN n ELSE n - 1
    <3>3. /\ h(i) \in DOMAIN d /\ h(j) \in DOMAIN d /\ h(i) < h(j)
          /\ d[h(i)] = q[i] /\ d[h(j)] = q[j]
      BY <1>1, <1>8, <1>9, <3>1, <3>2
    <3> QED BY <3>1, <3>3 DEF Older
  <2> QED BY <2>2, <2>3
<1> QED BY <1>8, <1>10, <1>13, <1>14

(* push_back of a new element keeps a list free of repetitions.            *)
LEMMA AppendOnce ==
  ASSUME NEW S, NEW q \in Seq(S), IsInjective(q), NEW e \in S, e \notin ToSet(q)
  PROVE  /\ Append(q, e) \in Seq(S)
         /\ IsInjective(Append(q, e))
         /\ ToSet(Append(q, e)) = ToSet(q) \cup {e}
         /\ KeepsAge(q, Append(q, e))
<1>1. /\ Append(q, e) \in Seq(S)
      /\ DOMAIN Append(q, e) = 1..(Len(q) + 1)
      /\ \A i \in 1..Len(q) : Append(q, e)[i] = q[i]
      /\ Append(q, e)[Len(q) + 1] = e
  BY AppendProperties
<1>2. \A i \in 1..Len(q) : q[i] # e
  BY DEF ToSet
<1>3. IsInjective(Append(q, e))
  BY <1>1, <1>2 DEF IsInjective
<1>4. ToSet(Append(q, e)) = ToSet(q) \cup {e}
  BY <1>1 DEF ToSet
<1> DEFINE p == Append(q, e)
<1>5. /\ Len(q) \in Nat /\ DOMAIN q = 1..Len(q)
      /\ DOMAIN p = 1..(Len(q) + 1)
      /\ \A i \in 1..Len(q) : p[i] = q[i]
      /\ p[Len(q) + 1] = e
      /\ ToSet(p) = ToSet(q) \cup {e}
  BY <1>1, <1>4, LenProperties
<1> HIDE DEF p
<1>6. ASSUME NEW a \in ToSet(p), NEW b \in ToSet(p), a # b
      PROVE  Older(p, a, b) <=> a \in ToSet(q) /\ (b \in ToSet(q) => Older(q, a, b))
  <2>1. CASE a = e
    <3>1. \A i \in DOMAIN p : p[i] = e => i = Len(q) + 1
      BY <1>2, <1>5
    <3> QED BY <1>5, <2>1, <3>1 DEF Older
  <2>2. CASE b = e
    <3>1. PICK i \in DOMAIN q : q[i] = a
      BY <1>5, <1>6, <2>2 DEF ToSet
    <3>2. i \in DOMAIN p /\ Len(q) + 1 \in DOMAIN p /\ i < Len(q) + 1 /\ p[i] = a
      BY <1>5, <3>1
    <3> QED BY <1>5, <1>6, <2>2, <3>2 DEF Older
  <2>3. CASE a # e /\ b # e
    <3>1. \A i \in DOMAIN p : p[i] # e => i \in DOMAIN q /\ q[i] = p[i]
      BY <1>5
    <3> QED BY <1>5, <2>3, <3>1 DEF Older
  <2> QED BY <2>1, <2>2, <2>3
<1>7. KeepsAge(q, p)
  BY <1>6 DEF KeepsAge
<1> QED BY <1>1, <1>3, <1>4, <1>7 DEF p

(* A list that does not change keeps its order, and removing after a list  *)
(* kept its order keeps it as well.                                        *)
LEMMA SameKeepsAge == ASSUME NEW q PROVE KeepsAge(q, q)
BY DEF KeepsAge

LEMMA RemovalKeepsAge ==
  ASSUME NEW q, NEW p, NEW t, KeepsAge(q, p), KeepsAge(p, t), ToSet(t) \subseteq ToSet(p)
  PROVE  KeepsAge(q, t)
BY DEF KeepsAge

-----------------------------------------------------------------------------
(* The inductive invariant: erase and unmap find out by elimination which   *)
(* container a symbol is in, so no conjunct is inductive without FourStates. *)

Inv == TypeOK /\ FourStates /\ WeakListed

LEMMA InitInv == Init => Inv
<1> SUFFICES ASSUME Init PROVE Inv
  OBVIOUS
<1>1. TypeOK
  <2>1. <<>> \in Seq(Sids)
    BY EmptySeq
  <2>2. aborted \in BOOLEAN
    BY DEF Init
  <2> QED BY <2>1, <2>2 DEF Init, TypeOK
<1>2. FourStates
  BY S2RAssumption DEF Init, FourStates, isStrong, isWeak, isOld, hasStrong
<1>3. WeakListed
  BY DEF Init, WeakListed, IsInjective, ToSet
<1> QED BY <1>1, <1>2, <1>3 DEF Inv

LEMMA StutterInv == Inv /\ UNCHANGED vars => Inv'
BY DEF Inv, vars, TypeOK, FourStates, WeakListed, isStrong, isWeak, isOld, hasStrong

(* A failed assert leaves the containers alone.                             *)
LEMMA AbortInv == Inv /\ Abort => Inv'
BY DEF Inv, Abort, tables, TypeOK, FourStates, WeakListed, isStrong, isWeak, isOld, hasStrong

LEMMA MkWeakInv ==
  ASSUME Inv, NEW s \in Sids, mkWeak(s)
  PROVE  Inv'
<1> DEFINE r == sReg[s]
<1>1. /\ r \in Regs /\ strong[r] = s /\ ~isWeak(s)
      /\ weak[r] \in Seq(Sids) /\ IsInjective(weak[r])
      /\ s \notin ToSet(weak[r])
  BY DEF Inv, mkWeak, TypeOK, FourStates, WeakListed, isStrong, isWeak
<1>2. /\ Append(weak[r], s) \in Seq(Sids)
      /\ IsInjective(Append(weak[r], s))
      /\ ToSet(Append(weak[r], s)) = ToSet(weak[r]) \cup {s}
  BY <1>1, AppendOnce
<1>3. TypeOK'
  BY <1>1, <1>2 DEF Inv, mkWeak, TypeOK
<1>4. FourStates'
  BY <1>1, S2RAssumption
  DEF Inv, mkWeak, TypeOK, FourStates, isStrong, isWeak, isOld, hasStrong
<1>5. WeakListed'
  <2> SUFFICES ASSUME NEW q \in Regs
               PROVE  /\ IsInjective(weak'[q])
                      /\ ToSet(weak'[q]) = {u \in sWeak' : sReg'[u] = q}
    BY DEF WeakListed
  <2>1. CASE q = r
    BY <1>1, <1>2, <2>1 DEF Inv, mkWeak, TypeOK, WeakListed
  <2>2. CASE q # r
    BY <1>1, <2>2 DEF Inv, mkWeak, TypeOK, WeakListed
  <2> QED BY <2>1, <2>2
<1> QED BY <1>3, <1>4, <1>5 DEF Inv

(* What unmap does when its asserts hold: a strong s is taken out of        *)
(* strong_, a weak one out of weak_ and sWeak_.                             *)
LEMMA Elimination ==
  ASSUME Inv, NEW s \in Sids, Bound(s), ~LeftWeak(sWeak, s)
  PROVE  \/ /\ isStrong(s) /\ ~isWeak(s)
            /\ StrongWithout(s) = [strong EXCEPT ![sReg[s]] = sBad]
            /\ ListWithout(weak, s) = weak
            /\ WeakWithout(sWeak, s) = sWeak
         \/ /\ isWeak(s) /\ ~isStrong(s)
            /\ StrongWithout(s) = strong
            /\ ListWithout(weak, s) = [weak EXCEPT ![sReg[s]] = RemoveFirst(@, s)]
            /\ WeakWithout(sWeak, s) = sWeak \ {s}
<1>1. CASE hasStrong(sReg[s])
  BY <1>1 DEF Inv, TypeOK, FourStates, LeftWeak, StrongWithout, ListWithout, WeakWithout,
              DropsStrong, DropsWeak, Bound, isStrong, isWeak, isOld
<1>2. CASE ~hasStrong(sReg[s])
  BY <1>2, S2RAssumption
  DEF Inv, TypeOK, FourStates, LeftWeak, StrongWithout, ListWithout, WeakWithout,
      DropsStrong, DropsWeak, Bound, isStrong, isWeak, isOld, hasStrong
<1> QED BY <1>1, <1>2

LEMMA UnmapInv ==
  ASSUME Inv, NEW s \in Sids, unmap(s)
  PROVE  Inv'
<1>1. CASE LeftWeak(sWeak, s)
  BY <1>1, AbortInv DEF unmap
<1>2. CASE ~LeftWeak(sWeak, s)
  <2> DEFINE r == sReg[s]
  <2>0. r \in Regs /\ Bound(s)
    BY DEF Inv, TypeOK, unmap, Bound
  <2>1. CASE isStrong(s) /\ ~isWeak(s)
    <3>1. /\ strong' = [strong EXCEPT ![r] = sBad] /\ weak' = weak
          /\ sWeak' = sWeak /\ sOld' = sOld \cup {s} /\ sReg' = sReg /\ aborted' = aborted
      BY <1>2, <2>0, <2>1, Elimination DEF unmap
    <3>2. TypeOK'
      BY <2>0, <3>1 DEF Inv, TypeOK
    <3>3. FourStates'
      BY <2>0, <2>1, <3>1, S2RAssumption
      DEF Inv, TypeOK, FourStates, isStrong, isWeak, isOld, hasStrong
    <3>4. WeakListed'
      BY <3>1 DEF Inv, WeakListed
    <3> QED BY <3>2, <3>3, <3>4 DEF Inv
  <2>2. CASE isWeak(s) /\ ~isStrong(s)
    <3>1. /\ strong' = strong /\ weak' = [weak EXCEPT ![r] = RemoveFirst(@, s)]
          /\ sWeak' = sWeak \ {s} /\ sOld' = sOld \cup {s} /\ sReg' = sReg /\ aborted' = aborted
      BY <1>2, <2>0, <2>2, Elimination DEF unmap
    <3>2. weak[r] \in Seq(Sids) /\ IsInjective(weak[r]) /\ s \in ToSet(weak[r])
      BY <2>0, <2>2 DEF Inv, TypeOK, WeakListed, isWeak
    <3>3. /\ RemoveFirst(weak[r], s) \in Seq(Sids)
          /\ IsInjective(RemoveFirst(weak[r], s))
          /\ ToSet(RemoveFirst(weak[r], s)) = ToSet(weak[r]) \ {s}
      BY <3>2, RemoveFirstOnce
    <3>4. TypeOK'
      BY <2>0, <3>1, <3>3 DEF Inv, TypeOK
    <3>5. FourStates'
      BY <2>0, <2>2, <3>1 DEF Inv, TypeOK, FourStates, isStrong, isWeak, isOld, hasStrong
    <3>6. ASSUME NEW q \in Regs
          PROVE  /\ IsInjective(weak'[q])
                 /\ ToSet(weak'[q]) = {u \in sWeak' : sReg'[u] = q}
      <4>1. CASE q = r
        BY <2>0, <3>1, <3>3, <4>1 DEF Inv, TypeOK, WeakListed
      <4>2. CASE q # r
        BY <2>0, <3>1, <4>2 DEF Inv, TypeOK, WeakListed
      <4> QED BY <4>1, <4>2
    <3> QED BY <3>4, <3>5, <3>6 DEF Inv, WeakListed
  <2> QED BY <1>2, <2>0, <2>1, <2>2, Elimination
<1> QED BY <1>1, <1>2

(* mkStrong first makes the strong symbol of r, if any, a weak one: the     *)
(* weak list and the weak set still agree.                                  *)
LEMMA Bumped ==
  ASSUME Inv, NEW s \in Sids, NEW r \in Regs, strong[r] # s
  PROVE  /\ ListBumped(s, r) \in [Regs -> Seq(Sids)]
         /\ WeakBumped(s, r) \subseteq Sids
         /\ s \in WeakBumped(s, r) <=> s \in sWeak
         /\ \A x \in Regs : /\ IsInjective(ListBumped(s, r)[x])
                            /\ ToSet(ListBumped(s, r)[x]) =
                                 {u \in WeakBumped(s, r) : sReg[u] = x}
<1>1. CASE Bumps(s, r)
  <2> DEFINE t == strong[r]
  <2>1. /\ t \in Sids /\ sReg[t] = r /\ t \notin sWeak /\ t # s
        /\ weak[r] \in Seq(Sids) /\ IsInjective(weak[r]) /\ t \notin ToSet(weak[r])
    BY <1>1, S2RAssumption
    DEF Inv, TypeOK, FourStates, WeakListed, Bumps, isStrong, isWeak, hasStrong
  <2>2. /\ Append(weak[r], t) \in Seq(Sids)
        /\ IsInjective(Append(weak[r], t))
        /\ ToSet(Append(weak[r], t)) = ToSet(weak[r]) \cup {t}
    BY <2>1, AppendOnce
  <2>3. /\ ListBumped(s, r) = [weak EXCEPT ![r] = Append(@, t)]
        /\ WeakBumped(s, r) = sWeak \cup {t}
    BY <1>1 DEF ListBumped, WeakBumped
  <2>4. ASSUME NEW x \in Regs
        PROVE  /\ IsInjective(ListBumped(s, r)[x])
               /\ ToSet(ListBumped(s, r)[x]) = {u \in WeakBumped(s, r) : sReg[u] = x}
    <3>1. CASE x = r
      BY <2>1, <2>2, <2>3, <3>1 DEF Inv, TypeOK, WeakListed
    <3>2. CASE x # r
      BY <2>1, <2>3, <3>2 DEF Inv, TypeOK, WeakListed
    <3> QED BY <3>1, <3>2
  <2> QED BY <2>1, <2>2, <2>3, <2>4 DEF Inv, TypeOK
<1>2. CASE ~Bumps(s, r)
  BY <1>2 DEF Inv, TypeOK, WeakListed, ListBumped, WeakBumped
<1> QED BY <1>1, <1>2

(* It then takes s out of wherever it was.                                  *)
LEMMA TakenOut ==
  ASSUME Inv, NEW s \in Sids, NEW r \in Regs, strong[r] # s,
         ~LeftWeak(WeakBumped(s, r), s)
  PROVE  LET w == ListWithout(ListBumped(s, r), s)
             ws == WeakWithout(WeakBumped(s, r), s)
         IN /\ StrongWithout(s) = [x \in Regs |-> IF strong[x] = s THEN sBad ELSE strong[x]]
            /\ w \in [Regs -> Seq(Sids)]
            /\ ws = WeakBumped(s, r) \ {s}
            /\ \A x \in Regs : /\ IsInjective(w[x])
                               /\ ToSet(w[x]) = {u \in ws : sReg[u] = x}
<1> DEFINE w1 == ListBumped(s, r)
           ws1 == WeakBumped(s, r)
           w == ListWithout(w1, s)
           ws == WeakWithout(ws1, s)
<1>1. /\ w1 \in [Regs -> Seq(Sids)]
      /\ ws1 \subseteq Sids
      /\ s \in ws1 <=> s \in sWeak
      /\ \A x \in Regs : /\ IsInjective(w1[x])
                         /\ ToSet(w1[x]) = {u \in ws1 : sReg[u] = x}
  BY Bumped
<1> HIDE DEF w1, ws1
<1>2. ~LeftWeak(ws1, s)
  BY DEF ws1
<1>3. StrongWithout(s) = [x \in Regs |-> IF strong[x] = s THEN sBad ELSE strong[x]]
  <2>1. CASE DropsStrong(s)
    <3>1. sReg[s] \in Regs /\ s \notin sWeak /\ strong[sReg[s]] = s
      BY <1>1, <1>2, <2>1
      DEF Inv, TypeOK, FourStates, LeftWeak, WeakWithout, DropsStrong, DropsWeak, Bound,
          isStrong, isWeak, isOld
    <3>2. \A x \in Regs : strong[x] = s => x = sReg[s]
      BY S2RAssumption DEF Inv, FourStates, hasStrong
    <3> QED BY <2>1, <3>1, <3>2 DEF Inv, TypeOK, StrongWithout
  <2>2. CASE ~DropsStrong(s)
    <3>1. \A x \in Regs : strong[x] # s
      BY <2>2, S2RAssumption
      DEF Inv, TypeOK, FourStates, DropsStrong, Bound, isStrong, isOld, hasStrong
    <3> QED BY <2>2, <3>1 DEF Inv, TypeOK, StrongWithout
  <2> QED BY <2>1, <2>2
<1>4. ws = ws1 \ {s}
  BY <1>2 DEF LeftWeak, WeakWithout
<1>5. /\ w \in [Regs -> Seq(Sids)]
      /\ \A x \in Regs : /\ IsInjective(w[x])
                         /\ ToSet(w[x]) = {u \in ws : sReg[u] = x}
  <2>1. CASE DropsWeak(s)
    <3> DEFINE q == sReg[s]
    <3>1. q \in Regs /\ s \in ws1
      BY <1>2, <2>1 DEF Inv, TypeOK, LeftWeak, DropsWeak, Bound
    <3>2. w1[q] \in Seq(Sids) /\ IsInjective(w1[q]) /\ s \in ToSet(w1[q])
      BY <1>1, <3>1
    <3>3. /\ RemoveFirst(w1[q], s) \in Seq(Sids)
          /\ IsInjective(RemoveFirst(w1[q], s))
          /\ ToSet(RemoveFirst(w1[q], s)) = ToSet(w1[q]) \ {s}
      BY <3>2, RemoveFirstOnce
    <3>4. w = [w1 EXCEPT ![q] = RemoveFirst(@, s)]
      BY <2>1 DEF ListWithout
    <3>5. w \in [Regs -> Seq(Sids)]
      BY <1>1, <3>1, <3>3, <3>4
    <3>6. ASSUME NEW x \in Regs
          PROVE  /\ IsInjective(w[x])
                 /\ ToSet(w[x]) = {u \in ws : sReg[u] = x}
      <4>1. CASE x = q
        BY <1>1, <1>4, <3>1, <3>3, <3>4, <4>1
      <4>2. CASE x # q
        BY <1>1, <1>4, <3>1, <3>4, <4>2
      <4> QED BY <4>1, <4>2
    <3> QED BY <3>5, <3>6
  <2>2. CASE ~DropsWeak(s)
    BY <1>1, <2>2 DEF ListWithout, WeakWithout
  <2> QED BY <2>1, <2>2
<1> QED BY <1>3, <1>4, <1>5 DEF w1, ws1

(* The containers after a mkStrong(s, r) that fails no assert.              *)
MkStrongResult(s, r) ==
  /\ strong' = [x \in Regs |-> IF x = r THEN s
                               ELSE IF strong[x] = s THEN sBad ELSE strong[x]]
  /\ weak' \in [Regs -> Seq(Sids)]
  /\ \A x \in Regs : /\ IsInjective(weak'[x])
                     /\ ToSet(weak'[x]) = {u \in sWeak' : sReg[u] = x}
  /\ sWeak' \subseteq Sids
  /\ \A u \in Sids : u \in sWeak' <=> u # s /\ (u \in sWeak \/ u = strong[r])
  /\ sOld' = sOld \ {s}
  /\ sReg' = [sReg EXCEPT ![s] = r]
  /\ aborted' = aborted

LEMMA MkStrongEffect ==
  ASSUME Inv, NEW s \in Sids, NEW r \in Regs, mkStrong(s, r),
         ~LeftWeak(WeakBumped(s, r), s)
  PROVE  MkStrongResult(s, r)
<1>1. strong[r] # s
  BY DEF mkStrong
<1>2. /\ strong' = [x \in Regs |-> IF x = r THEN s
                                   ELSE IF strong[x] = s THEN sBad ELSE strong[x]]
      /\ weak' \in [Regs -> Seq(Sids)]
      /\ sWeak' = WeakBumped(s, r) \ {s}
      /\ \A x \in Regs : /\ IsInjective(weak'[x])
                         /\ ToSet(weak'[x]) = {u \in sWeak' : sReg[u] = x}
      /\ sOld' = sOld \ {s}
      /\ sReg' = [sReg EXCEPT ![s] = r]
      /\ aborted' = aborted
  BY <1>1, TakenOut DEF mkStrong
<1>3. /\ sWeak' \subseteq Sids
      /\ \A u \in Sids : u \in sWeak' <=> u # s /\ (u \in sWeak \/ u = strong[r])
  BY <1>1, <1>2, S2RAssumption DEF Inv, TypeOK, WeakBumped, Bumps, hasStrong
<1> QED BY <1>2, <1>3 DEF MkStrongResult

LEMMA MkStrongInv ==
  ASSUME Inv, NEW s \in Sids, NEW r \in Regs, mkStrong(s, r)
  PROVE  Inv'
<1>1. CASE LeftWeak(WeakBumped(s, r), s)
  BY <1>1, AbortInv DEF mkStrong
<1>2. CASE ~LeftWeak(WeakBumped(s, r), s)
  <2>1. MkStrongResult(s, r) /\ strong[r] # s
    BY <1>2, MkStrongEffect DEF mkStrong
  <2>2. TypeOK'
    BY <2>1 DEF MkStrongResult, Inv, TypeOK
  <2>3. FourStates'
    BY <2>1, S2RAssumption
    DEF MkStrongResult, Inv, TypeOK, FourStates, isStrong, isWeak, isOld, hasStrong
  <2>4. WeakListed'
    BY <2>1 DEF MkStrongResult, Inv, TypeOK, WeakListed
  <2> QED BY <2>2, <2>3, <2>4 DEF Inv
<1> QED BY <1>1, <1>2

LEMMA NextInv == Inv /\ [Next]_vars => Inv'
<1> SUFFICES ASSUME Inv, [Next]_vars PROVE Inv'
  OBVIOUS
<1>1. ASSUME NEW s \in Sids, NEW r \in Regs, mkStrong(s, r) PROVE Inv'
  BY <1>1, MkStrongInv
<1>2. ASSUME NEW s \in Sids, mkWeak(s) PROVE Inv'
  BY <1>2, MkWeakInv
<1>3. ASSUME NEW s \in Sids, unmap(s) PROVE Inv'
  BY <1>3, UnmapInv
<1>4. CASE UNCHANGED vars
  BY <1>4, StutterInv
<1> QED BY <1>1, <1>2, <1>3, <1>4 DEF Next

LEMMA Invariance == Spec => []Inv
<1> QED BY InitInv, NextInv, PTL DEF Spec

(* The containers of S2R always hold values of their types: in particular  *)
(* no register is ever entered in a weak list under an invalid symbol.     *)
THEOREM TypeCorrect == Spec => []TypeOK
<1>1. Inv => TypeOK
  BY DEF Inv
<1> QED BY <1>1, Invariance, PTL

(* A symbol is in exactly one of the states strong, weak, unmapped and     *)
(* absent, whatever sequence of mkStrong, mkWeak and unmap led there.      *)
THEOREM StatesDisjoint == Spec => []FourStates
<1>1. Inv => FourStates
  BY DEF Inv
<1> QED BY <1>1, Invariance, PTL

(* The weak list of a register and the set of weak symbols always agree.   *)
THEOREM WeakContainersAgree == Spec => []WeakListed
<1>1. Inv => WeakListed
  BY DEF Inv
<1> QED BY <1>1, Invariance, PTL

-----------------------------------------------------------------------------
(* The order of the weak lists *)

LEMMA MkWeakOrder ==
  ASSUME Inv, NEW s \in Sids, mkWeak(s), NEW r \in Regs
  PROVE  KeepsAge(weak[r], weak'[r])
<1>1. CASE r = sReg[s]
  <2>1. weak[r] \in Seq(Sids) /\ IsInjective(weak[r]) /\ s \notin ToSet(weak[r])
    BY <1>1 DEF Inv, mkWeak, TypeOK, FourStates, WeakListed, isStrong, isWeak
  <2>2. weak'[r] = Append(weak[r], s)
    BY <1>1 DEF Inv, mkWeak, TypeOK
  <2> QED BY <2>1, <2>2, AppendOnce
<1>2. CASE r # sReg[s]
  BY <1>2, SameKeepsAge DEF Inv, mkWeak, TypeOK
<1> QED BY <1>1, <1>2

LEMMA ListWithoutOrder ==
  ASSUME Inv, NEW s \in Sids, NEW w \in [Regs -> Seq(Sids)], NEW r \in Regs,
         IsInjective(w[r]), DropsWeak(s) /\ sReg[s] = r => s \in ToSet(w[r])
  PROVE  /\ KeepsAge(w[r], ListWithout(w, s)[r])
         /\ ToSet(ListWithout(w, s)[r]) \subseteq ToSet(w[r])
<1>1. CASE DropsWeak(s) /\ sReg[s] = r
  <2>1. ListWithout(w, s)[r] = RemoveFirst(w[r], s)
    BY <1>1 DEF ListWithout
  <2> QED BY <1>1, <2>1, RemoveFirstOnce
<1>2. CASE ~(DropsWeak(s) /\ sReg[s] = r)
  <2>1. ListWithout(w, s)[r] = w[r]
    BY <1>2 DEF ListWithout
  <2> QED BY <2>1, SameKeepsAge
<1> QED BY <1>1, <1>2

LEMMA UnmapOrder ==
  ASSUME Inv, NEW s \in Sids, unmap(s), NEW r \in Regs
  PROVE  KeepsAge(weak[r], weak'[r])
<1>1. CASE LeftWeak(sWeak, s)
  BY <1>1, SameKeepsAge DEF unmap, Abort, tables
<1>2. CASE ~LeftWeak(sWeak, s)
  <2>1. weak' = ListWithout(weak, s)
    BY <1>2 DEF unmap
  <2>2. /\ weak \in [Regs -> Seq(Sids)] /\ IsInjective(weak[r])
        /\ DropsWeak(s) /\ sReg[s] = r => s \in ToSet(weak[r])
    BY <1>2 DEF Inv, TypeOK, WeakListed, LeftWeak
  <2> QED BY <2>1, <2>2, ListWithoutOrder
<1> QED BY <1>1, <1>2

LEMMA MkStrongOrder ==
  ASSUME Inv, NEW s \in Sids, NEW x \in Regs, mkStrong(s, x), NEW r \in Regs
  PROVE  KeepsAge(weak[r], weak'[r])
<1>1. CASE LeftWeak(WeakBumped(s, x), s)
  BY <1>1, SameKeepsAge DEF mkStrong, Abort, tables
<1>2. CASE ~LeftWeak(WeakBumped(s, x), s)
  <2> DEFINE w == ListBumped(s, x)
  <2>1. strong[x] # s /\ weak' = ListWithout(w, s)
    BY <1>2 DEF mkStrong
  <2>2. /\ w \in [Regs -> Seq(Sids)] /\ IsInjective(w[r])
        /\ ToSet(w[r]) = {u \in WeakBumped(s, x) : sReg[u] = r}
    BY <2>1, Bumped
  <2>3. DropsWeak(s) /\ sReg[s] = r => s \in ToSet(w[r])
    BY <1>2, <2>2 DEF LeftWeak
  <2>4. KeepsAge(weak[r], w[r])
    <3>1. CASE Bumps(s, x) /\ r = x
      <4>1. /\ strong[x] \in Sids /\ strong[x] \notin ToSet(weak[r])
            /\ weak[r] \in Seq(Sids) /\ IsInjective(weak[r])
        BY <3>1, S2RAssumption
        DEF Inv, TypeOK, FourStates, WeakListed, Bumps, isStrong, isWeak, hasStrong
      <4>2. w[r] = Append(weak[r], strong[x])
        BY <3>1 DEF Inv, TypeOK, ListBumped
      <4> QED BY <4>1, <4>2, AppendOnce
    <3>2. CASE ~(Bumps(s, x) /\ r = x)
      <4>1. w[r] = weak[r]
        BY <3>2 DEF Inv, TypeOK, ListBumped
      <4> QED BY <4>1, SameKeepsAge
    <3> QED BY <3>1, <3>2
  <2> HIDE DEF w
  <2>5. /\ KeepsAge(w[r], ListWithout(w, s)[r])
        /\ ToSet(ListWithout(w, s)[r]) \subseteq ToSet(w[r])
    BY <2>2, <2>3, ListWithoutOrder
  <2> QED BY <2>1, <2>4, <2>5, RemovalKeepsAge
<1> QED BY <1>1, <1>2

(* The weak symbols of a register stay in the order in which they became   *)
(* weak, whatever else is mapped, weakened or unmapped: the first one is   *)
(* always the stalest.                                                     *)
THEOREM WeakInAgeOrder == Spec => StalenessOrder
<1> DEFINE Kept == \A r \in Regs : KeepsAge(weak[r], weak'[r])
<1>1. Inv /\ [Next]_vars => [Kept]_vars
  <2> SUFFICES ASSUME Inv, Next PROVE Kept
    OBVIOUS
  <2>1. ASSUME NEW s \in Sids, NEW x \in Regs, mkStrong(s, x) PROVE Kept
    BY <2>1, MkStrongOrder
  <2>2. ASSUME NEW s \in Sids, mkWeak(s) PROVE Kept
    BY <2>2, MkWeakOrder
  <2>3. ASSUME NEW s \in Sids, unmap(s) PROVE Kept
    BY <2>3, UnmapOrder
  <2> QED BY <2>1, <2>2, <2>3 DEF Next
<1> QED BY <1>1, Invariance, PTL DEF Spec, StalenessOrder

-----------------------------------------------------------------------------
(* Refinement *)

LEMMA InitRefines == Init => Map!MapInit
BY S2RAssumption DEF Init, Map!MapInit, KindOf, isStrong, isWeak, isOld

(* A call that ends in a failed assert does not move the map.               *)
LEMMA TablesRefine == UNCHANGED tables => UNCHANGED Map!mapVars
BY DEF tables, Map!mapVars, KindOf, isStrong, isWeak, isOld

LEMMA MkStrongRefines ==
  ASSUME Inv, NEW s \in Sids, NEW r \in Regs, mkStrong(s, r)
  PROVE  Map!Take(s, r) \/ UNCHANGED Map!mapVars
<1>1. CASE LeftWeak(WeakBumped(s, r), s)
  BY <1>1, TablesRefine DEF mkStrong, Abort
<1>2. CASE ~LeftWeak(WeakBumped(s, r), s)
  <2>1. ASSUME NEW t \in Sids
        PROVE  KindOf(t)' = IF t = s THEN "strong"
                            ELSE IF t \in Map!StrongOn(r) THEN "weak"
                            ELSE KindOf(t)
    <3>1. t \in Map!StrongOn(r) <=> KindOf(t) = "strong" /\ sReg[t] = r
      BY DEF Map!StrongOn
    <3>2. CASE t = s
      BY <1>2, <3>2, MkStrongEffect, S2RAssumption
      DEF MkStrongResult, Inv, TypeOK, KindOf, isStrong, isWeak, isOld
    <3>3. CASE t # s
      BY <1>2, <3>1, <3>3, MkStrongEffect, S2RAssumption
      DEF MkStrongResult, Inv, TypeOK, FourStates, KindOf, isStrong, isWeak, isOld, hasStrong
    <3> QED BY <3>2, <3>3
  <2>2. sReg' = [sReg EXCEPT ![s] = r]
    BY <1>2, MkStrongEffect DEF MkStrongResult
  <2> QED BY <2>1, <2>2 DEF Map!Take
<1> QED BY <1>1, <1>2

LEMMA MkWeakRefines ==
  ASSUME Inv, NEW s \in Sids, mkWeak(s)
  PROVE  Map!Weaken(s)
<1>1. KindOf(s) = "strong"
  BY DEF Inv, FourStates, mkWeak, KindOf, isStrong, isWeak, isOld
<1>2. ASSUME NEW t \in Sids PROVE KindOf(t)' = IF t = s THEN "weak" ELSE KindOf(t)
  <2>1. CASE t = s
    BY <2>1, S2RAssumption DEF Inv, TypeOK, FourStates, mkWeak, KindOf, isStrong, isWeak, isOld
  <2>2. CASE t # s
    BY <2>2, S2RAssumption DEF Inv, TypeOK, FourStates, mkWeak, KindOf, isStrong, isWeak, isOld
  <2> QED BY <2>1, <2>2
<1>3. sReg' = sReg
  BY DEF mkWeak
<1> QED BY <1>1, <1>2, <1>3 DEF Map!Weaken

LEMMA UnmapRefines ==
  ASSUME Inv, NEW s \in Sids, unmap(s)
  PROVE  Map!Release(s) \/ UNCHANGED Map!mapVars
<1>1. CASE LeftWeak(sWeak, s)
  BY <1>1, TablesRefine DEF unmap, Abort
<1>2. CASE ~LeftWeak(sWeak, s)
  <2>1. Bound(s) /\ sReg[s] \in Regs /\ sReg' = sReg /\ sOld' = sOld \cup {s}
    BY <1>2 DEF Inv, TypeOK, unmap, Bound
  <2>2. CASE isStrong(s) /\ ~isWeak(s)
    <3>1. strong' = [strong EXCEPT ![sReg[s]] = sBad] /\ sWeak' = sWeak
      BY <1>2, <2>1, <2>2, Elimination DEF unmap
    <3>2. KindOf(s) = "strong"
      BY <2>1, <2>2 DEF Bound, KindOf
    <3>3. \A t \in Sids : KindOf(t)' = IF t = s THEN "old" ELSE KindOf(t)
      BY <2>1, <2>2, <3>1, S2RAssumption
      DEF Inv, TypeOK, FourStates, KindOf, isStrong, isWeak, isOld
    <3> QED BY <2>1, <3>2, <3>3 DEF Map!Release
  <2>3. CASE isWeak(s) /\ ~isStrong(s)
    <3>1. strong' = strong /\ sWeak' = sWeak \ {s}
      BY <1>2, <2>1, <2>3, Elimination DEF unmap
    <3>2. KindOf(s) = "weak"
      BY <2>1, <2>3 DEF Bound, KindOf
    <3>3. \A t \in Sids : KindOf(t)' = IF t = s THEN "old" ELSE KindOf(t)
      BY <2>1, <2>3, <3>1 DEF KindOf, isStrong, isWeak, isOld
    <3> QED BY <2>1, <3>2, <3>3 DEF Map!Release
  <2> QED BY <1>2, <2>1, <2>2, <2>3, Elimination
<1> QED BY <1>1, <1>2

LEMMA NextRefines == Inv /\ [Next]_vars => [Map!MapNext]_(Map!mapVars)
<1> SUFFICES ASSUME Inv, [Next]_vars PROVE Map!MapNext \/ UNCHANGED Map!mapVars
  OBVIOUS
<1>1. ASSUME NEW s \in Sids, NEW r \in Regs, mkStrong(s, r)
      PROVE  Map!MapNext \/ UNCHANGED Map!mapVars
  BY <1>1, MkStrongRefines DEF Map!MapNext
<1>2. ASSUME NEW s \in Sids, mkWeak(s) PROVE Map!MapNext
  BY <1>2, MkWeakRefines DEF Map!MapNext
<1>3. ASSUME NEW s \in Sids, unmap(s) PROVE Map!MapNext \/ UNCHANGED Map!mapVars
  BY <1>3, UnmapRefines DEF Map!MapNext
<1>4. CASE UNCHANGED vars
  BY <1>4, TablesRefine DEF vars, tables
<1> QED BY <1>1, <1>2, <1>3, <1>4 DEF Next

(* S2R implements the four-state map: an operation on one symbol changes   *)
(* the state of no other one, except that mkStrong makes the symbol it     *)
(* displaces weak.                                                         *)
THEOREM Refinement == Spec => ImplementsMap
<1> QED BY InitRefines, NextRefines, Invariance, PTL DEF Spec, ImplementsMap, Map!MapSpec
=============================================================================
