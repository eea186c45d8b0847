---------------------------- MODULE SymScopeProofs ----------------------------
(***************************************************************************)
(* Proofs about SymScope, for any bound on the number of symbols and       *)
(* scopes, any set of names, and both kinds of BASE class.                 *)
(***************************************************************************)
EXTENDS SymScope, SequenceTheorems, TLAPS

-----------------------------------------------------------------------------
(* The scope stack: pushing a new element and popping the top one           *)

LEMMA PushOnce ==
  ASSUME NEW S, NEW q \in Seq(S), q # <<>>, IsInjective(q), NEW e \in S, e \notin ToSet(q)
  PROVE  LET d == <<e>> \o q
         IN /\ d \in Seq(S) /\ d # <<>>
            /\ Head(d) = e
            /\ Last(d) = Last(q)
            /\ IsInjective(d)
            /\ ToSet(d) = ToSet(q) \cup {e}
<1> DEFINE d == <<e>> \o q
<1>1. /\ <<e>> \in Seq(S) /\ Len(<<e>>) = 1 /\ <<e>>[1] = e
      /\ Len(q) \in Nat /\ Len(q) # 0 /\ DOMAIN q = 1..Len(q)
  BY EmptySeq, LenProperties
<1>2. /\ d \in Seq(S) /\ Len(d) = Len(q) + 1
      /\ \A i \in 1..(Len(q) + 1) : d[i] = IF i <= 1 THEN e ELSE q[i - 1]
  BY <1>1, ConcatProperties
<1>3. DOMAIN d = 1..(Len(q) + 1) /\ d # <<>>
  BY <1>1, <1>2, LenProperties, EmptySeq
<1> HIDE DEF d
<1>4. Head(d) = e
  BY <1>1, <1>2, <1>3
<1>5. Last(d) = Last(q)
  BY <1>1, <1>2 DEF Last
<1>6. \A i \in 1..Len(q) : q[i] # e
  BY <1>1 DEF ToSet
<1>7. IsInjective(d)
  <2> SUFFICES ASSUME NEW i \in DOMAIN d, NEW j \in DOMAIN d, d[i] = d[j]
               PROVE  i = j
    BY DEF IsInjective
  <2>1. CASE i = 1 \/ j = 1
    BY <1>1, <1>2, <1>3, <1>6, <2>1
  <2>2. CASE i # 1 /\ j # 1
    <3>1. i - 1 \in DOMAIN q /\ j - 1 \in DOMAIN q /\ q[i - 1] = q[j - 1]
      BY <1>1, <1>2, <1>3, <2>2
    <3>2. i - 1 = j - 1
      BY <3>1 DEF IsInjective
    <3> QED BY <1>1, <1>3, <3>2
  <2> QED BY <2>1, <2>2
<1>8. ToSet(d) = ToSet(q) \cup {e}
  <2>1. ASSUME NEW i \in DOMAIN d PROVE d[i] \in ToSet(q) \cup {e}
    BY <1>1, <1>2, <1>3 DEF ToSet
  <2>2. e \in ToSet(d)
    BY <1>1, <1>2, <1>3 DEF ToSet
  <2>3. ASSUME NEW i \in DOMAIN q PROVE q[i] \in ToSet(d)
    <3>1. i + 1 \in DOMAIN d /\ d[i + 1] = q[i]
      BY <1>1, <1>2, <1>3
    <3> QED BY <3>1 DEF ToSet
  <2> QED BY <2>1, <2>2, <2>3 DEF ToSet
<1> QED BY <1>2, <1>3, <1>4, <1>5, <1>7, <1>8 DEF d

LEMMA PopOnce ==
  ASSUME NEW S, NEW q \in Seq(S), IsInjective(q), Len(q) > 1
  PROVE  /\ Tail(q) \in Seq(S) /\ Tail(q) # <<>>
         /\ Head(q) \in ToSet(q)
         /\ Last(Tail(q)) = Last(q)
         /\ Last(q) # Head(q)
         /\ IsInjective(Tail(q))
         /\ ToSet(Tail(q)) = ToSet(q) \ {Head(q)}
<1> DEFINE d == Tail(q)
<1>1. /\ Len(q) \in Nat /\ q # <<>> /\ DOMAIN q = 1..Len(q)
      /\ Head(q) = q[1]
  BY LenProperties
<1>2. /\ d \in Seq(S) /\ Len(d) = Len(q) - 1
      /\ \A i \in 1..(Len(q) - 1) : d[i] = q[i + 1]
  BY <1>1, HeadTailProperties
<1> HIDE DEF d
<1>3. DOMAIN d = 1..(Len(q) - 1) /\ d # <<>>
  BY <1>1, <1>2, LenProperties, EmptySeq
<1>4. Head(q) \in ToSet(q)
  BY <1>1 DEF ToSet
<1>5. Last(d) = Last(q)
  BY <1>1, <1>2 DEF Last
<1>6. Last(q) # Head(q)
  BY <1>1 DEF Last, IsInjective
<1>7. IsInjective(d)
  <2> SUFFICES ASSUME NEW i \in DOMAIN d, NEW j \in DOMAIN d, d[i] = d[j]
               PROVE  i = j
    BY DEF IsInjective
  <2>1. i + 1 \in DOMAIN q /\ j + 1 \in DOMAIN q /\ q[i + 1] = q[j + 1]
    BY <1>1, <1>2, <1>3
  <2>2. i + 1 = j + 1
    BY <2>1 DEF IsInjective
  <2> QED BY <1>1, <1>3, <2>2
<1>8. ToSet(d) = ToSet(q) \ {Head(q)}
  <2>1. ASSUME NEW i \in DOMAIN d PROVE d[i] \in ToSet(q) \ {Head(q)}
    <3>1. i + 1 \in DOMAIN q /\ i + 1 # 1 /\ 1 \in DOMAIN q /\ d[i] = q[i + 1]
      BY <1>1, <1>2, <1>3
    <3> QED BY <1>1, <3>1 DEF ToSet, IsInjective
  <2>2. ASSUME NEW i \in DOMAIN q, q[i] # Head(q) PROVE q[i] \in ToSet(d)
    <3>1. i - 1 \in DOMAIN d /\ d[i - 1] = q[i]
      <4>1. i # 1
        BY <1>1, <2>2
      <4>2. i - 1 \in 1..(Len(q) - 1) /\ (i - 1) + 1 = i
        BY <1>1, <4>1
      <4> QED BY <1>2, <1>3, <4>2
    <3> QED BY <3>1 DEF ToSet
  <2> QED BY <2>1, <2>2 DEF ToSet
<1> QED BY <1>2, <1>3, <1>4, <1>5, <1>6, <1>7, <1>8 DEF d

-----------------------------------------------------------------------------
(* The inductive invariant *)

\* a Psym exists only for an id that was handed out
PsymsKnown == \A s \in psyms : symScope[s] # 0

Inv == /\ ScopeTypeOK
       /\ ScopesConsistent
       /\ MembersConsistent
       /\ PsymsKnown
       /\ ActiveInOpenScope
       /\ UniqueNames

LEMMA InitInv == Init => Inv
<1> SUFFICES ASSUME Init PROVE Inv
  OBVIOUS
<1>1. /\ scopes \in Seq(ScopeIds) /\ scopes # <<>> /\ DOMAIN scopes = {1} /\ scopes[1] = 1
      /\ Len(scopes) = 1
  BY SymScopeAssumption DEF Init, ScopeIds
<1>2. failed \in Failures
  BY DEF Init, Failures
<1>3. ScopeTypeOK
  BY <1>1, <1>2, SymScopeAssumption DEF Init, ScopeTypeOK, ScopeIds, SymIds
<1>4. ScopesConsistent
  BY <1>1 DEF Init, ScopesConsistent, IsInjective, ToSet, Last
<1>5. MembersConsistent
  BY SymScopeAssumption DEF Init, MembersConsistent, ScopeIds, SymIds
<1>6. PsymsKnown /\ ActiveInOpenScope /\ UniqueNames
  BY DEF Init, PsymsKnown, ActiveInOpenScope, UniqueNames
<1> QED BY <1>3, <1>4, <1>5, <1>6 DEF Inv

LEMMA StutterInv == Inv /\ UNCHANGED scopeVars => Inv'
<1> SUFFICES ASSUME Inv, UNCHANGED scopeVars PROVE Inv'
  OBVIOUS
<1> USE DEF scopeVars
<1>1. ScopeTypeOK'
  BY DEF Inv, ScopeTypeOK
<1>2. ScopesConsistent'
  BY DEF Inv, ScopesConsistent
<1>3. MembersConsistent'
  BY DEF Inv, MembersConsistent
<1>4. PsymsKnown' /\ ActiveInOpenScope' /\ UniqueNames'
  BY DEF Inv, PsymsKnown, ActiveInOpenScope, UniqueNames, Clash
<1> QED BY <1>1, <1>2, <1>3, <1>4 DEF Inv

LEMMA FailInv ==
  ASSUME Inv, NEW what \in Failures, Fail(what)
  PROVE  Inv'
BY DEF Inv, Fail, ssuVars, ScopeTypeOK, ScopesConsistent, MembersConsistent, PsymsKnown,
       ActiveInOpenScope, UniqueNames, Clash, IsInjective, ToSet, Last

LEMMA BeginScopeInv ==
  ASSUME Inv, begin_scope
  PROVE  Inv'
<1> DEFINE c == maxidSco + 1
<1>1. /\ c \in ScopeIds /\ c \notin ToSet(scopes)
      /\ scopes \in Seq(ScopeIds) /\ scopes # <<>> /\ IsInjective(scopes)
  BY SymScopeAssumption DEF Inv, ScopeTypeOK, ScopesConsistent, begin_scope, ScopeIds
<1>2. /\ scopes' \in Seq(ScopeIds) /\ scopes' # <<>>
      /\ Last(scopes') = Last(scopes)
      /\ IsInjective(scopes')
      /\ ToSet(scopes') = ToSet(scopes) \cup {c}
  <2>1. scopes' = <<c>> \o scopes
    BY DEF begin_scope
  <2> QED BY <1>1, <2>1, PushOnce
<1>3. ScopeTypeOK'
  BY <1>1, <1>2 DEF Inv, ScopeTypeOK, begin_scope
<1>4. ScopesConsistent'
  <2>1. 1..maxidSco' = (1..maxidSco) \cup {c} /\ c \notin stales
    BY SymScopeAssumption DEF Inv, ScopeTypeOK, ScopesConsistent, begin_scope, ScopeIds
  <2> QED BY <1>2, <2>1 DEF Inv, ScopesConsistent, begin_scope
<1>5. MembersConsistent'
  BY DEF Inv, MembersConsistent, begin_scope
<1>6. PsymsKnown' /\ ActiveInOpenScope' /\ UniqueNames'
  BY DEF Inv, PsymsKnown, ActiveInOpenScope, UniqueNames, Clash, begin_scope
<1> QED BY <1>3, <1>4, <1>5, <1>6 DEF Inv

LEMMA EndScopeInv ==
  ASSUME Inv, end_scope
  PROVE  Inv'
<1>1. CASE failed' = failed
  <2>1. /\ active' = active \ symsOf[scope]
        /\ scopes' = Tail(scopes)
        /\ activeSco' = activeSco \ {scope}
        /\ stales' = stales \cup {scope}
        /\ UNCHANGED <<maxidSym, maxidSco, symsOf, symScope, psyms, name>>
    BY <1>1 DEF end_scope, Fail, Running, LeftActive
  <2>2. /\ scopes \in Seq(ScopeIds) /\ IsInjective(scopes) /\ Len(scopes) > 1
    BY DEF Inv, ScopeTypeOK, ScopesConsistent, end_scope, CanEnd
  <2>3. /\ scopes' \in Seq(ScopeIds) /\ scopes' # <<>>
        /\ scope \in ToSet(scopes)
        /\ Last(scopes') = Last(scopes)
        /\ IsInjective(scopes')
        /\ ToSet(scopes') = ToSet(scopes) \ {scope}
    BY <2>1, <2>2, PopOnce DEF scope
  <2>4. scope \in activeSco /\ scope \in ScopeIds
    BY <2>3 DEF Inv, ScopeTypeOK, ScopesConsistent
  <2>5. ScopeTypeOK'
    BY <1>1, <2>1, <2>3, <2>4 DEF Inv, ScopeTypeOK
  <2>6. ScopesConsistent'
    BY <2>1, <2>3, <2>4 DEF Inv, ScopesConsistent
  <2>7. MembersConsistent'
    BY <2>1, <2>4 DEF Inv, MembersConsistent
  <2>8. ActiveInOpenScope'
    BY <2>1, <2>4 DEF Inv, ScopeTypeOK, MembersConsistent, ActiveInOpenScope
  <2>9. PsymsKnown' /\ UniqueNames'
    BY <2>1 DEF Inv, PsymsKnown, UniqueNames, Clash
  <2> QED BY <2>5, <2>6, <2>7, <2>8, <2>9 DEF Inv
<1>2. CASE failed' # failed
  <2>1. Fail("end_scope: found != syms.end()") \/ Fail("setREG: getActive()")
    BY <1>2 DEF end_scope
  <2>2. /\ "end_scope: found != syms.end()" \in Failures
        /\ "setREG: getActive()" \in Failures
    BY DEF Failures
  <2> QED BY <2>1, <2>2, FailInv
<1> QED BY <1>1, <1>2

LEMMA NewsymInv ==
  ASSUME Inv, NEW n \in Names \cup {Unnamed}, newsym(n)
  PROVE  Inv'
<1> DEFINE id == maxidSym + 1
<1>1. /\ id \in SymIds /\ maxidSym' = id /\ symScope[id] = 0
      /\ scope \in ScopeIds /\ scope \in activeSco
  <2>1. id \in SymIds /\ maxidSym \in Nat
    BY SymScopeAssumption DEF Inv, ScopeTypeOK, newsym, SymIds
  <2>2. symScope[id] = 0
    BY <2>1 DEF Inv, MembersConsistent
  <2>3. scope \in ScopeIds /\ scope \in ToSet(scopes)
    BY HeadTailProperties, LenProperties, EmptySeq DEF Inv, ScopeTypeOK, scope, ToSet
  <2>4. maxidSym' = id
    BY <2>1 DEF newsym, NextId
  <2> QED BY <2>1, <2>2, <2>3, <2>4 DEF Inv, ScopesConsistent
<1>2. /\ symsOf' = [symsOf EXCEPT ![scope] = @ \cup {id}]
      /\ symScope' = [symScope EXCEPT ![id] = scope]
      /\ UNCHANGED <<maxidSco, scopes, activeSco, stales, failed>>
  BY <1>1 DEF newsym, NextId, Declaring
<1>3. \/ NewsymThrows(n) /\ UNCHANGED <<psyms, name, active>>
      \/ /\ ~NewsymThrows(n)
         /\ psyms' = psyms \cup {id}
         /\ name' = [name EXCEPT ![id] = n]
         /\ active' = active \cup {id}
  BY <1>1 DEF newsym, NextId
<1>4. ScopeTypeOK'
  <2>1. maxidSym' \in 0..MaxSym
    BY <1>1, SymScopeAssumption DEF SymIds
  <2> QED BY <1>1, <1>2, <1>3, <2>1 DEF Inv, ScopeTypeOK
<1>5. ScopesConsistent'
  BY <1>2 DEF Inv, ScopesConsistent
<1>6. MembersConsistent'
  <2>1. ASSUME NEW c \in ScopeIds, NEW s \in SymIds
        PROVE  s \in symsOf'[c] <=> symScope'[s] = c
    BY <1>1, <1>2 DEF Inv, ScopeTypeOK, MembersConsistent, ScopeIds
  <2>2. ASSUME NEW s \in SymIds PROVE symScope'[s] # 0 <=> s <= maxidSym'
    <3>1. maxidSym \in Nat /\ s \in Nat /\ scope # 0
      BY <1>1 DEF Inv, ScopeTypeOK, SymIds, ScopeIds
    <3>2. CASE s = id
      BY <1>1, <1>2, <3>1, <3>2 DEF Inv, ScopeTypeOK
    <3>3. CASE s # id
      BY <1>1, <1>2, <3>1, <3>3 DEF Inv, ScopeTypeOK, MembersConsistent
    <3> QED BY <3>2, <3>3
  <2>3. ASSUME NEW s \in SymIds PROVE symScope'[s] \in activeSco' \cup stales' \cup {0}
    BY <1>1, <1>2 DEF Inv, ScopeTypeOK, MembersConsistent
  <2> QED BY <2>1, <2>2, <2>3 DEF MembersConsistent
<1>7. PsymsKnown' /\ ActiveInOpenScope'
  <2>1. scope # 0
    BY <1>1 DEF ScopeIds
  <2> QED BY <1>1, <1>2, <1>3, <2>1 DEF Inv, ScopeTypeOK, PsymsKnown, ActiveInOpenScope
<1>8. UniqueNames'
  <2>1. id \notin psyms
    BY <1>1 DEF Inv, PsymsKnown
  <2>2. \A u \in psyms : symScope'[u] = symScope[u] /\ (symScope[u] = scope => u \in symsOf[scope])
    BY <1>1, <1>2, <2>1 DEF Inv, ScopeTypeOK, MembersConsistent
  <2>3. CASE NewsymThrows(n)
    BY <1>3, <2>2, <2>3 DEF Inv, UniqueNames, Clash
  <2>4. CASE ~NewsymThrows(n)
    <3>1. /\ psyms' = psyms \cup {id} /\ name'[id] = n /\ symScope'[id] = scope
          /\ \A u \in psyms : name'[u] = name[u]
      BY <1>1, <1>2, <1>3, <2>1, <2>4 DEF Inv, ScopeTypeOK
    <3>2. \A u \in psyms : symScope[u] = scope => ~Clash(name[u], n) /\ ~Clash(n, name[u])
      BY <2>2, <2>4 DEF NewsymThrows, Clash
    <3> QED BY <2>2, <3>1, <3>2 DEF Inv, UniqueNames, Clash
  <2> QED BY <2>3, <2>4
<1> QED BY <1>4, <1>5, <1>6, <1>7, <1>8 DEF Inv

LEMMA DelsymInv ==
  ASSUME Inv, NEW s \in SymIds, delsym(s)
  PROVE  Inv'
<1>1. ScopeTypeOK'
  BY DEF Inv, delsym, ssuVars, ScopeTypeOK
<1>2. ScopesConsistent' /\ MembersConsistent'
  BY DEF Inv, delsym, ssuVars, ScopesConsistent, MembersConsistent
<1>3. PsymsKnown' /\ ActiveInOpenScope' /\ UniqueNames'
  BY DEF Inv, delsym, ssuVars, PsymsKnown, ActiveInOpenScope, UniqueNames, Clash
<1> QED BY <1>1, <1>2, <1>3 DEF Inv

LEMMA ActivateScopeInv ==
  ASSUME Inv, NEW c \in ScopeIds, activate_scope(c)
  PROVE  Inv'
<1>1. CASE failed' = failed
  <2>1. /\ c \in stales /\ symsOf[c] \subseteq psyms
        /\ active' = active \cup symsOf[c]
        /\ scopes' = <<c>> \o scopes
        /\ activeSco' = activeSco \cup {c}
        /\ stales' = stales \ {c}
        /\ UNCHANGED <<maxidSym, maxidSco, symsOf, symScope, psyms, name>>
    BY <1>1 DEF activate_scope, Fail, Running, StalesWithout
  <2>2. /\ scopes \in Seq(ScopeIds) /\ scopes # <<>> /\ IsInjective(scopes)
        /\ c \notin ToSet(scopes)
    BY <2>1 DEF Inv, ScopeTypeOK, ScopesConsistent
  <2>3. /\ scopes' \in Seq(ScopeIds) /\ scopes' # <<>>
        /\ Last(scopes') = Last(scopes)
        /\ IsInjective(scopes')
        /\ ToSet(scopes') = ToSet(scopes) \cup {c}
    BY <2>1, <2>2, PushOnce
  <2>4. ScopeTypeOK'
    BY <1>1, <2>1, <2>3 DEF Inv, ScopeTypeOK
  <2>5. ScopesConsistent'
    BY <2>1, <2>3 DEF Inv, ScopesConsistent
  <2>6. MembersConsistent'
    BY <2>1 DEF Inv, MembersConsistent
  <2>7. ActiveInOpenScope'
    BY <2>1 DEF Inv, ScopeTypeOK, MembersConsistent, ActiveInOpenScope
  <2>8. PsymsKnown' /\ UniqueNames'
    BY <2>1 DEF Inv, PsymsKnown, UniqueNames, Clash
  <2> QED BY <2>4, <2>5, <2>6, <2>7, <2>8 DEF Inv
<1>2. CASE failed' # failed
  <2>1. Fail("activate_scope: psym inactive") /\ "activate_scope: psym inactive" \in Failures
    BY <1>2 DEF activate_scope, Failures
  <2> QED BY <2>1, FailInv
<1> QED BY <1>1, <1>2

LEMMA NextInv == Inv /\ [ScopeNext]_scopeVars => Inv'
<1> SUFFICES ASSUME Inv, [ScopeNext]_scopeVars PROVE Inv'
  OBVIOUS
<1>1. ASSUME NEW n \in Names, newsym(n) PROVE Inv'
  BY <1>1, NewsymInv
<1>2. ASSUME NEW s \in SymIds, delsym(s) PROVE Inv'
  BY <1>2, DelsymInv
<1>3. ASSUME NEW c \in ScopeIds, activate_scope(c) PROVE Inv'
  BY <1>3, ActivateScopeInv
<1>4. CASE UNCHANGED scopeVars
  BY <1>4, StutterInv
<1> QED BY <1>1, <1>2, <1>3, <1>4, BeginScopeInv, EndScopeInv DEF ScopeNext

LEMMA Invariance == ScopeSpec => []Inv
<1> QED BY InitInv, NextInv, PTL DEF ScopeSpec

(* The tables of SymScopeUid and SymbStates hold values of their types.    *)
THEOREM TypeCorrect == ScopeSpec => []ScopeTypeOK
<1>1. Inv => ScopeTypeOK
  BY DEF Inv
<1> QED BY <1>1, Invariance, PTL

(* However begin_scope, end_scope and activate_scope are mixed, every      *)
(* scope is open once or stale, the hash set that active() reads agrees    *)
(* with the stack, and the global scope is at the bottom.                  *)
THEOREM ScopesStayConsistent == ScopeSpec => []ScopesConsistent
<1>1. Inv => ScopesConsistent
  BY DEF Inv
<1> QED BY <1>1, Invariance, PTL

(* The symbol sets of the scopes and the scopes of the symbols agree.      *)
THEOREM MembersStayConsistent == ScopeSpec => []MembersConsistent
<1>1. Inv => MembersConsistent
  BY DEF Inv
<1> QED BY <1>1, Invariance, PTL

(* A symbol is active only while its scope is open.                        *)
THEOREM ActiveOnlyInOpenScope == ScopeSpec => []ActiveInOpenScope
<1>1. Inv => ActiveInOpenScope
  BY DEF Inv
<1> QED BY <1>1, Invariance, PTL

(* No two symbols of a scope ever have the same name, whichever scopes     *)
(* were reopened and whichever newsym calls failed in between.             *)
THEOREM NamesStayUnique == ScopeSpec => []UniqueNames
<1>1. Inv => UniqueNames
  BY DEF Inv
<1> QED BY <1>1, Invariance, PTL

-----------------------------------------------------------------------------
(* What a step may never do *)

(* A symbol "cannot change scope": its id is handed out once.              *)
THEOREM SymbolsKeepScope == ScopeSpec => SymbolScopeFixed
<1> DEFINE Fixed == \A s \in SymIds : symScope[s] # 0 => symScope'[s] = symScope[s]
<1>1. ASSUME Inv, ScopeNext PROVE Fixed
  <2>1. ASSUME NEW n \in Names, newsym(n) PROVE Fixed
    <3>1. maxidSym + 1 \in SymIds /\ symScope[maxidSym + 1] = 0
      BY <1>1, <2>1, SymScopeAssumption
      DEF Inv, ScopeTypeOK, MembersConsistent, newsym, SymIds
    <3>2. symScope' = [symScope EXCEPT ![maxidSym + 1] = scope]
      <4>1. NextId = maxidSym + 1
        BY <1>1, SymScopeAssumption DEF Inv, ScopeTypeOK, NextId
      <4> QED BY <2>1, <4>1 DEF newsym
    <3> QED BY <1>1, <3>1, <3>2 DEF Inv, ScopeTypeOK
  <2>2. CASE begin_scope
    BY <2>2 DEF begin_scope
  <2>3. CASE end_scope
    BY <2>3 DEF end_scope, Fail, ssuVars
  <2>4. ASSUME NEW s \in SymIds, delsym(s) PROVE Fixed
    BY <2>4 DEF delsym, ssuVars
  <2>5. ASSUME NEW c \in ScopeIds, activate_scope(c) PROVE Fixed
    BY <2>5 DEF activate_scope, Fail, ssuVars
  <2> QED BY <1>1, <2>1, <2>2, <2>3, <2>4, <2>5 DEF ScopeNext
<1>2. Inv /\ [ScopeNext]_scopeVars => [Fixed]_scopeVars
  BY <1>1
<1> QED BY <1>2, Invariance, PTL DEF ScopeSpec, SymbolScopeFixed

(* Opening, ending or reopening a scope never touches the activity of a    *)
(* symbol of another scope.                                                *)
THEOREM ScopesIsolated == ScopeSpec => ScopeIsolation
<1> DEFINE Isolated == scopes' # scopes =>
             \A s \in SymIds : symScope[s] \notin {Head(scopes), Head(scopes')} =>
                                 (s \in active <=> s \in active')
<1>1. ASSUME Inv, ScopeNext PROVE Isolated
  <2>1. CASE begin_scope
    BY <2>1 DEF begin_scope
  <2>2. CASE end_scope
    <3>1. \A s \in SymIds : s \in symsOf[scope] => symScope[s] = scope
      <4>1. scope \in ScopeIds
        BY <1>1, HeadTailProperties DEF Inv, ScopeTypeOK, scope
      <4> QED BY <1>1, <4>1 DEF Inv, MembersConsistent
    <3> QED BY <2>2, <3>1 DEF end_scope, Fail, ssuVars, LeftActive, scope
  <2>3. ASSUME NEW n \in Names, newsym(n) PROVE Isolated
    BY <2>3 DEF newsym
  <2>4. ASSUME NEW s \in SymIds, delsym(s) PROVE Isolated
    BY <2>4 DEF delsym, ssuVars
  <2>5. ASSUME NEW c \in ScopeIds, activate_scope(c) PROVE Isolated
    <3>1. CASE scopes' = <<c>> \o scopes /\ active' = active \cup symsOf[c]
      <4>1. Head(scopes') = c
        <5>1. scopes \in Seq(ScopeIds) /\ scopes # <<>> /\ IsInjective(scopes)
              /\ c \notin ToSet(scopes)
          BY <1>1, <2>5 DEF Inv, ScopeTypeOK, ScopesConsistent, activate_scope
        <5> QED BY <3>1, <5>1, PushOnce
      <4>2. \A s \in SymIds : s \in symsOf[c] => symScope[s] = c
        BY <1>1 DEF Inv, MembersConsistent
      <4> QED BY <3>1, <4>1, <4>2
    <3>2. CASE UNCHANGED scopes
      BY <3>2
    <3> QED BY <2>5, <3>1, <3>2 DEF activate_scope, Fail, ssuVars
  <2> QED BY <1>1, <2>1, <2>2, <2>3, <2>4, <2>5 DEF ScopeNext
<1>2. Inv /\ [ScopeNext]_scopeVars => [Isolated]_scopeVars
  BY <1>1
<1> QED BY <1>2, Invariance, PTL DEF ScopeSpec, ScopeIsolation
=============================================================================
