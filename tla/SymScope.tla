------------------------------ MODULE SymScope ------------------------------
(***************************************************************************)
(* src/regs/symScopeUid.hpp: symbols declared in nested scopes.            *)
(*                                                                         *)
(* Class SymScopeUid keeps the stack of open scopes, the list of ended     *)
(* ("stale") ones and which symbol id belongs to which scope; class        *)
(* SymbStates owns one ParSymbol ("Psym") per symbol, with its active      *)
(* flag, on top of it.  An ended scope can be opened again, and its        *)
(* symbols become active again with it.                                    *)
(*                                                                         *)
(* Calls that break a documented precondition (ending the global scope,    *)
(* deleting a symbol that is not active) are client errors and are not     *)
(* taken.  Any other failing assert of the code ends the process: failed   *)
(* names it.  Exceptions are caught by the client, which carries on.       *)
(***************************************************************************)
EXTENDS Integers, Sequences, FiniteSets, SequencesExt

CONSTANTS MaxSym,     \* bound: symbol ids handed out
          MaxScope,   \* bound: scope ids handed out
          Names,      \* symbol names
          Unnamed,    \* a name that clashes with none (a BASE without names)
          StrictBase  \* BASE::setActive(false) asserts that the symbol is
                      \* still active, as ScopedSpillableBase does

ASSUME SymScopeAssumption == /\ MaxSym \in Nat
                             /\ MaxScope \in Nat \ {0}
                             /\ Names # {}
                             /\ StrictBase \in BOOLEAN

SymIds == 1..MaxSym
ScopeIds == 1..MaxScope

VARIABLES maxidSym,  \* last symbol id handed out
          maxidSco,  \* last scope id handed out
          scopes,    \* open scopes, innermost first
          activeSco, \* hash set of the open scopes
          stales,    \* ended scopes
          symsOf,    \* scope -> the symbol ids declared in it
          symScope,  \* symbol -> its scope, 0 when unknown
          psyms,     \* symbols that own a Psym
          name,      \* symbol -> its name
          active,    \* symbols whose Psym is active
          failed     \* the assert that ended the process, or "none"

ssuVars == <<maxidSym, maxidSco, scopes, activeSco, stales, symsOf, symScope>>
scopeVars == <<maxidSym, maxidSco, scopes, activeSco, stales, symsOf, symScope,
               psyms, name, active, failed>>

Init == /\ maxidSym = 0
        /\ maxidSco = 1
        /\ scopes = <<1>>
        /\ activeSco = {1}
        /\ stales = {}
        /\ symsOf = [c \in ScopeIds |-> {}]
        /\ symScope = [s \in SymIds |-> 0]
        /\ psyms = {}
        /\ name = [s \in SymIds |-> Unnamed]
        /\ active = {}
        /\ failed = "none"

\* the asserts that can fail, those of module Spill included
Failures == {"none", "end_scope: found != syms.end()", "setREG: getActive()",
             "activate_scope: psym inactive", "spill: !getMEM() || getStale()",
             "spill: !getStale()"}

scope == Head(scopes)
Running == failed = "none"
Fail(what) == failed' = what /\ UNCHANGED <<ssuVars, psyms, name, active>>

-----------------------------------------------------------------------------
(* Queries *)

Clash(n, m) == n = m /\ n # Unnamed

-----------------------------------------------------------------------------
(* Operations *)

begin_scope ==
  /\ Running
  /\ maxidSco < MaxScope
  /\ maxidSco' = maxidSco + 1
  /\ scopes' = <<maxidSco + 1>> \o scopes
  /\ activeSco' = activeSco \cup {maxidSco + 1}
  /\ UNCHANGED <<maxidSym, stales, symsOf, symScope, psyms, name, active, failed>>

\* the global scope is never ended
CanEnd_global == Len(scopes) > 0
CanEnd == Len(scopes) > 1

\* what is still active when the symbols of the innermost scope are deactivated
LeftActive_popped == active \ symsOf[scopes[2]]
LeftActive_none == {}
LeftActive == active \ symsOf[scope]

\* every symbol of the innermost scope is deactivated, then the scope goes stale
end_scope ==
  /\ Running
  /\ CanEnd
  /\ IF ~(symsOf[scope] \subseteq psyms)
     THEN Fail("end_scope: found != syms.end()")
     ELSE IF StrictBase /\ ~(symsOf[scope] \subseteq active)
     THEN Fail("setREG: getActive()")
     ELSE /\ active' = LeftActive
          /\ scopes' = Tail(scopes)
          /\ activeSco' = activeSco \ {scope}
          /\ stales' = stales \cup {scope}
          /\ UNCHANGED <<maxidSym, maxidSco, symsOf, symScope, psyms, name, failed>>

\* newsym throws when the name is taken in the innermost scope, and also
\* when some symbol of that scope has no Psym to compare names with
NewsymThrows_active(n) == \E u \in symsOf[scope] :
                            u \notin psyms \/ (u \in active /\ Clash(name[u], n))
NewsymThrows(n) == \E u \in symsOf[scope] : u \notin psyms \/ Clash(name[u], n)

\* the scope whose symbol set the new id enters
Declaring_newest == maxidSco
Declaring == scope

\* the id of the next symbol
NextId_recycled == 1 + Cardinality(psyms)
NextId == 1 + maxidSym

\* the id is handed out and entered in the scope before the Psym is checked
newsym(n) ==
  LET id == NextId IN
  /\ Running
  /\ maxidSym < MaxSym
  /\ maxidSym' = id
  /\ symsOf' = [symsOf EXCEPT ![Declaring] = @ \cup {id}]
  /\ symScope' = [symScope EXCEPT ![id] = scope]
  /\ IF NewsymThrows(n)
     THEN UNCHANGED <<psyms, name, active>>
     ELSE /\ psyms' = psyms \cup {id}
          /\ name' = [name EXCEPT ![id] = n]
          /\ active' = active \cup {id}
  /\ UNCHANGED <<maxidSco, scopes, activeSco, stales, failed>>

\* deactivate a symbol, of any open scope, before its scope ends
delsym(s) ==
  /\ Running
  /\ s \in active
  /\ active' = active \ {s}
  /\ UNCHANGED <<ssuVars, psyms, name, failed>>

\* the stale scopes once c is open again
StalesWithout_keeps(c) == stales
StalesWithout(c) == stales \ {c}

\* reopen an ended scope, as the innermost one (a scope that is not stale throws)
activate_scope(c) ==
  /\ Running
  /\ c \in stales
  /\ IF symsOf[c] \subseteq psyms /\ symsOf[c] \cap active = {}
     THEN /\ active' = active \cup symsOf[c]
          /\ scopes' = <<c>> \o scopes
          /\ activeSco' = activeSco \cup {c}
          /\ stales' = StalesWithout(c)
          /\ UNCHANGED <<maxidSym, maxidSco, symsOf, symScope, psyms, name, failed>>
     ELSE Fail("activate_scope: psym inactive")

ScopeNext == \/ begin_scope
             \/ end_scope
             \/ \E n \in Names : newsym(n)
             \/ \E s \in SymIds : delsym(s)
             \/ \E c \in ScopeIds : activate_scope(c)

ScopeSpec == Init /\ [][ScopeNext]_scopeVars

-----------------------------------------------------------------------------
(* Properties *)

ScopeTypeOK == /\ maxidSym \in 0..MaxSym
               /\ maxidSco \in ScopeIds
               /\ scopes \in Seq(ScopeIds) /\ scopes # <<>>
               /\ activeSco \subseteq ScopeIds
               /\ stales \subseteq ScopeIds
               /\ symsOf \in [ScopeIds -> SUBSET SymIds]
               /\ symScope \in [SymIds -> ScopeIds \cup {0}]
               /\ psyms \subseteq SymIds
               /\ name \in [SymIds -> Names \cup {Unnamed}]
               /\ active \subseteq SymIds
               /\ failed \in Failures

(* However scopes are opened, ended and reopened - in any order - each one *)
(* is either on the stack, once, or stale; the hash set that active()      *)
(* reads agrees with the stack; and the global scope stays at the bottom.  *)
ScopesConsistent ==
  /\ IsInjective(scopes)
  /\ activeSco = ToSet(scopes)
  /\ activeSco \cap stales = {}
  /\ activeSco \cup stales = 1..maxidSco
  /\ Last(scopes) = 1

(* The two directions of the symbol/scope relation agree, and only ids     *)
(* that were handed out appear in it.                                      *)
MembersConsistent ==
  /\ \A c \in ScopeIds, s \in SymIds : s \in symsOf[c] <=> symScope[s] = c
  /\ \A s \in SymIds : symScope[s] # 0 <=> s <= maxidSym
  /\ \A s \in SymIds : symScope[s] \in activeSco \cup stales \cup {0}

(* A symbol is active only while its scope is open: end_scope reaches      *)
(* every symbol of the scope, also when the scope was reopened in another  *)
(* nesting or got new symbols since.                                       *)
ActiveInOpenScope == \A s \in active : s \in psyms /\ symScope[s] \in activeSco

(* No two symbols of a scope have the same name, deleted ones included,    *)
(* also when symbols are added to a reopened scope.                        *)
UniqueNames ==
  \A s, t \in psyms : s # t /\ symScope[s] = symScope[t] => ~Clash(name[s], name[t])

(* A symbol id is never used twice and "cannot change scope".              *)
SymbolScopeFixed ==
  [][\A s \in SymIds : symScope[s] # 0 => symScope'[s] = symScope[s]]_scopeVars

(* Entering or leaving a scope changes the activity of its own symbols     *)
(* only: the symbols of the scopes around it keep theirs.                  *)
ScopeIsolation ==
  [][scopes' # scopes =>
       \A s \in SymIds : symScope[s] \notin {Head(scopes), Head(scopes')} =>
                           (s \in active <=> s \in active')]_scopeVars

(* end_scope asserts that each symbol of the scope has a Psym.             *)
EndScopeFindsPsyms == failed # "end_scope: found != syms.end()"

(* end_scope may be used after delsym: deactivating the symbols of a scope *)
(* trips no assert of the symbols.                                         *)
EndScopeAfterDelsym == failed # "setREG: getActive()"
=============================================================================
