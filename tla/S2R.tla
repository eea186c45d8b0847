--------------------------------- MODULE S2R ---------------------------------
(***************************************************************************)
(* src/regs/s2r.hpp, class S2R: the two-way map between symbols and        *)
(* registers.  A register has at most one strong symbol and a list of weak *)
(* ones (oldest first); an unmapped ("old") symbol remembers its register. *)
(*                                                                         *)
(* The self-checks of the code (assert) are part of the model: the         *)
(* makefiles of src/regs build without NDEBUG, so a failed assert ends the *)
(* process.  aborted says that one failed; the maps are then left as they  *)
(* were before the call, since nobody can look at them any more.           *)
(***************************************************************************)
EXTENDS Naturals, Sequences, SequencesExt

CONSTANTS Sids,  \* symbol ids
          Regs,  \* register ids
          rBad,  \* invalidReg()
          sBad   \* symbol id 0

ASSUME S2RAssumption == /\ rBad \notin Regs
                        /\ sBad \notin Sids

VARIABLES sReg,    \* sReg_:   symbol -> register, rBad when the symbol is unknown
          strong,  \* strong_: register -> its strong symbol, or sBad
          weak,    \* weak_:   register -> its weak symbols, in push_back order
          sOld,    \* sOld_:   unmapped symbols
          sWeak,   \* sWeak_:  weak symbols
          aborted  \* an assert failed and the process is gone

tables == <<sReg, strong, weak, sOld, sWeak>>
vars == <<sReg, strong, weak, sOld, sWeak, aborted>>

Init == /\ sReg = [s \in Sids |-> rBad]
        /\ strong = [r \in Regs |-> sBad]
        /\ weak = [r \in Regs |-> <<>>]
        /\ sOld = {}
        /\ sWeak = {}
        /\ aborted = FALSE

-----------------------------------------------------------------------------
(* Queries *)

isStrong(s) == sReg[s] # rBad /\ strong[sReg[s]] = s
isWeak(s) == s \in sWeak
isOld(s) == s \in sOld
hasStrong(r) == strong[r] # sBad

-----------------------------------------------------------------------------
(* The common part of erase and unmap.  A mapped symbol that is not old is  *)
(* taken to be strong when its register has a strong symbol - whichever     *)
(* that is - and weak otherwise.                                            *)

Bound(s) == sReg[s] # rBad /\ ~isOld(s)
DropsStrong(s) == Bound(s) /\ hasStrong(sReg[s])
DropsWeak(s) == Bound(s) /\ ~hasStrong(sReg[s])

\* strong_ without the entry that erase(s) or unmap(s) removes
StrongWithout(s) == IF DropsStrong(s) THEN [strong EXCEPT ![sReg[s]] = sBad] ELSE strong

\* given weak lists and weak set, without the entries that erase(s) or unmap(s) removes
ListWithout_keeps(w, s) == w
ListWithout(w, s) == IF DropsWeak(s) THEN [w EXCEPT ![sReg[s]] = RemoveFirst(@, s)] ELSE w
WeakWithout(ws, s) == IF DropsWeak(s) THEN ws \ {s} ELSE ws

\* s is still in the weak set after the removal: assert(!isWeak(s)) fails;
\* or it was to be removed from there and is not in it: assert(sw != end) fails
LeftWeak_never(ws, s) == FALSE
LeftWeak(ws, s) == s \in WeakWithout(ws, s) \/ (DropsWeak(s) /\ s \notin ws)

Abort == aborted' = TRUE /\ UNCHANGED tables

-----------------------------------------------------------------------------
(* Operations *)

\* r has another strong symbol, which mkStrong(s, r) moves to the weak ones
Bumps_nobody(s, r) == strong[r] # s
Bumps(s, r) == hasStrong(r) /\ strong[r] # s
ListBumped_front(s, r) == IF Bumps(s, r) THEN [weak EXCEPT ![r] = <<strong[r]>> \o @] ELSE weak
ListBumped(s, r) == IF Bumps(s, r) THEN [weak EXCEPT ![r] = Append(@, strong[r])] ELSE weak
WeakBumped_forgets(s, r) == sWeak
WeakBumped(s, r) == IF Bumps(s, r) THEN sWeak \cup {strong[r]} ELSE sWeak

\* mkStrong(s, r): s becomes the strong symbol of r
mkStrong(s, r) ==
  /\ ~aborted
  /\ strong[r] # s
  /\ IF LeftWeak(WeakBumped(s, r), s)
     THEN Abort
     ELSE /\ strong' = [StrongWithout(s) EXCEPT ![r] = s]
          /\ weak' = ListWithout(ListBumped(s, r), s)
          /\ sWeak' = WeakWithout(WeakBumped(s, r), s)
          /\ sOld' = sOld \ {s}
          /\ sReg' = [sReg EXCEPT ![s] = r]
          /\ UNCHANGED aborted

\* mkWeak(s): a strong s becomes weak on its register (an unknown or old s throws)
mkWeak(s) ==
  /\ ~aborted
  /\ isStrong(s)
  /\ strong' = [strong EXCEPT ![sReg[s]] = sBad]
  /\ weak' = [weak EXCEPT ![sReg[s]] = Append(@, s)]
  /\ sWeak' = sWeak \cup {s}
  /\ UNCHANGED <<sReg, sOld, aborted>>

\* unmap(s): s gives up its register but remembers it
unmap(s) ==
  /\ ~aborted
  /\ Bound(s)
  /\ IF LeftWeak(sWeak, s)
     THEN Abort
     ELSE /\ strong' = StrongWithout(s)
          /\ weak' = ListWithout(weak, s)
          /\ sWeak' = WeakWithout(sWeak, s)
          /\ sOld' = sOld \cup {s}
          /\ UNCHANGED <<sReg, aborted>>

Next == \E s \in Sids : \/ \E r \in Regs : mkStrong(s, r)
                        \/ mkWeak(s)
                        \/ unmap(s)

Spec == Init /\ [][Next]_vars

-----------------------------------------------------------------------------
(* Properties *)

TypeOK == /\ sReg \in [Sids -> Regs \cup {rBad}]
          /\ strong \in [Regs -> Sids \cup {sBad}]
          /\ weak \in [Regs -> Seq(Sids)]
          /\ sOld \subseteq Sids
          /\ sWeak \subseteq Sids
          /\ aborted \in BOOLEAN

(* "Symbols have 4 disjoint states": a symbol with a register is exactly   *)
(* one of strong, weak and old, one without a register is none of them,    *)
(* and a register's strong symbol points back at it.  erase and unmap      *)
(* guess which container a symbol is in, so this is what their asserts     *)
(* have to protect.                                                        *)
FourStates ==
  /\ \A s \in Sids : /\ sReg[s] = rBad => ~isWeak(s) /\ ~isOld(s)
                     /\ sReg[s] # rBad => isStrong(s) \/ isWeak(s) \/ isOld(s)
                     /\ ~(isStrong(s) /\ isWeak(s))
                     /\ ~(isStrong(s) /\ isOld(s))
                     /\ ~(isWeak(s) /\ isOld(s))
  /\ \A r \in Regs : hasStrong(r) => sReg[strong[r]] = r

(* The weak lists and the weak set say the same: a weak symbol is listed   *)
(* once, under its own register, and nothing else is listed.               *)
WeakListed ==
  \A r \in Regs : /\ IsInjective(weak[r])
                  /\ ToSet(weak[r]) = {s \in sWeak : sReg[s] = r}

(* a comes before b in the list q; q became p, and kept the age of what    *)
(* stayed: a symbol is older than another just if it was listed before and *)
(* the other one was listed behind it or is new.                           *)
Older(q, a, b) == \E i, j \in DOMAIN q : i < j /\ q[i] = a /\ q[j] = b
KeepsAge(q, p) ==
  \A a, b \in ToSet(p) :
    a # b => (Older(p, a, b) <=> /\ a \in ToSet(q)
                                 /\ b \in ToSet(q) => Older(q, a, b))

(* The weak list of a register is a notion of staleness: symbols that stay *)
(* keep their order, and a newly weakened one comes last (so that there is *)
(* at most one of them).                                                   *)
StalenessOrder == [][\A r \in Regs : KeepsAge(weak[r], weak'[r])]_vars

(* Every call made through the public interface keeps the postconditions   *)
(* erase and unmap assert.                                                 *)
AssertsHold == ~aborted

-----------------------------------------------------------------------------
(* S2R implements SymRegMap. *)

KindOf(s) == IF isOld(s) THEN "old"
             ELSE IF isWeak(s) THEN "weak"
             ELSE IF isStrong(s) THEN "strong" ELSE "absent"

Map == INSTANCE SymRegMap WITH None <- rBad, home <- sReg,
                               kind <- [s \in Sids |-> KindOf(s)]

(* S2R's containers change as the four-state map does: in particular an    *)
(* operation on one symbol changes the state of no other symbol, except    *)
(* that mkStrong weakens the one it displaces.                             *)
ImplementsMap == Map!MapSpec
=============================================================================
