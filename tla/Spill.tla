-------------------------------- MODULE Spill --------------------------------
(***************************************************************************)
(* src/regs/spill2.hpp, spill2-impl.hpp and scopedSpillableBase.hpp: the   *)
(* spill area of a function under construction.  Symbols live in scopes    *)
(* (module SymScope); each has flags saying whether its value is in a      *)
(* register and in memory, and whether the memory copy is stale.  Spill    *)
(* assigns memory regions, at negative offsets from the frame pointer, to  *)
(* the symbols whose registers are needed for something else.              *)
(*                                                                         *)
(* The staleness counter of a symbol is only ever compared with zero: it   *)
(* is a set here.  Reloading is still a TODO in the code, so is emitting   *)
(* the store; intact stands for what that store would leave in memory.     *)
(***************************************************************************)
EXTENDS SymScope

CONSTANT Shapes  \* set of [len |-> bytes, align |-> power of two]

ASSUME ShapesAssumption == Shapes \subseteq [len : Nat, align : Nat \ {0}]

VARIABLES shape,  \* symbol -> its length and alignment
          inReg,  \* symbols with getREG()
          inMem,  \* symbols with getMEM()
          stale,  \* symbols with getStale() > 0
          bottom, \* largest extent of the spill area so far, <= 0
          use,    \* the regions, highest offset first
          intact  \* symbols whose region holds their current value

spillVars == <<shape, inReg, inMem, stale, bottom, use, intact>>
vars == <<maxidSym, maxidSco, scopes, activeSco, stales, symsOf, symScope,
          psyms, name, active, failed, shape, inReg, inMem, stale, bottom, use, intact>>

SpillInit == /\ Init
             /\ shape = [s \in SymIds |-> [len |-> 0, align |-> 1]]
             /\ inReg = {}
             /\ inMem = {}
             /\ stale = {}
             /\ bottom = 0
             /\ use = <<>>
             /\ intact = {}

-----------------------------------------------------------------------------
(* Regions and the holes between them *)

\* power-of-two rounding of a (negative) offset, up and down
alignup(i, a) == ((i + a - 1) \div a) * a
aligndown_up(i, a) == alignup(i, a)
aligndown(i, a) == (i \div a) * a

HasRegion(s) == \E i \in DOMAIN use : use[i].symId = s
End(r) == r.offset + r.len
Overlap(r, q) == r.offset < End(q) /\ q.offset < End(r)

\* the regions at these places of the list, in their order
Remaining(places) ==
  LET h == CHOOSE h \in SeqOf(places, Len(use)) :
             /\ \A i, j \in DOMAIN h : i < j => h[i] < h[j]
             /\ ToSet(h) = places
  IN  [k \in DOMAIN h |-> use[h[k]]]

\* hole i lies between region i and the one above it, or the frame pointer
Top(i) == IF i = 1 THEN 0 ELSE use[i - 1].offset
Slot_unaligned(i, s) == End(use[i])
Slot(i, s) == alignup(End(use[i]), shape[s].align)
Fits_gap(s) == {i \in DOMAIN use : Top(i) - End(use[i]) >= shape[s].len}
Fits_strict(s) == {i \in DOMAIN use : Top(i) - Slot(i, s) > shape[s].len}
Fits(s) == {i \in DOMAIN use : Top(i) - Slot(i, s) >= shape[s].len}
Excess(i, s) == (Top(i) - (Slot(i, s) + shape[s].len)) + 2 * (Slot(i, s) - End(use[i]))

\* newspill: the first hole of least excess, or below the last region
Place(s) == IF Fits(s) = {}
            THEN Len(use) + 1
            ELSE CHOOSE i \in Fits(s) :
                   \A j \in Fits(s) : \/ Excess(i, s) < Excess(j, s)
                                      \/ Excess(i, s) = Excess(j, s) /\ i <= j
NewOffset(s) == IF Fits(s) = {}
                THEN aligndown(Top(Len(use) + 1) - shape[s].len, shape[s].align)
                ELSE Slot(Place(s), s)
NewRegion(s) == [symId |-> s, offset |-> NewOffset(s), len |-> shape[s].len]

-----------------------------------------------------------------------------
(* Operations of the spill manager *)

\* the store into region r of symbol s: it holds the value of s, and no
\* longer that of a symbol whose region it overlaps
Store(s, r) == intact' = (intact \ {use'[i].symId : i \in {j \in DOMAIN use' : Overlap(use'[j], r)}})
                           \cup {s}

\* spill(s) does nothing but for an active symbol in a register
Spillable(s) == /\ s \in active \cap inReg
                /\ shape[s].len > 0

spill(s) ==
  /\ Running
  /\ Spillable(s)
  /\ IF s \in inMem \ stale
     THEN Fail("spill: !getMEM() || getStale()") /\ UNCHANGED spillVars
     ELSE IF ~HasRegion(s) /\ s \in stale
     THEN Fail("spill: !getStale()") /\ UNCHANGED spillVars
     ELSE /\ IF HasRegion(s)
             THEN UNCHANGED <<use, bottom>> /\ \E i \in DOMAIN use : use[i].symId = s /\ Store(s, use[i])
             ELSE /\ use' = InsertAt(use, Place(s), NewRegion(s))
                  /\ bottom' = IF NewOffset(s) < bottom THEN NewOffset(s) ELSE bottom
                  /\ Store(s, NewRegion(s))
          /\ inMem' = inMem \cup {s}
          /\ stale' = stale \ {s}
          /\ UNCHANGED <<scopeVars, shape, inReg>>

\* a region that gc takes back: its symbol is inactive, or has no fresh copy in memory
Garbage_unread(r) == r.symId \notin active \/ r.symId \notin inReg
Garbage(r) == \/ r.symId \notin active
              \/ r.symId \notin inMem
              \/ r.symId \in stale

\* the active symbols whose region gc takes back: setMEM(false), unStale()
Dropped == {s \in active : \E i \in DOMAIN use : use[i].symId = s /\ Garbage(use[i])}

MemAfterGc_keeps == inMem
MemAfterGc == inMem \ Dropped

KeptPlaces == {i \in DOMAIN use : ~Garbage(use[i])}
KeptRegions_compacted ==
  LET kept == Remaining(KeptPlaces)
  IN  IF kept = <<>> THEN kept
      ELSE [kept EXCEPT ![1].offset = aligndown(0 - kept[1].len, shape[kept[1].symId].align)]
KeptRegions == Remaining(KeptPlaces)

gc == /\ Running
      /\ use' = KeptRegions
      /\ inMem' = MemAfterGc
      /\ stale' = stale \ Dropped
      /\ UNCHANGED <<scopeVars, shape, inReg, bottom, intact>>

\* remove the region of s, whatever s thinks of it (throws when s has none);
\* it is public, but nothing in the repository calls it
erase(s) == /\ Running
            /\ \E i \in DOMAIN use :
                 /\ use[i].symId = s /\ \A j \in 1..(i - 1) : use[j].symId # s
                 /\ use' = Remaining(DOMAIN use \ {i})
            /\ UNCHANGED <<scopeVars, shape, inReg, inMem, stale, bottom, intact>>

-----------------------------------------------------------------------------
(* Operations on a symbol's flags, by the code generator; each asserts that *)
(* the symbol is active                                                     *)

\* writing a register makes a memory copy stale
StaleAfterWrite_forgets(s) == stale
StaleAfterWrite(s) == IF s \in inMem THEN stale \cup {s} ELSE stale

\* setREG(true): a register of s is written
setREG(s) == /\ Running
             /\ s \in active
             /\ inReg' = inReg \cup {s}
             /\ stale' = StaleAfterWrite(s)
             /\ intact' = intact \ {s}
             /\ UNCHANGED <<scopeVars, shape, inMem, bottom, use>>

\* setREG(false): the register is given to something else
unsetREG(s) == /\ Running
               /\ s \in active \cap inReg
               /\ inReg' = inReg \ {s}
               /\ UNCHANGED <<scopeVars, shape, inMem, stale, bottom, use, intact>>

\* setMEM(false): the memory copy is no longer wanted
unsetMEM(s) == /\ Running
               /\ s \in active \cap inMem
               /\ inMem' = inMem \ {s}
               /\ UNCHANGED <<scopeVars, shape, inReg, stale, bottom, use, intact>>

-----------------------------------------------------------------------------
(* Scope operations: a symbol that becomes inactive, or active again, is in *)
(* no register and not in memory (ScopedSpillableBase::setActive), but it   *)
(* keeps its region                                                         *)

Switched == (active \ active') \cup (active' \ active)

DropFlags_regsStay == /\ inMem' = inMem \ Switched
                      /\ UNCHANGED <<shape, inReg, stale, bottom, use, intact>>
DropFlags == /\ inReg' = inReg \ Switched
             /\ inMem' = inMem \ Switched
             /\ UNCHANGED <<shape, stale, bottom, use, intact>>

OpenScope == begin_scope /\ UNCHANGED spillVars
CloseScope == end_scope /\ DropFlags
DeleteSymbol(s) == delsym(s) /\ DropFlags
ReopenScope(c) == activate_scope(c) /\ DropFlags

Declare(sh) == /\ newsym(Unnamed)
               /\ shape' = [shape EXCEPT ![maxidSym + 1] = sh]
               /\ UNCHANGED <<inReg, inMem, stale, bottom, use, intact>>

Next == \/ OpenScope
        \/ CloseScope
        \/ gc
        \/ \E c \in ScopeIds : ReopenScope(c)
        \/ \E sh \in Shapes : Declare(sh)
        \/ \E s \in SymIds : \/ DeleteSymbol(s)
                             \/ setREG(s)
                             \/ unsetREG(s)
                             \/ unsetMEM(s)
                             \/ spill(s)
                             \/ erase(s)

Spec == SpillInit /\ [][Next]_vars

-----------------------------------------------------------------------------
(* Properties *)

Region == [symId : SymIds, offset : {o \in Int : o < 0}, len : Nat \ {0}]

TypeOK == /\ ScopeTypeOK
          /\ shape \in [SymIds -> [len : Nat, align : Nat \ {0}]]
          /\ inReg \subseteq SymIds
          /\ inMem \subseteq SymIds
          /\ stale \subseteq SymIds
          /\ bottom \in Int
          /\ use \in Seq(Region)
          /\ intact \subseteq SymIds

(* contiguity_check: the regions are listed from the top, do not overlap   *)
(* and lie between bottom and the frame pointer - after any mixture of     *)
(* spills into holes, erasures and collections.                            *)
Contiguous ==
  \A i \in DOMAIN use : /\ use[i].offset >= bottom
                        /\ End(use[i]) <= Top(i)

(* A region is as its symbol asks: aligned, of its length, and the only    *)
(* one of that symbol.                                                     *)
RegionFitsSymbol ==
  /\ \A i \in DOMAIN use : /\ use[i].offset % shape[use[i].symId].align = 0
                           /\ use[i].len = shape[use[i].symId].len
  /\ \A i, j \in DOMAIN use : use[i].symId = use[j].symId => i = j

Fresh(s) == s \in active \cap inMem /\ s \notin stale

(* A memory copy that is claimed to be fresh is the symbol's last value:   *)
(* no other symbol was stored over it, and it was written back after the   *)
(* last change of the register.                                            *)
FreshCopyIntact == \A s \in SymIds : Fresh(s) /\ HasRegion(s) => s \in intact

(* A symbol in a register or in memory is active, so a scope that ends     *)
(* gives back its registers and frees its memory for gc.                   *)
LocatedIsActive == inReg \cup inMem \subseteq active

(* A fresh memory copy has a region unless the client erased that: gc and  *)
(* the scope operations take back only what nobody claims, and no symbol   *)
(* comes to have a fresh copy that is nowhere, whatever it was before it   *)
(* became stale or inactive.                                               *)
FreshHasRegion ==
  [][\A s \in SymIds : Fresh(s)' /\ ~HasRegion(s)' =>
       (Fresh(s) /\ ~HasRegion(s)) \/ erase(s)]_vars

(* The value of an active symbol - in its register or in a fresh copy - is *)
(* lost only when the client gives it up by setREG(false) or setMEM(false).*)
(* In particular gc never takes the only copy.                             *)
HasValue(s) == s \in inReg \/ Fresh(s)
ValueKept ==
  [][\A s \in SymIds : HasValue(s) /\ s \in active' =>
       HasValue(s)' \/ unsetREG(s) \/ unsetMEM(s)]_vars

(* A region does not move while it exists: a stale copy is refreshed in    *)
(* the place the code emitted so far knows.                                *)
RegionsStay ==
  [][\A i \in DOMAIN use, j \in DOMAIN use' :
       use[i].symId = use'[j].symId => use[i] = use'[j]]_vars

(* The area grows only when no aligned gap above its lowest region can     *)
(* take the new symbol, wherever in that gap it would have to start.       *)
Free(o, n) == \A i \in DOMAIN use : ~Overlap([symId |-> 0, offset |-> o, len |-> n], use[i])
NoNeedlessGrowth ==
  [][bottom' < bottom =>
       \A s \in SymIds : HasRegion(s)' /\ ~HasRegion(s) =>
         ~\E o \in Top(Len(use) + 1)..(0 - shape[s].len) :
             o % shape[s].align = 0 /\ Free(o, shape[s].len)]_vars
=============================================================================
