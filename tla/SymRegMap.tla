------------------------------ MODULE SymRegMap ------------------------------
(***************************************************************************)
(* What S2R (src/regs/s2r.hpp) promises its users: every symbol is in one  *)
(* of four states - absent, strong, weak or unmapped ("old") - and, unless *)
(* it is absent, remembers one register.  A register has at most one       *)
(* strong symbol.  The containers S2R keeps to answer its queries quickly  *)
(* are left out here; module S2R has them and implements this one.         *)
(***************************************************************************)
CONSTANTS Sids,  \* symbol ids
          Regs,  \* register ids
          None   \* rBad: no register

VARIABLES kind,  \* symbol -> "absent", "strong", "weak" or "old"
          home   \* symbol -> its last known register, or None

mapVars == <<kind, home>>

MapTypeOK == /\ kind \in [Sids -> {"absent", "strong", "weak", "old"}]
             /\ home \in [Sids -> Regs \cup {None}]

MapInit == /\ kind = [s \in Sids |-> "absent"]
           /\ home = [s \in Sids |-> None]

StrongOn(r) == {s \in Sids : kind[s] = "strong" /\ home[s] = r}

\* s takes r; the symbol that held r strongly, if another one, stays there weakly.
Take(s, r) ==
  /\ kind' = [t \in Sids |-> IF t = s THEN "strong"
                             ELSE IF t \in StrongOn(r) THEN "weak"
                             ELSE kind[t]]
  /\ home' = [home EXCEPT ![s] = r]

\* s keeps its register, but only weakly.
Weaken(s) == /\ kind[s] = "strong"
             /\ kind' = [kind EXCEPT ![s] = "weak"]
             /\ UNCHANGED home

\* s gives its register up, and remembers which one it was.
Release(s) == /\ kind[s] \in {"strong", "weak"}
              /\ kind' = [kind EXCEPT ![s] = "old"]
              /\ UNCHANGED home

MapNext == \E s \in Sids : \/ \E r \in Regs : Take(s, r)
                           \/ Weaken(s)
                           \/ Release(s)

MapSpec == MapInit /\ [][MapNext]_mapVars
=============================================================================
