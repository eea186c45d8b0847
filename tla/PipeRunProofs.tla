----------------------------- MODULE PipeRunProofs -----------------------------
(***************************************************************************)
(* Proofs about PipeRun: for pipes of any capacity and any command of the  *)
(* three kinds, run returns nothing but the whole output, delivers the     *)
(* whole input, and is killed only by a command that does not read it.     *)
(***************************************************************************)
EXTENDS PipeRun, TLAPS

-----------------------------------------------------------------------------
(* The inductive invariant *)

\* nothing the command writes is lost or invented on the way
Counts == \A s \in Outputs : got[s] + pipe[s] + left[s] = job[s]

\* what the command is about to do, it may do
Wants == /\ \A s \in Outputs : want = s => left[s] > 0
         /\ want = "exit" => MayExit

\* a command that has gone has written everything and, unless it is a
\* quitter, has read everything
Gone == child \in {"closed", "zombie", "reaped"} => MayExit

\* which states of the two processes go together
Phases == /\ child = "none" => pc \in {"open", "close", "done"} /\ ~sawEof
          /\ child = "reaped" => pc \in {"err", "out", "close", "done"}
          /\ child = "running" => pc \notin {"close", "done"}
          /\ child = "running" /\ pc \in {"err", "out"} => toSend = 0
          /\ pc \in {"peof", "flush"} => toSend <= 1
          /\ pc = "open" => child = "none"
          /\ pc = "done" => child \in {"none", "reaped"}
          /\ pc = "killed" => child # "none"

\* a stream has been drained when run goes on to the next one
Drained == /\ pc = "out" => child # "running" /\ pipe["err"] = 0
           /\ pc \in {"open", "close", "done"} => \A s \in Outputs : pipe[s] = 0

\* the status is known once the command has been waited for
Status == status = IF child = "reaped" THEN WaitWord(code) ELSE -1

\* the command sees end-of-file only when the caller has closed the pipe
Eof == sawEof => pc \in {"err", "out", "close", "done"}

Inv == /\ TypeOK /\ Counts /\ Wants /\ Gone /\ Phases /\ Drained /\ Status /\ Eof
       /\ InputDelivered /\ KilledByQuitter

-----------------------------------------------------------------------------
LEMMA InitInv == Init => Inv
<1> SUFFICES ASSUME Init PROVE Inv
  OBVIOUS
<1>1. job \in Jobs /\ job.inp \in Nat
  BY PipeAssumption DEF Init
<1>2. \A s \in Outputs : job[s] \in Nat
  BY <1>1, PipeAssumption DEF Outputs
<1>3. /\ pipe \in [{"in"} \cup Outputs -> 0..Cap]
      /\ got \in [Outputs -> Nat]
      /\ left \in [Outputs -> Nat]
  BY <1>2, PipeAssumption DEF Init
<1>4. TypeOK
  BY <1>1, <1>3 DEF Init, TypeOK
<1>5. Counts
  BY <1>2 DEF Init, Counts
<1>6. Wants /\ Gone /\ Phases /\ Drained /\ Status /\ Eof /\ InputDelivered /\ KilledByQuitter
  BY DEF Init, Wants, Gone, Phases, Drained, Status, Eof, InputDelivered, KilledByQuitter, Outputs
<1> QED BY <1>4, <1>5, <1>6 DEF Inv

LEMMA StutterInv == Inv /\ UNCHANGED vars => Inv'
BY DEF vars, Inv, TypeOK, Counts, Wants, MayExit, Gone, Phases, Drained, Status, Eof,
       InputDelivered, KilledByQuitter, Outputs

-----------------------------------------------------------------------------
(* What a step does to the data: types, and units of output *)

LEMMA CallerFlow == TypeOK /\ Counts /\ Phases /\ Caller => TypeOK' /\ Counts'
<1> SUFFICES ASSUME TypeOK, Counts, Phases, Caller PROVE TypeOK' /\ Counts'
  OBVIOUS
<1> USE PipeAssumption DEF TypeOK, Counts
<1>1. CASE Open
  BY <1>1 DEF Open, childVars
<1>2. CASE Write
  BY <1>2 DEF Write, childVars, Outputs
<1>3. CASE Written
  BY <1>3 DEF Written, childVars
<1>4. CASE Peof
  BY <1>4 DEF Peof, Reap, WaitWord, childVars
<1>5. CASE Flush
  BY <1>5 DEF Flush, Flushed, Phases, childVars, Outputs
<1>6. ASSUME NEW s \in Outputs, Drain(s) PROVE TypeOK' /\ Counts'
  BY <1>6 DEF Drain, After, childVars, Outputs
<1>7. CASE Close
  BY <1>7 DEF Close, Reap, WaitWord, childVars
<1> QED BY <1>1, <1>2, <1>3, <1>4, <1>5, <1>6, <1>7 DEF Caller, Outputs

LEMMA CommandFlow == TypeOK /\ Counts /\ Wants /\ Command => TypeOK' /\ Counts'
<1> SUFFICES ASSUME TypeOK, Counts, Wants, Command PROVE TypeOK' /\ Counts'
  OBVIOUS
<1> USE PipeAssumption DEF TypeOK, Counts
<1>1. CASE Decide
  BY <1>1 DEF Decide, callerVars, Outputs
<1>2. CASE Read
  <2>1. sawEof' \in BOOLEAN
    BY <1>2 DEF Read
  <2>2. pipe' \in [{"in"} \cup Outputs -> 0..Cap] /\ \A s \in Outputs : pipe'[s] = pipe[s]
    BY <1>2 DEF Read, Outputs
  <2> QED BY <1>2, <2>1, <2>2 DEF Read, callerVars
<1>3. ASSUME NEW s \in Outputs, Put(s) PROVE TypeOK' /\ Counts'
  BY <1>3 DEF Put, Wants, callerVars, Outputs
<1>4. CASE Exit
  BY <1>4 DEF Exit, callerVars
<1> QED BY <1>1, <1>2, <1>3, <1>4 DEF Command, Outputs

-----------------------------------------------------------------------------
(* How a step moves the two processes *)

Control == /\ Wants /\ Gone /\ Phases /\ Drained /\ Status /\ Eof
           /\ InputDelivered /\ KilledByQuitter

LEMMA CallerControl == Inv /\ Caller => Control'
<1> SUFFICES ASSUME Inv, Caller PROVE Control'
  OBVIOUS
<1> USE DEF Inv, Control, Wants, MayExit, Gone, Phases, Drained, Status, Eof, InputDelivered,
            KilledByQuitter, childVars
<1>1. CASE Open
  BY <1>1 DEF Open
<1>2. CASE Write
  BY <1>2 DEF Write, TypeOK, Outputs
<1>3. CASE Written
  BY <1>3 DEF Written
<1>4. CASE Peof
  BY <1>4 DEF Peof, Reap, TypeOK, WaitWord
<1>5. CASE Flush
  BY <1>5 DEF Flush, TypeOK, Outputs
<1>6. CASE Drain("err")
  BY <1>6 DEF Drain, AtEof, After, TypeOK, Outputs
<1>7. CASE Drain("out")
  BY <1>7 DEF Drain, AtEof, After, TypeOK, Outputs
<1>8. CASE Close
  BY <1>8 DEF Close, Reap
<1> QED BY <1>1, <1>2, <1>3, <1>4, <1>5, <1>6, <1>7, <1>8 DEF Caller

LEMMA CommandControl == Inv /\ Command => Control'
<1> SUFFICES ASSUME Inv, Command PROVE Control'
  OBVIOUS
<1> USE DEF Inv, Control, Wants, MayExit, Gone, Phases, Drained, Status, Eof, InputDelivered,
            KilledByQuitter, callerVars
<1>1. CASE Decide
  <2>1. UNCHANGED <<job, pc, toSend, pipe, got, status, child, left, sawEof, code>>
    BY <1>1 DEF Decide
  <2>2. \/ want' = "read"
        \/ want' \in Outputs /\ left[want'] > 0
        \/ want' = "exit" /\ MayExit
    BY <1>1 DEF Decide
  <2>3. Wants'
    BY <2>1, <2>2 DEF Outputs
  <2> QED BY <2>1, <2>3
<1>2. CASE Read
  BY <1>2 DEF Read, Command, WriterOpen, TypeOK, Outputs
<1>3. ASSUME NEW s \in Outputs, Put(s) PROVE Control'
  BY <1>3 DEF Put, Command, TypeOK, Outputs
<1>4. CASE Exit
  BY <1>4 DEF Exit, Command, TypeOK
<1> QED BY <1>1, <1>2, <1>3, <1>4 DEF Command, Outputs

-----------------------------------------------------------------------------
(* The theorems *)

LEMMA Invariance == Spec => []Inv
<1>1. Inv /\ [Next]_vars => Inv'
  BY CallerFlow, CommandFlow, CallerControl, CommandControl, StutterInv DEF Inv, Control, Next
<1> QED BY InitInv, <1>1, PTL DEF Spec

(* The pipes never hold more than they can, and the counters stay counters. *)
THEOREM TypeCorrect == Spec => []TypeOK
BY Invariance, PTL DEF Inv

(* run returns the whole output of the command: both outputs are read to   *)
(* end-of-file, which a pipe only shows once the command, having written   *)
(* everything, is gone.  The status it returns is the command's wait       *)
(* status, whoever collected it: 0 exactly if the command exited with 0.   *)
THEOREM OutputIsComplete == Spec => []Complete
<1>1. Inv => Complete
  BY DEF Inv, TypeOK, Counts, Gone, MayExit, Phases, Drained, Status, Complete, WaitWord, Outputs
<1> QED BY <1>1, Invariance, PTL

(* The command never sees end-of-file before the last of its input.        *)
THEOREM InputIsDelivered == Spec => []InputDelivered
BY Invariance, PTL DEF Inv

(* A command that reads all its input cannot make the caller die.          *)
THEOREM OnlyQuittersKill == Spec => []KilledByQuitter
BY Invariance, PTL DEF Inv
=============================================================================
