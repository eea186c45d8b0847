-------------------------------- MODULE PipeRun --------------------------------
(***************************************************************************)
(* PstreamPipe::run of src/jitpipe.hpp: a string is piped into a command   *)
(* (an assembler, a disassembler, a compiler) whose stdout and stderr come *)
(* back as strings.  Two processes - the caller and the command - are      *)
(* connected by three bounded pipes; the stream class is the vendored      *)
(* src/pstreams-1.0.1/pstream.h.                                           *)
(*                                                                         *)
(* A unit of data is a full buffer of the stream class.  A pipe is first-  *)
(* in-first-out, so the number of units in it is all that matters.  The    *)
(* caller does not handle SIGPIPE: writing to a command that has closed    *)
(* its stdin kills it.                                                     *)
(***************************************************************************)
EXTENDS Integers

CONSTANTS Cap,  \* capacity of a pipe
          Jobs  \* what is run: [kind, inp, out, err] (see below)

(* The commands: a "sink" (cat > file; ...) reads all its input before it  *)
(* writes, a "filter" (hexdump, cpp) reads and writes in any order but     *)
(* reads all its input, a "quitter" (cc file.c) may exit without reading.  *)
(* It writes out units to stdout and err units to stderr.                  *)
Kinds == {"sink", "filter", "quitter"}

Outputs == {"out", "err"}

ASSUME PipeAssumption == /\ Cap \in Nat \ {0}
                         /\ Jobs \subseteq [kind : Kinds, inp : Nat, out : Nat, err : Nat]

VARIABLES job,    \* the job of this call
          pc,     \* where run is: "open", "write", "peof", "flush", "err",
                  \* "out", "close", "done" or "killed"
          toSend, \* units of the string not yet written to the pipe
          pipe,   \* [in, out, err]: units in each pipe
          got,    \* [out, err]: units in this->out and this->err
          status, \* this->status: a wait status, or -1
          child,  \* the command: "none", "running", "closed", "zombie" or "reaped"
          want,   \* the operation it is about to do, or "none"
          left,   \* [out, err]: units it has yet to write
          sawEof, \* it has read end-of-file on its stdin
          code    \* its exit code

callerVars == <<pc, toSend, got, status>>
childVars == <<want, left, sawEof, code>>
vars == <<job, pc, toSend, pipe, got, status, child, want, left, sawEof, code>>

Init == /\ job \in Jobs
        /\ pc = "open"
        /\ toSend = job.inp
        /\ pipe = [p \in {"in"} \cup Outputs |-> 0]
        /\ got = [s \in Outputs |-> 0]
        /\ status = -1
        /\ child = "none"
        /\ want = "none"
        /\ left = [s \in Outputs |-> job[s]]
        /\ sawEof = FALSE
        /\ code = 0

\* the caller holds the write end of the command's stdin
WriterOpen_noPeof == pc \notin {"killed", "done"}
WriterOpen_early == pc = "write"
WriterOpen == pc \in {"write", "peof", "flush"}

-----------------------------------------------------------------------------
(* The caller *)

\* the redi::pstream is opened; when fork fails every later operation does
\* nothing, and close() forgets the error code
Open == /\ pc = "open"
        /\ pc' \in {"write", "close"}
        /\ child' = IF pc' = "write" THEN "running" ELSE "none"
        /\ UNCHANGED <<job, toSend, pipe, got, status, childVars>>

\* jitcmd << code: the stream buffer is full and more follows, so it is
\* written to the pipe, which blocks while that is full
Write == /\ pc = "write" /\ toSend > 1
         /\ IF child # "running"
            THEN pc' = "killed" /\ UNCHANGED <<toSend, pipe>>
            ELSE /\ pipe.in < Cap
                 /\ pipe' = [pipe EXCEPT !.in = @ + 1]
                 /\ toSend' = toSend - 1
                 /\ UNCHANGED pc
         /\ UNCHANGED <<job, got, status, child, childVars>>

Written == /\ pc = "write" /\ toSend <= 1
           /\ pc' = "peof"
           /\ UNCHANGED <<job, toSend, pipe, got, status, child, childVars>>

\* what waitpid stores for a command that has exited with code c: the code is
\* in the second byte (no command of ours is ended by a signal)
WaitWord(c) == 256 * c

\* the status of a command that has exited is collected by any call of exited():
\* the word itself, nobody takes the exit code out of it
Reap == /\ child = "zombie"
        /\ child' = "reaped"
        /\ status' = WaitWord(code)

\* << peof asks first whether the command has exited: the rest of the string
\* is dropped then
Peof == /\ pc = "peof"
        /\ \/ Reap /\ pc' = "err"
           \/ child # "zombie" /\ pc' = "flush" /\ UNCHANGED <<child, status>>
        /\ UNCHANGED <<job, toSend, pipe, got, childVars>>

\* << peof flushes the stream buffer and closes the pipe
Flushed_twice == 2 * toSend
Flushed == toSend
Flush == /\ pc = "flush"
         /\ IF toSend > 0 /\ child # "running"
            THEN pc' = "killed" /\ UNCHANGED <<toSend, pipe>>
            ELSE /\ toSend = 0 \/ pipe.in < Cap
                 /\ pipe' = [pipe EXCEPT !.in = @ + Flushed]
                 /\ toSend' = 0
                 /\ pc' = "err"
         /\ UNCHANGED <<job, got, status, child, childVars>>

\* a blocking read of an empty pipe returns end-of-file once nobody can write to it
AtEof_empty(s) == pipe[s] = 0
AtEof(s) == pipe[s] = 0 /\ child # "running"

\* ss << jitcmd.rdbuf(): everything up to end-of-file, stderr first, then stdout
After == [err |-> "out", out |-> "close"]
Drain(s) == /\ pc = s
            /\ IF AtEof(s)
               THEN pc' = After[s] /\ UNCHANGED <<pipe, got>>
               ELSE /\ pipe[s] > 0
                    /\ pipe' = [pipe EXCEPT ![s] = @ - 1]
                    /\ got' = [got EXCEPT ![s] = @ + 1]
                    /\ UNCHANGED pc
            /\ UNCHANGED <<job, toSend, status, child, childVars>>

\* close() waits for the command, if there is one whose exit was not seen yet
Close == /\ pc = "close"
         /\ \/ Reap
            \/ child \in {"none", "reaped"} /\ UNCHANGED <<child, status>>
         /\ pc' = "done"
         /\ UNCHANGED <<job, toSend, pipe, got, childVars>>

Caller == Open \/ Write \/ Written \/ Peof \/ Flush \/ Drain("err") \/ Drain("out") \/ Close

-----------------------------------------------------------------------------
(* The command.  It first decides what to do next, and then cannot do      *)
(* anything else until the pipe lets it.                                   *)

MayWrite == job.kind = "sink" => sawEof
MayExit == left.out = 0 /\ left.err = 0 /\ (job.kind # "quitter" => sawEof)

Decide == /\ child = "running" /\ want = "none"
          /\ \/ ~sawEof /\ want' = "read"
             \/ \E s \in Outputs : MayWrite /\ left[s] > 0 /\ want' = s
             \/ MayExit /\ want' = "exit"
          /\ UNCHANGED <<job, callerVars, pipe, child, left, sawEof, code>>

Read == /\ child = "running" /\ want = "read"
        /\ IF pipe.in > 0
           THEN pipe' = [pipe EXCEPT !.in = @ - 1] /\ UNCHANGED sawEof
           ELSE ~WriterOpen /\ sawEof' = TRUE /\ UNCHANGED pipe
        /\ want' = "none"
        /\ UNCHANGED <<job, callerVars, child, left, code>>

Put(s) == /\ child = "running" /\ want = s
          /\ pipe[s] < Cap
          /\ pipe' = [pipe EXCEPT ![s] = @ + 1]
          /\ left' = [left EXCEPT ![s] = @ - 1]
          /\ want' = "none"
          /\ UNCHANGED <<job, callerVars, child, sawEof, code>>

\* it exits: its ends of the pipes are closed, then it can be waited for
Exit == /\ \/ child = "running" /\ want = "exit" /\ child' = "closed" /\ code' \in {0, 1}
           \/ child = "closed" /\ child' = "zombie" /\ UNCHANGED code
        /\ UNCHANGED <<job, callerVars, pipe, want, left, sawEof>>

Command == pc # "killed" /\ (Decide \/ Read \/ Put("out") \/ Put("err") \/ Exit)

Next == Caller \/ Command

\* both processes are scheduled, and a blocked one goes on when it can
Spec == Init /\ [][Next]_vars /\ WF_vars(Caller) /\ WF_vars(Command)

-----------------------------------------------------------------------------
(* Properties *)

TypeOK == /\ job \in Jobs
          /\ pc \in {"open", "write", "peof", "flush", "err", "out", "close", "done", "killed"}
          /\ toSend \in Nat
          /\ pipe \in [{"in"} \cup Outputs -> 0..Cap]
          /\ got \in [Outputs -> Nat]
          /\ status \in {-1, WaitWord(0), WaitWord(1)}
          /\ child \in {"none", "running", "closed", "zombie", "reaped"}
          /\ want \in {"none", "read", "out", "err", "exit"}
          /\ left \in [Outputs -> Nat]
          /\ sawEof \in BOOLEAN
          /\ code \in {0, 1}

(* When run returns, out and err are all the command wrote, and status is  *)
(* 0 exactly if it exited with 0 ("OK == 0", jitpipe.hpp:44), or -1 when   *)
(* it could not be started.  Status is not the exit code, as jitpipe.hpp:22*)
(* and jitpipe_fwd.hpp:47 have it: exit(1) comes back as 256.              *)
Complete ==
  pc = "done" => IF child = "none"
                 THEN status = -1
                 ELSE /\ status # -1 /\ (status = 0 <=> code = 0)
                      /\ \A s \in Outputs : got[s] = job[s]

(* The command sees end-of-file only after the whole string: nothing that  *)
(* is still in the stream buffer is lost when peof closes the pipe.        *)
InputDelivered == sawEof => toSend = 0 /\ pipe.in = 0

(* Only a command that does not read all its input can make the caller die *)
(* of SIGPIPE, and only by exiting before the caller has written it all.   *)
KilledByQuitter == pc = "killed" => job.kind = "quitter" /\ toSend > 0

Returned == pc \in {"done", "killed"}

(* run returns when the command cannot fill a pipe nobody reads: stdout    *)
(* while stderr is being read, stderr while the string is being written.   *)
FitsPipes == /\ job.out <= Cap
             /\ \/ job.inp <= Cap
                \/ job.kind = "sink"
                \/ job.err <= Cap
Returns == FitsPipes ~> Returned

(* run returns, whatever the command: "cat in_string | pipe_cmd            *)
(* 1>out_string 2>err_string".                                             *)
AlwaysReturns == <>Returned
=============================================================================
