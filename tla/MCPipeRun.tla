------------------------------ MODULE MCPipeRun ------------------------------
(* Model checking of PipeRun: pipes of two units; strings and outputs from *)
(* nothing to more than a pipe holds.                                      *)
EXTENDS PipeRun

MCJobs == [kind : Kinds, inp : 0..4, out : 0..3, err : 0..3]

\* hexdump -C of a blob: more lines of stdout than a pipe holds
HexdumpJobs == {[kind |-> "filter", inp |-> 1, out |-> 3, err |-> 0]}
=============================================================================
