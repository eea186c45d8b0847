----------------------------- MODULE MCFuseLoop -----------------------------
(* Small fused loops: one or three parts, all vector lengths but the least. *)
EXTENDS FuseLoop

MCPow == {1, 2, 4, 8, 16, 32, 64, 128, 256}

\* [z, lo, hi, end]: not split, two parts, three parts
Splits == {<<0, 0, 0, 2>>, <<0, 0, 0, 5>>, <<1, 3, 3, 5>>, <<0, 1, 3, 7>>, <<0, 4, 8, 9>>}

MCJobs == {w \in {[z |-> s[1], lo |-> s[2], hi |-> s[3], end |-> s[4],
                   jj |-> j, vlen |-> v, maxun |-> m] :
                     s \in Splits, j \in 1..9 \cup {12}, v \in {0, -6, 3, 4, 5, 8}, m \in {0, 3, 4, 6}} :
             w.end * w.jj + MVL < Safe}

\* two parts whose pairs do not fill vectors, each part unrolled to its end
OverhangJobs == {[z |-> 1, lo |-> 3, hi |-> 3, end |-> 5, jj |-> j, vlen |-> -6, maxun |-> m] :
                   j \in 1..9, m \in {4, 6}}
=============================================================================
