----------------------------- MODULE MCRcBoard -----------------------------
(* Instances of RcBoard for TLC.  The axis table of rcboard.conf swaps the   *)
(* first two outputs (axis0=1, axis1=0); an instance keeps the first axes.   *)
EXTENDS RcBoard

MCAxisPair == [a \in 0 .. 1 |-> 1 - a]
MCAxisSingle == [a \in {0} |-> 0]

=============================================================================
