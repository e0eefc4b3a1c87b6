------------------------------- MODULE MCWire -------------------------------
(* Wire with the tables of rcboard.conf.                                    *)
EXTENDS Wire

MCAxis == [c \in 0 .. 3 |-> CASE c = 0 -> 1 [] c = 1 -> 0 [] OTHER -> c]

\* ppm_zero all at 90, as config.c has it by default.
MCDefaultZero == [o \in 0 .. 3 |-> 90]

\* Of all numbers buttonstate can have, a sum of bits 1 to 11, two pass for an
\* axis: UP alone for channel 2, the second additional key alone for channel 0.
ASSUME ButtonsThatPass ==
  {n \in 0 .. 4095 : n % 2 = 0 /\ PassesForAxis(n)} = {2, 512}

MCRates == {-1, 0, 1500, 1600000, 16909060, 2147483647}

=============================================================================
