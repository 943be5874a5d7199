---------------------------- MODULE MCHeaderRules ----------------------------
(* A fixed point of two bits for the exponent of ASERT.                    *)
EXTENDS HeaderRules

FourthPowers == [f \in 0..3 |-> <<4, 5, 6, 7>>[f + 1]]
=============================================================================
