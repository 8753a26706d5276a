--------------------------- MODULE MCGreylistRate ---------------------------
(* One rule of 1 r/s with a burst of one request and a penalty of three    *)
(* seconds, in a zone that never runs out of memory.                       *)
EXTENDS GreylistRate

CONSTANTS c1, c2, w1, w2

MCConfig ==
    << [timeout |-> 2,
        rules |-> <<[pattern |-> {"login"}, rate |-> 1000, burst |-> 1000,
                     duration |-> 3]>>] >>

Symmetry == Permutations(Worker) \cup Permutations(Client)

=============================================================================
