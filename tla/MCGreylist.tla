----------------------------- MODULE MCGreylist -----------------------------
(* A zone of three nodes, used by two clients through two workers, and a   *)
(* reload that drops the burst and changes the timeouts.                   *)
EXTENDS Greylist

CONSTANTS c1, c2, w1, w2

LoginRule(burst, duration) ==
    [pattern |-> {"login"}, rate |-> 1000, burst |-> burst, duration |-> duration]

MCConfig == << [timeout |-> 1, rules |-> <<LoginRule(1000, 1)>>],
               [timeout |-> 2, rules |-> <<LoginRule(0, 2)>>] >>

Symmetry == Permutations(Worker) \cup Permutations(Client)

=============================================================================
