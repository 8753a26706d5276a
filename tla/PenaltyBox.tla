----------------------------- MODULE PenaltyBox -----------------------------
(***************************************************************************)
(* What a greylist zone promises: a client that was sentenced is refused   *)
(* until its sentence is served, whatever it or anyone else sends, and     *)
(* however full the memory is; a sentence is neither cut short nor made    *)
(* longer; and a refusal never tells a client to come back too early.      *)
(***************************************************************************)
EXTENDS Integers

CONSTANT Client

VARIABLES
    time,      \* wall clock, in seconds
    sentence,  \* sentence[c]: when c's penalty ends; 0 if none is on record
    reply      \* the last answer

vars == <<time, sentence, reply>>

Serving(c) == time < sentence[c]

\* Nothing on record changes but that served sentences may be forgotten.
OnlyForget(S) ==
    \A d \in S : sentence'[d] # sentence[d] => sentence'[d] = 0 /\ ~Serving(d)

Init ==
    /\ time \in Nat
    /\ sentence = [c \in Client |-> 0]
    /\ reply.status = "none"

\* A client without a penalty to serve is let through.
Serve(c) ==
    /\ ~Serving(c)
    /\ reply'.client = c
    /\ reply'.status = "declined"
    /\ OnlyForget(Client)
    /\ time' = time

\* A client with a penalty on record is refused, and told a time at which it ends.
Refuse(c) ==
    /\ sentence[c] # 0
    /\ reply'.client = c
    /\ reply'.status = "429"
    /\ reply'.retry_after > 0
    /\ time + reply'.retry_after >= sentence[c]
    /\ sentence' = sentence
    /\ time' = time

\* A client without a penalty to serve is sentenced, on record or (when memory
\* is short) not.
Sentence(c) ==
    /\ ~Serving(c)
    /\ reply'.client = c
    /\ reply'.status = "429"
    /\ reply'.retry_after > 0
    /\ time + reply'.retry_after >= sentence'[c]
    /\ OnlyForget(Client \ {c})
    /\ time' = time

Pass ==
    /\ time' >= time
    /\ UNCHANGED <<sentence, reply>>

Next ==
    \/ Pass
    \/ \E c \in Client : Serve(c) \/ Refuse(c) \/ Sentence(c)

Spec == Init /\ [][Next]_vars

=============================================================================
