------------------------------ MODULE LossyLine ------------------------------
(***************************************************************************)
(* What the handlers rely on when messages come in over a socket: some may *)
(* be lost, but those that arrive arrive whole, once, and in the order in  *)
(* which they were sent.  Between them there may be noise.  As long as the *)
(* line has not been harmed, no handler is given noise.                    *)
(***************************************************************************)
EXTENDS Naturals, Sequences

CONSTANTS Messages,
          Noise,    \* what is on the line and is no message
          Sizes     \* how much may be put on the line at once

VARIABLES queue,    \* messages and noise on their way
          harmed,   \* may what was put together have come apart?
          received  \* what the handlers have been given

vars == <<queue, harmed, received>>

Init == queue = <<>> /\ ~harmed /\ received = <<>>

MayHarm == harmed' \in {harmed, TRUE}

Rest(q, n) == SubSeq(q, n + 1, Len(q))

(* A message, or noise, and noise behind it.                               *)
Burst(x, n) == [i \in 1..n |-> IF i = 1 THEN x ELSE Noise]

Put(x) == /\ \E n \in Sizes : queue' = queue \o Burst(x, n)
          /\ MayHarm
          /\ UNCHANGED received

Drop == \E n \in 1..Len(queue) : queue' = Rest(queue, n)

(* The message in front is given to the handlers; what follows may be lost *)
(* with it.                                                                *)
Take == /\ queue # <<>> /\ Head(queue) \in Messages
        /\ received' = Append(received, Head(queue))
        /\ Drop /\ MayHarm

Lose == /\ Drop /\ MayHarm
        /\ UNCHANGED received

(* What is in front is taken for a message, and given to a handler.        *)
Garble == /\ harmed
          /\ received' = Append(received, Noise)
          /\ Drop /\ MayHarm

Next == (\E x \in Messages \cup {Noise} : Put(x)) \/ Take \/ Lose \/ Garble

Spec == Init /\ [][Next]_vars

=============================================================================
