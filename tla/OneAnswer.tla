------------------------------ MODULE OneAnswer ------------------------------
(***************************************************************************)
(* What a service that answers questions promises: whoever asks is told    *)
(* once, a right answer to the question or that there was an error, and    *)
(* those who are told together are told the same. Nothing else is shared.  *)
(***************************************************************************)
CONSTANTS
    Client,
    Question,
    Right,     \* the right answers to each question
    Error,
    None

VARIABLES question, answer

vars == <<question, answer>>

Init ==
    /\ question = [c \in Client |-> None]
    /\ answer = [c \in Client |-> None]

(* A client asks, and may be turned away at once.                          *)
Asks(c) ==
    /\ question[c] = None /\ question'[c] \in Question
    /\ question' = [question EXCEPT ![c] = question'[c]]

Ask(c)    == Asks(c) /\ UNCHANGED answer
Refuse(c) == Asks(c) /\ answer' = [answer EXCEPT ![c] = Error]

(* Those who are told in a step.                                           *)
Told == {c \in Client : answer'[c] # answer[c]}

Tell ==
    /\ \A c \in Told : /\ question[c] # None /\ answer[c] = None
                       /\ answer'[c] \in {Error} \cup Right[question[c]]
    /\ \A c, d \in Told : answer'[c] = answer'[d]
    /\ answer' = [c \in Client |-> answer'[c]]
    /\ UNCHANGED question

Next == Tell \/ \E c \in Client : Ask(c) \/ Refuse(c)

Spec == Init /\ [][Next]_vars
=============================================================================
