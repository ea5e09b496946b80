--------------------------- MODULE BudgetedSearch ---------------------------
(***************************************************************************)
(* What a request for several names promises: each name is searched by     *)
(* itself, with calls drawn one by one from a budget they share and only so*)
(* many names at once. A name ends when it has had all the calls it needs, *)
(* or when the budget is empty, and what it brings in depends on nothing   *)
(* but the calls it had. The answer merges what all names brought in, or is*)
(* the first error, and stays.                                             *)
(***************************************************************************)
EXTENDS Naturals, FiniteSets

CONSTANTS
    Name,
    AtOnce,     \* names searched at once
    Calls,      \* the budget
    Nothing,    \* what a name has brought in that has not ended
    Unanswered,
    Failures,   \* answers that are an error
    Need(_),    \* calls a name needs that has this source
    After(_, _),\* what it brings in after that many calls
    Merge(_)

VARIABLES
    source, \* where each name is searched
    left,   \* calls left in the budget
    had,    \* calls each name has had that is being searched; else 0
    over,   \* names whose search has ended
    found,  \* what they brought in
    answer

vars == <<source, left, had, over, found, answer>>

Searched == {n \in Name : had[n] # 0}

(* The first names start at once, with a call each.                        *)
Init ==
    /\ \E first \in SUBSET Name :
         /\ Cardinality(first) <= AtOnce
         /\ had = [n \in Name |-> IF n \in first THEN 1 ELSE 0]
         /\ left = Calls - Cardinality(first)
    /\ over = {}
    /\ found = [n \in Name |-> Nothing]
    /\ answer = Unanswered

Call(n) ==
    /\ n \notin over /\ had[n] < Need(source[n])
    /\ had[n] = 0 => Cardinality(Searched) < AtOnce
    /\ left > 0 /\ left' = left - 1
    /\ had' = [had EXCEPT ![n] = @ + 1]
    /\ UNCHANGED <<source, over, found, answer>>

Ends(n) ==
    /\ n \notin over /\ over' = over \cup {n}
    /\ had' = [had EXCEPT ![n] = 0]
    /\ UNCHANGED <<source, left>>

Finish(n) ==
    /\ Ends(n) /\ UNCHANGED answer
    /\ left = 0 \/ had[n] = Need(source[n])
    /\ found' = [found EXCEPT ![n] = After(source[n], had[n])]

Fail(n) ==
    /\ had[n] # 0
    /\ IF answer = Unanswered THEN answer' \in Failures ELSE UNCHANGED answer
    /\ Ends(n) /\ UNCHANGED found

Answer ==
    /\ answer = Unanswered /\ \A n \in Name : found[n] # Nothing
    /\ answer' = Merge(found)
    /\ UNCHANGED <<source, left, had, over, found>>

Next == Answer \/ \E n \in Name : Call(n) \/ Finish(n) \/ Fail(n)

Spec == Init /\ [][Next]_vars
=============================================================================
