---------------------------- MODULE TokenRotation ----------------------------
(***************************************************************************)
(* What the shared token promises to those who work with it, as a register *)
(* that one elected refresher at a time may write: only with the newest    *)
(* token, which it has logged in for itself. Everybody else works with     *)
(* what the register held when it was read. Once the election has been     *)
(* overrun, all that is left is that tokens come from logins.              *)
(***************************************************************************)
EXTENDS Naturals

CONSTANTS
    Client,     \* those who work with a token
    Refresher   \* those who may be elected; a client may be

VARIABLES
    elected,  \* the refresher on its way to a new token, if there is one
    bearer,   \* it again, once it has got the token
    newest,   \* tokens are numbered in the order they are issued in
    stored,   \* the register; 0 is none
    using,    \* the token each client works with; 0 is none
    overrun   \* has the election been overrun?

vars == <<elected, bearer, newest, stored, using, overrun>>

Init ==
    /\ elected = {}
    /\ bearer = {}
    /\ newest = 1
    /\ stored \in {0, 1}
    /\ using = [c \in Client |-> 0]
    /\ overrun = FALSE

Elect(r) ==
    /\ elected = {} /\ elected' = {r}
    /\ UNCHANGED <<bearer, newest, stored, using>>

LogIn(r) ==
    /\ elected = {r} /\ bearer = {} /\ bearer' = {r}
    /\ newest' = newest + 1
    /\ UNCHANGED <<elected, stored, using>>

Store ==
    /\ bearer # {} /\ stored' = newest
    /\ UNCHANGED <<elected, bearer, newest, using>>

(* It expires, or somebody was told that it is not accepted any more.      *)
Drop ==
    /\ stored' = 0
    /\ UNCHANGED <<elected, bearer, newest, using>>

(* The refresher steps down; as a client it works with the new token.      *)
StepDown(r) ==
    /\ bearer = {r} /\ elected = {r}
    /\ bearer' = {} /\ elected' = {}
    /\ using' = [c \in Client |-> IF c = r THEN newest ELSE using[c]]
    /\ UNCHANGED <<newest, stored>>

Read(c) ==
    /\ stored # 0 /\ using[c] = 0
    /\ using' = [using EXCEPT ![c] = stored]
    /\ UNCHANGED <<elected, bearer, newest, stored>>

(* Some are done with their token, or fail, or crash.                      *)
Leave(some) ==
    /\ elected' = elected \ some /\ bearer' = bearer \ some
    /\ using' = [c \in Client |-> IF c \in some THEN 0 ELSE using[c]]
    /\ UNCHANGED <<newest, stored>>

Rotate ==
    \/ \E r \in Refresher : Elect(r) \/ LogIn(r) \/ StepDown(r)
    \/ \E c \in Client : Read(c)
    \/ Store \/ Drop
    \/ \E some \in SUBSET (Client \cup Refresher) : Leave(some)

Overrun ==
    /\ overrun'
    /\ newest' \in {newest, newest + 1}
    /\ stored' \in 0..newest'
    /\ using' \in [Client -> 0..newest']

Spec == Init /\ [][(Rotate /\ UNCHANGED overrun) \/ Overrun]_vars
=============================================================================
