---------------------------- MODULE FifoService ----------------------------
(***************************************************************************)
(* What a client that talks over one connection is promised: what it asks  *)
(* is settled in the order in which it asked, each request at most once,   *)
(* with at most one answer, and an answer that succeeds names its request. *)
(***************************************************************************)
EXTENDS Naturals, Sequences

CONSTANTS Clients, None

VARIABLES asked,    \* asked[c]: how many requests client c has made
          settled,  \* settled[c]: how many of them are over
          answers   \* answers[c]: what c was told, in order

Answer(n) == {[to |-> n, ok |-> TRUE], [to |-> None, ok |-> FALSE]}

Init == /\ asked = [c \in Clients |-> 0]
        /\ settled = [c \in Clients |-> 0]
        /\ answers = [c \in Clients |-> <<>>]

Ask(c) == /\ asked' = [asked EXCEPT ![c] = @ + 1]
          /\ UNCHANGED <<settled, answers>>

Settle(c) ==
    /\ settled[c] < asked[c]
    /\ settled' = [settled EXCEPT ![c] = @ + 1]
    /\ \/ UNCHANGED answers
       \/ \E a \in Answer(settled[c] + 1) :
              answers' = [answers EXCEPT ![c] = Append(@, a)]
    /\ UNCHANGED asked

Next == \E c \in Clients : Ask(c) \/ Settle(c)

Spec == Init /\ [][Next]_<<asked, settled, answers>>
=============================================================================
