---------------------------- MODULE OpenQuestion ----------------------------
(***************************************************************************)
(* What the session store promises the chat handler: for each customer it  *)
(* remembers the classification of the last turn, which is the question    *)
(* the customer may be answering, until the customer's conversation        *)
(* lapses (thirty idle minutes, or a restart of the process).  The         *)
(* handler's gates read nothing else of the session.                       *)
(***************************************************************************)

CONSTANTS
    Customers,      \* verified identities (app/banking/identity.py)
    Classes,        \* classifications a recorded turn can carry
    NoClass         \* no turn is remembered

VARIABLE open       \* open[c]: classification of c's last turn

Init == open = [c \in Customers |-> NoClass]

\* A turn of c is recorded: it is now the last one.
Record(c, k) == open' = [open EXCEPT ![c] = k]

\* The conversations of the customers in C lapse together.
Lapse(C) == open' = [c \in Customers |-> IF c \in C THEN NoClass ELSE open[c]]

Next ==
    \/ \E c \in Customers, k \in Classes : Record(c, k)
    \/ \E C \in SUBSET Customers : Lapse(C)

Spec == Init /\ [][Next]_open
=============================================================================
