-------------------------- MODULE AuthorisedChange --------------------------
(***************************************************************************)
(* What the bank may rely on: a change reaches it only for a question that *)
(* was shown to the customer and then authorised -- by a yes, by a code,   *)
(* or by a yes and then a code -- and every code authorises one change.    *)
(***************************************************************************)
EXTENDS Naturals

CONSTANTS
    Questions,      \* changes put to customers
    MaxCodes        \* permits a question can be given

Kinds == {"yes", "code", "both"}

VARIABLES
    kind,           \* kind[q]: what q needs, "none" until it is put
    shown,          \* questions whose words reached the customer
    agreed,         \* questions answered yes
    given,          \* given[q]: permits given to q so far
    permits,        \* permits neither used nor lost
    count           \* count[q]: times q was carried out

avars == <<kind, shown, agreed, given, permits, count>>

Init ==
    /\ kind = [q \in Questions |-> "none"]
    /\ shown = {}
    /\ agreed = {}
    /\ given = [q \in Questions |-> 0]
    /\ permits = {}
    /\ count = [q \in Questions |-> 0]

Put(q, k) ==
    /\ kind[q] = "none"
    /\ kind' = [kind EXCEPT ![q] = k]
    /\ UNCHANGED <<shown, agreed, given, permits, count>>

Show(q) ==
    /\ kind[q] # "none"
    /\ shown' = shown \cup {q}
    /\ UNCHANGED <<kind, agreed, given, permits, count>>

Agree(q) ==
    /\ kind[q] \in {"yes", "both"} /\ q \in shown
    /\ agreed' = agreed \cup {q}
    /\ UNCHANGED <<kind, shown, given, permits, count>>

Permit(q) ==
    /\ kind[q] \in {"code", "both"} /\ q \in shown
    /\ kind[q] = "both" => q \in agreed
    /\ given[q] < MaxCodes
    /\ given' = [given EXCEPT ![q] = @ + 1]
    /\ permits' = permits \cup {<<q, given[q] + 1>>}
    /\ UNCHANGED <<kind, shown, agreed, count>>

Lose(p) ==
    /\ permits' = permits \ {p}
    /\ UNCHANGED <<kind, shown, agreed, given, count>>

Change(q) ==
    /\ q \in shown
    /\ kind[q] \in {"yes", "both"} => q \in agreed
    /\ \/ kind[q] = "yes" /\ UNCHANGED permits
       \/ /\ kind[q] \in {"code", "both"}
          /\ \E n \in 1..given[q] : /\ <<q, n>> \in permits
                                    /\ permits' = permits \ {<<q, n>>}
    /\ count' = [count EXCEPT ![q] = @ + 1]
    /\ UNCHANGED <<kind, shown, agreed, given>>

Next ==
    \/ \E q \in Questions, k \in Kinds : Put(q, k)
    \/ \E q \in Questions : Show(q) \/ Agree(q) \/ Permit(q) \/ Change(q)
    \/ \E p \in permits : Lose(p)

Spec == Init /\ [][Next]_avars
=============================================================================
