--------------------------- MODULE MCMoneyPicture ---------------------------
(* MoneyPicture for TLC.  Only one account has rows older than the window:    *)
(* there the rows are not read and only the bank's total of a month matters;  *)
(* the others are empty or busy.                                               *)
EXTENDS MoneyPicture

CONSTANT OldAccount

MCBooks == {b \in [Accounts -> SUBSET AllMonths] :
              \A a \in Accounts \ {OldAccount} : b[a] \in {{}, Window}}
=============================================================================
