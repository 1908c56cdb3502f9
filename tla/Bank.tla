-------------------------------- MODULE Bank --------------------------------
(***************************************************************************)
(* The bank's platform as the adapters in app/banking/adapters/real.py see *)
(* it: one-time codes, the verification tokens they are exchanged for, and *)
(* the changes carried out.  A code belongs to a phone, not to a request;  *)
(* a token is single-use.  An answer is the exception the adapter raises   *)
(* for the HTTP status it gets, or "OK".                                   *)
(*                                                                         *)
(* A question is a change the chat has put to a customer.  The bank does   *)
(* not know questions: the index is history, so that codes, tokens and     *)
(* changes can be related to what the customer was shown.                  *)
(***************************************************************************)
EXTENDS Naturals

CONSTANTS
    Customers,      \* verified identities: the registered phone
    MaxQuestions,   \* bound: changes put to customers
    MaxCodes,       \* bound: codes texted, and tokens minted, per question
    MaxChanges      \* bound: times one question's change is carried out

ASSUME BankAssumption ==
    /\ MaxQuestions \in Nat
    /\ MaxCodes \in Nat
    /\ MaxChanges \in Nat

Questions == 1..MaxQuestions
Token == Questions \X (1..MaxCodes)

VARIABLES
    code,           \* code[c]: question of the code on record for c, or 0
    sent,           \* sent[q]: codes texted for q
    minted,         \* minted[q]: tokens minted while q was being verified
    usable,         \* tokens minted and neither spent nor expired
    changes         \* changes[q]: times the change of q was carried out

bankVars == <<code, sent, minted, usable, changes>>

BankTypeOK ==
    /\ code \in [Customers -> 0..MaxQuestions]
    /\ sent \in [Questions -> 0..MaxCodes]
    /\ minted \in [Questions -> 0..MaxCodes]
    /\ usable \subseteq Token
    /\ changes \in [Questions -> 0..MaxChanges]

BankInit ==
    /\ code = [c \in Customers |-> 0]
    /\ sent = [q \in Questions |-> 0]
    /\ minted = [q \in Questions |-> 0]
    /\ usable = {}
    /\ changes = [q \in Questions |-> 0]

-----------------------------------------------------------------------------
\* A code reaches the phone of c; it replaces the one on record.
Texted(c, q) ==
    /\ sent[q] < MaxCodes
    /\ sent' = [sent EXCEPT ![q] = @ + 1]
    /\ code' = [code EXCEPT ![c] = q]
    /\ UNCHANGED <<minted, usable, changes>>

\* POST otp/v1/send.  A lost answer says nothing of whether the code went out.
SendOtpCall(c, q, answer) ==
    \/ answer \in {"OK", "UNAVAILABLE"} /\ Texted(c, q)
    \/ /\ answer \in {"SEND_THROTTLED", "INVALID_PHONE", "UNAVAILABLE"}
       /\ UNCHANGED bankVars

\* POST otp/v1/verify, with the code last texted (right) or another one.
VerifyOtpCall(c, q, right, answer) ==
    \/ /\ answer = "OK" /\ right /\ code[c] # 0 /\ minted[q] < MaxCodes
       /\ code' = [code EXCEPT ![c] = 0]
       /\ minted' = [minted EXCEPT ![q] = @ + 1]
       /\ usable' = usable \cup {<<q, minted[q] + 1>>}
       /\ UNCHANGED <<sent, changes>>
    \/ /\ answer = "UNAVAILABLE" /\ right
       /\ code' = [code EXCEPT ![c] = 0]
       /\ UNCHANGED <<sent, minted, usable, changes>>
    \/ /\ \/ answer = "OTP_INCORRECT" /\ ~right /\ code[c] # 0
          \/ answer = "OTP_EXPIRED" /\ code[c] = 0
          \/ answer \in {"OTP_BLOCKED", "UNAVAILABLE"}
       /\ UNCHANGED bankVars

\* The change of q is carried out; a token given with it is spent.
CarryOut(q, token) ==
    /\ changes[q] < MaxChanges
    /\ changes' = [changes EXCEPT ![q] = @ + 1]
    /\ usable' = usable \ {token}
    /\ UNCHANGED <<code, sent, minted>>

CodeExpires(c) ==
    /\ code[c] # 0
    /\ code' = [code EXCEPT ![c] = 0]
    /\ UNCHANGED <<sent, minted, usable, changes>>

TokenExpires(token) ==
    /\ token \in usable
    /\ usable' = usable \ {token}
    /\ UNCHANGED <<code, sent, minted, changes>>
=============================================================================
