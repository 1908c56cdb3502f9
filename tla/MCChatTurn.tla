----------------------------- MODULE MCChatTurn -----------------------------
(* Small instances of the chat handler for TLC. *)
EXTENDS ChatTurn, TLC

\* The sets of services an instance can be given, and their gates.
AllServices == {"nickname", "beneficiary", "freeze", "email", "balance", "transfer", "cards_on_offer"}
AllGates == [s \in AllServices |->
    CASE s = "nickname" -> "confirm"  [] s = "beneficiary" -> "add"
      [] s = "freeze" -> "freeze"     [] s = "email" -> "contact"
      [] s = "balance" -> "read"      [] s = "transfer" -> "summary"
      [] OTHER -> "catalogue"]

\* Requests a customer can send.
Text == NoMessage
YesButton == [NoMessage EXCEPT !.says = "yes"]
NoButton == [NoMessage EXCEPT !.says = "no"]
TypedCode == [NoMessage EXCEPT !.says = "secret"]
Form(otp, cred) == [NoMessage EXCEPT !.otp = otp, !.cred = cred]
EchoedForm(s, otp, cred) == [Form(otp, cred) EXCEPT !.route = s]
Direct(s) == [NoMessage EXCEPT !.route = s]
TwoReadings == [NoMessage EXCEPT !.heard = TRUE]
Without(S, m) == [m EXCEPT !.off = S]

OneTabServices == AllServices
OneTabGates == AllGates
ChangeServices == {"nickname", "freeze", "email"}
OneTabMessages ==
    {Text, YesButton, NoButton, TypedCode, TwoReadings, Direct(Invalid), Direct("freeze"),
     Without(ChangeServices, Text), Without(ChangeServices, Form("right", "right"))}
    \cup {Form(otp, cred) : otp \in {"right", "wrong"}, cred \in {None, "right"}}
    \cup {Form(None, "right"), Form("right", "wrong"), Form("right", "both"),
          EchoedForm("freeze", "right", "right")}

\* Two requests in flight, of one customer or of two, on a bad day; beneficiaries are
\* added by chat.
TwoTabsServices == {"freeze", "beneficiary"}
TwoTabsGates == [s \in TwoTabsServices |-> AllGates[s]]
TwoTabsMessages == {Text, Form("right", "wrong"), Form(None, "right")}

\* The public catalogue can be switched off.
CatalogueServices == {"nickname", "cards_on_offer"}
CatalogueGates == [s \in CatalogueServices |-> AllGates[s]]
CatalogueMessages == {Text, YesButton, Without({"cards_on_offer"}, Text)}

TwoCustomers == {"alice", "bob"}

OneCustomer == {"alice"}
TwoValues == {"v", "w"}
OneValue == {"v"}
OneTurn == {1}
SameTurns == Permutations(Turns)
NoFaults == {}
BadDayFaults == {"disconnect", "restart", "expiry"}
ModelFaults == {"model"}
LiveFaults == {"lapse", "expiry", "model"}
=============================================================================
