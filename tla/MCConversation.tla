--------------------------- MODULE MCConversation ---------------------------
EXTENDS Conversation
Mobile1 == <<0, 1, 7, 1, 1, 0, 0, 0, 0, 0, 1>>
Mobile2 == <<0, 1, 9, 1, 1, 0, 0, 0, 0, 0, 2>>
Account == <<1, 2, 0, 5, 0, 0, 1, 2, 3, 4>>
\* "piece" is a piece of the first number.
MCDigits == [n \in Numbers \cup Own |->
    CASE n = "mobile1" -> Mobile1 [] n = "mobile2" -> Mobile2 [] n = "account" -> Account
      [] n = "piece" -> <<0, 1, 7, 1, 1, 0>>
      [] n = "savings" -> <<1, 1, 0, 0, 2, 0, 0, 3, 0, 0>>
      [] n = "current" -> <<1, 1, 0, 0, 2, 0, 0, 3, 0, 1>>]
M(w, d, r, k, t, p) ==
    [written |-> w, digits |-> d, runs |-> r, names |-> k, words |-> t, pick |-> p]
\* One message writes an amount and a number: the number may be taken for the amount.
MCMessages ==
    {M({}, <<>>, {}, None, FALSE, None),
     M({500}, <<5, 0, 0>>, {}, "bkash", FALSE, None),
     M({50000}, <<5, 0, 0, 0, 0>>, {}, "own_account", TRUE, None),
     M({500, 1711000001}, <<5, 0, 0>> \o Mobile1, {Mobile1}, "nagad", FALSE, None),
     M({1911000002}, Mobile2, {Mobile2}, None, FALSE, None),
     M({1205001234}, Account, {Account}, "other_bank", FALSE, None),
     M({}, <<>>, {}, None, FALSE, "savings")}
MCKindOf == [salary |-> "debit", gold |-> "credit", blue |-> "credit", dps |-> "deposit"]
MCScreenOf == [salary |-> "card", gold |-> "credit_card", blue |-> None, dps |-> "dps"]
MCMinIncome == [salary |-> 0, gold |-> 5, blue |-> 2, dps |-> 0]
MCSavedAs == [rahim |-> "bank", rahima |-> "bkash", club |-> "biller"]
MCNameOf == [rahim |-> "Rahim", rahima |-> "Rahima", club |-> "Club"]
MCTextMatch == [Rahim |-> {"rahim", "rahima"}, Rahima |-> {"rahima"}, Club |-> {"club"}, Jahid |-> {}]
R(p, w, wallet, off) == [product |-> p, word |-> w, wallet |-> wallet, off |-> off]
MCRequests == {R("gold", "Rahim", None, {}), R("gold", None, None, {"credit_card"}),
               R(None, "Jahid", "bkash", {"insights"}), R(None, "Rahima", "nagad", {"recommend"}),
               R(None, None, None, {"recommend", "insights"})}
=============================================================================
