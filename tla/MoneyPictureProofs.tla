------------------------- MODULE MoneyPictureProofs -------------------------
(***************************************************************************)
(* The money picture, for any accounts, cards, sources, number of months,  *)
(* batch, page and card limits, and any number of calls that go wrong.     *)
(***************************************************************************)
EXTENDS MoneyPicture, TLAPS, FiniteSetTheorems

-----------------------------------------------------------------------------
(* A lost login. *)

\* An account told that the login is gone stays so until the picture is given up.
LoginInv ==
    refused => \/ pc = "login"
               \/ pc = "sources" /\ \E a \in held : rows[a] = "refused"

\* The rows are a function of the accounts, and only held ones are read.
RowsInv ==
    /\ rows \in [Accounts -> {"reading", "whole", "cut", "failed", "refused"}]
    /\ held \subseteq Accounts
    /\ LoginInv

\* No picture is made once the bank has said that the login is no longer good
\* (_gather_rows, _soft), whichever call was told so and whatever the others say.
THEOREM MoneyLostLoginEscapes == Spec => []LostLoginEscapes
<1>1. Init => RowsInv
  BY DEF Init, RowsInv, LoginInv
<1>2. RowsInv /\ [Next]_vars => RowsInv'
  <2> SUFFICES ASSUME RowsInv, [Next]_vars PROVE RowsInv'
    OBVIOUS
  <2> USE DEF RowsInv, LoginInv
  <2>1. CASE ReadAccounts
    BY <2>1 DEF ReadAccounts, LoginLost, Whole, Failing, Unusable
  <2>2. ASSUME NEW b \in Accounts, ReadPage(b) PROVE RowsInv'
    <3>1. b \in held /\ rows[b] = "reading" /\ held' = held /\ pc' = pc /\ pc = "sources"
      BY <2>2 DEF ReadPage
    <3>2. /\ rows' \in [Accounts -> {"reading", "whole", "cut", "failed", "refused"}]
          /\ \A a \in held \ {b} : rows'[a] = rows[a]
          /\ refused' => refused \/ rows'[b] = "refused"
      <4>1. CASE \E how \in {"whole", "cut", "reading"} : rows' = [rows EXCEPT ![b] = how] /\ refused' = refused
        BY <3>1, <4>1
      <4>2. CASE \E how \in {"failed", "refused"} : /\ rows' = [rows EXCEPT ![b] = how]
                                                 /\ refused' = (refused \/ how = "refused")
        <5>1. PICK how \in {"failed", "refused"} : /\ rows' = [rows EXCEPT ![b] = how]
                                                 /\ refused' = (refused \/ how = "refused")
          BY <4>2
        <5>2. rows'[b] = how
          BY <5>1
        <5>3. refused' => refused \/ rows'[b] = "refused"
          BY <5>1, <5>2, Zenon
        <5>4. QED
          BY <3>1, <5>1, <5>3
      <4>3. QED
        <5>1. AfterPage(b, pages[b] + 1) \in {"whole", "cut", "reading"}
          BY Zenon DEF AfterPage
        <5>2. QED
          BY <2>2, <4>1, <4>2, <5>1, Zenon DEF ReadPage
    <3>3. QED
      BY <3>1, <3>2
  <2>3. CASE RowsRefused
    BY <2>3 DEF RowsRefused, LoginLost
  <2>4. CASE ReadMonths
    BY <2>4 DEF ReadMonths, StillIn
  <2>5. CASE MonthsRefused \/ SummariesRefused
    BY <2>5 DEF MonthsRefused, SummariesRefused, LoginLost
  <2>6. CASE ReadCards
    <3>1. UNCHANGED <<held, rows>> /\ (StillIn \/ LoginLost)
      BY <2>6, Zenon DEF ReadCards
    <3>2. QED
      BY <3>1 DEF StillIn, LoginLost
  <2>7. CASE ReadSummaries
    BY <2>7 DEF ReadSummaries, StillIn
  <2>8. ASSUME NEW s \in Singles, ReadSingle(s) PROVE RowsInv'
    BY <2>8 DEF ReadSingle, StillIn, LoginLost
  <2>9. CASE Build
    BY <2>9 DEF Build, LoginLostInRows
  <2>10. CASE UNCHANGED vars
    BY <2>10 DEF vars
  <2>11. QED
    BY <2>1, <2>2, <2>3, <2>4, <2>5, <2>6, <2>7, <2>8, <2>9, <2>10 DEF Next, Work, Stop
<1>3. RowsInv => LostLoginEscapes
  BY DEF RowsInv, LoginInv, LostLoginEscapes
<1>4. QED
  BY <1>1, <1>2, <1>3, PTL DEF Spec

-----------------------------------------------------------------------------
(* The cards they hold. *)

\* What has become of the list of cards once it was answered: it is all of them when it
\* was read, whatever their summaries do.
CardsInv ==
    /\ cards \subseteq owned
    /\ lists \in [Lists -> {"reading", "read", "failed", "unusable"}]
    /\ credit \in {"list", "summaries", "done", "failed"}
    /\ credit = "list" => lists["credit cards"] = "reading" /\ cards = {}
    /\ credit # "list" => lists["credit cards"] # "reading"
    /\ lists["credit cards"] = "read" => cards = owned
    /\ pc = "built" => credit \in {"done", "failed"}

\* What the customer holds is known, or the picture says that it is not, unless the list
\* came in a body nobody can read; and no card is one they do not hold (_credit,
\* credit_cards).
THEOREM MoneyHeldCardsAreKnown == Spec => []HeldCardsAreKnown
<1>1. Init => CardsInv
  BY DEF Init, CardsInv, Lists
<1>2. CardsInv /\ [Next]_vars => CardsInv'
  <2> SUFFICES ASSUME CardsInv, [Next]_vars PROVE CardsInv'
    OBVIOUS
  <2> USE DEF CardsInv
  <2>1. CASE ReadAccounts
    BY <2>1 DEF ReadAccounts, LoginLost, Whole, Failing, Unusable, Come, Lists
  <2>2. ASSUME NEW a \in Accounts, ReadPage(a) PROVE CardsInv'
    BY <2>2 DEF ReadPage
  <2>3. CASE RowsRefused \/ MonthsRefused \/ SummariesRefused
    BY <2>3 DEF RowsRefused, MonthsRefused, SummariesRefused, LoginLost
  <2>4. CASE ReadMonths
    BY <2>4 DEF ReadMonths, StillIn
  <2>5. CASE ReadCards
    <3>1. CASE LoginLost /\ UNCHANGED <<owned, lists, cards, credit>>
      BY <3>1 DEF LoginLost
    <3>2. CASE credit' = IF cards' = {} THEN "done" ELSE "summaries"
      <4>1. credit' \in {"done", "summaries"} /\ pc' = "sources" /\ owned' = owned
        BY <2>5, <3>2 DEF ReadCards, StillIn, LoginLost
      <4> QED
        BY <2>5, <3>2, <4>1 DEF ReadCards, LoginLost, Whole, Failing, Unusable, Come, Lists
    <3> QED
      BY <2>5, <3>1, <3>2 DEF ReadCards
  <2>6. CASE ReadSummaries
    BY <2>6 DEF ReadSummaries, StillIn, WhateverTheSummaries
  <2>7. ASSUME NEW s \in Singles, ReadSingle(s) PROVE CardsInv'
    BY <2>7 DEF ReadSingle, StillIn, LoginLost
  <2>8. CASE Build
    BY <2>8 DEF Build
  <2>9. CASE UNCHANGED vars
    BY <2>9 DEF vars
  <2>10. QED
    BY <2>1, <2>2, <2>3, <2>4, <2>5, <2>6, <2>7, <2>8, <2>9 DEF Next, Work, Stop
<1>3. CardsInv => HeldCardsAreKnown
  <2>1. lists["credit cards"] = "failed" => "credit cards" \in Missing
    BY DEF Missing, Lists
  <2>2. QED
    BY <2>1 DEF CardsInv, HeldCardsAreKnown, Lists
<1>4. QED
  BY <1>1, <1>2, <1>3, PTL DEF Spec

-----------------------------------------------------------------------------
(* The months. *)

\* A month someone has a row in has a total.
LEMMA RowsAreCounted ==
    ASSUME NEW a \in Accounts, NEW m \in AllMonths, m \in book[a]
    PROVE  m \in Moved
<1> DEFINE Who == {b \in Accounts : m \in book[b]}
<1>1. IsFiniteSet(Who) /\ Who # {}
  BY FS_Subset, MoneyAssumption
<1>2. Cardinality(Who) \in Nat /\ Cardinality(Who) # 0
  BY <1>1, FS_CardinalityType, FS_EmptySet
<1>3. TotalOf(m) > 0
  BY <1>2 DEF TotalOf
<1>4. QED
  BY <1>3 DEF Moved

\* While months are asked for, those asked for are the newest ones; the asking ends
\* with all of them, or where the customer's history is over.
MonthsInv ==
    /\ months \in [AllMonths -> {"unasked", "read", "failed", "unusable"}]
    /\ asked \in 0..(Months + 1)
    /\ asked <= Months => \A m \in AllMonths : months[m] = "unasked" <=> m > asked
    /\ \A m, n \in AllMonths : months[m] = "unasked" /\ m <= n => months[n] = "unasked"
    /\ active => \E n \in Moved : n <= asked
    /\ MonthsDone /\ NeverDormant /\ (\A m \in AllMonths : months[m] # "unusable") =>
           \A m \in Moved : months[m] # "unasked"
    /\ pc = "built" => MonthsDone
    /\ held \subseteq Accounts

\* A batch that ends the asking is past the customer's first month: a month that moved
\* beyond it would make a quiet spell of a batch's length inside their history.
LEMMA StopsBeforeTheirHistory ==
    ASSUME MonthsInv, ~MonthsDone, NEW how \in [Group -> {"read", "failed", "unusable"}],
           BeforeTheirHistory(how), NeverDormant, \A m \in Group : how[m] # "unusable",
           NEW m \in Moved, m > asked
    PROVE  m \in Group
<1> USE MoneyAssumption DEF AllMonths, MonthsDone
<1> SUFFICES ASSUME m \notin Group PROVE FALSE
  OBVIOUS
<1>1. asked \in Nat /\ asked <= Months /\ m \in 1..Months /\ m > asked + Batch
  BY DEF MonthsInv, Group, Moved
<1>2. PICK n \in Moved : n <= asked
  BY DEF BeforeTheirHistory, MonthsInv
<1>3. asked + 1 \in TheirMonths /\ n < asked + 1
  BY <1>1, <1>2 DEF TheirMonths, Moved
<1>4. PICK k \in Moved : k \in (asked + 1)..(asked + 1 + Batch - 1)
  BY <1>3 DEF NeverDormant
<1>5. k \in Group /\ TotalOf(k) > 0
  BY <1>1, <1>4 DEF Group, Moved
<1>6. how[k] = "read"
  BY <1>5 DEF BeforeTheirHistory
<1>7. QED
  BY <1>5, <1>6 DEF BeforeTheirHistory, Moving

\* What the bank has does not change while it is read.
LEMMA BookStays ==
    ASSUME book' = book
    PROVE  Moved' = Moved /\ TheirMonths' = TheirMonths /\ NeverDormant' = NeverDormant
BY DEF Moved, TheirMonths, NeverDormant, TotalOf

\* A batch of months keeps the invariant.
LEMMA ReadMonthsKeepsMonths == MonthsInv /\ ReadMonths => MonthsInv'
<1> SUFFICES ASSUME MonthsInv, ReadMonths PROVE MonthsInv'
  OBVIOUS
<1> USE MoneyAssumption
<1>1. PICK how \in [Group -> {"read", "failed", "unusable"}] :
          /\ months' = [m \in AllMonths |-> IF m \in Group THEN how[m] ELSE months[m]]
          /\ active' = (active \/ Moving(how))
          /\ asked' = IF BeforeTheirHistory(how) \/ asked + Batch >= Months
                      THEN Months + 1 ELSE asked + Batch
  BY DEF ReadMonths
<1>2. /\ ~MonthsDone /\ asked \in Nat /\ asked <= Months /\ pc # "built"
      /\ book' = book /\ pc' = pc /\ held' = held
  BY DEF ReadMonths, StillIn, MonthsInv, MonthsDone
<1>3. /\ Group = {m \in AllMonths : m > asked /\ m <= asked + Batch}
      /\ \A m \in AllMonths : months[m] = "unasked" <=> m > asked
  BY <1>2 DEF Group, AllMonths, MonthsInv
<1>4. \A m \in AllMonths : months'[m] = "unasked" <=> m > asked + Batch
  BY <1>1, <1>2, <1>3 DEF AllMonths
<1>5. months' \in [AllMonths -> {"unasked", "read", "failed", "unusable"}]
  BY <1>1 DEF MonthsInv
<1>6. asked' \in 0..(Months + 1) /\ asked' > asked
  BY <1>1, <1>2
<1>7. asked' <= Months => \A m \in AllMonths : months'[m] = "unasked" <=> m > asked'
  BY <1>1, <1>2, <1>4
<1>8. \A m, n \in AllMonths : months'[m] = "unasked" /\ m <= n => months'[n] = "unasked"
  BY <1>2, <1>4 DEF AllMonths
<1>9. active' => \E n \in Moved : n <= asked'
  <2>1. CASE active
    <3>1. PICK n \in Moved : n <= asked
      BY <2>1 DEF MonthsInv
    <3>2. n \in Nat
      BY DEF Moved, AllMonths
    <3>3. QED
      BY <1>2, <1>6, <3>1, <3>2
  <2>2. CASE Moving(how)
    <3>1. PICK n \in Group : TotalOf(n) > 0
      BY <2>2 DEF Moving
    <3>2. n \in Moved /\ n <= asked + Batch /\ n <= Months /\ n \in Nat
      BY <1>3, <3>1 DEF Moved, AllMonths
    <3>3. QED
      BY <1>1, <1>2, <3>2
  <2>3. QED
    BY <1>1, <2>1, <2>2
<1>10. ASSUME MonthsDone', NeverDormant, \A m \in AllMonths : months'[m] # "unusable",
              NEW m \in Moved
       PROVE  months'[m] # "unasked"
  <2>1. m \in AllMonths
    BY DEF Moved
  <2>2. CASE BeforeTheirHistory(how)
    <3>1. \A k \in Group : how[k] # "unusable"
      BY <1>1, <1>3, <1>10
    <3>2. m > asked => m \in Group
      BY <1>2, <1>10, <2>2, <3>1, StopsBeforeTheirHistory
    <3>3. QED
      BY <1>2, <1>3, <1>4, <2>1, <3>2 DEF AllMonths
  <2>3. CASE ~BeforeTheirHistory(how)
    BY <1>1, <1>2, <1>4, <1>10, <2>1, <2>3 DEF MonthsDone, AllMonths
  <2>4. QED
    BY <2>2, <2>3
<1>11. QED
  <2>1. Moved' = Moved /\ NeverDormant' = NeverDormant
    BY <1>2, BookStays
  <2>2. held' \subseteq Accounts /\ (pc' = "built" => MonthsDone')
    BY <1>2 DEF MonthsInv
  <2>3. QED
    BY <1>5, <1>6, <1>7, <1>8, <1>9, <1>10, <2>1, <2>2 DEF MonthsInv

\* Every step keeps it.
LEMMA NextKeepsMonths == MonthsInv /\ [Next]_vars => MonthsInv'
<1> SUFFICES ASSUME MonthsInv, [Next]_vars PROVE MonthsInv'
  OBVIOUS
<1>1. ASSUME UNCHANGED <<book, months, asked, active>>, held' \subseteq Accounts,
             pc' = "built" => MonthsDone
      PROVE  MonthsInv'
  <2>1. Moved' = Moved /\ NeverDormant' = NeverDormant
    BY <1>1, BookStays
  <2>2. MonthsDone' = MonthsDone
    BY <1>1 DEF MonthsDone
  <2>3. QED
    BY <1>1, <2>1, <2>2 DEF MonthsInv
<1>2. CASE ReadMonths
  BY <1>2, ReadMonthsKeepsMonths
<1>3. CASE ReadAccounts
  BY <1>1, <1>3 DEF ReadAccounts, LoginLost, MonthsInv
<1>4. ASSUME NEW a \in Accounts, ReadPage(a) PROVE MonthsInv'
  BY <1>1, <1>4 DEF ReadPage, MonthsInv
<1>5. CASE RowsRefused \/ MonthsRefused \/ SummariesRefused
  BY <1>1, <1>5 DEF RowsRefused, MonthsRefused, SummariesRefused, LoginLost, MonthsInv
<1>6. CASE ReadCards \/ ReadSummaries
  BY <1>1, <1>6 DEF ReadCards, ReadSummaries, StillIn, LoginLost, MonthsInv
<1>7. ASSUME NEW s \in Singles, ReadSingle(s) PROVE MonthsInv'
  BY <1>1, <1>7 DEF ReadSingle, StillIn, LoginLost, MonthsInv
<1>8. CASE Build
  BY <1>1, <1>8 DEF Build, MonthsInv
<1>9. CASE UNCHANGED vars
  BY <1>1, <1>9 DEF vars, MonthsInv
<1>10. QED
  BY <1>2, <1>3, <1>4, <1>5, <1>6, <1>7, <1>8, <1>9 DEF Next, Work, Stop

\* A month since the customer's first one is told with the bank's own total, or is
\* named as not read, and none from before is told (monthly_summaries, active_history,
\* _month_totals), for any history without a quiet spell as long as a batch and any
\* faults but a month's total in a body nobody can read.
THEOREM MoneyEveryMonthIsTold == Spec => []EveryMonthIsTold
<1> USE MoneyAssumption
<1>1. Init => MonthsInv
  BY DEF Init, MonthsInv, MonthsDone, AllMonths
<1>2. MonthsInv /\ [Next]_vars => MonthsInv'
  BY NextKeepsMonths
<1>3. MonthsInv => EveryMonthIsTold
  <2> SUFFICES ASSUME MonthsInv, pc = "built", NeverDormant,
                      \A m \in AllMonths : months[m] # "unusable"
               PROVE  /\ DOMAIN MonthTotals \subseteq TheirMonths
                      /\ \A m \in Moved \ FailedMonths :
                             m \in DOMAIN MonthTotals /\ MonthTotals[m] = TotalOf(m)
                      /\ FailedMonths = {} => DOMAIN MonthTotals = TheirMonths
    BY DEF EveryMonthIsTold
  <2> DEFINE Rowed == UNION {RowsOf(a) : a \in held}
  <2>1. DOMAIN MonthTotals = ActiveHistory \cup Rowed
    BY DEF MonthTotals
  <2>2. \A m \in Moved : months[m] # "unasked"
    BY DEF MonthsInv
  <2>3. Moved \subseteq AllMonths /\ Moved \subseteq TheirMonths
    BY DEF Moved, TheirMonths, AllMonths
  <2>4. ActiveHistory \subseteq TheirMonths
    BY DEF ActiveHistory, History, TheirMonths, Moved
  <2>5. Rowed \subseteq Moved
    <3> SUFFICES ASSUME NEW a \in held, NEW m \in RowsOf(a) PROVE m \in Moved
      OBVIOUS
    <3>1. a \in Accounts /\ m \in book[a] /\ m \in AllMonths
      BY DEF RowsOf, Window, AllMonths, MonthsInv
    <3>2. QED
      BY <3>1, RowsAreCounted
  <2>6. Moved \ FailedMonths \subseteq ActiveHistory
    <3> SUFFICES ASSUME NEW m \in Moved, m \notin FailedMonths PROVE m \in ActiveHistory
      OBVIOUS
    <3>1. m \in History
      BY <2>2, <2>3 DEF History, FailedMonths, MonthsInv
    <3>2. QED
      BY <3>1, <2>3 DEF ActiveHistory, Moved, AllMonths
  <2>7. \A m \in Moved \ FailedMonths : MonthTotals[m] = TotalOf(m)
    BY <2>6 DEF MonthTotals
  <2>8. ASSUME FailedMonths = {}, NEW m \in TheirMonths PROVE m \in ActiveHistory
    <3>1. PICK first \in Moved : m <= first
      BY DEF TheirMonths
    <3>2. m \in AllMonths /\ first \in ActiveHistory
      BY <2>6, <2>8 DEF TheirMonths
    <3>3. months[m] # "unasked"
      BY <2>2, <2>3, <3>1, <3>2 DEF MonthsInv
    <3>4. m \in History
      BY <2>8, <3>2, <3>3 DEF History, FailedMonths, MonthsInv
    <3>5. QED
      BY <3>1, <3>2, <3>4 DEF ActiveHistory, History, Moved, AllMonths
  <2>9. QED
    BY <2>1, <2>3, <2>4, <2>5, <2>6, <2>7, <2>8
<1>4. QED
  BY <1>1, <1>2, <1>3, PTL DEF Spec
=============================================================================
