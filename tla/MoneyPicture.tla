---------------------------- MODULE MoneyPicture ----------------------------
(***************************************************************************)
(* One customer's money picture (advisor/snapshot.py), read from the bank  *)
(* by many calls at once (advisor/sources.py): the rows of each account    *)
(* page by page, the bank's own monthly totals batch by batch, the credit  *)
(* cards and then a summary of each, and the sources of one call.  Any     *)
(* call can fail, answer with a body nobody can read (a list of it is      *)
(* taken for empty, or for the rows that can be read), or find the login   *)
(* gone.                                                                   *)
(*                                                                         *)
(* Months count back from the current one, which is 1.  Money is counted   *)
(* in rows: a month's total is how many rows the customer had in it.       *)
(***************************************************************************)
EXTENDS Naturals, FiniteSets, FiniteSetsExt

CONSTANTS
    Accounts,       \* deposit accounts with a number
    Books,          \* what the bank may have in them
    Cards,          \* credit cards the customer may hold
    Singles,        \* sources of one call: loans, deposits, the product catalogue
    Months,         \* ADVISOR_HISTORY_MONTHS
    DetailMonths,   \* ADVISOR_DETAIL_MONTHS
    Batch,          \* months asked for at once
    MaxPages,       \* ADVISOR_MAX_PAGES; a page holds one row
    CardLimit,      \* cards whose summary is read
    MaxFaults       \* bound: calls that go wrong

ASSUME MoneyAssumption ==
    /\ Accounts # {} /\ IsFiniteSet(Accounts) /\ Books \subseteq [Accounts -> SUBSET (1..Months)]
    /\ Months \in Nat \ {0} /\ DetailMonths \in 1..Months
    /\ Batch \in Nat \ {0} /\ MaxPages \in Nat \ {0}
    /\ CardLimit \in Nat /\ MaxFaults \in Nat

Lists == {"accounts", "credit cards"}
AllMonths == 1..Months
Window == 1..DetailMonths

VARIABLES
    book,           \* what the bank has: the months each account has a row in
    owned,          \* and the credit cards the customer holds
    pc,             \* "accounts", "sources", "built" or "login" (lost)
    lists,          \* the list of accounts and that of cards: "reading", "read",
                    \* "failed" or "unusable"
    held,           \* the accounts that were read
    pages,          \* pages[a]: pages of its rows read so far
    lost,           \* lost[a]: those of them whose rows nobody could read
    rows,           \* rows[a]: "reading", "whole", "cut", "failed" or "refused"
    months,         \* months[m]: "unasked", "read", "failed" or "unusable"
    asked,          \* months asked for so far; beyond Months when that is over
    active,         \* seen_activity: some month so far had money moving
    cards,          \* the credit cards found
    credit,         \* "list", "summaries", "done" or "failed"
    single,         \* single[s]: "reading", "read", "failed" or "unusable"
    refused,        \* history: the bank said the login is no longer good
    faults          \* bound: calls that went wrong

vars == <<book, owned, pc, lists, held, pages, lost, rows, months, asked, active, cards,
          credit, single, refused, faults>>

RowsDone == \A a \in held : rows[a] # "reading"
MonthsDone == asked > Months

Init ==
    /\ book \in Books
    /\ owned \in SUBSET Cards
    /\ pc = "accounts"
    /\ lists = [l \in Lists |-> "reading"]
    /\ held = {}
    /\ pages = [a \in Accounts |-> 0]
    /\ lost = [a \in Accounts |-> {}]
    /\ rows = [a \in Accounts |-> "reading"]
    /\ months = [m \in AllMonths |-> "unasked"]
    /\ asked = 0
    /\ active = FALSE
    /\ cards = {}
    /\ credit = "list"
    /\ single = [s \in Singles |-> "reading"]
    /\ refused = FALSE
    /\ faults = 0

Faulty(n) == faults + n <= MaxFaults /\ faults' = faults + n

\* The bank's own total for a month, and the pages the rows of an account fill.
TotalOf(m) == Cardinality({a \in Accounts : m \in book[a]})
PagesOf(a) == Cardinality(book[a] \cap Window)

-----------------------------------------------------------------------------
(* The sources.  (A definition that ends in Instead is a way the code could *)
(* have gone wrong.)                                                        *)

\* A lost login ends the reading; anything else costs the source only (_soft).
LoginLost == refused' = TRUE /\ pc' = "login"
StillIn == UNCHANGED <<refused, pc>>

\* A list comes whole, not at all, or in a body of which only `some` can be read, which
\* is taken for all there is: nothing tells the two apart.
Come(l, how) == lists' = [lists EXCEPT ![l] = how]
Whole(l) == Come(l, "read") /\ faults' = faults
Failing(l) == Come(l, "failed") /\ Faulty(1)
Unusable(l) == Come(l, "unusable") /\ Faulty(1)

\* The accounts come first: without them nothing is known of the rows.
ReadAccounts ==
    /\ pc = "accounts"
    /\ \/ /\ pc' = "sources" /\ UNCHANGED refused
          /\ \/ Whole("accounts") /\ held' = Accounts
             \/ Failing("accounts") /\ held' = {}
             \/ Unusable("accounts") /\ held' \in SUBSET Accounts
       \/ Faulty(1) /\ LoginLost /\ UNCHANGED <<lists, held>>
    /\ UNCHANGED <<book, owned, pages, lost, rows, months, asked, active, cards, credit, single>>

\* The page cap.
LastPage(n) == n >= MaxPages

\* One page of an account's rows, newest first; a page that fails loses the account, one
\* that cannot be read its rows, and the pages behind it when it does not say there are any.
AfterPage(a, n) == IF n >= PagesOf(a) THEN "whole" ELSE IF LastPage(n) THEN "cut" ELSE "reading"
ReadPage(a) ==
    /\ pc = "sources" /\ a \in held /\ rows[a] = "reading"
    /\ LET n == pages[a] + 1
           turned == pages' = [pages EXCEPT ![a] = n] /\ UNCHANGED refused
       IN  \/ /\ turned /\ rows' = [rows EXCEPT ![a] = AfterPage(a, n)]
              /\ faults' = faults /\ UNCHANGED lost
           \/ \E next \in {"whole", AfterPage(a, n)} :
                /\ turned /\ rows' = [rows EXCEPT ![a] = next]
                /\ Faulty(1) /\ lost' = [lost EXCEPT ![a] = @ \cup {n}]
           \/ \E how \in {"failed", "refused"} :
                /\ rows' = [rows EXCEPT ![a] = how] /\ Faulty(1)
                /\ refused' = (refused \/ how = "refused")
                /\ UNCHANGED <<pages, lost>>
    /\ UNCHANGED <<book, owned, pc, lists, held, months, asked, active, cards, credit, single>>

\* _gather_rows: once every account has answered, a lost login goes on to the caller.
OnlyWhenNoneIsReadInstead == \A a \in held : rows[a] = "refused"
LoginLostInRows == \E a \in held : rows[a] = "refused"
RowsRefused ==
    /\ pc = "sources" /\ held # {} /\ RowsDone /\ LoginLostInRows
    /\ LoginLost
    /\ UNCHANGED <<book, owned, lists, held, pages, lost, rows, months, asked, active, cards,
                   credit, single, faults>>

\* The months asked for together.  Older ones are not worth asking for when the
\* customer's activity was seen and these are quiet, and all of them answered.
Group == (asked + 1)..(IF asked + Batch < Months THEN asked + Batch ELSE Months)
Moving(how) == \E m \in Group : how[m] = "read" /\ TotalOf(m) > 0
AnyQuietBatchInstead(how) == ~Moving(how) /\ \A m \in Group : how[m] # "failed"
BeforeTheirHistory(how) == active /\ ~Moving(how) /\ \A m \in Group : how[m] # "failed"

ReadMonths ==
    /\ pc = "sources" /\ ~MonthsDone
    /\ \E how \in [Group -> {"read", "failed", "unusable"}] :
        /\ Faulty(Cardinality({m \in Group : how[m] # "read"}))
        /\ months' = [m \in AllMonths |-> IF m \in Group THEN how[m] ELSE months[m]]
        /\ active' = (active \/ Moving(how))
        /\ asked' = IF BeforeTheirHistory(how) \/ asked + Batch >= Months
                    THEN Months + 1 ELSE asked + Batch
    /\ StillIn
    /\ UNCHANGED <<book, owned, lists, held, pages, lost, rows, cards, credit, single>>

MonthsRefused ==
    /\ pc = "sources" /\ ~MonthsDone
    /\ Faulty(1) /\ LoginLost
    /\ UNCHANGED <<book, owned, lists, held, pages, lost, rows, months, asked, active, cards,
                   credit, single>>

\* The list of cards comes before the summaries, and stands whatever becomes of them.
WithoutSummaryForgottenInstead(got) == got
WhateverTheSummaries(got) == cards
ReadCards ==
    /\ pc = "sources" /\ credit = "list"
    /\ \/ /\ StillIn
          /\ \/ Whole("credit cards") /\ cards' = owned
             \/ Failing("credit cards") /\ cards' = {}
             \/ Unusable("credit cards") /\ cards' \in SUBSET owned
          /\ credit' = IF cards' = {} THEN "done" ELSE "summaries"
       \/ Faulty(1) /\ LoginLost /\ UNCHANGED <<lists, cards, credit>>
    /\ UNCHANGED <<book, owned, held, pages, lost, rows, months, asked, active, single>>

\* The summaries asked for together: of the first few cards only.  One that fails is
\* named as missing; one that cannot be read is left out.
Summarised == IF Cardinality(cards) < CardLimit THEN Cardinality(cards) ELSE CardLimit
ReadSummaries ==
    /\ pc = "sources" /\ credit = "summaries"
    /\ \E chosen \in kSubset(Summarised, cards) : \E got \in SUBSET chosen :
       \E failed \in SUBSET (chosen \ got) :
        /\ cards' = WhateverTheSummaries(got)
        /\ Faulty(Cardinality(chosen \ got))
        /\ credit' = IF failed = {} THEN "done" ELSE "failed"
    /\ StillIn
    /\ UNCHANGED <<book, owned, lists, held, pages, lost, rows, months, asked, active, single>>

SummariesRefused ==
    /\ pc = "sources" /\ credit = "summaries"
    /\ Faulty(1) /\ LoginLost
    /\ UNCHANGED <<book, owned, lists, held, pages, lost, rows, months, asked, active, cards,
                   credit, single>>

\* One call, one answer.
ReadSingle(s) ==
    /\ pc = "sources" /\ single[s] = "reading"
    /\ \/ single' = [single EXCEPT ![s] = "read"] /\ faults' = faults /\ StillIn
       \/ \E how \in {"failed", "unusable"} :
            single' = [single EXCEPT ![s] = how] /\ Faulty(1) /\ StillIn
       \/ Faulty(1) /\ LoginLost /\ UNCHANGED single
    /\ UNCHANGED <<book, owned, lists, held, pages, lost, rows, months, asked, active, cards, credit>>

\* Everything is in: the picture is made (and kept, see Feeds).
Build ==
    /\ pc = "sources" /\ MonthsDone /\ credit \in {"done", "failed"}
    /\ RowsDone /\ (held = {} \/ ~LoginLostInRows)
    /\ \A s \in Singles : single[s] # "reading"
    /\ pc' = "built"
    /\ UNCHANGED <<book, owned, lists, held, pages, lost, rows, months, asked, active, cards,
                   credit, single, refused, faults>>

Over == pc \in {"built", "login"}
Stop == Over /\ UNCHANGED vars
Work == \/ ReadAccounts \/ RowsRefused \/ ReadMonths \/ MonthsRefused
        \/ ReadCards \/ ReadSummaries \/ SummariesRefused \/ Build
        \/ \E a \in Accounts : ReadPage(a)
        \/ \E s \in Singles : ReadSingle(s)
Next == Work \/ Stop

Spec == Init /\ [][Next]_vars

-----------------------------------------------------------------------------
(* What is made of it. *)

\* What the picture says could not be read (Snapshot.missing).
Named(name, when) == IF when THEN {name} ELSE {}
FailedMonths == {m \in AllMonths : months[m] = "failed"}
Missing ==
    {l \in Lists : lists[l] = "failed"}
    \cup Named("transactions", held # {} /\ \A a \in held : rows[a] = "failed")
    \cup Named("monthly totals", FailedMonths # {})
    \cup Named("credit card summary", credit = "failed")
    \cup {s \in Singles : single[s] = "failed"}

\* The rows there are: the newest ones, of the accounts that were read to the end or
\* to the last page allowed, without those on a page nobody could read.
PageWith(m, a) == Cardinality({n \in book[a] \cap Window : n <= m})
RowsOf(a) == IF rows[a] \in {"whole", "cut"}
             THEN {m \in book[a] \cap Window : PageWith(m, a) \in (1..pages[a]) \ lost[a]}
             ELSE {}

\* The bank's totals from the first month with money moving (active_history), and the
\* rows for the months it gave none (_month_totals).
History == {m \in AllMonths : months[m] = "read"}
ActiveHistory == {m \in History : \E first \in History : first >= m /\ TotalOf(first) > 0}
MonthTotals ==
    [m \in ActiveHistory \cup UNION {RowsOf(a) : a \in held} |->
        IF m \in ActiveHistory THEN TotalOf(m)
        ELSE Cardinality({a \in held : m \in RowsOf(a)})]

-----------------------------------------------------------------------------
(* Properties. *)

TypeOK ==
    /\ book \in [Accounts -> SUBSET AllMonths] /\ owned \subseteq Cards
    /\ pc \in {"accounts", "sources", "built", "login"}
    /\ lists \in [Lists -> {"reading", "read", "failed", "unusable"}] /\ held \subseteq Accounts
    /\ pages \in [Accounts -> 0..MaxPages] /\ lost \in [Accounts -> SUBSET (1..MaxPages)]
    /\ rows \in [Accounts -> {"reading", "whole", "cut", "failed", "refused"}]
    /\ months \in [AllMonths -> {"unasked", "read", "failed", "unusable"}]
    /\ asked \in 0..(Months + 1) /\ active \in BOOLEAN
    /\ cards \subseteq Cards
    /\ credit \in {"list", "summaries", "done", "failed"}
    /\ single \in [Singles -> {"reading", "read", "failed", "unusable"}]
    /\ refused \in BOOLEAN /\ faults \in 0..MaxFaults

Moved == {m \in AllMonths : TotalOf(m) > 0}
TheirMonths == {m \in AllMonths : \E first \in Moved : m <= first}
\* No quiet spell inside the customer's history is as long as a batch.
NeverDormant ==
    \A m \in TheirMonths : (\E n \in Moved : n < m) => \E n \in Moved : n \in m..(m + Batch - 1)

\* Whatever order the batches and the rows come in, and whatever fails, a month since
\* the customer's first one is either told with the bank's own total, quiet months
\* included, or is one of those named as not read; and no month from before is told.
\* Two cases the code does not meet are left out: a spell as quiet as a batch inside the
\* customer's history (older months are not asked for), and a month whose total came in
\* a body nobody can read (neither kept nor named).
EveryMonthIsTold ==
    pc = "built" /\ NeverDormant /\ (\A m \in AllMonths : months[m] # "unusable") =>
        /\ DOMAIN MonthTotals \subseteq TheirMonths
        /\ \A m \in Moved \ FailedMonths : m \in DOMAIN MonthTotals /\ MonthTotals[m] = TotalOf(m)
        /\ FailedMonths = {} => DOMAIN MonthTotals = TheirMonths

\* No picture is made, and kept for the next turns, once the bank has said that the
\* login is no longer good, whichever of the calls under way was told so.
LostLoginEscapes == pc = "built" => ~refused

\* What the customer already holds is known even when its summary is not, so advice does
\* not offer it again, and a list of cards that was not read is named.  The exception is
\* a list in a body that cannot be read: it is taken for the cards that can, and nothing
\* names the rest (snapshot.py:3 says each failure is listed); but no card is invented.
HeldCardsAreKnown ==
    pc = "built" =>
        /\ cards \subseteq owned
        /\ lists["credit cards"] # "unusable" => cards = owned \/ "credit cards" \in Missing

\* (What snapshot.py says: each failure only loses that part, and is listed in
\* `missing`.)  A picture that lacks a part says so.
EveryLossIsNamed ==
    pc = "built" /\ ((\E a \in held : rows[a] = "failed") \/ cards # owned) => Missing # {}
=============================================================================
