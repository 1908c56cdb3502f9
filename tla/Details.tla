------------------------------ MODULE Details ------------------------------
(***************************************************************************)
(* How a request gets its details over several turns (routes/chat.py): an  *)
(* answer to a question the assistant asked, the pick of one of several    *)
(* accounts, cards or transactions, a follow-up to a request it answered,  *)
(* or a new request, and what is checked, carried over, taken from the     *)
(* bank or asked for before the request is answered or a change put to     *)
(* the customer.                                                           *)
(*                                                                         *)
(* The model that reads a message may make of it anything it likes; what   *)
(* the customer wrote is the message.  A customer's turns come one at a    *)
(* time (ChatTurn lets them overlap), so a turn is one step; `last` is the *)
(* classification it leaves in the session.                                *)
(***************************************************************************)
EXTENDS Naturals, FiniteSets, Sequences, SequencesExt

CONSTANTS
    Amounts,        \* amounts of a request, in the smallest unit anyone writes
    Mobiles,        \* numbers that are mobile numbers
    Others,         \* and that are not, a piece of another number among them
    Own,            \* the customer's own accounts
    Digits,         \* the digits of each of these numbers
    Cards,          \* and their cards
    Messages,       \* what they may write: see Message
    None            \* no value

\* A value the model makes up.  For a number it is what no check of digits holds back:
\* words, a JSON number, or whatever _fill_fields takes.
Made == "made up"
Said == "their words"               \* free text the customer wrote
Numbers == Mobiles \cup Others
Digit == 0..9
MinDigits == 6                      \* of a number that can be real

ASSUME DetailsAssumption ==
    /\ None \notin Amounts /\ None \notin Numbers \cup Own \cup Cards
    /\ Made \notin Numbers \cup Own \cup Cards
    /\ Amounts \subseteq Nat \ {0}
    /\ Digits \in [Numbers \cup Own -> Seq(Digit) \ {<<>>}]
    /\ \A n \in Own : Len(Digits[n]) >= MinDigits

\* Services, one for each way of gathering: a fee quote, the two transfers, a dispute,
\* a change of nickname, freezing a card, and one that only reads an account.
Services == {"fee", "bank", "wallet", "dispute", "nick", "freeze", "read"}
Transfers == {"bank", "wallet"}
NoFollowUp == {"nick", "freeze"}
Wallets == {"bkash", "nagad"}
Kinds == Wallets \cup {"own_account", "other_bank"}
SubsOf(s) == CASE s = "bank" -> {"own_account", "other_bank"}
               [] s = "wallet" -> Wallets
               [] OTHER -> {}

\* The details of a request.  `kind` is a fee's transaction type; `words` a dispute's
\* remarks, a nickname or the reason of a freeze.
Required(s) == CASE s = "fee" -> {"kind", "amount"}
                 [] s \in Transfers -> {"number", "amount"}
                 [] s = "dispute" -> {"number", "txn", "words"}
                 [] s \in {"nick", "freeze"} -> {"words"}
                 [] OTHER -> {}
BankKnows(s) == IF s = "dispute" THEN {"number", "txn"} ELSE {}
Fields == {"amount", "number", "kind", "words", "txn", "card"}
ValuesOf(f) == {None} \cup CASE f = "amount" -> Amounts
                             [] f = "number" -> Numbers \cup Own \cup {Made}
                             [] f = "kind" -> Kinds
                             [] f = "words" -> {Said, Made}
                             [] f = "txn" -> {"theirs", Made}
                             [] f = "card" -> Cards
Payloads(C(_)) == [amount : C("amount"), number : C("number"), kind : C("kind"),
                  words : C("words"), txn : C("txn"), card : C("card")]
Payload == Payloads(ValuesOf)
Nothing == [f \in Fields |-> None]
Given(p) == {f \in Fields : p[f] # None}
\* {**p, **q}
Over(p, q) == [f \in Fields |-> IF q[f] # None THEN q[f] ELSE p[f]]

\* A message writes numbers: `written` are their values, `digits` all its digits one
\* after the other, `runs` its runs of eight digits or more, spaces and dashes aside.  It
\* may name a kind of transfer, and say some words; the app may send a choice made in
\* its picker with it.
Message == [written : SUBSET Nat, digits : Seq(Digit), runs : SUBSET Seq(Digit),
            names : Kinds \cup {None}, words : BOOLEAN, pick : Own \cup Cards \cup {None}]

ASSUME MessagesAssumption ==
    /\ Messages \subseteq Message
    /\ \A m \in Messages : m.runs \subseteq SubSeqs(m.digits) \ {<<>>}

NothingSaid == [written |-> {}, digits |-> <<>>, runs |-> {}, names |-> None, words |-> FALSE,
                pick |-> None]

\* What the checks let through (_amount_supported, _check_numbers): as an amount any
\* number of the message times a power of ten, a phone number too; as an account or a
\* phone number any piece of its digits, joined across the numbers they come from.
\* (An amount within a millionth of another is the same to them.)
AmountsIn == [m \in Messages \cup {NothingSaid} |->
    {a \in Amounts : \E w \in m.written, k \in 0..8 : a \div 10^k = w /\ a % 10^k = 0}]
NumbersIn == [m \in Messages \cup {NothingSaid} |->
    {n \in Numbers \cup Own : Digits[n] \in SubSeqs(m.digits)}]

VARIABLES
    last,           \* the classification of the last turn
    message,        \* what the customer wrote in it
    wrote,          \* history: what they wrote in the turns about this request
    invented        \* history: whether the classifier made a number up in it

vars == <<last, message, wrote, invented>>

Pending == {"CLARIFICATION", "ACCOUNT_SELECTION", "TRANSACTION_SELECTION"}
Selection == Pending \ {"CLARIFICATION"}
\* A turn that leaves nothing a later one reads is "OTHER".
Turn == [type : Pending \cup {"BANKING_SERVICE", "CONFIRMATION", "OTHER"},
         service : Services \cup {None}, sub : Kinds \cup {None}, pay : Payload,
         missing : SUBSET Fields, cands : SUBSET (Own \cup Cards \cup {"theirs"})]
Other == [type |-> "OTHER", service |-> None, sub |-> None, pay |-> Nothing,
          missing |-> {}, cands |-> {}]

NothingWritten == [amounts |-> {}, numbers |-> {}]
Writes(m) == [amounts |-> AmountsIn[m], numbers |-> NumbersIn[m]]

DetailsInit ==
    /\ last = Other
    /\ message = NothingSaid
    /\ wrote = NothingWritten
    /\ invented = FALSE

-----------------------------------------------------------------------------
(* The classifier (banking/routing.py).  (A definition that ends in Instead *)
(* is a way the code could have gone wrong.)                                *)

\* An answer of the model: nothing that can be read as a call, a tool, or a route, which
\* may name a service the bank does not have, or have it under another category.
Tools == {"kb", "advice", "rates", "notes", "ask"}
Answers == [tool : Tools \cup {"nothing", "unheard of"}, service : {None}, misplaced : {FALSE}]
           \cup [tool : {"route"}, service : Services \cup {"nowhere"}, misplaced : BOOLEAN]
\* The answer about the app's own forms counts only when there are notes of them.
Usable(a, notes) == a.tool \in Tools /\ (a.tool = "notes" => notes)

\* The second and last attempt: anything it does not get right is asked about.
RetryBelievedInstead(a, notes) ==
    IF a.tool = "route" THEN a.service ELSE IF Usable(a, notes) THEN a.tool ELSE "ask"
Again(a, notes) ==
    CASE a.tool = "route" /\ a.service \in Services /\ ~a.misplaced -> a.service
      [] Usable(a, notes) -> a.tool
      [] OTHER -> "ask"
\* The first: a service under the wrong category is put right, a call that is missing or
\* routes nowhere is asked for again.
Routed(first, second, notes) ==
    CASE first.tool = "nothing" -> Again(second, notes)
      [] first.tool = "route" ->
            IF first.service = "nowhere" THEN Again(second, notes) ELSE first.service
      [] Usable(first, notes) -> first.tool
      [] OTHER -> "kb"
Reached == {Routed(first, second, notes) : first \in Answers, second \in Answers, notes \in BOOLEAN}

-----------------------------------------------------------------------------
(* What a reading of the message can be, and what is kept of it. *)

Request(s, sub, p) == [service |-> s, sub |-> sub, pay |-> p]

\* What is checked of a detail the model fills in (_fill_fields): the amount as above, a
\* wallet is one they named, free text is their own.  A number is not checked at all.
Fillings(f, m) ==
    {None} \cup CASE f = "amount" -> AmountsIn[m]
                  [] f = "number" -> NumbersIn[m] \cup {Made}
                  [] f = "kind" -> (Kinds \ Wallets) \cup ({m.names} \cap Wallets)
                  [] f = "words" -> IF m.words THEN {Said} ELSE {}
                  [] f = "txn" -> {Made}
                  [] OTHER -> {}
Filled(fields, m) ==
    LET Filling(f) == IF f \in fields THEN Fillings(f, m) ELSE {None} IN Payloads(Filling)

\* What the classifier takes from the message is anything; numbers and amounts that are
\* not in the message go (_check_amount, _check_numbers).
Readings(s, m) ==
    LET Read(f) == {None} \cup
            IF f \notin Required(s) THEN {}
            ELSE CASE f = "amount" -> Amounts
                   [] f = "number" -> Numbers \cup Own \cup {Made}
                   [] f = "kind" -> Kinds
                   [] f = "words" -> IF m.words THEN {Said, Made} ELSE {Made}
                   [] f = "txn" -> {Made}
    IN Payloads(Read)
\* A choice made in the app's picker takes its place.
FromApp(p, m) == IF m.pick = None THEN p
                 ELSE IF m.pick \in Cards THEN [Nothing EXCEPT !.card = m.pick]
                 ELSE [Nothing EXCEPT !.number = m.pick]
CheckAmount(p, m) == IF p.amount \in AmountsIn[m] THEN p ELSE [p EXCEPT !.amount = None]
CheckNumbers(p, m) ==
    IF p.number \in NumbersIn[m] \cup {Made} THEN p ELSE [p EXCEPT !.number = None]

\* The turn a message may be read against (get_classification_context, and the turn
\* that was just answered).
Context == IF last.type \in Pending \cup {"BANKING_SERVICE"} THEN last ELSE Other

\* _carry_forward_gathered: what was gathered for the same service is kept.
AnyServiceCarriesInstead(r, ctx) ==
    IF ctx.type \in {"CLARIFICATION", "BANKING_SERVICE"} /\ Given(ctx.pay) # {}
    THEN Request(r.service, r.sub, Over(ctx.pay, r.pay)) ELSE r
NothingCarriedInstead(r, ctx) == r
CarryForward(r, ctx) ==
    IF /\ ctx.type \in {"CLARIFICATION", "BANKING_SERVICE"} /\ ctx.service = r.service
       /\ Given(ctx.pay) # {}
    THEN Request(r.service, IF r.sub # None THEN r.sub ELSE ctx.sub, Over(ctx.pay, r.pay))
    ELSE r

\* _prefer_new_details: what this message states beats a detail carried over.  An older
\* number goes when the message gives one of its own; the digits of a made-up one are
\* anything.
KeptNumber(n, m) ==
    CASE m.runs = {} -> {n}
      [] m.runs # {} /\ n = Made -> {n, None}
      [] OTHER -> IF Digits[n] \in m.runs THEN {n} ELSE {None}
Restated(p, a, n) == [p EXCEPT !.amount = a, !.number = n]
OldNumberStaysInstead(r, fresh, m) == {r}
PreferNew(r, fresh, m) ==
    LET carried == Given(r.pay) \ Given(fresh.pay)
        amounts == {r.pay.amount} \cup IF "amount" \in carried THEN AmountsIn[m] ELSE {}
        numbers == IF "number" \in carried THEN KeptNumber(r.pay.number, m) ELSE {r.pay.number}
        subs == {r.sub} \cup
                IF r.service = "wallet" /\ r.sub # None /\ fresh.sub = None /\ m.names \in Wallets
                THEN {m.names} ELSE {}
    IN {Request(r.service, sub, Restated(r.pay, a, n)) :
            sub \in subs, a \in amounts, n \in numbers}

Unclear == Request(None, None, Nothing)

\* A freeze is kept when the customer's own words say why, or ask for it; they may be
\* in the messages before, while a question is open.
GroundFreeze(r, m) ==
    IF r.service # "freeze" THEN {r}
    ELSE {Unclear} \cup {Request(r.service, r.sub, [r.pay EXCEPT !.words = w]) :
                            w \in IF m.words \/ last.type \in Pending THEN {Said, None} ELSE {}}
\* A fee is for a wallet the message names.
NormalizeFee(r, m) ==
    IF r.service = "fee" /\ r.pay.kind \in Wallets \ {m.names}
    THEN [r EXCEPT !.pay.kind = None] ELSE r
\* Where a transfer goes is in the customer's words, or in a number they gave; the
\* model that looks for the words may miss them, or fail.
GroundDestination(r, m) ==
    IF r.service \in Transfers /\ ~(r.pay.number \in NumbersIn[m] /\ Len(Digits[r.pay.number]) >= MinDigits)
    THEN {r, [r EXCEPT !.sub = None]} ELSE {r}
GroundAction(r, m) == IF r.service = "nick" /\ r.pay.words = None THEN {r, Unclear} ELSE {r}
\* A detail the classifier missed is looked for in the same message.
FillKnown(r, m) ==
    LET missing == Required(r.service) \ (Given(r.pay) \cup BankKnows(r.service)) IN
    IF r.service \in NoFollowUp \/ missing = {} THEN {r}
    ELSE {Request(r.service, r.sub, Over(r.pay, p)) : p \in Filled(missing, m)}

\* A number that cannot be real is dropped (_clean_extracted_fields): one of a few
\* digits, or a wallet's that is not a mobile number.  A made-up one may be either.
Real(n, service) == IF service = "wallet" THEN n \in Mobiles ELSE Len(Digits[n]) >= MinDigits
Clean(r) ==
    LET dropped == [r EXCEPT !.pay.number = None] IN
    CASE r.pay.number = None -> {r}
      [] r.pay.number = Made -> {r, dropped}
      [] OTHER -> {IF Real(r.pay.number, r.service) THEN r ELSE dropped}

-----------------------------------------------------------------------------
(* What a turn about a request leaves. *)

Left(type, r, p) == [Other EXCEPT !.type = type, !.service = r.service, !.sub = r.sub, !.pay = p]
Asked(type, r, p, cands) == [Left(type, r, p) EXCEPT !.cands = cands]
\* An answered request keeps what the customer asked for, never what the bank added;
\* a change keeps nothing.
Answered(r) == Left("BANKING_SERVICE", r, IF r.service \in NoFollowUp THEN Nothing ELSE r.pay)

\* A picker ends the turn: of cards, of their accounts, of recent transactions.  With
\* no card or a second account to choose there is nothing to do.
WithAccount(p, a) == [p EXCEPT !.number = a]
AccountsToTry(r) == IF r.pay.number = None THEN Own ELSE {r.pay.number}
Picks(r) ==
    CASE r.service = "freeze" /\ r.pay.card = None ->
            {Asked("ACCOUNT_SELECTION", r, r.pay, Cards), Answered(r)}
      [] r.service = "bank" /\ r.sub = "own_account" /\ r.pay.number = None ->
            {Asked("ACCOUNT_SELECTION", r, r.pay, Own), Answered(r)}
      [] r.service = "dispute" /\ r.pay.txn = None ->
            {Asked("TRANSACTION_SELECTION", r, WithAccount(r.pay, a), {"theirs"}) :
                a \in AccountsToTry(r)}
            \cup IF r.pay.number = None THEN {Asked("ACCOUNT_SELECTION", r, r.pay, Own)} ELSE {}
      [] r.service = "dispute" /\ r.pay.txn # None /\ r.pay.number = None ->
            {Asked("ACCOUNT_SELECTION", r, r.pay, Own)}
      [] OTHER -> {}

\* What the bank knows is filled in when it can be read off it: the only card, or the
\* one just chosen; the only account, and the transaction they described.
Prefilled(r) ==
    CASE r.service = "freeze" /\ r.pay.card = None -> {[r.pay EXCEPT !.card = c] : c \in Cards}
      [] r.service = "dispute" ->
            {r.pay} \cup {[WithAccount(r.pay, a) EXCEPT !.txn = t] : a \in AccountsToTry(r),
                         t \in {IF r.pay.txn = None THEN "theirs" ELSE r.pay.txn, r.pay.txn}}
      [] OTHER -> {r.pay}

\* Reading an account needs to know which: the one they gave, their only one, or a
\* pick among them (_resolve_account_number).
AccountRead(r, p) ==
    {Answered(r)} \cup IF p.number = None THEN {Asked("ACCOUNT_SELECTION", r, p, Own)} ELSE {}

Missing(s, p) == Required(s) \ (Given(p) \cup BankKnows(s))
Settled(r, p) ==
    IF Missing(r.service, p) # {}
    THEN {[Left("CLARIFICATION", r, p) EXCEPT !.missing = Missing(r.service, p)]}
    ELSE IF r.service \in NoFollowUp THEN {Left("CONFIRMATION", r, p)}
    ELSE IF r.service = "read" THEN AccountRead(r, p) ELSE {Answered(r)}

\* Or it is refused: switched off, the login gone, the bank not answering.
Outcomes(r) ==
    IF r.service = None THEN {Left("CLARIFICATION", r, Nothing)}
    ELSE {Other} \cup Picks(r) \cup UNION {Settled(r, p) : p \in Prefilled(r)}

Continues(t) == last.service # None /\ t.service = last.service
Conclude(r, m) ==
    /\ \E c \in Clean(r) : last' \in Outcomes(c)
    /\ message' = m
    /\ wrote' = IF last' = Other THEN NothingWritten
                ELSE IF Continues(last')
                THEN [amounts |-> wrote.amounts \cup Writes(m).amounts,
                      numbers |-> wrote.numbers \cup Writes(m).numbers]
                ELSE Writes(m)

-----------------------------------------------------------------------------
(* The turn. *)

\* The pick of one of the choices that were offered (_try_account_selection_completion).
Chosen(c) == CASE c \in Own -> [Nothing EXCEPT !.number = c]
               [] c \in Cards \ Own -> [Nothing EXCEPT !.card = c]
               [] OTHER -> [Nothing EXCEPT !.txn = c]
PickedInApp(m) == last.type \in Selection /\ m.pick \in last.cands
Pick(m) ==
    /\ last.type \in Selection
    /\ \E c \in IF PickedInApp(m) THEN {m.pick} ELSE last.cands :
         Conclude(Request(last.service, last.sub, Over(last.pay, Chosen(c))), m)
    /\ invented' = FALSE

\* The answer to a question about missing details, or a detail changed in a request
\* that was answered (_llm_fill_pending_fields).
FillFields ==
    CASE last.type = "CLARIFICATION" -> last.missing
      [] last.type = "BANKING_SERVICE" /\ last.sub = None /\ last.service \notin NoFollowUp ->
            Required(last.service)
      [] OTHER -> {}
Fill(m) ==
    /\ FillFields # {}
    /\ \E r \in UNION {PreferNew(Request(last.service, last.sub, Over(last.pay, p)),
                                Request(last.service, None, Nothing), m) :
                       p \in Filled(FillFields, m) \ {Nothing}} :
         Conclude(r, m)
    /\ invented' = FALSE

\* A request the classifier reads, with the checks and the reading again in order.
Fresh == [m \in Messages |->
    UNION {{Request(s, sub, CheckNumbers(CheckAmount(FromApp(p, m), m), m)) :
              sub \in SubsOf(s) \cup {None}, p \in Readings(s, m)} : s \in Reached \ Tools}]
Classified(fresh, m) ==
    LET preferred == PreferNew(CarryForward(fresh, Context), fresh, m)
        freezes == UNION {GroundFreeze(r, m) : r \in preferred}
        placed == UNION {GroundDestination(NormalizeFee(r, m), m) : r \in freezes}
        asked == UNION {GroundAction(r, m) : r \in placed}
    IN UNION {FillKnown(r, m) : r \in asked}
Classify(m) ==
    /\ ~PickedInApp(m)
    /\ \E made \in BOOLEAN :
         LET read == {fresh \in Fresh[m] : (fresh.pay.number = Made) = made} IN
         /\ \E r \in UNION {Classified(fresh, m) : fresh \in read} : Conclude(r, m)
         /\ invented' = made

\* A message about none of the services, or nothing the classifier can tell.
Elsewhere(m) ==
    /\ ~PickedInApp(m)
    /\ \E tool \in Reached \cap Tools :
         last' = IF tool = "ask" THEN Left("CLARIFICATION", Unclear, Nothing) ELSE Other
    /\ message' = m /\ wrote' = NothingWritten /\ invented' = FALSE

DetailsNext == \E m \in Messages : Pick(m) \/ Fill(m) \/ Classify(m) \/ Elsewhere(m)

DetailsSpec == DetailsInit /\ [][DetailsNext]_vars

-----------------------------------------------------------------------------
(* Properties. *)

DetailsTypeOK ==
    /\ last \in Turn /\ message \in Message
    /\ wrote \in [amounts : SUBSET Amounts, numbers : SUBSET (Numbers \cup Own)]
    /\ invented \in BOOLEAN

\* The amount in a request that is gathered or answered comes from the turns about that
\* request, a number written in one of them times a power of ten; and a stranger's number
\* is digits of one of those messages.  Neither is ever left over from another request.
\* (What the model makes up and no check holds back is Made, not one of Numbers.)
DetailsAreTheirs ==
    /\ last.pay.amount \in wrote.amounts \cup {None}
    /\ last.pay.number \in Numbers => last.pay.number \in wrote.numbers

\* A transfer that is asked about or answered never goes to an older number when the
\* message gave one of its own: a stranger's number it has is digits of this message.
NewNumberWins ==
    /\ last.service \in Transfers /\ last.type \notin Selection
    /\ message.runs # {} /\ last.pay.number \in Numbers
    => last.pay.number \in NumbersIn[message]

\* What was gathered while a question was open is not lost when the next turn is about
\* the same request.  An amount stays, or is one this message can be read as; a number
\* stays when the message has no digits, unless the classifier made one up of words.
\* (A change of nickname or a freeze has neither, and keeps nothing once it is answered.)
GatheredIsKept ==
    [][last.type = "CLARIFICATION" /\ last'.service = last.service /\ last.service \notin NoFollowUp =>
        /\ last.pay.amount # None => last'.pay.amount \in {last.pay.amount} \cup AmountsIn[message']
        /\ /\ last.pay.number \in Numbers \cup Own
           /\ message'.digits = <<>> /\ ~invented'
           => last'.pay.number = last.pay.number
      ]_vars

\* (What _prefill_from_bank says of an own-account transfer: its destination is filled
\* in from their own data, their other account.)
OwnTransfersStayOwn ==
    last.type = "BANKING_SERVICE" /\ last.service = "bank" /\ last.sub = "own_account" =>
        last.pay.number \in Own \cup NumbersIn[message] \cup {Made, None}

\* (What _ground_transfer_destination says: with no words about where the money goes
\* the type is dropped and the bot asks where to send it.)
DestinationIsKnown ==
    last.type = "BANKING_SERVICE" /\ last.service \in Transfers => last.sub # None
=============================================================================
