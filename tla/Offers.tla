------------------------------- MODULE Offers -------------------------------
(***************************************************************************)
(* What one turn offers and the next may take up (routes/chat.py and       *)
(* advisor/advise.py): products recommended from the customer's own        *)
(* figures and the application that opens one of them, the question which  *)
(* kind of card is meant, the choice between saved people, and saving a    *)
(* person under the wallet they named.                                     *)
(*                                                                         *)
(* Each is kept in the classification of the last turn only; whatever a    *)
(* turn does not pass on is gone.  The model that reads a message chooses  *)
(* from closed lists and its choice is anything on them; a product named   *)
(* in a first message must be quoted from it.                              *)
(***************************************************************************)
EXTENDS Naturals, FiniteSets

CONSTANTS
    Products,       \* the bank's products
    Kinds,          \* their kinds
    CardKinds,      \* those that are cards: debit, credit
    KindOf,         \* the kind of a product
    Screens,        \* the app's application screens
    ScreenOf,       \* the one a product's card names (apply_via), or None
    MinIncome,      \* the income a product asks for
    Incomes,        \* incomes the customer's account may show
    People,         \* the saved beneficiaries
    SavedAs,        \* what each is: a bank account, a biller, or the wallet
    Wallets,
    NameOf,         \* their saved names
    Words,          \* names a customer may write
    TextMatch,      \* the people a name is part of
    Requests,       \* what a customer sends: see Request
    MaxPicks,       \* at most so many products are suggested
    None            \* no value

\* What is assumed of them (Conversation assumes it of its own).
OffersConstants ==
    /\ CardKinds \subseteq Kinds /\ KindOf \in [Products -> Kinds]
    /\ ScreenOf \in [Products -> Screens \cup {None}] /\ None \notin Screens \cup Products
    /\ MinIncome \in [Products -> Nat] /\ Incomes \subseteq Nat /\ MaxPicks \in Nat
    /\ SavedAs \in [People -> {"bank", "biller"} \cup Wallets]
    /\ NameOf \in [People -> Words] /\ TextMatch \in [Words -> SUBSET People]
    /\ \A p \in People : p \in TextMatch[NameOf[p]]

AddForm == "beneficiary_add_form"
\* A request names a product, a person or a wallet, and comes with the use cases the
\* bank has switched off.
Request == [product : Products \cup {None}, word : Words \cup {None}, wallet : Wallets \cup {None},
            off : SUBSET (Screens \cup {"insights", "recommend"})]

RequestsAreRequests == Requests \subseteq Request

VARIABLES
    offer,          \* what the last turn offered
    ranking,        \* the products it recommended
    did,            \* what it did for the customer
    request,        \* what they had sent
    figure          \* history: the income the products were judged by, if any is known

offersVars == <<offer, ranking, did, request, figure>>

Offer == [kind : {"none", "save", "cards", "apply", "people"},
          action : Screens \cup {None}, choices : SUBSET Products,
          screens : [Products -> Screens \cup {None}],
          people : SUBSET People, wallet : Wallets \cup {None}]
NoScreens == [p \in Products |-> None]
NoOffer == [kind |-> "none", action |-> None, choices |-> {}, screens |-> NoScreens,
            people |-> {}, wallet |-> None]
ToApply(action, choices, screens) ==
    [NoOffer EXCEPT !.kind = "apply", !.action = action, !.choices = choices, !.screens = screens]

Did == [act : {"answered", "asked", "opened", "told", "person"},
        screen : Screens \cup {AddForm, None}, product : Products \cup {None},
        person : People \cup {None}]
Act(a) == [act |-> a, screen |-> None, product |-> None, person |-> None]
Opened(s, p) == [Act("opened") EXCEPT !.screen = s, !.product = p]

NoRequest == [product |-> None, word |-> None, wallet |-> None, off |-> {}]

OffersInit ==
    /\ offer = NoOffer /\ ranking = {} /\ did = Act("told")
    /\ request = NoRequest /\ figure = {}

\* The turn is recorded: what it did and what it leaves on offer.
Leaves(d, o, r) == did' = d /\ offer' = o /\ request' = r
Judged(ranked, income) == ranking' = ranked /\ figure' = income
NotJudged == ranking' = {} /\ UNCHANGED figure

-----------------------------------------------------------------------------
(* Advice.  (A definition that ends in Instead is a way the code could have *)
(* gone wrong.)                                                             *)

\* What parse_need makes of the model's reading of the question.
Need(s, p, ks, ns) == [spending |-> s, product |-> p, kinds |-> ks, names |-> ns,
                       explain |-> FALSE, knowledge |-> FALSE, asked |-> TRUE]
Spending == Need(TRUE, FALSE, {}, {})
Needs == {Spending, [Need(FALSE, FALSE, {}, {}) EXCEPT !.knowledge = TRUE]}
         \cup {[Need(FALSE, TRUE, ks, {}) EXCEPT !.explain = TRUE] : ks \in SUBSET Kinds}
         \cup {Need(s, TRUE, ks, {}) : s \in BOOLEAN, ks \in (SUBSET Kinds) \ {{}}}
\* A need handed in is not asked about again.
GivenNeed(ks, ns) == [Need(FALSE, TRUE, ks, ns) EXCEPT !.asked = FALSE]

Candidates(need) == IF need.names # {} THEN need.names
                    ELSE {p \in Products : KindOf[p] \in need.kinds}
CardKindsOf(ps) == {KindOf[p] : p \in ps} \cap CardKinds
SwitchedTo(need, off) ==
    [need EXCEPT !.spending = @ /\ "insights" \notin off,
                 !.product = @ /\ "recommend" \notin off,
                 !.kinds = IF "recommend" \in off THEN {} ELSE @]

\* What the account shows of their income: one figure, or none.
Shown == {{}} \cup {{n} : n \in Incomes}
\* requirement_checks: an income below what the product asks for leaves it out; an
\* income the account does not show leaves nothing out.
EveryoneQualifiesInstead(p, income) == TRUE
Qualifies(p, income) == \A n \in income : MinIncome[p] <= n
\* rank_products: any of the candidates the figures allow, a few at most.
Ranked(need, income) ==
    {ps \in SUBSET {p \in Candidates(need) : Qualifies(p, income)} : Cardinality(ps) <= MaxPicks}
\* advise: "why these?" is answered from the ranking just given, when there is one.
Recommended(need, income) ==
    IF need.explain /\ ranking # {} THEN {[ps |-> ranking, by |-> figure]}
    ELSE IF need.product THEN {[ps |-> ps, by |-> income] : ps \in Ranked(need, income)}
    ELSE {[ps |-> {}, by |-> income]}

OwnScreens(ps) == [p \in Products |-> IF p \in ps THEN ScreenOf[p] ELSE None]
\* The screen most of them have; any of those when several do.
MostOf(ps) == {s \in Screens : \A t \in Screens :
                 Cardinality({p \in ps : ScreenOf[p] = t}) <= Cardinality({p \in ps : ScreenOf[p] = s})}
\* What the recommendation leaves on offer.
OffersOf(ps, applying, off) ==
    LET openable == {p \in ps : ScreenOf[p] # None} IN
    IF applying # None THEN {ToApply(applying, ps, OwnScreens(ps))}
    ELSE IF ps = {} THEN {IF offer.kind = "apply" THEN offer ELSE NoOffer}
    ELSE IF off \cap Screens # {} \/ openable = {} THEN {NoOffer}
    ELSE {ToApply(a, openable, OwnScreens(openable)) : a \in MostOf(openable)}

\* A knowledge answer leaves the offer to apply standing (_with_pending_apply).
Known(r) == /\ Leaves(Act("answered"), IF offer.kind = "apply" THEN offer ELSE NoOffer, r)
            /\ NotJudged
Told(r) == Leaves(Act("told"), NoOffer, r) /\ NotJudged
Open(s, p, r) == Leaves(Opened(s, p), NoOffer, r) /\ NotJudged

\* _advice_stream, for a question or for an application that names no product.
Advise(asking, applying, r) ==
    LET need == SwitchedTo(asking, r.off)
        askWhich == /\ asking.asked /\ asking.product
                    /\ Cardinality(CardKindsOf(Candidates(asking))) > 1
    IN
    \/ {"insights", "recommend"} \subseteq r.off /\ Told(r)
    \/ /\ ~({"insights", "recommend"} \subseteq r.off)
       /\ \/ asking.knowledge /\ Known(r)
          \/ /\ askWhich
             /\ Leaves(Act("asked"),
                       [NoOffer EXCEPT !.kind = "cards",
                          !.choices = {p \in Candidates(asking) : KindOf[p] \in CardKinds}], r)
             /\ NotJudged
          \/ ~asking.knowledge /\ ~askWhich /\ ~need.spending /\ ~need.product /\ Told(r)
          \/ /\ ~asking.knowledge /\ ~askWhich /\ (need.spending \/ need.product)
             /\ \/ Told(r)                              \* the login is gone, or the bank is down
                \/ applying # None /\ Open(applying, None, r)
                \/ \E income \in Shown : \E rec \in Recommended(need, income) :
                     /\ applying # None => rec.ps # {}
                     /\ \E o \in OffersOf(rec.ps, applying, r.off) : Leaves(Act("answered"), o, r)
                     /\ Judged(rec.ps, IF rec.ps = {} THEN figure ELSE rec.by)

-----------------------------------------------------------------------------
(* Applications. *)

\* Of an application that names none, the best fits are suggested first; a message that
\* quotes a product opens its own screen (_suggest_before_applying).
OnSale(r) == {p \in Products : ScreenOf[p] \in Screens \ r.off}
Apply(a, r) ==
    LET pool == {p \in Products : ScreenOf[p] = a} IN
    \/ a \in r.off /\ Told(r)
    \/ /\ a \notin r.off
       /\ \/ ("recommend" \in r.off \/ pool = {}) /\ Open(a, None, r)
          \/ "recommend" \notin r.off /\ r.product \in OnSale(r) /\ Open(ScreenOf[r.product], r.product, r)
          \/ "recommend" \notin r.off /\ pool # {} /\ Advise(GivenNeed({}, pool), a, r)

\* A reply to the offer that picks one (_try_apply_selection): the product's own screen
\* opens when it is known, unless the bank has switched it off meanwhile.
ScreenFor(p) == IF offer.screens[p] # None THEN offer.screens[p] ELSE offer.action
SwitchReadWhenOfferedInstead(s, r) == TRUE
StillOn(s, r) == s \notin r.off
PickProduct(r) ==
    /\ offer.kind = "apply"
    /\ \E p \in offer.choices :
         IF StillOn(ScreenFor(p), r) THEN Open(ScreenFor(p), p, r) ELSE Told(r)
\* One that wants to apply, without saying for which, is asked again.
AskAgain(r) ==
    /\ offer.kind = "apply"
    /\ Leaves(Act("asked"), ToApply(offer.action, offer.choices, NoScreens), r)
    /\ NotJudged

\* "Debit or credit?" is answered: those products are ranked.
PickCards(r) ==
    /\ offer.kind = "cards"
    /\ \E k \in CardKindsOf(offer.choices) : Advise(GivenNeed({k}, {}), None, r)

-----------------------------------------------------------------------------
(* Saved people. *)

\* Billers are not people to send money to, when others match too.
OnlyPeople(ps) == LET real == {p \in ps : SavedAs[p] # "biller"} IN IF real # {} THEN real ELSE ps
CanRecharge(p) == SavedAs[p] \in Wallets
\* The wallet in their words, when it is noticed (_read_wallet_provider).
WalletsRead(r) == {r.wallet, None}
\* A saved account number can also be saved under the wallet they named.
SaveOffer(p, wallet) ==
    IF wallet # None /\ SavedAs[p] # wallet
    THEN [NoOffer EXCEPT !.kind = "save", !.people = {p}, !.wallet = wallet] ELSE NoOffer
\* One certain match goes straight to the person; a guess, or several, is asked about.
Find(matches, guess, recharge, wallet, r) ==
    /\ NotJudged
    /\ IF matches = {} THEN Leaves(Act("asked"), NoOffer, r)
       ELSE IF Cardinality(matches) = 1 /\ ~guess
       THEN LET p == CHOOSE q \in matches : TRUE IN
            IF recharge /\ ~CanRecharge(p) THEN Leaves(Act("asked"), NoOffer, r)
            ELSE Leaves([Act("person") EXCEPT !.person = p], SaveOffer(p, wallet), r)
       ELSE Leaves(Act("asked"), [NoOffer EXCEPT !.kind = "people", !.people = matches,
                                                 !.wallet = wallet], r)

\* The name they wrote is looked up: as text, and by the model when that finds no one.
PersonNamed(r) ==
    /\ r.word # None
    /\ \E recharge \in BOOLEAN, wallet \in WalletsRead(r) :
         IF TextMatch[r.word] # {} THEN Find(OnlyPeople(TextMatch[r.word]), FALSE, recharge, wallet, r)
         ELSE \E ps \in SUBSET People : Find(OnlyPeople(ps), TRUE, recharge, wallet, r)
\* A transfer, a recharge or a message nobody could place may name one of them: the
\* model says which, and that saved name is looked up (_named_person_lookup).
PersonGuessed(r) ==
    \E p \in People, recharge \in BOOLEAN, wallet \in WalletsRead(r) :
        Find(OnlyPeople(TextMatch[NameOf[p]]), FALSE, recharge, wallet, r)
\* The reply to "which one?"; they may have been removed since.
PickPerson(r) ==
    /\ offer.kind = "people"
    /\ \E p \in offer.people : \E matches \in {{}, {p}} :
         Find(matches, FALSE, FALSE, offer.wallet, r)

\* The reply agrees to save them (_try_save_offer).
AgreeToSave(r) == offer.kind = "save" /\ Open(AddForm, None, r)

-----------------------------------------------------------------------------
(* The turn. *)

AskAdvice(r) == \E need \in Needs : Advise(need, None, r)
\* The classifier, or the second look at a message it could not place.
AskToApply(r) == \E a \in Screens : Apply(a, r)
AskKnowledge(r) == Known(r)
AskElse(r) == Leaves(Act("told"), NoOffer, r) /\ NotJudged

OffersNext == \E r \in Requests :
    \/ AgreeToSave(r) \/ PickCards(r) \/ PickProduct(r) \/ AskAgain(r) \/ PickPerson(r)
    \/ AskAdvice(r) \/ AskToApply(r) \/ AskKnowledge(r)
    \/ PersonNamed(r) \/ PersonGuessed(r) \/ AskElse(r)

OffersSpec == OffersInit /\ [][OffersNext]_offersVars

-----------------------------------------------------------------------------
(* Properties. *)

OffersTypeOK ==
    /\ offer \in Offer /\ ranking \in SUBSET Products /\ did \in Did
    /\ request \in Request /\ figure \in Shown

\* An application screen the bank has switched off is not opened, whichever turn
\* offered it and however it is reached.
ApplyRespectsSwitch == did.act = "opened" => did.screen \notin request.off

\* The products on offer are ones the customer's figures allowed when they were judged,
\* whatever was asked and explained since.
SuggestionsMeetTheirFigures ==
    offer.kind = "apply" => \A p \in offer.choices, n \in figure : MinIncome[p] <= n

\* (What _try_apply_selection says: an unclear reply asked again keeps the offer, and
\* the product's own application screen opens.)
OwnScreenOpens ==
    did.act = "opened" /\ did.product # None => did.screen = ScreenOf[did.product]

\* (What the saved-person lookup says: what the model found is a guess, and is always
\* shown as a choice.)
GuessIsAChoice ==
    [][did'.act = "person" =>
        \/ did'.person \in offer.people
        \/ /\ request'.word # None
           /\ did'.person \in TextMatch[request'.word]]_offersVars
=============================================================================
