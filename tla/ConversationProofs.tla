------------------------- MODULE ConversationProofs -------------------------
(***************************************************************************)
(* Theorems about a whole conversation, for any products, people, messages *)
(* and requests, and whatever the model makes of each message.             *)
(***************************************************************************)
EXTENDS Conversation, DetailsProofs

-----------------------------------------------------------------------------
(* Products on offer. *)

\* What the customer's figures allowed when they were last judged.
Met(ps, n) == \A p \in ps, i \in n : MinIncome[p] <= i

\* Both what is on offer and the ranking behind "why these?" were allowed by them.
OfferInv ==
    /\ offer.kind = "apply" => Met(offer.choices, figure)
    /\ Met(ranking, figure)

\* A recommendation is of products the figures it was judged by allow.
LEMMA RecommendedAreMet ==
    ASSUME OfferInv, NEW need, NEW income, NEW rec \in O!Recommended(need, income)
    PROVE  Met(rec.ps, rec.by)
<1>1. CASE need.explain /\ ranking # {}
  BY <1>1 DEF O!Recommended, OfferInv, Met
<1>2. CASE ~(need.explain /\ ranking # {}) /\ need.product
  <2>1. PICK ps \in O!Ranked(need, income) : rec = [ps |-> ps, by |-> income]
    BY <1>2 DEF O!Recommended
  <2>2. \A p \in ps : O!Qualifies(p, income)
    BY <2>1 DEF O!Ranked
  <2> QED
    BY <2>1, <2>2 DEF Met, O!Qualifies
<1>3. CASE ~(need.explain /\ ranking # {}) /\ ~need.product
  BY <1>3 DEF O!Recommended, Met
<1> QED
  BY <1>1, <1>2, <1>3

\* What it leaves on offer is of the recommended products, or is what was on offer.
LEMMA OfferedAreRecommended ==
    ASSUME NEW ps, NEW applying, NEW off, NEW o \in O!OffersOf(ps, applying, off),
           o.kind = "apply", applying # None => ps # {}
    PROVE  \/ ps # {} /\ o.choices \subseteq ps
           \/ ps = {} /\ o = offer
<1> USE DEF O!ToApply, O!NoOffer
<1> DEFINE openable == {p \in ps : ScreenOf[p] # None}
<1>1. CASE applying # None
  <2>1. o = O!ToApply(applying, ps, O!OwnScreens(ps))
    BY <1>1 DEF O!OffersOf
  <2> QED
    BY <1>1, <2>1
<1>2. CASE applying = None /\ ps = {}
  BY <1>2 DEF O!OffersOf
<1>3. CASE applying = None /\ ps # {}
  <2>1. CASE off \cap Screens # {} \/ openable = {}
    <3>1. o \in {O!NoOffer}
      BY <1>3, <2>1 DEF O!OffersOf
    <3>2. o.kind = "none"
      BY <3>1
    <3> QED
      BY <3>2
  <2>2. CASE ~(off \cap Screens # {} \/ openable = {})
    <3>1. o \in {O!ToApply(a, openable, O!OwnScreens(openable)) : a \in O!MostOf(openable)}
      BY <1>3, <2>2 DEF O!OffersOf
    <3>2. o.choices = openable
      BY <3>1
    <3> QED
      BY <1>3, <3>2
  <2> QED
    BY <2>1, <2>2
<1> QED
  BY <1>1, <1>2, <1>3

\* A turn that judges nothing leaves what was on offer, or nothing to apply for.
LEMMA NothingJudged ==
    ASSUME OfferInv, O!NotJudged, offer'.kind = "apply" => offer.kind = "apply" /\ offer'.choices = offer.choices
    PROVE  OfferInv'
BY DEF OfferInv, Met, O!NotJudged

LEMMA AdviceIsMet ==
    ASSUME OfferInv, NEW asking, NEW applying, NEW r, O!Advise(asking, applying, r)
    PROVE  OfferInv'
<1> DEFINE need == O!SwitchedTo(asking, r.off)
<1> USE DEF O!Leaves, O!NoOffer
<1>1. CASE O!Told(r)
  BY <1>1, NothingJudged DEF O!Told
<1>2. CASE O!Known(r)
  BY <1>2, NothingJudged DEF O!Known
<1>3. CASE offer'.kind = "cards" /\ O!NotJudged
  BY <1>3, NothingJudged
<1>4. CASE O!Open(applying, None, r)
  BY <1>4, NothingJudged DEF O!Open
<1>5. ASSUME NEW income \in O!Shown, NEW rec \in O!Recommended(need, income),
             applying # None => rec.ps # {},
             NEW o \in O!OffersOf(rec.ps, applying, r.off), offer' = o,
             O!Judged(rec.ps, IF rec.ps = {} THEN figure ELSE rec.by)
      PROVE  OfferInv'
  <2>1. Met(rec.ps, rec.by)
    BY <1>5, RecommendedAreMet
  <2>2. ranking' = rec.ps /\ figure' = IF rec.ps = {} THEN figure ELSE rec.by
    BY <1>5 DEF O!Judged
  <2>3. Met(ranking', figure')
    BY <2>1, <2>2 DEF Met
  <2>4. ASSUME offer'.kind = "apply" PROVE Met(offer'.choices, figure')
    <3>1. \/ rec.ps # {} /\ offer'.choices \subseteq rec.ps
          \/ rec.ps = {} /\ offer' = offer
      BY <1>5, <2>4, OfferedAreRecommended
    <3> QED
      BY <3>1, <2>1, <2>2, <2>4 DEF OfferInv, Met
  <2> QED
    BY <2>3, <2>4 DEF OfferInv, Met
<1> QED
  BY <1>1, <1>2, <1>3, <1>4, <1>5 DEF O!Advise

LEMMA OffersTurnIsMet ==
    ASSUME OfferInv, O!OffersNext
    PROVE  OfferInv'
<1>1. PICK r \in Requests :
        \/ O!AgreeToSave(r) \/ O!PickCards(r) \/ O!PickProduct(r) \/ O!AskAgain(r)
        \/ O!PickPerson(r) \/ O!AskAdvice(r) \/ O!AskToApply(r) \/ O!AskKnowledge(r)
        \/ O!PersonNamed(r) \/ O!PersonGuessed(r) \/ O!AskElse(r)
  BY DEF O!OffersNext
<1> USE DEF O!Leaves, O!NoOffer
<1>2. ASSUME NEW s, NEW p, O!Open(s, p, r) PROVE OfferInv'
  BY <1>2, NothingJudged DEF O!Open
<1>3. ASSUME O!Told(r) PROVE OfferInv'
  BY <1>3, NothingJudged DEF O!Told
<1>4. ASSUME NEW matches, NEW guess, NEW recharge, NEW wallet,
             O!Find(matches, guess, recharge, wallet, r)
      PROVE  OfferInv'
  <2> DEFINE p == CHOOSE q \in matches : TRUE
  <2>1. \E d, o : O!Leaves(d, o, r) /\ o.kind # "apply"
    <3>1. O!SaveOffer(p, wallet).kind # "apply"
      BY DEF O!SaveOffer
    <3>2. O!NoOffer.kind # "apply"
      OBVIOUS
    <3>3. [O!NoOffer EXCEPT !.kind = "people", !.people = matches, !.wallet = wallet].kind # "apply"
      OBVIOUS
    <3> HIDE DEF O!NoOffer
    <3> QED
      BY <1>4, <3>1, <3>2, <3>3 DEF O!Find
  <2>2. O!NotJudged
    BY <1>4 DEF O!Find
  <2> QED
    BY <2>1, <2>2, NothingJudged
<1>5. CASE O!AgreeToSave(r)
  BY <1>5, <1>2 DEF O!AgreeToSave
<1>6. CASE O!PickCards(r)
  BY <1>6, AdviceIsMet DEF O!PickCards
<1>7. CASE O!PickProduct(r)
  BY <1>7, <1>2, <1>3 DEF O!PickProduct
<1>8. CASE O!AskAgain(r)
  BY <1>8, NothingJudged DEF O!AskAgain, O!ToApply
<1>9. CASE O!PickPerson(r)
  BY <1>9, <1>4 DEF O!PickPerson
<1>10. CASE O!AskAdvice(r)
  BY <1>10, AdviceIsMet DEF O!AskAdvice
<1>11. CASE O!AskToApply(r)
  BY <1>11, <1>2, <1>3, AdviceIsMet DEF O!AskToApply, O!Apply
<1>12. CASE O!AskKnowledge(r)
  BY <1>12, NothingJudged DEF O!AskKnowledge, O!Known
<1>13. CASE O!PersonNamed(r)
  BY <1>13, <1>4 DEF O!PersonNamed
<1>14. CASE O!PersonGuessed(r)
  BY <1>14, <1>4 DEF O!PersonGuessed
<1>15. CASE O!AskElse(r)
  BY <1>15, NothingJudged DEF O!AskElse
<1> QED
  BY <1>1, <1>5, <1>6, <1>7, <1>8, <1>9, <1>10, <1>11, <1>12, <1>13, <1>14, <1>15

\* The products on offer are ones the customer's figures allowed when they were judged,
\* however many turns have asked again, explained or passed the offer on (rank_products,
\* explanation, _with_pending_apply).
THEOREM ConversationSuggestionsMeetTheirFigures == Spec => []SuggestionsMeetTheirFigures
<1>1. Init => OfferInv
  BY DEF Init, O!OffersInit, O!NoOffer, OfferInv, Met
<1>2. OfferInv /\ [Next]_<<vars, O!offersVars>> => OfferInv'
  <2> SUFFICES ASSUME OfferInv, [Next]_<<vars, O!offersVars>> PROVE OfferInv'
    OBVIOUS
  <2>1. CASE DetailsTurn
    BY <2>1 DEF DetailsTurn, OfferInv, Met, O!NoOffer
  <2>2. CASE OffersTurn
    BY <2>2, OffersTurnIsMet DEF OffersTurn
  <2>3. CASE Restart
    BY <2>3 DEF Restart, OfferInv, Met, O!NoOffer
  <2>4. CASE UNCHANGED <<vars, O!offersVars>>
    BY <2>4 DEF O!offersVars, OfferInv, Met
  <2> QED
    BY <2>1, <2>2, <2>3, <2>4 DEF Next
<1>3. OfferInv => SuggestionsMeetTheirFigures
  BY DEF OfferInv, Met, SuggestionsMeetTheirFigures, O!SuggestionsMeetTheirFigures
<1> QED
  BY <1>1, <1>2, <1>3, PTL DEF Spec

-----------------------------------------------------------------------------
(* Screens the bank has switched off. *)

\* What a turn does for a request whose switches are `off`.
LEMMA OpensOnlyWhatIsOn ==
    ASSUME O!RequestsAreRequests, O!AddForm \notin Screens, O!OffersNext
    PROVE  O!ApplyRespectsSwitch'
<1>1. PICK r \in Requests :
        \/ O!AgreeToSave(r) \/ O!PickCards(r) \/ O!PickProduct(r) \/ O!AskAgain(r)
        \/ O!PickPerson(r) \/ O!AskAdvice(r) \/ O!AskToApply(r) \/ O!AskKnowledge(r)
        \/ O!PersonNamed(r) \/ O!PersonGuessed(r) \/ O!AskElse(r)
  BY DEF O!OffersNext
<1> USE DEF O!ApplyRespectsSwitch, O!Leaves, O!Act
<1>2. ASSUME NEW s, NEW p, s \notin r.off, O!Open(s, p, r) PROVE O!ApplyRespectsSwitch'
  BY <1>2 DEF O!Open, O!Opened
<1>3. ASSUME O!Told(r) PROVE O!ApplyRespectsSwitch'
  BY <1>3 DEF O!Told
<1>4. ASSUME NEW matches, NEW guess, NEW recharge, NEW wallet,
             O!Find(matches, guess, recharge, wallet, r)
      PROVE  O!ApplyRespectsSwitch'
  BY <1>4 DEF O!Find
<1>5. ASSUME NEW asking, NEW applying, O!Advise(asking, applying, r),
             applying # None => applying \notin r.off
      PROVE  O!ApplyRespectsSwitch'
  BY <1>5, <1>2, <1>3 DEF O!Advise, O!Known
<1>6. CASE O!AgreeToSave(r)
  <2>1. O!AddForm \notin r.off
    BY DEF O!RequestsAreRequests, O!Request, O!AddForm
  <2> QED
    BY <1>6, <2>1, <1>2 DEF O!AgreeToSave
<1>7. CASE O!PickCards(r)
  BY <1>7, <1>5 DEF O!PickCards
<1>8. CASE O!PickProduct(r)
  BY <1>8, <1>2, <1>3 DEF O!PickProduct, O!StillOn
<1>9. CASE O!AskAgain(r)
  BY <1>9 DEF O!AskAgain
<1>10. CASE O!PickPerson(r)
  BY <1>10, <1>4 DEF O!PickPerson
<1>11. CASE O!AskAdvice(r)
  BY <1>11, <1>5 DEF O!AskAdvice
<1>12. CASE O!AskToApply(r)
  BY <1>12, <1>2, <1>3, <1>5 DEF O!AskToApply, O!Apply, O!OnSale
<1>13. CASE O!AskKnowledge(r)
  BY <1>13 DEF O!AskKnowledge, O!Known
<1>14. CASE O!PersonNamed(r)
  BY <1>14, <1>4 DEF O!PersonNamed
<1>15. CASE O!PersonGuessed(r)
  BY <1>15, <1>4 DEF O!PersonGuessed
<1>16. CASE O!AskElse(r)
  BY <1>16 DEF O!AskElse
<1> QED
  BY <1>1, <1>6, <1>7, <1>8, <1>9, <1>10, <1>11, <1>12, <1>13, <1>14, <1>15, <1>16

\* No application screen opens that the request's switches have off, whichever turn
\* offered it (_try_apply_selection, _suggest_before_applying).  The form that adds a
\* person is not one of them: it is not asked about again.
THEOREM ConversationApplyRespectsSwitch ==
    ASSUME O!AddForm \notin Screens
    PROVE  Spec => []ApplyRespectsSwitch
<1> USE DEF ApplyRespectsSwitch
<1>1. Init => ApplyRespectsSwitch
  BY DEF Init, O!OffersInit, O!Act, O!ApplyRespectsSwitch
<1>2. ApplyRespectsSwitch /\ [Next]_<<vars, O!offersVars>> => ApplyRespectsSwitch'
  <2> SUFFICES ASSUME ApplyRespectsSwitch, [Next]_<<vars, O!offersVars>>
               PROVE  ApplyRespectsSwitch'
    OBVIOUS
  <2>1. CASE DetailsTurn
    BY <2>1 DEF DetailsTurn, O!Act, O!ApplyRespectsSwitch
  <2>2. CASE OffersTurn
    BY <2>2, ConversationAssumption, OpensOnlyWhatIsOn DEF OffersTurn
  <2>3. CASE Restart
    BY <2>3 DEF Restart, O!Act, O!ApplyRespectsSwitch
  <2>4. CASE UNCHANGED <<vars, O!offersVars>>
    BY <2>4 DEF O!offersVars, O!ApplyRespectsSwitch
  <2> QED
    BY <2>1, <2>2, <2>3, <2>4 DEF Next
<1> QED
  BY <1>1, <1>2, PTL DEF Spec

-----------------------------------------------------------------------------
(* Details. *)

LEMMA ConversationDetailsInv ==
    ASSUME Own \cap Numbers = {}
    PROVE  Spec => [](DetailsInv /\ NewNumberWins)
<1>1. Init => DetailsInv /\ NewNumberWins
  BY NoDetail, DetailsAssumption
     DEF Init, DetailsInit, DetailsInv, DetailsAreTheirs, NewNumberWins, Other, Selection,
         Pending, Nothing, NothingWritten, NothingSaid, Fields, Numbers
<1>2. DetailsInv /\ NewNumberWins /\ [Next]_<<vars, O!offersVars>> => (DetailsInv /\ NewNumberWins)'
  <2> SUFFICES ASSUME DetailsInv, NewNumberWins, [Next]_<<vars, O!offersVars>>
               PROVE  DetailsInv' /\ NewNumberWins'
    OBVIOUS
  <2>1. CASE DetailsTurn
    BY <2>1, DetailsTurnKeeps DEF DetailsTurn
  <2>2. CASE OffersTurn
    BY <2>2, NothingLeft DEF OffersTurn, NothingWritten
  <2>3. CASE Restart
    BY <2>3, NothingLeft DEF Restart, NothingWritten
  <2>4. CASE UNCHANGED <<vars, O!offersVars>>
    BY <2>4 DEF vars, DetailsInv, DetailsAreTheirs, NewNumberWins
  <2> QED
    BY <2>1, <2>2, <2>3, <2>4 DEF Next
<1> QED
  BY <1>1, <1>2, PTL DEF Spec

\* The amount of a request comes from a number the customer wrote about that request,
\* times a power of ten, and a stranger's number is digits of one of those messages:
\* neither crosses into another request, through offers, restarts and anything the
\* checks let the model read (_carry_forward_gathered, _fill_fields, _amount_supported,
\* _check_numbers).
THEOREM ConversationDetailsAreTheirs ==
    ASSUME Own \cap Numbers = {}
    PROVE  Spec => []DetailsAreTheirs
<1>1. DetailsInv => DetailsAreTheirs
  BY DEF DetailsInv
<1> QED
  BY <1>1, ConversationDetailsInv, PTL

\* A transfer to a stranger's number has digits of this message when the message gave a
\* number of its own, never an older one (_prefer_new_details).
THEOREM ConversationNewNumberWins ==
    ASSUME Own \cap Numbers = {}
    PROVE  Spec => []NewNumberWins
BY ConversationDetailsInv, PTL

\* What was gathered while a question was open is there after the next turn about the
\* same request: the amount, or one this message can be read as; and the number, when the
\* message has no digits and the classifier makes none up (_llm_fill_pending_fields,
\* _carry_forward_gathered, _prefer_new_details, _clean_extracted_fields).
THEOREM ConversationGatheredIsKept == Spec => GatheredIsKept
<1>1. Init => GatherInv
  BY DEF Init, DetailsInit, GatherInv, Other, Nothing, Fields
<1>2. GatherInv /\ [Next]_<<vars, O!offersVars>> => GatherInv' /\ (GatheredStep \/ UNCHANGED vars)
  <2> SUFFICES ASSUME GatherInv, [Next]_<<vars, O!offersVars>>
               PROVE  GatherInv' /\ (GatheredStep \/ UNCHANGED vars)
    OBVIOUS
  <2>1. CASE DetailsTurn
    BY <2>1, DetailsTurnGathers DEF DetailsTurn
  <2>2. CASE OffersTurn
    BY <2>2, AboutNothing DEF OffersTurn
  <2>3. CASE Restart
    BY <2>3, AboutNothing DEF Restart
  <2>4. CASE UNCHANGED <<vars, O!offersVars>>
    BY <2>4 DEF vars, GatherInv, Given
  <2> QED
    BY <2>1, <2>2, <2>3, <2>4 DEF Next
<1> QED
  <2>1. GatherInv /\ [Next]_<<vars, O!offersVars>> =>
      [last.type = "CLARIFICATION" /\ last'.service = last.service /\ last.service \notin NoFollowUp =>
        /\ last.pay.amount # None => last'.pay.amount \in {last.pay.amount} \cup AmountsIn[message']
        /\ /\ last.pay.number \in Numbers \cup Own
           /\ message'.digits = <<>> /\ ~invented'
           => last'.pay.number = last.pay.number
      ]_vars
    BY <1>2 DEF GatheredStep
  <2> QED
    BY <1>1, <1>2, <2>1, PTL DEF Spec, GatheredIsKept

-----------------------------------------------------------------------------
(* The types of what any turn leaves. *)

\* The offers and the acts of a turn are built from typed parts.
LEMMA OfferPieces ==
    /\ O!NoScreens \in [Products -> Screens \cup {None}]
    /\ O!NoOffer \in O!Offer
    /\ \A ps : O!OwnScreens(ps) \in [Products -> Screens \cup {None}]
    /\ \A a \in Screens \cup {None}, c \in SUBSET Products :
         \A s \in [Products -> Screens \cup {None}] : O!ToApply(a, c, s) \in O!Offer
    /\ \A a \in {"answered", "asked", "opened", "told", "person"} : O!Act(a) \in O!Did
    /\ \A s \in Screens \cup {O!AddForm, None}, p \in Products \cup {None} :
         O!Opened(s, p) \in O!Did
<1>1. O!NoScreens \in [Products -> Screens \cup {None}]
  BY DEF O!NoScreens
<1>2. O!NoOffer \in O!Offer
  BY <1>1 DEF O!NoOffer, O!Offer
<1>3. \A ps : O!OwnScreens(ps) \in [Products -> Screens \cup {None}]
  BY ConversationAssumption DEF O!OffersConstants, O!OwnScreens
<1>4. ASSUME NEW a \in Screens \cup {None}, NEW c \in SUBSET Products,
             NEW s \in [Products -> Screens \cup {None}]
      PROVE  O!ToApply(a, c, s) \in O!Offer
  BY <1>2 DEF O!ToApply, O!Offer
<1>5. \A a \in {"answered", "asked", "opened", "told", "person"} : O!Act(a) \in O!Did
  BY DEF O!Act, O!Did
<1>6. ASSUME NEW s \in Screens \cup {O!AddForm, None}, NEW p \in Products \cup {None}
      PROVE  O!Opened(s, p) \in O!Did
  BY <1>5 DEF O!Opened, O!Did
<1> QED
  BY <1>1, <1>2, <1>3, <1>4, <1>5, <1>6

\* A recommendation is of products, judged by a figure the account shows.
LEMMA RecommendedAreTyped ==
    ASSUME O!OffersTypeOK, NEW need, need.names \in SUBSET Products, NEW income \in O!Shown,
           NEW rec \in O!Recommended(need, income)
    PROVE  rec.ps \in SUBSET Products /\ rec.by \in O!Shown
<1>1. CASE need.explain /\ ranking # {}
  BY <1>1 DEF O!Recommended, O!OffersTypeOK
<1>2. CASE ~(need.explain /\ ranking # {}) /\ need.product
  <2>1. PICK ps \in O!Ranked(need, income) : rec = [ps |-> ps, by |-> income]
    BY <1>2 DEF O!Recommended
  <2>2. O!Candidates(need) \in SUBSET Products
    BY DEF O!Candidates
  <2> QED
    BY <2>1, <2>2 DEF O!Ranked
<1>3. CASE ~(need.explain /\ ranking # {}) /\ ~need.product
  BY <1>3 DEF O!Recommended
<1> QED
  BY <1>1, <1>2, <1>3

\* What a recommendation leaves on offer is an offer.
LEMMA OfferedAreTyped ==
    ASSUME O!OffersTypeOK, NEW ps \in SUBSET Products,
           NEW applying \in Screens \cup {None}, NEW off, NEW o \in O!OffersOf(ps, applying, off)
    PROVE  o \in O!Offer
<1> DEFINE openable == {p \in ps : ScreenOf[p] # None}
<1>1. CASE applying # None
  BY <1>1, OfferPieces DEF O!OffersOf
<1>2. CASE applying = None /\ ps = {}
  BY <1>2, OfferPieces DEF O!OffersOf, O!OffersTypeOK
<1>3. CASE applying = None /\ ps # {} /\ (off \cap Screens # {} \/ openable = {})
  BY <1>3, OfferPieces DEF O!OffersOf
<1>4. CASE applying = None /\ ps # {} /\ ~(off \cap Screens # {} \/ openable = {})
  <2>1. PICK a \in O!MostOf(openable) : o = O!ToApply(a, openable, O!OwnScreens(openable))
    BY <1>4 DEF O!OffersOf
  <2>2. a \in Screens /\ openable \in SUBSET Products
    BY DEF O!MostOf
  <2> HIDE DEF openable
  <2> QED
    BY <2>1, <2>2, OfferPieces
<1> QED
  BY <1>1, <1>2, <1>3, <1>4

\* The needs a question can be read as.
NeedRead == [spending : BOOLEAN, product : BOOLEAN, kinds : SUBSET ProductKinds,
             names : SUBSET Products, explain : BOOLEAN, knowledge : BOOLEAN, asked : BOOLEAN]

\* Whatever the model reads of a question is a need; so is one given by a choice.
LEMMA NeedsAreRead ==
    /\ O!Needs \subseteq NeedRead
    /\ \A ks \in SUBSET ProductKinds, ns \in SUBSET Products : O!GivenNeed(ks, ns) \in NeedRead
<1>1. \A s \in BOOLEAN, p \in BOOLEAN, ks \in SUBSET ProductKinds, ns \in SUBSET Products :
         O!Need(s, p, ks, ns) \in NeedRead
  BY DEF O!Need, NeedRead
<1>2. \A n \in NeedRead : /\ [n EXCEPT !.explain = TRUE] \in NeedRead
                          /\ [n EXCEPT !.knowledge = TRUE] \in NeedRead
                          /\ [n EXCEPT !.asked = FALSE] \in NeedRead
  BY DEF NeedRead
<1>3. {} \in SUBSET ProductKinds /\ {} \in SUBSET Products
  OBVIOUS
<1> HIDE DEF NeedRead
<1>4. \A ks \in SUBSET ProductKinds, ns \in SUBSET Products : O!GivenNeed(ks, ns) \in NeedRead
  BY <1>1, <1>2 DEF O!GivenNeed
<1>5. ASSUME NEW n \in O!Needs PROVE n \in NeedRead
  <2>1. \/ n = O!Spending \/ n = [O!Need(FALSE, FALSE, {}, {}) EXCEPT !.knowledge = TRUE]
        \/ \E ks \in SUBSET ProductKinds : n = [O!Need(FALSE, TRUE, ks, {}) EXCEPT !.explain = TRUE]
        \/ \E s \in BOOLEAN, ks \in SUBSET ProductKinds : n = O!Need(s, TRUE, ks, {})
    <3> DEFINE A == {O!Spending, [O!Need(FALSE, FALSE, {}, {}) EXCEPT !.knowledge = TRUE]}
               B == {[O!Need(FALSE, TRUE, ks, {}) EXCEPT !.explain = TRUE] :
                       ks \in SUBSET ProductKinds}
               C == {O!Need(s, TRUE, ks, {}) :
                       s \in BOOLEAN, ks \in (SUBSET ProductKinds) \ {{}}}
    <3>1. O!Needs = A \cup B \cup C
      BY DEF O!Needs
    <3>2. n \in C => \E s \in BOOLEAN, ks \in SUBSET ProductKinds : n = O!Need(s, TRUE, ks, {})
      <4> DEFINE Some == (SUBSET ProductKinds) \ {{}}
                 Read(s, ks) == O!Need(s, TRUE, ks, {})
      <4>1. Some \in SUBSET SUBSET ProductKinds
        OBVIOUS
      <4>2. C = {Read(s, ks) : s \in BOOLEAN, ks \in Some}
        OBVIOUS
      <4> HIDE DEF C, Some, Read
      <4>3. n \in C => \E s \in BOOLEAN, ks \in Some : n = Read(s, ks)
        BY <4>2
      <4> QED
        BY <4>1, <4>3 DEF Read
    <3>3. n \in B => \E ks \in SUBSET ProductKinds :
                        n = [O!Need(FALSE, TRUE, ks, {}) EXCEPT !.explain = TRUE]
      OBVIOUS
    <3>4. n \in A => \/ n = O!Spending
                    \/ n = [O!Need(FALSE, FALSE, {}, {}) EXCEPT !.knowledge = TRUE]
      OBVIOUS
    <3> HIDE DEF A, B, C
    <3> QED
      BY <3>1, <3>2, <3>3, <3>4
  <2>2. CASE n = O!Spending \/ n = [O!Need(FALSE, FALSE, {}, {}) EXCEPT !.knowledge = TRUE]
    BY <1>1, <1>2, <1>3, <2>2 DEF O!Spending
  <2>3. ASSUME NEW ks \in SUBSET ProductKinds,
               n = [O!Need(FALSE, TRUE, ks, {}) EXCEPT !.explain = TRUE]
        PROVE  n \in NeedRead
    BY <1>1, <1>2, <1>3, <2>3
  <2>4. ASSUME NEW s \in BOOLEAN, NEW ks \in SUBSET ProductKinds, n = O!Need(s, TRUE, ks, {})
        PROVE  n \in NeedRead
    BY <1>1, <1>3, <2>4
  <2> QED
    BY <2>1, <2>2, <2>3, <2>4
<1> QED
  BY <1>4, <1>5

\* Advice leaves typed state.
LEMMA AdviceIsTyped ==
    ASSUME O!OffersTypeOK, NEW r \in Requests, NEW asking \in NeedRead,
           NEW applying \in Screens \cup {None}, O!Advise(asking, applying, r)
    PROVE  O!OffersTypeOK'
<1> DEFINE need == O!SwitchedTo(asking, r.off)
<1> USE DEF O!Leaves
<1>0. r \in O!Request /\ offer \in O!Offer /\ O!NoOffer \in O!Offer
  BY OfferPieces, ConversationAssumption DEF O!RequestsAreRequests, O!OffersTypeOK
<1>1. ASSUME NEW d \in O!Did, NEW o \in O!Offer, O!Leaves(d, o, r), O!NotJudged
      PROVE  O!OffersTypeOK'
  BY <1>0, <1>1 DEF O!OffersTypeOK, O!NotJudged
<1>2. CASE O!Told(r)
  BY <1>0, <1>1, <1>2, OfferPieces DEF O!Told
<1>3. CASE O!Known(r)
  BY <1>0, <1>1, <1>3, OfferPieces DEF O!Known
<1>4. CASE /\ O!Leaves(O!Act("asked"),
                       [O!NoOffer EXCEPT !.kind = "cards",
                          !.choices = {p \in O!Candidates(asking) : KindOf[p] \in CardKinds}], r)
           /\ O!NotJudged
  <2>1. {p \in O!Candidates(asking) : KindOf[p] \in CardKinds} \in SUBSET Products
    BY DEF O!Candidates, NeedRead
  <2>2. \A c \in SUBSET Products : [O!NoOffer EXCEPT !.kind = "cards", !.choices = c] \in O!Offer
    BY <1>0 DEF O!Offer
  <2> QED
    BY <1>1, <1>4, <2>1, <2>2, OfferPieces
<1>5. CASE O!Open(applying, None, r)
  BY <1>0, <1>1, <1>5, OfferPieces DEF O!Open
<1>6. ASSUME NEW income \in O!Shown, NEW rec \in O!Recommended(need, income),
             NEW o \in O!OffersOf(rec.ps, applying, r.off), O!Leaves(O!Act("answered"), o, r),
             O!Judged(rec.ps, IF rec.ps = {} THEN figure ELSE rec.by)
      PROVE  O!OffersTypeOK'
  <2>1. need.names = asking.names /\ asking.names \in SUBSET Products
    BY DEF O!SwitchedTo, NeedRead
  <2> HIDE DEF need
  <2>2. rec.ps \in SUBSET Products /\ rec.by \in O!Shown
    BY <2>1, <1>6, RecommendedAreTyped
  <2>3. o \in O!Offer
    BY <2>2, <1>6, OfferedAreTyped
  <2> QED
    BY <1>0, <1>6, <2>2, <2>3, OfferPieces DEF O!Judged, O!OffersTypeOK
<1> HIDE DEF O!Leaves
<1> QED
  BY <1>2, <1>3, <1>4, <1>5, <1>6 DEF O!Advise

\* Looking for a person leaves typed state.
LEMMA FindIsTyped ==
    ASSUME O!OffersTypeOK, NEW r \in Requests,
           NEW matches \in SUBSET People, NEW guess, NEW recharge,
           NEW wallet \in Wallets \cup {None}, O!Find(matches, guess, recharge, wallet, r)
    PROVE  O!OffersTypeOK'
<1> DEFINE p == CHOOSE q \in matches : TRUE
<1>0. r \in O!Request /\ O!NoOffer \in O!Offer /\ O!Act("asked") \in O!Did
  BY OfferPieces, ConversationAssumption DEF O!RequestsAreRequests
<1>1. ASSUME NEW d \in O!Did, NEW o \in O!Offer, O!Leaves(d, o, r)
      PROVE  O!OffersTypeOK'
  <2>1. O!NotJudged
    BY DEF O!Find
  <2> QED
    BY <1>0, <1>1, <2>1 DEF O!OffersTypeOK, O!NotJudged, O!Leaves
<1>2. CASE O!Leaves(O!Act("asked"), O!NoOffer, r)
  BY <1>0, <1>1, <1>2
<1>3. CASE matches # {} /\ O!Leaves([O!Act("person") EXCEPT !.person = p], O!SaveOffer(p, wallet), r)
  <2>1. p \in People
    BY <1>3
  <2> HIDE DEF p
  <2>2. [O!Act("person") EXCEPT !.person = p] \in O!Did
    BY <2>1, OfferPieces DEF O!Did
  <2>3. O!SaveOffer(p, wallet) \in O!Offer
    BY <2>1, <1>0 DEF O!SaveOffer, O!Offer
  <2> QED
    BY <1>1, <1>3, <2>2, <2>3
<1>4. CASE O!Leaves(O!Act("asked"), [O!NoOffer EXCEPT !.kind = "people", !.people = matches,
                                                      !.wallet = wallet], r)
  <2>1. [O!NoOffer EXCEPT !.kind = "people", !.people = matches, !.wallet = wallet] \in O!Offer
    BY <1>0 DEF O!Offer
  <2> QED
    BY <1>0, <1>1, <1>4, <2>1
<1> QED
  BY <1>2, <1>3, <1>4 DEF O!Find

\* A turn about products, applications or people leaves typed state.
LEMMA OffersTurnIsTyped ==
    ASSUME O!OffersTypeOK, O!OffersNext
    PROVE  O!OffersTypeOK'
<1>1. PICK r \in Requests :
        \/ O!AgreeToSave(r) \/ O!PickCards(r) \/ O!PickProduct(r) \/ O!AskAgain(r)
        \/ O!PickPerson(r) \/ O!AskAdvice(r) \/ O!AskToApply(r) \/ O!AskKnowledge(r)
        \/ O!PersonNamed(r) \/ O!PersonGuessed(r) \/ O!AskElse(r)
  BY DEF O!OffersNext
<1>0. /\ r \in O!Request /\ offer \in O!Offer /\ O!NoOffer \in O!Offer
      /\ r.wallet \in Wallets \cup {None} /\ offer.wallet \in Wallets \cup {None}
      /\ offer.action \in Screens \cup {None} /\ offer.people \in SUBSET People
      /\ offer.choices \in SUBSET Products /\ offer.screens \in [Products -> Screens \cup {None}]
      /\ r.product \in Products \cup {None} /\ r.word \in Words \cup {None}
  BY OfferPieces, ConversationAssumption
     DEF O!RequestsAreRequests, O!OffersTypeOK, O!Request, O!Offer
<1>2. ASSUME NEW d \in O!Did, NEW o \in O!Offer, O!Leaves(d, o, r), O!NotJudged
      PROVE  O!OffersTypeOK'
  BY <1>0, <1>2 DEF O!OffersTypeOK, O!NotJudged, O!Leaves
<1>3. ASSUME NEW s \in Screens \cup {O!AddForm, None}, NEW p \in Products \cup {None}, O!Open(s, p, r)
      PROVE  O!OffersTypeOK'
  BY <1>0, <1>2, <1>3, OfferPieces DEF O!Open
<1>4. ASSUME O!Told(r) PROVE O!OffersTypeOK'
  BY <1>0, <1>2, <1>4, OfferPieces DEF O!Told
<1>5. ASSUME NEW ps \in SUBSET People PROVE O!OnlyPeople(ps) \in SUBSET People
  BY DEF O!OnlyPeople
<1>6. TextMatch \in [Words -> SUBSET People] /\ NameOf \in [People -> Words]
  BY ConversationAssumption DEF O!OffersConstants
<1>7. \A w \in O!WalletsRead(r) : w \in Wallets \cup {None}
  BY <1>0 DEF O!WalletsRead
<1>8. CASE O!AgreeToSave(r)
  BY <1>3, <1>8 DEF O!AgreeToSave
<1>9. CASE O!PickCards(r)
  <2>1. PICK k \in O!CardKindsOf(offer.choices) : O!Advise(O!GivenNeed({k}, {}), None, r)
    BY <1>9 DEF O!PickCards
  <2>2. {k} \in SUBSET ProductKinds
    BY ConversationAssumption DEF O!CardKindsOf, O!OffersConstants
  <2>3. O!GivenNeed({k}, {}) \in NeedRead
    BY <2>2, NeedsAreRead
  <2> QED
    BY <2>1, <2>3, AdviceIsTyped
<1>10. CASE O!PickProduct(r)
  <2>1. PICK p \in offer.choices : O!Open(O!ScreenFor(p), p, r) \/ O!Told(r)
    BY <1>10 DEF O!PickProduct
  <2>2. p \in Products /\ O!ScreenFor(p) \in Screens \cup {None}
    BY <1>0 DEF O!ScreenFor
  <2> QED
    BY <1>3, <1>4, <2>1, <2>2
<1>11. CASE O!AskAgain(r)
  BY <1>0, <1>2, <1>11, OfferPieces DEF O!AskAgain
<1>12. CASE O!PickPerson(r)
  <2>1. PICK p \in offer.people : \E matches \in {{}, {p}} :
           O!Find(matches, FALSE, FALSE, offer.wallet, r)
    BY <1>12 DEF O!PickPerson
  <2>2. PICK matches \in {{}, {p}} : O!Find(matches, FALSE, FALSE, offer.wallet, r)
    BY <2>1
  <2>3. matches \in SUBSET People
    BY <1>0
  <2> QED
    BY <1>0, <2>2, <2>3, FindIsTyped
<1>13. CASE O!AskAdvice(r)
  BY <1>13, NeedsAreRead, AdviceIsTyped DEF O!AskAdvice
<1>14. CASE O!AskToApply(r)
  <2>1. PICK a \in Screens : O!Apply(a, r)
    BY <1>14 DEF O!AskToApply
  <2> DEFINE pool == {p \in Products : ScreenOf[p] = a}
  <2>2. O!GivenNeed({}, pool) \in NeedRead
    <3>1. pool \in SUBSET Products /\ {} \in SUBSET ProductKinds
      OBVIOUS
    <3> HIDE DEF pool
    <3> QED
      BY <3>1, NeedsAreRead
  <2>3. CASE O!Advise(O!GivenNeed({}, pool), a, r)
    <3> HIDE DEF pool
    <3> QED
      BY <2>2, <2>3, AdviceIsTyped
  <2>4. CASE r.product \in O!OnSale(r) /\ O!Open(ScreenOf[r.product], r.product, r)
    <3>1. r.product \in Products /\ ScreenOf[r.product] \in Screens
      BY <2>4 DEF O!OnSale
    <3> QED
      BY <1>3, <2>4, <3>1
  <2>5. CASE O!Told(r) \/ O!Open(a, None, r)
    BY <1>3, <1>4, <2>5
  <2> QED
    BY <2>1, <2>3, <2>4, <2>5 DEF O!Apply
<1>15. CASE O!AskKnowledge(r)
  BY <1>0, <1>2, <1>15, OfferPieces DEF O!AskKnowledge, O!Known
<1>16. CASE O!PersonNamed(r)
  <2>1. PICK recharge \in BOOLEAN, wallet \in O!WalletsRead(r), guess \in BOOLEAN,
             ps \in SUBSET People : O!Find(O!OnlyPeople(ps), guess, recharge, wallet, r)
    <3>1. r.word \in Words /\ TextMatch[r.word] \in SUBSET People
      BY <1>0, <1>6, <1>16 DEF O!PersonNamed
    <3> QED
      BY <1>16, <3>1 DEF O!PersonNamed
  <2> QED
    BY <1>5, <1>7, <2>1, FindIsTyped
<1>17. CASE O!PersonGuessed(r)
  <2>1. PICK p \in People, recharge \in BOOLEAN, wallet \in O!WalletsRead(r) :
           O!Find(O!OnlyPeople(TextMatch[NameOf[p]]), FALSE, recharge, wallet, r)
    BY <1>17 DEF O!PersonGuessed
  <2>2. TextMatch[NameOf[p]] \in SUBSET People
    BY <1>6
  <2> QED
    BY <1>5, <1>7, <2>1, <2>2, FindIsTyped
<1>18. CASE O!AskElse(r)
  BY <1>0, <1>2, <1>18, OfferPieces DEF O!AskElse
<1> QED
  BY <1>1, <1>8, <1>9, <1>10, <1>11, <1>12, <1>13, <1>14, <1>15, <1>16, <1>17, <1>18

\* Every turn leaves a classification, an offer and a ranking the next one can read,
\* whatever the model makes of the message (handle_chat, ClassificationResult).
THEOREM ConversationTypes == Spec => []TypeOK
<1> USE DEF TypeOK
<1>0. /\ O!NoOffer \in O!Offer /\ O!Act("told") \in O!Did
      /\ O!NoRequest \in O!Request /\ {} \in O!Shown
  BY OfferPieces DEF O!NoRequest, O!Request, O!Shown
<1>1. Init => TypeOK
  BY <1>0, OtherTyped, StartIsTyped
     DEF Init, DetailsInit, O!OffersInit, DetailsTypeOK, O!OffersTypeOK
<1>2. TypeOK /\ [Next]_<<vars, O!offersVars>> => TypeOK'
  <2> SUFFICES ASSUME TypeOK, [Next]_<<vars, O!offersVars>>
               PROVE  TypeOK'
    OBVIOUS
  <2>1. CASE DetailsTurn
    <3>1. DetailsTypeOK'
      BY <2>1, DetailsTurnIsTyped DEF DetailsTurn
    <3> QED
      BY <1>0, <2>1, <3>1 DEF DetailsTurn, O!OffersTypeOK
  <2>2. CASE OffersTurn
    <3>1. O!OffersTypeOK'
      BY <2>2, OffersTurnIsTyped DEF OffersTurn
    <3>2. last' \in {Left("CLARIFICATION", Unclear, Nothing), Other}
      BY <2>2 DEF OffersTurn
    <3>3. last' \in Turn
      BY <3>2, LeftTyped, UnclearTyped, NothingTyped, OtherTyped DEF Pending
    <3> QED
      BY <2>2, <3>1, <3>3, StartIsTyped DEF OffersTurn, DetailsTypeOK
  <2>3. CASE Restart
    BY <1>0, <2>3, OtherTyped, StartIsTyped DEF Restart, DetailsTypeOK, O!OffersTypeOK
  <2>4. CASE UNCHANGED <<vars, O!offersVars>>
    BY <2>4 DEF vars, O!offersVars, DetailsTypeOK, O!OffersTypeOK
  <2> QED
    BY <2>1, <2>2, <2>3, <2>4 DEF Next
<1> QED
  BY <1>1, <1>2, PTL DEF Spec
=============================================================================
