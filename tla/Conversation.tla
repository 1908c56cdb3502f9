---------------------------- MODULE Conversation ----------------------------
(***************************************************************************)
(* A whole conversation: turns that gather the details of a request        *)
(* (Details) and turns that offer products, applications or people         *)
(* (Offers).  They meet in the session: what either leaves for the next    *)
(* turn is the one classification of the last turn, so a turn of one kind  *)
(* drops what the other had left.                                          *)
(***************************************************************************)
EXTENDS Details

CONSTANTS Products, ProductKinds, CardKinds, KindOf, Screens, ScreenOf, MinIncome, Incomes,
          People, SavedAs, Words, NameOf, TextMatch, Requests, MaxPicks

VARIABLES offer, ranking, did, request, figure

O == INSTANCE Offers WITH Kinds <- ProductKinds

ASSUME ConversationAssumption == O!OffersConstants /\ O!RequestsAreRequests

Init == DetailsInit /\ O!OffersInit

\* A turn about a request's details leaves nothing on offer.
DetailsTurn ==
    /\ DetailsNext
    /\ offer' = O!NoOffer /\ ranking' = {} /\ did' = O!Act("told")
    /\ request' = O!NoRequest /\ figure' = {}

\* A question that an offer asks again, or about the kind of card, is an open question
\* with no detail to fill in; the choice between people is kept apart.
OffersTurn ==
    /\ O!OffersNext
    /\ last' = IF did'.act = "asked" /\ offer'.kind # "people"
               THEN Left("CLARIFICATION", Unclear, Nothing) ELSE Other
    /\ message' = NothingSaid /\ wrote' = NothingWritten /\ invented' = FALSE

\* The bot starts again: sessions are in memory.
Restart ==
    /\ last' = Other /\ message' = NothingSaid /\ wrote' = NothingWritten
    /\ invented' = FALSE
    /\ offer' = O!NoOffer /\ ranking' = {} /\ did' = O!Act("told")
    /\ request' = O!NoRequest /\ figure' = {}

Next == DetailsTurn \/ OffersTurn \/ Restart

Spec == Init /\ [][Next]_<<vars, O!offersVars>>

-----------------------------------------------------------------------------
(* Properties of the whole conversation. *)

\* Every turn leaves a classification the next one can read.
TypeOK == DetailsTypeOK /\ O!OffersTypeOK

\* No screen the bank has switched off is opened by an offer of an earlier turn
\* (_try_apply_selection, _suggest_before_applying).
ApplyRespectsSwitch == O!ApplyRespectsSwitch

\* Products stay on offer only while the figures they were judged by allow them
\* (rank_products, requirement_checks, explanation).
SuggestionsMeetTheirFigures == O!SuggestionsMeetTheirFigures

\* (_try_apply_selection says an unclear reply asked again keeps the offer, and the
\* product's own application screen opens.)
OwnScreenOpens == O!OwnScreenOpens
=============================================================================
