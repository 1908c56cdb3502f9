--------------------------- MODULE ChatTurnProofs ---------------------------
(***************************************************************************)
(* The chat handler, for any customers, services, gates, values, messages  *)
(* and any number of requests in flight.                                   *)
(***************************************************************************)
EXTENDS ChatTurn, TLAPS

-----------------------------------------------------------------------------
(* The invariant.  What questions, codes and tokens there are is taken as    *)
(* one value, h, so that a fact about a pending step can be carried over to  *)
(* the next state.                                                           *)

Facts == [asked |-> asked, ask |-> ask, sent |-> sent, minted |-> minted]

\* Without a model that writes the question nobody has seen its words.
Seen(h, q) == "model" \in Faults \/ h.ask[q].shown

\* w is a step of a question put to c, as it was put.
About(h, c, w) ==
    /\ w.q \in 1..h.asked /\ w.service \in Services
    /\ h.ask[w.q].cust = c
    /\ h.ask[w.q].service = w.service /\ h.ask[w.q].value = w.value

\* The code gate of w may be open: what stands before it was agreed to.
MayText(h, c, w) ==
    /\ About(h, c, w) /\ NeedsCode(w.service)
    /\ NeedsYes(w.service) => h.ask[w.q].yes /\ Seen(h, w.q)

\* w can be left for the next turn, once its words are out.
Stands(h, c, w) ==
    /\ w.type = "CLOSED" => w = Closed
    /\ w.type # "CLOSED" => About(h, c, w)
    /\ w.type = "CONFIRMATION_REQUIRED" => NeedsYes(w.service) /\ w.token = 0
    /\ w.type = "OTP_REQUIRED" =>
          /\ MayText(h, c, w)
          /\ h.sent[w.q] > 0 /\ w.token <= h.minted[w.q]
Prompt(h, c, w) == Stands(h, c, w) /\ (w.type # "CLOSED" => Seen(h, w.q))

\* Everything in front of the change of w is behind it.
Cleared(h, c, w) ==
    /\ w.type # "CLOSED" /\ Prompt(h, c, w)
    /\ w.type = "CONFIRMATION_REQUIRED" => h.ask[w.q].yes /\ ~NeedsCode(w.service)
    /\ w.type = "OTP_REQUIRED" => w.token # 0

\* Where a turn is, what it works on is what the code there takes for granted.
TurnGood(h, T) ==
    /\ T.pc \in {"readCode", "verifyOtp"} =>
          T.work.type = "OTP_REQUIRED" /\ Prompt(h, T.cust, T.work)
    /\ T.pc = "readYes" => T.work.type = "CONFIRMATION_REQUIRED" /\ Prompt(h, T.cust, T.work)
    /\ T.pc = "sendOtp" => MayText(h, T.cust, T.work)
    /\ T.pc = "fulfil" => Cleared(h, T.cust, T.work)
    /\ T.pc \in {"cards", "lookup", "gather"} => T.work.service \in Services
    /\ T.pc = "compose" => Stands(h, T.cust, T.outcome.class)
    /\ T.pc \in {"result", "done", "record"} => Prompt(h, T.cust, T.outcome.class)

\* What a turn has reported is what it did.
Early == Pcs \ {"idle", "reply", "compose", "result", "done", "record"}
Connected == "disconnect" \notin Faults /\ "restart" \notin Faults
Report(T) ==
    /\ T.pc \in Early => ~T.acted /\ T.outcome.executed = "unsaid"
    /\ T.pc = "reply" => T.acted /\ T.outcome.executed = "unsaid"
    /\ T.outcome.executed = "yes" => T.acted
    /\ T.outcome.executed = "no" => ~T.acted
    /\ T.pc \notin {"idle", "result", "done", "record"} => T.audited = 0
    /\ T.pc = "result" => T.audited = IF T.outcome.audit = "first" THEN 1 ELSE 0
    /\ T.audited <= 1
    /\ T.pc \notin {"idle", "done", "record"} => T.results = 0
    /\ T.pc \in {"done", "record"} \/ T.ended = "done" => T.results = 1
    /\ T.pc \notin {"idle", "record"} => T.ended # "done"
    /\ T.acted /\ T.pc \in {"compose", "result"} => T.outcome.audit \in {"first", "after"}
    /\ T.acted /\ T.pc \in {"done", "record"} => T.audited = 1
    /\ T.acted /\ T.pc = "idle" /\ Connected => T.audited = 1

\* A question not put yet has no past, and what the bank did was agreed to.
NotYet == \A q \in Questions : q > asked => ~ask[q].shown /\ ~ask[q].yes /\ changes[q] = 0
Consent ==
    \A q \in Questions : changes[q] > 0 =>
        /\ Seen(Facts, q)
        /\ NeedsYes(ask[q].service) => ask[q].yes
        /\ NeedsCode(ask[q].service) => minted[q] > 0

SessionGood(h, o) == \A c \in Customers : Prompt(h, c, o[c])
TurnsGood == \A t \in Turns : TurnGood(Facts, turn[t]) /\ Report(turn[t])

IInv ==
    /\ TypeOK
    /\ TurnsGood
    /\ SessionGood(Facts, open)
    /\ NotYet
    /\ Consent

-----------------------------------------------------------------------------
(* What questions, codes and tokens there are only grows, so what is said of *)
(* a question stays true.                                                    *)

Grows(h, k) ==
    /\ h.asked \in Nat /\ k.asked \in Nat /\ h.asked <= k.asked
    /\ \A q \in 1..h.asked :
          /\ k.ask[q].cust = h.ask[q].cust /\ k.ask[q].service = h.ask[q].service
          /\ k.ask[q].value = h.ask[q].value
          /\ h.ask[q].shown => k.ask[q].shown
          /\ h.ask[q].yes => k.ask[q].yes
          /\ h.sent[q] \in Nat /\ k.sent[q] \in Nat /\ h.sent[q] <= k.sent[q]
          /\ h.minted[q] \in Nat /\ k.minted[q] \in Nat /\ h.minted[q] <= k.minted[q]

LEMMA AboutLasts ==
    ASSUME NEW h, NEW k, Grows(h, k), NEW c, NEW w, About(h, c, w)
    PROVE  About(k, c, w)
BY DEF Grows, About

LEMMA MayTextLasts ==
    ASSUME NEW h, NEW k, Grows(h, k), NEW c, NEW w, MayText(h, c, w)
    PROVE  MayText(k, c, w)
BY AboutLasts DEF Grows, About, MayText, Seen

LEMMA StandsLasts ==
    ASSUME NEW h, NEW k, Grows(h, k), NEW c, NEW w \in Class, Stands(h, c, w)
    PROVE  Stands(k, c, w)
<1>1. w.type # "CLOSED" => About(k, c, w)
  BY AboutLasts DEF Stands
<1>2. CASE w.type = "OTP_REQUIRED"
  <2>1. MayText(k, c, w)
    BY <1>2, MayTextLasts DEF Stands
  <2>2. w.q \in 1..h.asked /\ h.sent[w.q] > 0 /\ w.token <= h.minted[w.q] /\ w.token \in Nat
    BY <1>2, BankAssumption DEF Stands, About, Class
  <2>3. k.sent[w.q] > 0 /\ w.token <= k.minted[w.q]
    BY <2>2 DEF Grows
  <2>4. QED
    BY <1>1, <1>2, <2>1, <2>3 DEF Stands
<1>3. CASE w.type # "OTP_REQUIRED"
  BY <1>1, <1>3 DEF Stands
<1>4. QED
  BY <1>2, <1>3

LEMMA PromptLasts ==
    ASSUME NEW h, NEW k, Grows(h, k), NEW c, NEW w \in Class, Prompt(h, c, w)
    PROVE  Prompt(k, c, w)
<1>1. Stands(k, c, w)
  BY StandsLasts DEF Prompt
<1>2. w.type # "CLOSED" => Seen(k, w.q)
  BY DEF Prompt, Stands, About, Seen, Grows
<1>3. QED
  BY <1>1, <1>2 DEF Prompt

LEMMA ClearedLasts ==
    ASSUME NEW h, NEW k, Grows(h, k), NEW c, NEW w \in Class, Cleared(h, c, w)
    PROVE  Cleared(k, c, w)
<1>1. Prompt(k, c, w)
  BY PromptLasts DEF Cleared
<1>2. w.q \in 1..h.asked
  BY DEF Cleared, Prompt, Stands, About
<1>3. QED
  BY <1>1, <1>2 DEF Cleared, Grows

LEMMA TurnLasts ==
    ASSUME NEW h, NEW k, Grows(h, k), NEW T \in TurnState, TurnGood(h, T)
    PROVE  TurnGood(k, T)
<1>1. T.work \in Class /\ T.outcome.class \in Class
  BY DEF TurnState, Outcome
<1>2. QED
  BY <1>1, MayTextLasts, StandsLasts, PromptLasts, ClearedLasts DEF TurnGood

-----------------------------------------------------------------------------
(* What a turn becomes.  U is what T becomes when a step leaves what was     *)
(* done and reported so far as it is.                                       *)

Kept(T, U) ==
    /\ U \in TurnState
    /\ U.cust = T.cust /\ U.known = T.known /\ U.acted = T.acted
    /\ U.audited = T.audited /\ U.results = T.results /\ U.ended = T.ended
Told(T, U, o) == Kept(T, U) /\ U.pc = "compose" /\ U.outcome = o
GoesTo(T, U, pc, w) == Kept(T, U) /\ U.pc = pc /\ U.work = w /\ U.outcome = T.outcome

LEMMA Constants ==
    /\ MaxQuestions \in Nat /\ MaxCodes \in Nat /\ MaxChanges \in Nat
    /\ None \notin Services
    /\ Closed \in Class /\ NoMessage \in Message
    /\ GateOf \in [Services -> Gates]
    /\ Anyone \in Customers
<1>1. Closed \in Class
  BY BankAssumption DEF Closed, Class
<1>2. NoMessage \in Message
  BY DEF NoMessage, Message
<1>3. QED
  BY <1>1, <1>2, BankAssumption, ChatTurnAssumption DEF Anyone

LEMMA OutcomesAreOutcomes ==
    ASSUME NEW k \in Class, NEW e \in {"yes", "no", "unsaid"},
           NEW a \in {"first", "after", "never"}, NEW r \in {"after", "before", "never"}
    PROVE  /\ Tell(k, e, a, r) \in Outcome
           /\ Tell(k, e, a, r).class = k /\ Tell(k, e, a, r).executed = e
           /\ Tell(k, e, a, r).audit = a /\ Tell(k, e, a, r).record = r
BY DEF Tell, Outcome

LEMMA AskAsks ==
    ASSUME NEW k \in Class, NEW a \in {"first", "after"}
    PROVE  /\ Ask(k, a) \in Outcome
           /\ Ask(k, a).class = k /\ Ask(k, a).executed = "unsaid" /\ Ask(k, a).audit = a
BY OutcomesAreOutcomes DEF Ask

LEMMA SayTells ==
    ASSUME NEW T \in TurnState, NEW o \in Outcome
    PROVE  Told(T, Say(T, o), o)
BY Constants DEF Say, Told, Kept, TurnState, Pcs

LEMMA EndEnds ==
    ASSUME NEW T \in TurnState, NEW how \in {"not", "done", "error", "broken", "cut"}
    PROVE  /\ End(T, how) \in TurnState
           /\ End(T, how).pc = "idle" /\ End(T, how).ended = how
           /\ End(T, how).cust = T.cust /\ End(T, how).acted = T.acted
           /\ End(T, how).audited = T.audited /\ End(T, how).results = T.results
           /\ End(T, how).outcome.executed =
                 IF how = "done" THEN T.outcome.executed ELSE "unsaid"
<1> DEFINE o == IF how = "done" THEN Tell(T.outcome.class, T.outcome.executed, "after", "after")
                ELSE Answered
<1>1. o \in Outcome /\ o.executed = IF how = "done" THEN T.outcome.executed ELSE "unsaid"
  <2>1. T.outcome.class \in Class /\ T.outcome.executed \in {"yes", "no", "unsaid"}
    BY DEF TurnState, Outcome
  <2>2. CASE how = "done"
    BY <2>1, <2>2, OutcomesAreOutcomes
  <2>3. CASE how # "done"
    <3>1. Answered \in Outcome /\ Answered.executed = "unsaid"
      <4>1. Closed \in Class
        BY Constants
      <4>2. QED
        BY <4>1 DEF Answered, Tell, Outcome
    <3>2. QED
      BY <2>3, <3>1
  <2>4. QED
    BY <2>2, <2>3
<1>2. End(T, how) = [T EXCEPT !.pc = "idle", !.ended = how, !.known = FALSE,
                              !.work = Closed, !.msg = NoMessage, !.outcome = o]
  BY DEF End
<1> HIDE DEF o
<1> DEFINE U == [T EXCEPT !.pc = "idle", !.ended = how, !.known = FALSE,
                          !.work = Closed, !.msg = NoMessage, !.outcome = o]
<1>3. U \in TurnState
  BY <1>1, Constants DEF TurnState, Pcs
<1>4. /\ U.pc = "idle" /\ U.ended = how /\ U.cust = T.cust /\ U.acted = T.acted
      /\ U.audited = T.audited /\ U.results = T.results /\ U.outcome = o
  BY DEF TurnState
<1> HIDE DEF U
<1>5. QED
  BY <1>1, <1>2, <1>3, <1>4 DEF U

\* The answers that leave nothing pending.
Plain == {o \in Outcome : o.class = Closed /\ o.executed \in {"unsaid", "no"}}
Said(T, U) == Kept(T, U) /\ U.pc = "compose" /\ U.outcome \in Plain
\* A service is being gathered for.
Opens(T, U) == /\ Kept(T, U) /\ U.pc \in {"cards", "lookup", "gather"}
               /\ U.outcome = T.outcome /\ U.work.service \in Services

LEMMA PlainOutcomes ==
    /\ \A a \in {"first", "after", "never"} : NotDone(a) \in Plain
    /\ {Answered, Emitted, SwitchedOff, KbAnswer, AppAnswer, HeardTwoWays} \subseteq Plain
    /\ \A a \in {"first", "after", "never"}, r \in {"after", "before", "never"} :
          Tell(Closed, "unsaid", a, r) \in Plain
BY Constants, OutcomesAreOutcomes
   DEF Plain, NotDone, Answered, Emitted, SwitchedOff, KbAnswer, AppAnswer, HeardTwoWays

LEMMA SayIsSaid ==
    ASSUME NEW T \in TurnState, NEW o \in Plain
    PROVE  Said(T, Say(T, o)) /\ Say(T, o).outcome = o
BY SayTells DEF Said, Told, Plain

LEMMA Going ==
    ASSUME NEW T \in TurnState, NEW pc \in Pcs
    PROVE  GoesTo(T, [T EXCEPT !.pc = pc], pc, T.work)
BY DEF GoesTo, Kept, TurnState

LEMMA GoingWith ==
    ASSUME NEW T \in TurnState, NEW w \in Class, NEW pc \in Pcs
    PROVE  GoesTo(T, [T EXCEPT !.work = w, !.pc = pc], pc, w)
BY DEF GoesTo, Kept, TurnState

LEMMA RequestedShape ==
    ASSUME NEW T \in TurnState, NEW s \in Services
    PROVE  Said(T, Requested(T, s)) \/ Opens(T, Requested(T, s))
<1> DEFINE w == [Closed EXCEPT !.service = s]
           T2 == [T EXCEPT !.work = w]
           off == s \in T.msg.off
<1>1. w \in Class /\ w.service = s
  BY BankAssumption DEF Closed, Class
<1>2. T2 \in TurnState /\ GoesTo(T, T2, T.pc, w)
  BY <1>1 DEF TurnState, GoesTo, Kept
<1>3. ASSUME NEW p \in {"cards", "lookup", "gather"}
      PROVE  Opens(T, [T2 EXCEPT !.pc = p])
  <2>1. GoesTo(T2, [T2 EXCEPT !.pc = p], p, T2.work)
    BY <1>2, Going DEF Pcs
  <2>2. QED
    BY <1>1, <1>2, <2>1 DEF GoesTo, Kept, Opens
<1>4. T.known \in BOOLEAN /\ GateOf[s] \in Gates
  BY Constants DEF TurnState
<1> HIDE DEF w, T2
<1>5. Requested(T, s) \in
        {Say(T, Tell(Closed, "unsaid", "first", "never")), Say(T, KbAnswer), Say(T, Answered),
         Say(T, SwitchedOff), Say(T, Emitted), [T2 EXCEPT !.pc = "cards"],
         [T2 EXCEPT !.pc = "lookup"], [T2 EXCEPT !.pc = "gather"]}
  BY <1>4 DEF Requested, T2, w, Gates
<1>6. QED
  BY <1>3, <1>5, PlainOutcomes, SayIsSaid

LEMMA RoutedShape ==
    ASSUME NEW T \in TurnState
    PROVE  \/ Said(T, Routed(T)) \/ Opens(T, Routed(T))
           \/ GoesTo(T, Routed(T), "classify", T.work)
<1>1. T.msg.route \in Services \cup {None, Invalid}
  BY DEF TurnState, Message
<1>2. CASE T.msg.route = None
  <2>1. GoesTo(T, [T EXCEPT !.pc = "classify"], "classify", T.work)
    BY Going DEF Pcs
  <2>2. QED
    BY <1>2, <2>1 DEF Routed, None, Invalid
<1>3. CASE T.msg.route = Invalid /\ T.msg.route # None
  BY <1>3, PlainOutcomes, SayIsSaid DEF Routed
<1>4. CASE T.msg.route \in Services
  BY <1>4, RequestedShape, ChatTurnAssumption DEF Routed
<1>5. QED
  BY <1>1, <1>2, <1>3, <1>4

\* At the code step the turn answers, asks again, or goes on with what it was told.
LEMMA CodeStepShape ==
    ASSUME NEW T \in TurnState, NEW declined \in BOOLEAN, T.work.service \in Services
    PROVE  \/ Said(T, CodeStep(T, declined))
           \/ Told(T, CodeStep(T, declined), Ask(T.work, "first"))
           \/ GoesTo(T, CodeStep(T, declined), "verifyOtp", T.work)
           \/ GoesTo(T, CodeStep(T, declined), "fulfil", T.work) /\ T.work.token # 0
<1>1. CASE CodeStep(T, declined) \in {Say(T, SwitchedOff), Say(T, NotDone("first"))}
  BY <1>1, PlainOutcomes, SayIsSaid
<1>2. CASE CodeStep(T, declined) = Say(T, Ask(T.work, "first"))
  <2>1. Ask(T.work, "first") \in Outcome
    BY AskAsks DEF TurnState
  <2>2. QED
    BY <1>2, <2>1, SayTells
<1>3. CASE /\ Complete(T.work, T.msg)
           /\ CodeStep(T, declined)
                 = [T EXCEPT !.pc = IF T.msg.otp # None THEN "verifyOtp" ELSE "fulfil"]
  <2>1. CASE T.msg.otp # None
    BY <1>3, <2>1, Going DEF Pcs
  <2>2. CASE T.msg.otp = None
    <3>1. T.work.token # 0
      BY <1>3, <2>2 DEF Complete
    <3>2. QED
      BY <1>3, <2>2, <3>1, Going DEF Pcs
  <2>3. QED
    BY <2>1, <2>2
<1>4. QED
  BY <1>1, <1>2, <1>3 DEF CodeStep

-----------------------------------------------------------------------------
(* What a turn becomes is good, wherever it goes.                            *)

Fine(h, U) == U \in TurnState /\ TurnGood(h, U) /\ Report(U)

LEMMA ClosedIsPrompt ==
    ASSUME NEW h, NEW c
    PROVE  Prompt(h, c, Closed)
BY DEF Prompt, Stands, Closed

\* A turn that has done nothing may say anything it can stand by.
LEMMA TellsFine ==
    ASSUME NEW h, NEW T \in TurnState, Report(T), T.pc \in Early,
           NEW U, NEW o \in Outcome, Told(T, U, o), o.executed \in {"unsaid", "no"},
           Stands(h, T.cust, o.class)
    PROVE  Fine(h, U)
<1>1. U \in TurnState /\ U.pc = "compose" /\ U.outcome = o /\ U.cust = T.cust
  BY DEF Told, Kept
<1>2. TurnGood(h, U)
  BY <1>1 DEF TurnGood
<1>3. ~U.acted /\ U.audited = 0 /\ U.results = 0 /\ U.ended # "done"
  BY DEF Told, Kept, Report, Early
<1>4. Report(U)
  BY <1>1, <1>3 DEF Report, Early
<1>5. QED
  BY <1>1, <1>2, <1>4 DEF Fine

LEMMA SaidFine ==
    ASSUME NEW h, NEW T \in TurnState, Report(T), T.pc \in Early, NEW U, Said(T, U)
    PROVE  Fine(h, U)
<1>1. U.outcome \in Outcome /\ U.outcome.class = Closed /\ U.outcome.executed \in {"unsaid", "no"}
      /\ Told(T, U, U.outcome)
  BY DEF Said, Plain, Told
<1>2. Stands(h, T.cust, U.outcome.class)
  BY <1>1, ClosedIsPrompt DEF Prompt
<1>3. QED
  BY <1>1, <1>2, TellsFine

\* A turn that goes on reports nothing.
LEMMA GoesReports ==
    ASSUME NEW T \in TurnState, Report(T), T.pc \in Early,
           NEW U, Kept(T, U), U.outcome = T.outcome, U.pc \in Early
    PROVE  Report(U)
<1>1. ~U.acted /\ U.audited = 0 /\ U.results = 0 /\ U.ended # "done"
      /\ U.outcome.executed = "unsaid"
  BY DEF Kept, Report, Early
<1>2. QED
  BY <1>1 DEF Report, Early

LEMMA OpensFine ==
    ASSUME NEW h, NEW T \in TurnState, Report(T), T.pc \in Early, NEW U, Opens(T, U)
    PROVE  Fine(h, U)
<1>1. Report(U)
  BY GoesReports DEF Opens, Early, Pcs
<1>2. TurnGood(h, U)
  BY DEF Opens, TurnGood
<1>3. QED
  BY <1>1, <1>2 DEF Fine, Opens, Kept

LEMMA GoesFine ==
    ASSUME NEW h, NEW T \in TurnState, Report(T), T.pc \in Early,
           NEW U, NEW pc \in Early, NEW w, GoesTo(T, U, pc, w),
           pc \in {"readCode", "verifyOtp"} => w.type = "OTP_REQUIRED" /\ Prompt(h, T.cust, w),
           pc = "readYes" => w.type = "CONFIRMATION_REQUIRED" /\ Prompt(h, T.cust, w),
           pc = "sendOtp" => MayText(h, T.cust, w),
           pc = "fulfil" => Cleared(h, T.cust, w),
           pc \in {"cards", "lookup", "gather"} => w.service \in Services
    PROVE  Fine(h, U)
<1>1. Kept(T, U) /\ U.pc = pc /\ U.work = w /\ U.outcome = T.outcome /\ U.cust = T.cust
  BY DEF GoesTo, Kept
<1>2. Report(U)
  BY <1>1, GoesReports
<1>3. TurnGood(h, U)
  BY <1>1 DEF TurnGood, Early
<1>4. QED
  BY <1>1, <1>2, <1>3 DEF Fine, Kept

LEMMA RequestedFine ==
    ASSUME NEW h, NEW T \in TurnState, Report(T), T.pc \in Early, NEW s \in Services
    PROVE  Fine(h, Requested(T, s))
BY RequestedShape, SaidFine, OpensFine

LEMMA RoutedFine ==
    ASSUME NEW h, NEW T \in TurnState, Report(T), T.pc \in Early
    PROVE  Fine(h, Routed(T))
<1>1. CASE Said(T, Routed(T)) \/ Opens(T, Routed(T))
  BY <1>1, SaidFine, OpensFine
<1>2. CASE GoesTo(T, Routed(T), "classify", T.work)
  <2>1. "classify" \in Early
    BY DEF Early, Pcs
  <2>2. QED
    BY <1>2, <2>1, GoesFine
<1>3. QED
  BY <1>1, <1>2, RoutedShape

LEMMA CodeStepFine ==
    ASSUME NEW h, NEW T \in TurnState, Report(T), T.pc \in Early, NEW declined \in BOOLEAN,
           T.work.type = "OTP_REQUIRED", Prompt(h, T.cust, T.work)
    PROVE  Fine(h, CodeStep(T, declined))
<1> DEFINE U == CodeStep(T, declined)
<1>1. T.work \in Class /\ T.work.service \in Services /\ Stands(h, T.cust, T.work)
  BY DEF TurnState, Prompt, Stands, About
<1>2. CASE Said(T, U)
  BY <1>2, SaidFine
<1>3. CASE Told(T, U, Ask(T.work, "first"))
  <2>1. Ask(T.work, "first") \in Outcome /\ Ask(T.work, "first").class = T.work
        /\ Ask(T.work, "first").executed = "unsaid"
    BY <1>1, AskAsks
  <2>2. QED
    BY <1>1, <1>3, <2>1, TellsFine
<1>4. CASE GoesTo(T, U, "verifyOtp", T.work)
  <2>1. "verifyOtp" \in Early
    BY DEF Early, Pcs
  <2>2. QED
    BY <1>4, <2>1, GoesFine
<1>5. CASE GoesTo(T, U, "fulfil", T.work) /\ T.work.token # 0
  <2>1. "fulfil" \in Early
    BY DEF Early, Pcs
  <2>2. Cleared(h, T.cust, T.work)
    BY <1>5 DEF Cleared
  <2>3. QED
    BY <1>5, <2>1, <2>2, GoesFine
<1>6. QED
  BY <1>1, <1>2, <1>3, <1>4, <1>5, CodeStepShape

\* A turn that ends is over; one that was carried out and not told is only cut where
\* connections are.
LEMMA EndFine ==
    ASSUME NEW h, NEW T \in TurnState, Report(T),
           NEW how \in {"not", "done", "error", "broken", "cut"},
           how = "done" => T.pc \in {"done", "record"} \/ T.ended = "done",
           T.acted /\ Connected => T.pc \in {"done", "record"}
    PROVE  Fine(h, End(T, how))
<1> DEFINE U == End(T, how)
<1>1. /\ U \in TurnState /\ U.pc = "idle" /\ U.ended = how
      /\ U.acted = T.acted /\ U.audited = T.audited /\ U.results = T.results
      /\ U.outcome.executed = IF how = "done" THEN T.outcome.executed ELSE "unsaid"
  BY EndEnds
<1> HIDE DEF U
<1>2. TurnGood(h, U)
  BY <1>1 DEF TurnGood
<1>3. Report(U)
  BY <1>1 DEF Report, Early
<1>4. QED
  BY <1>1, <1>2, <1>3 DEF Fine, U

-----------------------------------------------------------------------------
(* How a step keeps the invariant.                                           *)

\* One turn moves, and everything else only grows.
LEMMA OneMoves ==
    ASSUME IInv, NEW t \in Turns, NEW U, turn' = [turn EXCEPT ![t] = U], Fine(Facts', U),
           Grows(Facts, Facts'),
           open' \in [Customers -> Class], asked' \in 0..MaxQuestions,
           ask' \in [Questions -> Question], BankTypeOK',
           SessionGood(Facts', open'), NotYet', Consent'
    PROVE  IInv'
<1>1. turn' \in [Turns -> TurnState]
  BY DEF IInv, TypeOK, Fine
<1>2. ASSUME NEW u \in Turns PROVE TurnGood(Facts', turn'[u]) /\ Report(turn'[u])
  <2>1. CASE u = t
    BY <2>1 DEF IInv, TypeOK, Fine
  <2>2. CASE u # t
    <3>1. turn'[u] = turn[u] /\ turn[u] \in TurnState /\ TurnGood(Facts, turn[u]) /\ Report(turn[u])
      BY <2>2 DEF IInv, TypeOK, TurnsGood
    <3>2. QED
      BY <3>1, TurnLasts
  <2>3. QED
    BY <2>1, <2>2
<1>3. TurnsGood'
  BY <1>2 DEF TurnsGood
<1>4. TypeOK'
  BY <1>1 DEF TypeOK
<1>5. SessionGood(Facts, open)'
  OBVIOUS
<1>6. QED
  BY <1>3, <1>4, <1>5 DEF IInv

LEMMA GrowsStill ==
    ASSUME TypeOK, asked' = asked, ask' = ask, sent' = sent, minted' = minted
    PROVE  Grows(Facts, Facts') /\ Facts' = Facts
BY BankAssumption DEF Facts, Grows, TypeOK, BankTypeOK, Questions

\* One turn moves and nothing else does.
LEMMA Local ==
    ASSUME IInv, NEW t \in Turns, NEW U, turn' = [turn EXCEPT ![t] = U], Fine(Facts, U),
           UNCHANGED <<open, asked, ask, bankVars>>
    PROVE  IInv'
<1>1. /\ open' = open /\ asked' = asked /\ ask' = ask
      /\ code' = code /\ sent' = sent /\ minted' = minted /\ usable' = usable
      /\ changes' = changes
  BY DEF bankVars
<1>2. Grows(Facts, Facts') /\ Facts' = Facts
  BY <1>1, GrowsStill DEF IInv
<1>3. /\ open' \in [Customers -> Class] /\ asked' \in 0..MaxQuestions
      /\ ask' \in [Questions -> Question] /\ BankTypeOK'
  BY <1>1 DEF IInv, TypeOK, BankTypeOK
<1>4. SessionGood(Facts', open') /\ NotYet' /\ Consent'
  BY <1>1, <1>2 DEF IInv, NotYet, Consent
<1>5. QED
  BY <1>2, <1>3, <1>4, OneMoves

\* What is known of the turn that moves.
LEMMA Now ==
    ASSUME IInv, NEW t \in Turns
    PROVE  turn[t] \in TurnState /\ TurnGood(Facts, turn[t]) /\ Report(turn[t])
BY DEF IInv, TypeOK, TurnsGood

LEMMA FreshIsFresh ==
    ASSUME NEW c \in Customers, Answered \in Outcome
    PROVE  /\ Fresh(c) \in TurnState /\ Fresh(c).pc = "idle" /\ Fresh(c).outcome = Answered
           /\ ~Fresh(c).acted /\ Fresh(c).audited = 0 /\ Fresh(c).results = 0
           /\ Fresh(c).ended = "not" /\ Fresh(c).cust = c
<1>1. NoMessage \in Message /\ Closed \in Class /\ "idle" \in Pcs
  BY Constants DEF Pcs
<1> HIDE DEF NoMessage, Closed, Answered
<1>2. QED
  BY <1>1 DEF Fresh, TurnState

LEMMA SendKeeps ==
    ASSUME IInv, NEW t \in Turns, NEW c \in Customers, NEW m \in Messages, Send(t, c, m)
    PROVE  IInv'
<1> DEFINE U == [Fresh(c) EXCEPT !.pc = "verify", !.msg = m]
<1>1. Answered \in Outcome /\ Answered.executed = "unsaid"
  <2>1. Closed \in Class
    BY Constants
  <2>2. QED
    BY <2>1 DEF Answered, Tell, Outcome
<1>2. /\ Fresh(c) \in TurnState /\ Fresh(c).outcome = Answered /\ ~Fresh(c).acted
      /\ Fresh(c).audited = 0 /\ Fresh(c).results = 0 /\ Fresh(c).ended = "not"
  BY <1>1, FreshIsFresh
<1>3. m \in Message
  BY ChatTurnAssumption
<1>4. /\ U \in TurnState /\ U.pc = "verify" /\ U.outcome = Answered /\ ~U.acted
      /\ U.audited = 0 /\ U.results = 0 /\ U.ended = "not"
  BY <1>2, <1>3 DEF TurnState, Pcs
<1>5. turn' = [turn EXCEPT ![t] = U] /\ UNCHANGED <<open, asked, ask, bankVars>>
  BY DEF Send, Becomes
<1> HIDE DEF U
<1>6. TurnGood(Facts, U)
  BY <1>4 DEF TurnGood
<1>8. U.outcome.executed = "unsaid"
  BY <1>1, <1>4
<1>7. /\ U.pc = "verify" /\ ~U.acted /\ U.audited = 0 /\ U.results = 0
      /\ U.audited <= 1 /\ U.ended # "done"
  BY <1>4
<1>9. Report(U)
  BY <1>7, <1>8 DEF Report
<1>10. QED
  BY <1>4, <1>5, <1>6, <1>9, Local DEF Fine

LEMMA EnterKeeps ==
    ASSUME IInv, NEW t \in Turns, Enter(t)
    PROVE  IInv'
<1>1. PICK known \in BOOLEAN :
          LET m == turn[t].msg
              last == IF known THEN open[turn[t].cust] ELSE Closed
              T == [turn[t] EXCEPT !.known = known]
              W == [T EXCEPT !.work = last]
          IN  \/ /\ AwaitsCode(last, m)
                 /\ Becomes(t, IF m.route = None THEN [W EXCEPT !.pc = "readCode"]
                                                 ELSE CodeStep(W, FALSE))
              \/ /\ ~AwaitsCode(last, m) /\ m.heard
                 /\ Becomes(t, Heard(T))
              \/ /\ AwaitsYes(last, m) /\ ~m.heard
                 /\ Becomes(t, [W EXCEPT !.pc = "readYes"])
              \/ /\ ~AwaitsCode(last, m) /\ ~AwaitsYes(last, m) /\ ~m.heard
                 /\ Becomes(t, Routed(T))
  BY DEF Enter
<1> DEFINE m == turn[t].msg
           last == IF known THEN open[turn[t].cust] ELSE Closed
           T == [turn[t] EXCEPT !.known = known]
           W == [T EXCEPT !.work = last]
<1>2. turn[t] \in TurnState /\ Report(turn[t]) /\ turn[t].pc = "verify"
  BY Now DEF Enter, At
<1>3. T \in TurnState /\ T.pc = "verify" /\ T.cust = turn[t].cust /\ T.outcome = turn[t].outcome
      /\ T.acted = turn[t].acted /\ T.audited = turn[t].audited /\ T.results = turn[t].results
      /\ T.ended = turn[t].ended
  BY <1>2 DEF TurnState
<1>4. last \in Class /\ Prompt(Facts, T.cust, last)
  <2>1. turn[t].cust \in Customers
    BY <1>2 DEF TurnState
  <2>2. QED
    BY <1>3, <2>1, Constants, ClosedIsPrompt DEF IInv, TypeOK, SessionGood
<1>5. Report(T) /\ T.pc \in Early
  BY <1>2, <1>3 DEF Report, Early, Pcs
<1> HIDE DEF last, T
<1>6. W \in TurnState /\ W.pc = "verify" /\ W.cust = T.cust /\ W.outcome = T.outcome
      /\ W.acted = T.acted /\ W.audited = T.audited /\ W.results = T.results
      /\ W.ended = T.ended /\ W.work = last
  BY <1>3, <1>4 DEF TurnState
<1> HIDE DEF W
<1>7. Report(W) /\ W.pc \in Early /\ Prompt(Facts, W.cust, W.work)
  BY <1>4, <1>5, <1>6 DEF Report, Early, Pcs
<1>8. \E U : turn' = [turn EXCEPT ![t] = U] /\ Fine(Facts, U)
  <2>1. CASE AwaitsCode(last, m) /\ m.route = None /\ Becomes(t, [W EXCEPT !.pc = "readCode"])
    <3>1. GoesTo(W, [W EXCEPT !.pc = "readCode"], "readCode", W.work) /\ "readCode" \in Early
      BY <1>6, Going DEF Early, Pcs
    <3>2. Fine(Facts, [W EXCEPT !.pc = "readCode"])
      BY <2>1, <3>1, <1>6, <1>7, GoesFine DEF AwaitsCode
    <3>3. QED
      BY <2>1, <3>2 DEF Becomes
  <2>2. CASE AwaitsCode(last, m) /\ Becomes(t, CodeStep(W, FALSE))
    <3>1. Fine(Facts, CodeStep(W, FALSE))
      BY <2>2, <1>6, <1>7, CodeStepFine DEF AwaitsCode
    <3>2. QED
      BY <2>2, <3>1 DEF Becomes
  <2>3. CASE Becomes(t, Heard(T))
    <3>1. Said(T, Heard(T))
      BY <1>3, PlainOutcomes, SayIsSaid DEF Heard
    <3>2. Fine(Facts, Heard(T))
      BY <3>1, <1>3, <1>5, SaidFine
    <3>3. QED
      BY <2>3, <3>2 DEF Becomes
  <2>4. CASE AwaitsYes(last, m) /\ Becomes(t, [W EXCEPT !.pc = "readYes"])
    <3>1. GoesTo(W, [W EXCEPT !.pc = "readYes"], "readYes", W.work) /\ "readYes" \in Early
      BY <1>6, Going DEF Early, Pcs
    <3>2. Fine(Facts, [W EXCEPT !.pc = "readYes"])
      BY <2>4, <3>1, <1>6, <1>7, GoesFine DEF AwaitsYes
    <3>3. QED
      BY <2>4, <3>2 DEF Becomes
  <2>5. CASE Becomes(t, Routed(T))
    <3>1. Fine(Facts, Routed(T))
      BY <1>3, <1>5, RoutedFine
    <3>2. QED
      BY <2>5, <3>1 DEF Becomes
  <2>6. QED
    BY <1>1, <2>1, <2>2, <2>3, <2>4, <2>5 DEF last, T, W
<1>9. QED
  BY <1>8, Local DEF Enter

\* The steps on the way to a request that is complete.
LEMMA GatheringKeeps ==
    ASSUME IInv, NEW t \in Turns,
           Classify(t) \/ Cards(t) \/ Lookup(t) \/ AskForMore(t) \/ Answer(t) \/ ReadBank(t)
    PROVE  IInv'
<1> DEFINE T == turn[t]
<1>1. T \in TurnState /\ Report(T) /\ T.pc \in Early /\ TurnGood(Facts, T)
  BY Now DEF Classify, Cards, Lookup, AskForMore, Answer, ReadBank, At, Early, Pcs
<1>2. ASSUME NEW o \in Plain PROVE Fine(Facts, Say(T, o))
  BY <1>1, SayIsSaid, SaidFine
<1>3. ASSUME NEW how \in {"error", "broken"} PROVE Fine(Facts, End(T, how))
  <2>1. ~T.acted
    BY <1>1 DEF Report
  <2>2. QED
    BY <1>1, <2>1, EndFine
<1>4. ASSUME NEW s \in Services PROVE Fine(Facts, Requested(T, s))
  BY <1>1, RequestedFine
<1>5. ASSUME T.pc \in {"cards", "lookup", "gather"}, NEW pc \in {"gather", "readBank"}
      PROVE  Fine(Facts, [T EXCEPT !.pc = pc])
  <2>1. GoesTo(T, [T EXCEPT !.pc = pc], pc, T.work) /\ pc \in Early
    BY <1>1, Going DEF Early, Pcs
  <2>2. T.work.service \in Services
    BY <1>1, <1>5 DEF TurnGood
  <2>3. QED
    BY <1>1, <2>1, <2>2, GoesFine
<1>6. {Answered, Emitted, KbAnswer, AppAnswer, Tell(Closed, "unsaid", "first", "before")} \subseteq Plain
  BY PlainOutcomes
<1>7. \E U : turn' = [turn EXCEPT ![t] = U] /\ Fine(Facts, U)
  <2>1. CASE Classify(t)
    BY <2>1, <1>2, <1>3, <1>4, <1>6 DEF Classify, Becomes
  <2>2. CASE Cards(t) \/ Lookup(t)
    BY <2>2, <1>2, <1>3, <1>5, <1>6 DEF Cards, Lookup, Becomes, At
  <2>3. CASE AskForMore(t) \/ Answer(t) \/ ReadBank(t)
    BY <2>3, <1>2, <1>5, <1>6 DEF AskForMore, Answer, ReadBank, Becomes, At
  <2>4. QED
    BY <2>1, <2>2, <2>3
<1>8. QED
  BY <1>7, Local DEF Classify, Cards, Lookup, AskForMore, Answer, ReadBank

\* What is known of questions, once they only grow.
LEMMA StaysTrue ==
    ASSUME IInv, Grows(Facts, Facts'), asked' = asked, changes' = changes,
           \A q \in Questions : q > asked => /\ ask'[q].shown = ask[q].shown
                                             /\ ask'[q].yes = ask[q].yes
    PROVE  SessionGood(Facts', open) /\ NotYet' /\ Consent'
<1>1. SessionGood(Facts', open)
  <2>1. ASSUME NEW c \in Customers PROVE Prompt(Facts', c, open[c])
    <3>1. open[c] \in Class /\ Prompt(Facts, c, open[c])
      BY DEF IInv, TypeOK, SessionGood
    <3>2. QED
      BY <3>1, PromptLasts
  <2>2. QED
    BY <2>1 DEF SessionGood
<1>2. NotYet'
  BY DEF IInv, NotYet
<1>3. Consent'
  <2>1. ASSUME NEW q \in Questions, changes[q] > 0
        PROVE  /\ Seen(Facts', q)
               /\ NeedsYes(ask'[q].service) => ask'[q].yes
               /\ NeedsCode(ask'[q].service) => minted'[q] > 0
    <3>1. q \in 1..asked /\ asked \in Nat
      BY <2>1, BankAssumption DEF IInv, NotYet, TypeOK, BankTypeOK, Questions
    <3>2. /\ Seen(Facts, q)
          /\ NeedsYes(ask[q].service) => ask[q].yes
          /\ NeedsCode(ask[q].service) => minted[q] > 0
      BY <2>1 DEF IInv, Consent
    <3>3. /\ ask'[q].service = ask[q].service
          /\ ask[q].shown => ask'[q].shown
          /\ ask[q].yes => ask'[q].yes
          /\ minted[q] \in Nat /\ minted'[q] \in Nat /\ minted[q] <= minted'[q]
      BY <3>1 DEF Grows, Facts
    <3>4. Seen(Facts', q)
      BY <3>2, <3>3, <3>1 DEF Seen, Facts, Grows
    <3>5. NeedsYes(ask'[q].service) => ask'[q].yes
      BY <3>2, <3>3
    <3>6. NeedsCode(ask'[q].service) => minted'[q] > 0
      BY <3>2, <3>3
    <3>7. QED
      BY <3>4, <3>5, <3>6
  <2>2. QED
    BY <2>1 DEF Consent
<1>4. QED
  BY <1>1, <1>2, <1>3

\* One turn moves and what became of a question put is noted.
LEMMA Noted ==
    ASSUME IInv, NEW t \in Turns, NEW U, turn' = [turn EXCEPT ![t] = U], Fine(Facts', U),
           UNCHANGED <<open, asked, bankVars>>, Grows(Facts, Facts'),
           ask' \in [Questions -> Question],
           \A q \in Questions : q > asked => /\ ask'[q].shown = ask[q].shown
                                             /\ ask'[q].yes = ask[q].yes
    PROVE  IInv'
<1>1. /\ open' = open /\ asked' = asked /\ changes' = changes
      /\ code' = code /\ sent' = sent /\ minted' = minted /\ usable' = usable
  BY DEF bankVars
<1>2. open' \in [Customers -> Class] /\ asked' \in 0..MaxQuestions /\ BankTypeOK'
  BY <1>1 DEF IInv, TypeOK, BankTypeOK
<1>3. SessionGood(Facts', open') /\ NotYet' /\ Consent'
  BY <1>1, StaysTrue
<1>4. QED
  BY <1>2, <1>3, OneMoves

\* One turn moves and the bank's codes and tokens do.
LEMMA Coded ==
    ASSUME IInv, NEW t \in Turns, NEW U, turn' = [turn EXCEPT ![t] = U], Fine(Facts', U),
           UNCHANGED <<open, asked, ask, changes>>, Grows(Facts, Facts'), BankTypeOK'
    PROVE  IInv'
<1>1. /\ open' \in [Customers -> Class] /\ asked' \in 0..MaxQuestions
      /\ ask' \in [Questions -> Question]
  BY DEF IInv, TypeOK
<1>2. SessionGood(Facts', open') /\ NotYet' /\ Consent'
  BY StaysTrue
<1>3. QED
  BY <1>1, <1>2, OneMoves

\* A note about a question that was put.
LEMMA GrowsNoted ==
    ASSUME TypeOK, NEW q \in 1..asked, NEW r,
           r \in Question, r.cust = ask[q].cust, r.service = ask[q].service,
           r.value = ask[q].value, ask[q].shown => r.shown, ask[q].yes => r.yes,
           ask' = [ask EXCEPT ![q] = r], UNCHANGED <<asked, bankVars>>
    PROVE  /\ Grows(Facts, Facts') /\ ask' \in [Questions -> Question]
           /\ \A p \in Questions : p > asked => /\ ask'[p].shown = ask[p].shown
                                                /\ ask'[p].yes = ask[p].yes
<1>1. asked \in Nat /\ q \in Questions /\ 1..asked \subseteq Questions /\ asked' = asked
  BY BankAssumption DEF TypeOK, BankTypeOK, Questions
<1>2. ask' \in [Questions -> Question]
  BY <1>1 DEF TypeOK
<1>3. sent' = sent /\ minted' = minted
  BY DEF bankVars
<1>4. ASSUME NEW p \in 1..asked
      PROVE  /\ ask'[p].cust = ask[p].cust /\ ask'[p].service = ask[p].service
             /\ ask'[p].value = ask[p].value
             /\ ask[p].shown => ask'[p].shown
             /\ ask[p].yes => ask'[p].yes
  BY <1>1 DEF TypeOK
<1>5. ASSUME NEW p \in 1..asked
      PROVE  sent[p] \in Nat /\ minted[p] \in Nat
  BY <1>1, BankAssumption DEF TypeOK, BankTypeOK
<1>6. Grows(Facts, Facts')
  BY <1>1, <1>3, <1>4, <1>5 DEF Grows, Facts
<1>7. ASSUME NEW p \in Questions, p > asked PROVE ask'[p] = ask[p]
  BY <1>1, <1>7 DEF TypeOK
<1>8. QED
  BY <1>2, <1>6, <1>7

LEMMA ReadCodeKeeps ==
    ASSUME IInv, NEW t \in Turns, ReadCode(t)
    PROVE  IInv'
<1> DEFINE T == turn[t]
           q == T.work.q
           moved == [T EXCEPT !.work = Closed]
<1>1. PICK reading \in Readings(T.msg) :
             /\ IF reading = "other"
                THEN Becomes(t, IF T.msg.heard THEN Heard(moved) ELSE Routed(moved))
                ELSE Becomes(t, CodeStep(T, reading = "decline"))
             /\ ask' = [ask EXCEPT ![q].dropped = @ \/ (reading = "other"
                                                        /\ ~T.msg.heard),
                                   ![q].no = @ \/ (reading = "decline"
                                                   /\ ~Submitted(T.work, T.msg))]
  BY DEF ReadCode
<1>2. /\ T \in TurnState /\ Report(T) /\ T.pc = "readCode" /\ T.pc \in Early
      /\ T.work.type = "OTP_REQUIRED" /\ Prompt(Facts, T.cust, T.work) /\ T.work \in Class
  BY Now DEF ReadCode, At, TurnGood, Early, Pcs, TurnState
<1>3. q \in 1..asked
  BY <1>2 DEF Prompt, Stands, About, Facts
<1> DEFINE r == [ask[q] EXCEPT !.dropped = @ \/ (reading = "other" /\ ~T.msg.heard),
                               !.no = @ \/ (reading = "decline" /\ ~Submitted(T.work, T.msg))]
<1>4. ask[q] \in Question
  BY <1>3, BankAssumption DEF IInv, TypeOK, BankTypeOK, Questions
<1>5. /\ r \in Question /\ r.cust = ask[q].cust /\ r.service = ask[q].service
      /\ r.value = ask[q].value /\ r.shown = ask[q].shown /\ r.yes = ask[q].yes
  BY <1>4 DEF Question
<1>6. ask' = [ask EXCEPT ![q] = r]
  BY <1>1
<1>7. UNCHANGED <<open, asked, bankVars>>
  BY DEF ReadCode
<1> HIDE DEF r
<1>8. /\ Grows(Facts, Facts') /\ ask' \in [Questions -> Question]
      /\ \A p \in Questions : p > asked => /\ ask'[p].shown = ask[p].shown
                                           /\ ask'[p].yes = ask[p].yes
  BY <1>3, <1>5, <1>6, <1>7, GrowsNoted DEF IInv
<1>9. Prompt(Facts', T.cust, T.work)
  BY <1>2, <1>8, PromptLasts
<1>10. /\ moved \in TurnState /\ Report(moved) /\ moved.pc \in Early
  <2>1. /\ moved \in TurnState /\ moved.pc = T.pc /\ moved.outcome = T.outcome
        /\ moved.acted = T.acted /\ moved.audited = T.audited /\ moved.results = T.results
        /\ moved.ended = T.ended
    BY <1>2, Constants DEF TurnState
  <2> HIDE DEF moved
  <2>2. QED
    BY <1>2, <2>1 DEF Report, Early, Pcs
<1> HIDE DEF moved
<1>11. \E U : turn' = [turn EXCEPT ![t] = U] /\ Fine(Facts', U)
  <2>1. CASE reading = "other" /\ T.msg.heard
    <3>1. Said(moved, Heard(moved))
      BY <1>10, PlainOutcomes, SayIsSaid DEF Heard
    <3>2. Fine(Facts', Heard(moved))
      BY <3>1, <1>10, SaidFine
    <3>3. QED
      BY <1>1, <2>1, <3>2 DEF Becomes, moved
  <2>2. CASE reading = "other" /\ ~T.msg.heard
    <3>1. Fine(Facts', Routed(moved))
      BY <1>10, RoutedFine
    <3>2. QED
      BY <1>1, <2>2, <3>1 DEF Becomes, moved
  <2>3. CASE reading # "other"
    <3>1. Fine(Facts', CodeStep(T, reading = "decline"))
      BY <1>2, <1>9, CodeStepFine
    <3>2. QED
      BY <1>1, <2>3, <3>1 DEF Becomes
  <2>4. QED
    BY <2>1, <2>2, <2>3
<1>12. QED
  BY <1>7, <1>8, <1>11, Noted

LEMMA ReadYesKeeps ==
    ASSUME IInv, NEW t \in Turns, ReadYes(t)
    PROVE  IInv'
<1> DEFINE T == turn[t]
           w == T.work
           q == T.work.q
           moved == [T EXCEPT !.work = Closed]
<1>1. PICK reading \in Readings(T.msg) :
             /\ \/ /\ reading = "other" /\ Becomes(t, Routed(moved))
                \/ Becomes(t, Say(T, SwitchedOff))
                \/ Becomes(t, Say(T, NotDone("after")))
                \/ Becomes(t, Say(T, Ask(w, "after")))
                \/ /\ reading = "confirm"
                   /\ Becomes(t, [T EXCEPT !.pc = IF NeedsCode(w.service)
                                                  THEN "sendOtp" ELSE "fulfil"])
             /\ ask' = [ask EXCEPT ![q].dropped = @ \/ reading = "other",
                                   ![q].no = @ \/ reading = "decline",
                                   ![q].yes = @ \/ reading = "confirm"]
  BY DEF ReadYes, Proceeds
<1>2. /\ T \in TurnState /\ Report(T) /\ T.pc = "readYes" /\ T.pc \in Early
      /\ w.type = "CONFIRMATION_REQUIRED" /\ Prompt(Facts, T.cust, w) /\ w \in Class
  BY Now DEF ReadYes, At, TurnGood, Early, Pcs, TurnState
<1>3. q \in 1..asked
  BY <1>2 DEF Prompt, Stands, About, Facts
<1> DEFINE r == [ask[q] EXCEPT !.dropped = @ \/ reading = "other",
                               !.no = @ \/ reading = "decline",
                               !.yes = @ \/ reading = "confirm"]
<1>4. ask[q] \in Question
  BY <1>3, BankAssumption DEF IInv, TypeOK, BankTypeOK, Questions
<1>5. /\ r \in Question /\ r.cust = ask[q].cust /\ r.service = ask[q].service
      /\ r.value = ask[q].value /\ r.shown = ask[q].shown
      /\ ask[q].yes => r.yes
      /\ reading = "confirm" => r.yes
  BY <1>4 DEF Question
<1>6. ask' = [ask EXCEPT ![q] = r]
  BY <1>1
<1>7. UNCHANGED <<open, asked, bankVars>>
  BY DEF ReadYes
<1> HIDE DEF r
<1>8. /\ Grows(Facts, Facts') /\ ask' \in [Questions -> Question]
      /\ \A p \in Questions : p > asked => /\ ask'[p].shown = ask[p].shown
                                           /\ ask'[p].yes = ask[p].yes
  BY <1>3, <1>5, <1>6, <1>7, GrowsNoted DEF IInv
<1>9. Prompt(Facts', T.cust, w)
  BY <1>2, <1>8, PromptLasts
<1>10. /\ moved \in TurnState /\ Report(moved) /\ moved.pc \in Early
  <2>1. /\ moved \in TurnState /\ moved.pc = T.pc /\ moved.outcome = T.outcome
        /\ moved.acted = T.acted /\ moved.audited = T.audited /\ moved.results = T.results
        /\ moved.ended = T.ended
    BY <1>2, Constants DEF TurnState
  <2> HIDE DEF moved
  <2>2. QED
    BY <1>2, <2>1 DEF Report, Early, Pcs
<1> HIDE DEF moved
<1>11. \E U : turn' = [turn EXCEPT ![t] = U] /\ Fine(Facts', U)
  <2>1. CASE reading = "other" /\ Becomes(t, Routed(moved))
    <3>1. Fine(Facts', Routed(moved))
      BY <1>10, RoutedFine
    <3>2. QED
      BY <2>1, <3>1 DEF Becomes
  <2>2. CASE Becomes(t, Say(T, SwitchedOff)) \/ Becomes(t, Say(T, NotDone("after")))
    <3>1. SwitchedOff \in Plain /\ NotDone("after") \in Plain
      BY PlainOutcomes
    <3>2. Fine(Facts', Say(T, SwitchedOff)) /\ Fine(Facts', Say(T, NotDone("after")))
      BY <1>2, <3>1, SayIsSaid, SaidFine
    <3>3. QED
      BY <2>2, <3>2 DEF Becomes
  <2>3. CASE Becomes(t, Say(T, Ask(w, "after")))
    <3>1. /\ Ask(w, "after") \in Outcome /\ Ask(w, "after").class = w
          /\ Ask(w, "after").executed = "unsaid"
      BY <1>2, AskAsks
    <3>2. Told(T, Say(T, Ask(w, "after")), Ask(w, "after")) /\ Stands(Facts', T.cust, w)
      BY <1>2, <1>9, <3>1, SayTells DEF Prompt
    <3>3. Fine(Facts', Say(T, Ask(w, "after")))
      BY <1>2, <3>1, <3>2, TellsFine
    <3>4. QED
      BY <2>3, <3>3 DEF Becomes
  <2>4. CASE /\ reading = "confirm"
             /\ Becomes(t, [T EXCEPT !.pc = IF NeedsCode(w.service) THEN "sendOtp" ELSE "fulfil"])
    <3>1. /\ About(Facts', T.cust, w) /\ NeedsYes(w.service) /\ Seen(Facts', q)
          /\ Facts'.ask[q].yes
      <4>1. About(Facts', T.cust, w) /\ NeedsYes(w.service) /\ Seen(Facts', q)
        BY <1>2, <1>9 DEF Prompt, Stands
      <4>2. ask'[q] = r
        BY <1>3, <1>6, BankAssumption DEF IInv, TypeOK, BankTypeOK, Questions
      <4>3. QED
        BY <2>4, <4>1, <4>2, <1>5 DEF Facts
    <3>2. CASE NeedsCode(w.service)
      <4>1. GoesTo(T, [T EXCEPT !.pc = "sendOtp"], "sendOtp", w) /\ "sendOtp" \in Early
        BY <1>2, Going DEF Early, Pcs
      <4>2. MayText(Facts', T.cust, w)
        BY <3>1, <3>2 DEF MayText
      <4>3. Fine(Facts', [T EXCEPT !.pc = "sendOtp"])
        BY <1>2, <4>1, <4>2, GoesFine
      <4>4. QED
        BY <2>4, <3>2, <4>3 DEF Becomes
    <3>3. CASE ~NeedsCode(w.service)
      <4>1. GoesTo(T, [T EXCEPT !.pc = "fulfil"], "fulfil", w) /\ "fulfil" \in Early
        BY <1>2, Going DEF Early, Pcs
      <4>2. Cleared(Facts', T.cust, w)
        BY <1>2, <1>9, <3>1, <3>3 DEF Cleared
      <4>3. Fine(Facts', [T EXCEPT !.pc = "fulfil"])
        BY <1>2, <4>1, <4>2, GoesFine
      <4>4. QED
        BY <2>4, <3>3, <4>3 DEF Becomes
    <3>4. QED
      BY <3>2, <3>3
  <2>5. QED
    BY <1>1, <2>1, <2>2, <2>3, <2>4
<1>12. QED
  BY <1>7, <1>8, <1>11, Noted

\* A complete change becomes a question nobody was asked before.
LEMMA PutQuestionKeeps ==
    ASSUME IInv, NEW t \in Turns, PutQuestion(t)
    PROVE  IInv'
<1> DEFINE T == turn[t]
           s == T.work.service
           q == asked + 1
<1>1. PICK v \in Values :
         LET w == [type |-> "CONFIRMATION_REQUIRED", service |-> s,
                   value |-> v, q |-> q, token |-> 0]
         IN  /\ \/ NeedsYes(s) /\ Becomes(t, Say(T, Ask(w, "after")))
                \/ /\ GateOf[s] = "contact"
                   /\ Becomes(t, [T EXCEPT !.work = [w EXCEPT !.type = "OTP_REQUIRED"],
                                           !.pc = "sendOtp"])
             /\ asked' = q
             /\ ask' = [ask EXCEPT ![q] = [Unasked EXCEPT !.cust = T.cust,
                                             !.service = s, !.value = v]]
  BY DEF PutQuestion
<1> DEFINE w == [type |-> "CONFIRMATION_REQUIRED", service |-> s,
                 value |-> v, q |-> q, token |-> 0]
           x == [type |-> "OTP_REQUIRED", service |-> s,
                 value |-> v, q |-> q, token |-> 0]
           r == [Unasked EXCEPT !.cust = T.cust, !.service = s, !.value = v]
<1>2. /\ T \in TurnState /\ Report(T) /\ T.pc = "gather" /\ T.pc \in Early
      /\ s \in Services /\ T.cust \in Customers
  BY Now DEF PutQuestion, At, TurnGood, Early, Pcs, TurnState
<1>3. /\ asked \in Nat /\ asked < MaxQuestions /\ q \in Questions /\ MaxCodes \in Nat
      /\ q \in 0..MaxQuestions /\ MaxQuestions \in Nat
  BY BankAssumption DEF PutQuestion, IInv, TypeOK, BankTypeOK, Questions
<1>4. w \in Class /\ x \in Class
  BY <1>2, <1>3 DEF Class
<1>5. [w EXCEPT !.type = "OTP_REQUIRED"] = x
  OBVIOUS
<1>6. /\ r \in Question /\ r.cust = T.cust /\ r.service = s /\ r.value = v
      /\ ~r.shown /\ ~r.yes
  <2>1. Unasked \in Question /\ ~Unasked.shown /\ ~Unasked.yes
    BY Constants DEF Unasked, Question
  <2>2. QED
    BY <1>2, <2>1 DEF Question
<1>7. /\ UNCHANGED <<open, bankVars>> /\ asked' = q /\ ask' = [ask EXCEPT ![q] = r]
  BY <1>1 DEF PutQuestion
<1> HIDE DEF r
<1>8. /\ ask' \in [Questions -> Question] /\ ask'[q] = r
      /\ \A p \in Questions : p # q => ask'[p] = ask[p]
  BY <1>3, <1>6, <1>7 DEF IInv, TypeOK
<1>9. /\ open' = open /\ changes' = changes /\ sent' = sent /\ minted' = minted
      /\ code' = code /\ usable' = usable
  BY <1>7 DEF bankVars
<1>10. Grows(Facts, Facts')
  <2>1. ASSUME NEW p \in 1..asked
        PROVE  p \in Questions /\ p # q /\ sent[p] \in Nat /\ minted[p] \in Nat
    BY <1>3, BankAssumption DEF IInv, TypeOK, BankTypeOK, Questions
  <2>2. QED
    BY <1>3, <1>7, <1>8, <1>9, <2>1 DEF Grows, Facts
<1>11. About(Facts', T.cust, w) /\ About(Facts', T.cust, x)
  BY <1>2, <1>3, <1>6, <1>7, <1>8 DEF About, Facts
<1>12. \E U : turn' = [turn EXCEPT ![t] = U] /\ Fine(Facts', U)
  <2>1. CASE NeedsYes(s) /\ Becomes(t, Say(T, Ask(w, "after")))
    <3>1. Stands(Facts', T.cust, w)
      BY <2>1, <1>11 DEF Stands
    <3> HIDE DEF w
    <3>2. /\ Ask(w, "after") \in Outcome /\ Ask(w, "after").class = w
          /\ Ask(w, "after").executed = "unsaid"
      BY <1>4, AskAsks
    <3>3. Fine(Facts', Say(T, Ask(w, "after")))
      BY <1>2, <3>1, <3>2, SayTells, TellsFine
    <3>4. QED
      BY <2>1, <3>3 DEF Becomes
  <2>2. CASE GateOf[s] = "contact" /\ Becomes(t, [T EXCEPT !.work = x, !.pc = "sendOtp"])
    <3>1. MayText(Facts', T.cust, x)
      BY <2>2, <1>2, <1>11 DEF MayText, NeedsCode, NeedsYes
    <3> HIDE DEF x
    <3>2. GoesTo(T, [T EXCEPT !.work = x, !.pc = "sendOtp"], "sendOtp", x) /\ "sendOtp" \in Early
      BY <1>2, <1>4, GoingWith DEF Early, Pcs
    <3>3. Fine(Facts', [T EXCEPT !.work = x, !.pc = "sendOtp"])
      BY <1>2, <3>1, <3>2, GoesFine
    <3>4. QED
      BY <2>2, <3>3 DEF Becomes
  <2>3. QED
    BY <1>1, <1>5, <2>1, <2>2
<1>13. SessionGood(Facts', open')
  <2>1. ASSUME NEW c \in Customers PROVE Prompt(Facts', c, open'[c])
    <3>1. open[c] \in Class /\ Prompt(Facts, c, open[c])
      BY DEF IInv, TypeOK, SessionGood
    <3>2. QED
      BY <3>1, <1>9, <1>10, PromptLasts
  <2>2. QED
    BY <2>1 DEF SessionGood
<1>14. NotYet'
  <2>1. ASSUME NEW p \in Questions, p > asked' PROVE ~ask'[p].shown /\ ~ask'[p].yes /\ changes'[p] = 0
    <3>1. p > asked /\ p # q
      BY <2>1, <1>3, <1>7, BankAssumption DEF Questions
    <3>2. QED
      BY <3>1, <1>8, <1>9 DEF IInv, NotYet
  <2>2. QED
    BY <2>1 DEF NotYet
<1>15. Consent'
  <2>1. ASSUME NEW p \in Questions, changes'[p] > 0
        PROVE  /\ Seen(Facts', p)
               /\ NeedsYes(ask'[p].service) => ask'[p].yes
               /\ NeedsCode(ask'[p].service) => minted'[p] > 0
    <3>1. p # q
      BY <2>1, <1>3, <1>9 DEF IInv, NotYet
    <3>2. ask'[p] = ask[p] /\ changes[p] > 0
      BY <2>1, <3>1, <1>8, <1>9
    <3>3. /\ Seen(Facts, p)
          /\ NeedsYes(ask[p].service) => ask[p].yes
          /\ NeedsCode(ask[p].service) => minted[p] > 0
      BY <3>2 DEF IInv, Consent
    <3>4. QED
      BY <3>2, <3>3, <1>9 DEF Seen, Facts
  <2>2. QED
    BY <2>1 DEF Consent
<1>16. asked' \in 0..MaxQuestions /\ BankTypeOK' /\ open' \in [Customers -> Class]
  BY <1>3, <1>7, <1>9 DEF IInv, TypeOK, BankTypeOK
<1>17. QED
  BY <1>8, <1>10, <1>12, <1>13, <1>14, <1>15, <1>16, OneMoves

\* Codes and tokens are only added, so what is known of them grows.
LEMMA GrowsCoded ==
    ASSUME TypeOK, BankTypeOK', asked' = asked, ask' = ask,
           \A q \in Questions : sent[q] <= sent'[q] /\ minted[q] <= minted'[q]
    PROVE  Grows(Facts, Facts')
<1>1. ASSUME NEW q \in 1..asked
      PROVE  /\ sent[q] \in Nat /\ sent'[q] \in Nat /\ sent[q] <= sent'[q]
             /\ minted[q] \in Nat /\ minted'[q] \in Nat /\ minted[q] <= minted'[q]
  <2>1. q \in Questions
    BY BankAssumption DEF TypeOK, Questions
  <2>2. QED
    BY <2>1, BankAssumption DEF TypeOK, BankTypeOK
<1>2. asked \in Nat
  BY DEF TypeOK
<1>3. QED
  BY <1>1, <1>2 DEF Grows, Facts

\* What the bank's OTP service does to its records.
LEMMA SendOtpCalls ==
    ASSUME TypeOK, NEW c \in Customers, NEW q \in Questions, NEW answer, SendOtpCall(c, q, answer)
    PROVE  /\ BankTypeOK' /\ changes' = changes /\ minted' = minted /\ usable' = usable
           /\ \A p \in Questions : sent[p] <= sent'[p]
           /\ answer = "OK" => sent'[q] > 0
<1>1. /\ sent \in [Questions -> 0..MaxCodes] /\ code \in [Customers -> 0..MaxQuestions]
      /\ MaxCodes \in Nat /\ q \in 0..MaxQuestions
  BY BankAssumption DEF TypeOK, BankTypeOK, Questions
<1>2. CASE Texted(c, q)
  <2>1. /\ sent[q] < MaxCodes /\ sent' = [sent EXCEPT ![q] = sent[q] + 1]
        /\ code' = [code EXCEPT ![c] = q]
        /\ minted' = minted /\ usable' = usable /\ changes' = changes
    BY <1>2 DEF Texted
  <2>2. sent[q] \in Nat /\ sent[q] + 1 \in 0..MaxCodes
    BY <1>1, <2>1
  <2>3. \A p \in Questions : sent[p] \in Nat /\ sent[p] <= sent'[p]
    BY <1>1, <2>1, <2>2
  <2>4. BankTypeOK'
    BY <1>1, <2>1, <2>2 DEF TypeOK, BankTypeOK
  <2>5. sent'[q] > 0
    BY <1>1, <2>1, <2>2
  <2>6. QED
    BY <2>1, <2>3, <2>4, <2>5
<1>3. CASE answer # "OK" /\ UNCHANGED bankVars
  BY <1>1, <1>3 DEF bankVars, TypeOK, BankTypeOK
<1>4. QED
  BY <1>2, <1>3 DEF SendOtpCall

\* The code step as it is left open: no token yet.
LEMMA PendingIsOpen ==
    ASSUME NEW w \in Class
    PROVE  /\ Pending(w) \in Class /\ Pending(w).type = "OTP_REQUIRED" /\ Pending(w).token = 0
           /\ Pending(w).q = w.q /\ Pending(w).service = w.service /\ Pending(w).value = w.value
<1> DEFINE x == [w EXCEPT !.type = "OTP_REQUIRED"]
<1>1. /\ x \in Class /\ x.type = "OTP_REQUIRED"
      /\ x.q = w.q /\ x.service = w.service /\ x.value = w.value
  BY DEF Class
<1>2. Pending(w) = [x EXCEPT !.token = 0]
  BY DEF Pending
<1>3. 0 \in 0..MaxCodes
  BY BankAssumption
<1> HIDE DEF x
<1>4. QED
  BY <1>1, <1>2, <1>3 DEF Class

LEMMA SendOtpKeeps ==
    ASSUME IInv, NEW t \in Turns, SendOtp(t)
    PROVE  IInv'
<1> DEFINE T == turn[t]
           w == T.work
<1>1. PICK answer \in {"OK", "SEND_THROTTLED", "INVALID_PHONE", "UNAVAILABLE"} :
          SendOtpCall(T.cust, w.q, answer) /\ Becomes(t, AfterSend(T, answer))
  BY DEF SendOtp
<1>2. /\ T \in TurnState /\ Report(T) /\ T.pc \in Early /\ T.cust \in Customers /\ w \in Class
      /\ MayText(Facts, T.cust, w)
  BY Now DEF SendOtp, At, TurnGood, Early, Pcs, TurnState
<1>3. w.q \in Questions
  BY <1>2, BankAssumption DEF MayText, About, Facts, IInv, TypeOK, Questions
<1>4. /\ BankTypeOK' /\ changes' = changes /\ minted' = minted /\ usable' = usable
      /\ \A p \in Questions : sent[p] <= sent'[p]
      /\ answer = "OK" => sent'[w.q] > 0
  BY <1>1, <1>2, <1>3, SendOtpCalls DEF IInv
<1>5. UNCHANGED <<open, asked, ask, changes>>
  BY <1>4 DEF SendOtp
<1>6. Grows(Facts, Facts')
  <2>1. \A p \in Questions : minted[p] <= minted'[p]
    BY <1>4, BankAssumption DEF IInv, TypeOK, BankTypeOK
  <2>2. QED
    BY <1>4, <1>5, <2>1, GrowsCoded DEF IInv
<1>7. Fine(Facts', AfterSend(T, answer))
  <2>1. CASE answer = "OK"
    <3> DEFINE y == Pending(w)
    <3>1. /\ y \in Class /\ y.type = "OTP_REQUIRED" /\ y.token = 0
          /\ y.q = w.q /\ y.service = w.service /\ y.value = w.value
      BY <1>2, PendingIsOpen
    <3>2. MayText(Facts', T.cust, w)
      BY <1>2, <1>6, MayTextLasts
    <3> HIDE DEF y
    <3>3. MayText(Facts', T.cust, y)
      BY <3>1, <3>2 DEF MayText, About
    <3>4. Facts'.sent[y.q] > 0 /\ y.token <= Facts'.minted[y.q]
      <4>1. minted'[w.q] \in Nat
        BY <1>3, <1>4, BankAssumption DEF BankTypeOK
      <4>2. QED
        BY <2>1, <3>1, <4>1, <1>4 DEF Facts
    <3>5. Stands(Facts', T.cust, y)
      BY <3>1, <3>3, <3>4 DEF Stands, MayText
    <3>6. /\ Ask(y, "first") \in Outcome /\ Ask(y, "first").class = y
          /\ Ask(y, "first").executed = "unsaid"
      BY <3>1, AskAsks
    <3>7. Fine(Facts', Say(T, Ask(y, "first")))
      BY <1>2, <3>5, <3>6, SayTells, TellsFine
    <3>8. QED
      BY <2>1, <3>7 DEF AfterSend, y
  <2>2. CASE answer # "OK"
    <3>1. NotDone("first") \in Plain /\ Emitted \in Plain
      BY PlainOutcomes
    <3>2. Fine(Facts', Say(T, NotDone("first"))) /\ Fine(Facts', Say(T, Emitted))
      BY <1>2, <3>1, SayIsSaid, SaidFine
    <3>3. QED
      BY <2>2, <3>2 DEF AfterSend
  <2>3. QED
    BY <2>1, <2>2
<1>8. QED
  BY <1>1, <1>4, <1>5, <1>6, <1>7, Coded DEF Becomes

LEMMA VerifyOtpCalls ==
    ASSUME TypeOK, NEW c \in Customers, NEW q \in Questions, NEW right \in BOOLEAN, NEW answer,
           VerifyOtpCall(c, q, right, answer)
    PROVE  /\ BankTypeOK' /\ changes' = changes /\ sent' = sent
           /\ \A p \in Questions : minted[p] <= minted'[p]
           /\ answer = "OK" => minted'[q] > 0
<1>1. /\ minted \in [Questions -> 0..MaxCodes] /\ code \in [Customers -> 0..MaxQuestions]
      /\ sent \in [Questions -> 0..MaxCodes] /\ changes \in [Questions -> 0..MaxChanges]
      /\ usable \subseteq Token
      /\ MaxCodes \in Nat /\ MaxQuestions \in Nat
  BY BankAssumption DEF TypeOK, BankTypeOK
<1>2. \A p \in Questions : minted[p] \in Nat
  BY <1>1
<1>3. CASE /\ answer = "OK" /\ minted[q] < MaxCodes
           /\ code' = [code EXCEPT ![c] = 0]
           /\ minted' = [minted EXCEPT ![q] = minted[q] + 1]
           /\ usable' = usable \cup {<<q, minted[q] + 1>>}
           /\ UNCHANGED <<sent, changes>>
  <2>1. minted[q] + 1 \in 0..MaxCodes /\ minted[q] + 1 \in 1..MaxCodes
    BY <1>1, <1>2, <1>3
  <2>2. <<q, minted[q] + 1>> \in Token
    BY <2>1 DEF Token
  <2>3. usable' \subseteq Token
    BY <1>1, <1>3, <2>2
  <2>4. minted' \in [Questions -> 0..MaxCodes]
    BY <1>1, <1>3, <2>1
  <2>5. code' \in [Customers -> 0..MaxQuestions]
    BY <1>1, <1>3
  <2>6. \A p \in Questions : minted[p] <= minted'[p]
    BY <1>1, <1>2, <1>3
  <2>7. minted'[q] > 0
    BY <1>1, <1>2, <1>3
  <2>8. QED
    BY <1>1, <1>3, <2>3, <2>4, <2>5, <2>6, <2>7 DEF BankTypeOK
<1>4. CASE answer # "OK" /\ code' = [code EXCEPT ![c] = 0]
           /\ UNCHANGED <<sent, minted, usable, changes>>
  <2>1. code' \in [Customers -> 0..MaxQuestions]
    BY <1>1, <1>4
  <2>2. QED
    BY <1>1, <1>2, <1>4, <2>1 DEF BankTypeOK
<1>5. CASE answer # "OK" /\ UNCHANGED bankVars
  BY <1>1, <1>2, <1>5 DEF BankTypeOK, bankVars
<1>6. QED
  BY <1>3, <1>4, <1>5 DEF VerifyOtpCall

\* A step with another token.
LEMMA WithToken ==
    ASSUME NEW w \in Class, NEW n \in 0..MaxCodes
    PROVE  /\ [w EXCEPT !.token = n] \in Class
           /\ [w EXCEPT !.token = n].token = n /\ [w EXCEPT !.token = n].type = w.type
           /\ [w EXCEPT !.token = n].q = w.q /\ [w EXCEPT !.token = n].service = w.service
           /\ [w EXCEPT !.token = n].value = w.value
BY DEF Class

LEMMA TokenStands ==
    ASSUME NEW h, NEW c, NEW w \in Class, w.type = "OTP_REQUIRED", Prompt(h, c, w),
           NEW y, y.type = w.type, y.q = w.q, y.service = w.service, y.value = w.value,
           y.token <= h.minted[w.q]
    PROVE  Prompt(h, c, y)
BY DEF Prompt, Stands, MayText, About, Seen

LEMMA VerifyOtpKeeps ==
    ASSUME IInv, NEW t \in Turns, VerifyOtp(t)
    PROVE  IInv'
<1> DEFINE T == turn[t]
           w == T.work
<1>1. PICK answer \in {"OK", "OTP_INCORRECT", "OTP_EXPIRED", "OTP_BLOCKED", "UNAVAILABLE"} :
          /\ VerifyOtpCall(T.cust, w.q, T.msg.otp = "right", answer)
          /\ Becomes(t,
               CASE answer = "OK" -> [T EXCEPT !.pc = "fulfil", !.work.token = minted'[w.q]]
                 [] answer = "OTP_EXPIRED" -> [T EXCEPT !.pc = "sendOtp"]
                 [] answer = "OTP_INCORRECT" -> Say(T, Ask([w EXCEPT !.token = 0], "first"))
                 [] answer = "OTP_BLOCKED" /\ GateOf[w.service] = "freeze" ->
                      Say(T, NotDone("first"))
                 [] OTHER -> Say(T, Emitted))
  BY DEF VerifyOtp
<1>2. /\ T \in TurnState /\ Report(T) /\ T.pc \in Early /\ T.cust \in Customers /\ w \in Class
      /\ w.type = "OTP_REQUIRED" /\ Prompt(Facts, T.cust, w)
  BY Now DEF VerifyOtp, At, TurnGood, Early, Pcs, TurnState
<1>3. w.q \in Questions
  BY <1>2, BankAssumption DEF Prompt, Stands, About, Facts, IInv, TypeOK, Questions
<1>4. /\ BankTypeOK' /\ changes' = changes /\ sent' = sent
      /\ \A p \in Questions : minted[p] <= minted'[p]
      /\ answer = "OK" => minted'[w.q] > 0
  BY <1>1, <1>2, <1>3, VerifyOtpCalls DEF IInv
<1>5. UNCHANGED <<open, asked, ask, changes>>
  BY <1>4 DEF VerifyOtp
<1>6. Grows(Facts, Facts')
  <2>1. \A p \in Questions : sent[p] <= sent'[p]
    BY <1>4, BankAssumption DEF IInv, TypeOK, BankTypeOK
  <2>2. QED
    BY <1>4, <1>5, <2>1, GrowsCoded DEF IInv
<1>7. Prompt(Facts', T.cust, w)
  BY <1>2, <1>6, PromptLasts
<1>8. minted'[w.q] \in 0..MaxCodes /\ 0 \in 0..MaxCodes /\ MaxCodes \in Nat
      /\ Facts'.minted[w.q] = minted'[w.q]
  BY <1>3, <1>4, BankAssumption DEF BankTypeOK, Facts
<1>9. \E U : turn' = [turn EXCEPT ![t] = U] /\ Fine(Facts', U)
  <2>1. CASE answer = "OK"
    <3> DEFINE y == [w EXCEPT !.token = minted'[w.q]]
    <3>1. /\ y \in Class /\ y.token = minted'[w.q] /\ y.type = w.type
          /\ y.q = w.q /\ y.service = w.service /\ y.value = w.value
      BY <1>2, <1>8, WithToken
    <3>2. [T EXCEPT !.pc = "fulfil", !.work.token = minted'[w.q]]
             = [T EXCEPT !.work = y, !.pc = "fulfil"]
      BY <1>2 DEF TurnState
    <3> HIDE DEF y
    <3>3. y.token <= Facts'.minted[w.q] /\ y.token # 0
      BY <2>1, <3>1, <1>4, <1>8
    <3>4. Prompt(Facts', T.cust, y)
      BY <1>2, <1>7, <3>1, <3>3, TokenStands
    <3>5. Cleared(Facts', T.cust, y)
      BY <1>2, <3>1, <3>3, <3>4 DEF Cleared
    <3>6. GoesTo(T, [T EXCEPT !.work = y, !.pc = "fulfil"], "fulfil", y) /\ "fulfil" \in Early
      BY <1>2, <3>1, GoingWith DEF Early, Pcs
    <3>7. Fine(Facts', [T EXCEPT !.work = y, !.pc = "fulfil"])
      BY <1>2, <3>5, <3>6, GoesFine
    <3>8. QED
      BY <1>1, <2>1, <3>2, <3>7 DEF Becomes
  <2>2. CASE answer = "OTP_EXPIRED"
    <3>1. GoesTo(T, [T EXCEPT !.pc = "sendOtp"], "sendOtp", w) /\ "sendOtp" \in Early
      BY <1>2, Going DEF Early, Pcs
    <3>2. MayText(Facts', T.cust, w)
      BY <1>2, <1>7 DEF Prompt, Stands
    <3>3. Fine(Facts', [T EXCEPT !.pc = "sendOtp"])
      BY <1>2, <3>1, <3>2, GoesFine
    <3>4. QED
      BY <1>1, <2>2, <3>3 DEF Becomes
  <2>3. CASE answer = "OTP_INCORRECT"
    <3> DEFINE y == [w EXCEPT !.token = 0]
    <3>1. /\ y \in Class /\ y.token = 0 /\ y.type = w.type
          /\ y.q = w.q /\ y.service = w.service /\ y.value = w.value
      BY <1>2, <1>8, WithToken
    <3> HIDE DEF y
    <3>2. y.token <= Facts'.minted[w.q]
      BY <3>1, <1>8
    <3>3. Stands(Facts', T.cust, y)
      BY <1>2, <1>7, <3>1, <3>2, TokenStands DEF Prompt
    <3>4. /\ Ask(y, "first") \in Outcome /\ Ask(y, "first").class = y
          /\ Ask(y, "first").executed = "unsaid"
      BY <3>1, AskAsks
    <3>5. Fine(Facts', Say(T, Ask(y, "first")))
      BY <1>2, <3>3, <3>4, SayTells, TellsFine
    <3>6. QED
      BY <1>1, <2>3, <3>5 DEF Becomes, y
  <2>4. CASE answer \in {"OTP_BLOCKED", "UNAVAILABLE"}
    <3>1. NotDone("first") \in Plain /\ Emitted \in Plain
      BY PlainOutcomes
    <3>2. Fine(Facts', Say(T, NotDone("first"))) /\ Fine(Facts', Say(T, Emitted))
      BY <1>2, <3>1, SayIsSaid, SaidFine
    <3>3. QED
      BY <1>1, <2>4, <3>2 DEF Becomes
  <2>5. QED
    BY <2>1, <2>2, <2>3, <2>4
<1>10. QED
  BY <1>4, <1>5, <1>6, <1>9, Coded

\* The change is carried out, and everything it needed is on record.
LEMMA FulfilKeeps ==
    ASSUME IInv, NEW t \in Turns, Fulfil(t)
    PROVE  IInv'
<1> DEFINE T == turn[t]
           w == T.work
           U == [T EXCEPT !.pc = "reply", !.acted = TRUE]
<1>1. /\ CarryOut(w.q, TokenOf(w)) /\ turn' = [turn EXCEPT ![t] = U]
      /\ UNCHANGED <<open, asked, ask>>
  BY DEF Fulfil, Becomes
<1>2. /\ T \in TurnState /\ Report(T) /\ T.pc \in Early /\ w \in Class
      /\ Cleared(Facts, T.cust, w)
  BY Now DEF Fulfil, At, TurnGood, Early, Pcs, TurnState
<1>3. w.q \in Questions /\ w.q \in 1..asked
  BY <1>2, BankAssumption DEF Cleared, Prompt, Stands, About, Facts, IInv, TypeOK, Questions
<1>4. /\ changes[w.q] < MaxChanges /\ changes' = [changes EXCEPT ![w.q] = changes[w.q] + 1]
      /\ usable' = usable \ {TokenOf(w)} /\ code' = code /\ sent' = sent /\ minted' = minted
  BY <1>1 DEF CarryOut
<1>5. BankTypeOK'
  <2>1. changes \in [Questions -> 0..MaxChanges] /\ MaxChanges \in Nat
    BY BankAssumption DEF IInv, TypeOK, BankTypeOK
  <2>2. changes' \in [Questions -> 0..MaxChanges]
    BY <1>3, <1>4, <2>1
  <2>3. QED
    BY <1>4, <2>2 DEF IInv, TypeOK, BankTypeOK
<1>6. Grows(Facts, Facts') /\ Facts' = Facts
  BY <1>1, <1>4, GrowsStill DEF IInv
<1>7. Fine(Facts', U)
  <2>1. /\ U \in TurnState /\ U.pc = "reply" /\ U.acted /\ U.outcome = T.outcome
        /\ U.audited = T.audited /\ U.results = T.results /\ U.ended = T.ended
    BY <1>2 DEF TurnState, Pcs
  <2> HIDE DEF U
  <2>2. TurnGood(Facts', U)
    BY <2>1 DEF TurnGood
  <2>3. Report(U)
    BY <1>2, <2>1 DEF Report, Early
  <2>4. QED
    BY <2>1, <2>2, <2>3 DEF Fine
<1> HIDE DEF U
<1>8. NotYet'
  <2>1. ASSUME NEW q \in Questions, q > asked' PROVE ~ask'[q].shown /\ ~ask'[q].yes /\ changes'[q] = 0
    <3>1. q > asked /\ asked \in Nat /\ asked' = asked /\ ask' = ask
      BY <1>1, <2>1 DEF IInv, TypeOK
    <3>2. q # w.q
      BY <1>3, <3>1, BankAssumption DEF Questions
    <3>3. QED
      BY <1>4, <3>1, <3>2 DEF IInv, NotYet, TypeOK, BankTypeOK
  <2>2. QED
    BY <2>1 DEF NotYet
<1>9. Consent'
  <2>1. ASSUME NEW q \in Questions, changes'[q] > 0
        PROVE  /\ Seen(Facts', q)
               /\ NeedsYes(ask'[q].service) => ask'[q].yes
               /\ NeedsCode(ask'[q].service) => minted'[q] > 0
    <3>1. CASE q # w.q
      <4>1. changes[q] > 0
        BY <2>1, <3>1, <1>4 DEF IInv, TypeOK, BankTypeOK
      <4>2. QED
        BY <4>1, <1>1, <1>4, <1>6 DEF IInv, Consent
    <3>2. CASE q = w.q
      <4>1. Seen(Facts, q) /\ ask[q].service = w.service
        BY <1>2, <3>2 DEF Cleared, Prompt, Stands, About, Facts
      <4>2. NeedsYes(w.service) => ask[q].yes
        BY <1>2, <3>2 DEF Cleared, Prompt, Stands, MayText, Facts, Class
      <4>3. NeedsCode(w.service) => minted[q] > 0
        <5>1. minted[q] \in Nat
          BY <3>2, <1>3, BankAssumption DEF IInv, TypeOK, BankTypeOK
        <5>2. w.token \in Nat
          BY <1>2, BankAssumption DEF Class
        <5>3. NeedsCode(w.service) => w.type = "OTP_REQUIRED"
          BY <1>2 DEF Cleared, Class
        <5>4. w.type = "OTP_REQUIRED" => w.token # 0 /\ w.token <= minted[q]
          BY <1>2, <3>2 DEF Cleared, Prompt, Stands, Facts
        <5>5. QED
          BY <5>1, <5>2, <5>3, <5>4
      <4>4. QED
        BY <4>1, <4>2, <4>3, <1>1, <1>4, <1>6
    <3>3. QED
      BY <3>1, <3>2
  <2>2. QED
    BY <2>1 DEF Consent
<1>10. /\ SessionGood(Facts', open') /\ open' \in [Customers -> Class]
       /\ asked' \in 0..MaxQuestions /\ ask' \in [Questions -> Question]
  BY <1>1, <1>6 DEF IInv, TypeOK
<1>11. QED
  BY <1>1, <1>5, <1>6, <1>7, <1>8, <1>9, <1>10, OneMoves

\* What happened at the bank is told, or the telling is lost.
LEMMA RepliedKeeps ==
    ASSUME IInv, NEW t \in Turns, Replied(t)
    PROVE  IInv'
<1> DEFINE T == turn[t]
<1>1. T \in TurnState /\ Report(T) /\ T.pc = "reply" /\ T.work \in Class
  BY Now DEF Replied, At, TurnState
<1>2. AuditOf(T.work) \in {"first", "after"} /\ Closed \in Class
  BY Constants DEF AuditOf
<1>3. PICK o \in {Tell(Closed, "yes", AuditOf(T.work), "after"), Unavailable(T.work)} :
          turn' = [turn EXCEPT ![t] = Say(T, o)]
  BY DEF Replied, Becomes
<1>4. o \in Outcome /\ o.class = Closed /\ o.executed \in {"yes", "unsaid"} /\ o.audit = AuditOf(T.work)
  BY <1>2, <1>3, OutcomesAreOutcomes DEF Unavailable
<1> DEFINE U == Say(T, o)
<1>5. Told(T, U, o)
  BY <1>1, <1>4, SayTells
<1> HIDE DEF U
<1>6. /\ U \in TurnState /\ U.pc = "compose" /\ U.outcome = o /\ U.cust = T.cust
      /\ U.acted /\ U.audited = 0 /\ U.results = 0 /\ U.ended # "done"
  BY <1>1, <1>5 DEF Told, Kept, Report
<1>7. TurnGood(Facts, U)
  <2>1. Stands(Facts, U.cust, U.outcome.class)
    BY <1>4, <1>6, ClosedIsPrompt DEF Prompt
  <2>2. QED
    BY <1>6, <2>1 DEF TurnGood
<1>8. Report(U)
  BY <1>2, <1>4, <1>6 DEF Report, Early
<1>9. QED
  BY <1>3, <1>6, <1>7, <1>8, Local DEF Fine, Replied, U

\* What the bank did not do is told as it is, or asked about again.
LEMMA RefusedKeeps ==
    ASSUME IInv, NEW t \in Turns, Refused(t)
    PROVE  IInv'
<1> DEFINE T == turn[t]
           w == T.work
<1>1. /\ T \in TurnState /\ Report(T) /\ T.pc \in Early /\ w \in Class
      /\ Cleared(Facts, T.cust, w)
  BY Now DEF Refused, At, TurnGood, Early, Pcs, TurnState
<1>2. AuditOf(w) \in {"first", "after"}
  BY DEF AuditOf
<1>3. \E U : turn' = [turn EXCEPT ![t] = U] /\ Fine(Facts, U)
  <2>1. CASE Becomes(t, Say(T, Unavailable(w))) \/ Becomes(t, Say(T, NotDone("first")))
    <3>1. Unavailable(w) \in Plain /\ NotDone("first") \in Plain
      BY <1>2, PlainOutcomes DEF Unavailable
    <3>2. Fine(Facts, Say(T, Unavailable(w))) /\ Fine(Facts, Say(T, NotDone("first")))
      BY <1>1, <3>1, SayIsSaid, SaidFine
    <3>3. QED
      BY <2>1, <3>2 DEF Becomes
  <2>2. CASE GateOf[w.service] = "freeze" /\ Becomes(t, [T EXCEPT !.pc = "sendOtp"])
    <3>1. GoesTo(T, [T EXCEPT !.pc = "sendOtp"], "sendOtp", w) /\ "sendOtp" \in Early
      BY <1>1, Going DEF Early, Pcs
    <3>2. NeedsCode(w.service)
      BY <1>1, <2>2 DEF Cleared, Prompt, Stands, About, NeedsCode
    <3>3. MayText(Facts, T.cust, w)
      BY <1>1, <3>2 DEF Cleared, Prompt, Stands, Class
    <3>4. Fine(Facts, [T EXCEPT !.pc = "sendOtp"])
      BY <1>1, <3>1, <3>3, GoesFine
    <3>5. QED
      BY <2>2, <3>4 DEF Becomes
  <2>3. CASE Becomes(t, Say(T, Ask(w, "first")))
    <3>1. /\ Ask(w, "first") \in Outcome /\ Ask(w, "first").class = w
          /\ Ask(w, "first").executed = "unsaid"
      BY <1>1, AskAsks
    <3>2. Told(T, Say(T, Ask(w, "first")), Ask(w, "first")) /\ Stands(Facts, T.cust, w)
      BY <1>1, <3>1, SayTells DEF Cleared, Prompt
    <3>3. Fine(Facts, Say(T, Ask(w, "first")))
      BY <1>1, <3>1, <3>2, TellsFine
    <3>4. QED
      BY <2>3, <3>3 DEF Becomes
  <2>4. QED
    BY <2>1, <2>2, <2>3 DEF Refused
<1>4. QED
  BY <1>3, Local DEF Refused

-----------------------------------------------------------------------------
(* How a reply is streamed and the turn recorded.                            *)

\* The words are out: what was asked is seen.
LEMMA ComposeKeeps ==
    ASSUME IInv, NEW t \in Turns, Compose(t)
    PROVE  IInv'
<1> DEFINE T == turn[t]
           k == T.outcome.class
           q == T.outcome.class.q
           U == [T EXCEPT !.pc = "result", !.audited = Audited(T, "first")]
<1>1. PICK worded \in IF "model" \in Faults THEN BOOLEAN ELSE {TRUE} :
         /\ turn' = [turn EXCEPT ![t] = U]
         /\ ask' = [p \in Questions |->
                      IF p = q THEN [ask[p] EXCEPT !.shown = @ \/ worded] ELSE ask[p]]
  BY DEF Compose, Becomes
<1>2. /\ T \in TurnState /\ Report(T) /\ T.pc = "compose" /\ T.outcome \in Outcome
      /\ k \in Class /\ Stands(Facts, T.cust, k)
  BY Now DEF Compose, At, TurnGood, TurnState, Outcome
<1>3. UNCHANGED <<open, asked, bankVars>>
  BY DEF Compose
<1>4. q \in 1..asked \/ q = 0
  BY <1>2 DEF Stands, About, Facts, Closed
<1>5. /\ Grows(Facts, Facts') /\ ask' \in [Questions -> Question]
      /\ \A p \in Questions : p > asked => /\ ask'[p].shown = ask[p].shown
                                           /\ ask'[p].yes = ask[p].yes
      /\ q # 0 => Seen(Facts', q)
  <2>1. CASE q = 0
    <3>1. 0 \notin Questions
      BY DEF Questions
    <3>2. ask' = [p \in Questions |-> ask[p]]
      BY <1>1, <2>1, <3>1
    <3>3. ask' = ask
      BY <3>2 DEF IInv, TypeOK
    <3>4. sent' = sent /\ minted' = minted /\ asked' = asked
      BY <1>3 DEF bankVars
    <3>5. QED
      BY <2>1, <3>3, <3>4, GrowsStill DEF IInv, TypeOK
  <2>2. CASE q \in 1..asked
    <3> DEFINE r == [ask[q] EXCEPT !.shown = @ \/ worded]
    <3>1. q \in Questions /\ ask[q] \in Question /\ ask \in [Questions -> Question]
      BY <2>2, BankAssumption DEF IInv, TypeOK, BankTypeOK, Questions
    <3>2. /\ r \in Question /\ r.cust = ask[q].cust /\ r.service = ask[q].service
          /\ r.value = ask[q].value
          /\ ask[q].shown => r.shown
      BY <3>1 DEF Question
    <3>3. ask[q].yes => r.yes
      BY <3>1 DEF Question
    <3>4. worded => r.shown
      BY <3>1 DEF Question
    <3>5. ask' = [ask EXCEPT ![q] = r]
      BY <1>1, <3>1
    <3> HIDE DEF r
    <3>6. /\ Grows(Facts, Facts') /\ ask' \in [Questions -> Question]
          /\ \A p \in Questions : p > asked => /\ ask'[p].shown = ask[p].shown
                                               /\ ask'[p].yes = ask[p].yes
      BY <2>2, <3>2, <3>3, <3>5, <1>3, GrowsNoted DEF IInv
    <3>7. Seen(Facts', q)
      <4>1. ask'[q] = r
        BY <3>1, <3>5
      <4>2. QED
        BY <1>1, <3>4, <4>1 DEF Seen, Facts
    <3>8. QED
      BY <3>6, <3>7
  <2>3. QED
    BY <1>4, <2>1, <2>2
<1>6. Prompt(Facts', T.cust, k)
  <2>1. Stands(Facts', T.cust, k)
    BY <1>2, <1>5, StandsLasts
  <2>2. k.type # "CLOSED" => q # 0
    BY <1>2 DEF Stands, About
  <2>3. QED
    BY <1>5, <2>1, <2>2 DEF Prompt
<1>7. /\ Audited(T, "first") = IF T.outcome.audit = "first" THEN 1 ELSE 0
  BY <1>2 DEF Audited, Report
<1>8. /\ U \in TurnState /\ U.pc = "result" /\ U.cust = T.cust /\ U.outcome = T.outcome
      /\ U.acted = T.acted /\ U.results = T.results /\ U.ended = T.ended
      /\ U.audited = IF T.outcome.audit = "first" THEN 1 ELSE 0
  <2>1. Audited(T, "first") \in 0..2
    BY <1>7
  <2> HIDE DEF Audited
  <2>2. QED
    BY <1>2, <1>7, <2>1 DEF TurnState, Pcs
<1> HIDE DEF U
<1>9. TurnGood(Facts', U)
  BY <1>6, <1>8 DEF TurnGood
<1>10. Report(U)
  BY <1>2, <1>8 DEF Report, Early
<1>11. QED
  BY <1>1, <1>3, <1>5, <1>8, <1>9, <1>10, Noted DEF Fine

\* One turn moves and what it leaves behind is what its customer was shown.
LEMMA Recording ==
    ASSUME IInv, NEW t \in Turns, NEW U, turn' = [turn EXCEPT ![t] = U], Fine(Facts, U),
           Prompt(Facts, turn[t].cust, turn[t].outcome.class),
           Recorded(turn[t]) \/ UNCHANGED open,
           UNCHANGED <<asked, ask, bankVars>>
    PROVE  IInv'
<1> DEFINE T == turn[t]
           k == turn[t].outcome.class
<1>1. T.cust \in Customers /\ k \in Class
  BY Now DEF TurnState, Outcome
<1>2. open' = open \/ open' = [open EXCEPT ![T.cust] = k]
  BY DEF Recorded, Store!Record
<1>3. /\ asked' = asked /\ ask' = ask
      /\ code' = code /\ sent' = sent /\ minted' = minted /\ usable' = usable
      /\ changes' = changes
  BY DEF bankVars
<1>4. Grows(Facts, Facts') /\ Facts' = Facts
  BY <1>3, GrowsStill DEF IInv
<1>5. open' \in [Customers -> Class]
  BY <1>1, <1>2 DEF IInv, TypeOK
<1>6. SessionGood(Facts', open')
  <2>1. ASSUME NEW c \in Customers PROVE Prompt(Facts, c, open'[c])
    BY <1>1, <1>2 DEF IInv, TypeOK, SessionGood
  <2>2. QED
    BY <2>1, <1>4 DEF SessionGood
<1>7. /\ asked' \in 0..MaxQuestions
      /\ ask' \in [Questions -> Question] /\ BankTypeOK'
  BY <1>3 DEF IInv, TypeOK, BankTypeOK
<1>8. NotYet' /\ Consent'
  BY <1>3, <1>4 DEF IInv, NotYet, Consent
<1>9. QED
  BY <1>4, <1>5, <1>6, <1>7, <1>8, OneMoves

LEMMA KbFailsKeeps ==
    ASSUME IInv, NEW t \in Turns, KbFails(t)
    PROVE  IInv'
<1> DEFINE T == turn[t]
<1>1. T \in TurnState /\ Report(T) /\ T.pc = "compose" /\ T.outcome = KbAnswer
  BY Now DEF KbFails, At
<1>2. KbAnswer.audit = "never" /\ KbAnswer.class = Closed
  BY DEF KbAnswer, Tell
<1>3. ~T.acted
  BY <1>1, <1>2 DEF Report
<1>4. Fine(Facts, End(T, "error"))
  BY <1>1, <1>3, EndFine
<1>5. Prompt(Facts, T.cust, T.outcome.class)
  BY <1>1, <1>2, ClosedIsPrompt
<1>6. QED
  BY <1>4, <1>5, Recording DEF KbFails, Becomes

LEMMA ResultKeeps ==
    ASSUME IInv, NEW t \in Turns, Result(t)
    PROVE  IInv'
<1> DEFINE T == turn[t]
           a == Audited(T, "after")
           n == T.results + 1
           U == [T EXCEPT !.pc = "done", !.results = n, !.audited = a]
<1>1. /\ T \in TurnState /\ Report(T) /\ T.pc = "result"
      /\ Prompt(Facts, T.cust, T.outcome.class)
  BY Now DEF Result, At, TurnGood
<1>2. T.results = 0 /\ T.audited \in {0, 1} /\ T.ended # "done"
  BY <1>1 DEF Report, TurnState
<1>3. /\ n = 1 /\ a \in {0, 1}
      /\ T.acted => a = 1
  BY <1>1, <1>2 DEF Audited, Report, TurnState, Outcome
<1>4. turn' = [turn EXCEPT ![t] = U]
  BY DEF Result, Becomes
<1> HIDE DEF a, n
<1>5. /\ U \in TurnState /\ U.pc = "done" /\ U.cust = T.cust /\ U.outcome = T.outcome
      /\ U.acted = T.acted /\ U.results = 1 /\ U.ended = T.ended
      /\ U.audited = a
  <2>1. n \in 0..2 /\ a \in 0..2
    BY <1>3
  <2>2. U \in TurnState
    BY <1>1, <2>1 DEF TurnState, Pcs
  <2>3. QED
    BY <1>1, <1>3, <2>2 DEF TurnState
<1> HIDE DEF U
<1>6. TurnGood(Facts, U)
  BY <1>1, <1>5 DEF TurnGood
<1>7. Report(U)
  BY <1>1, <1>2, <1>3, <1>5 DEF Report, Early
<1>8. QED
  BY <1>1, <1>4, <1>5, <1>6, <1>7, Recording DEF Fine, Result

LEMMA DoneKeeps ==
    ASSUME IInv, NEW t \in Turns, Done(t)
    PROVE  IInv'
<1> DEFINE T == turn[t]
           U == [T EXCEPT !.pc = "record", !.ended = "done"]
<1>1. /\ T \in TurnState /\ Report(T) /\ T.pc = "done"
      /\ Prompt(Facts, T.cust, T.outcome.class)
  BY Now DEF Done, At, TurnGood
<1>2. CASE turn' = [turn EXCEPT ![t] = U]
  <2>1. /\ U \in TurnState /\ U.pc = "record" /\ U.cust = T.cust /\ U.outcome = T.outcome
        /\ U.acted = T.acted /\ U.results = T.results /\ U.audited = T.audited
        /\ U.ended = "done"
    BY <1>1 DEF TurnState, Pcs
  <2> HIDE DEF U
  <2>2. TurnGood(Facts, U)
    BY <1>1, <2>1 DEF TurnGood
  <2>3. Report(U)
    BY <1>1, <2>1 DEF Report, Early
  <2>4. QED
    BY <1>2, <2>1, <2>2, <2>3, Local DEF Fine, Done
<1>3. CASE turn' = [turn EXCEPT ![t] = End(T, "done")]
  <2>1. Fine(Facts, End(T, "done"))
    BY <1>1, EndFine
  <2>2. QED
    BY <1>3, <2>1, Local DEF Done
<1>4. QED
  BY <1>2, <1>3 DEF Done, Becomes

LEMMA RecordKeeps ==
    ASSUME IInv, NEW t \in Turns, Record(t)
    PROVE  IInv'
<1>1. /\ turn[t] \in TurnState /\ Report(turn[t]) /\ turn[t].pc = "record"
      /\ Prompt(Facts, turn[t].cust, turn[t].outcome.class)
  BY Now DEF Record, At, TurnGood
<1>2. Fine(Facts, End(turn[t], "done"))
  BY <1>1, EndFine
<1>3. QED
  BY <1>1, <1>2, Recording DEF Record, Becomes

-----------------------------------------------------------------------------
(* What the world does to it.                                                *)

LEMMA CutOffFine ==
    ASSUME NEW h, NEW T \in TurnState, TurnGood(h, T), Report(T), ~Connected
    PROVE  Fine(h, CutOff(T))
<1>1. CASE T.pc = "idle"
  BY <1>1 DEF CutOff, Fine
<1>2. CASE T.pc # "idle"
  BY <1>2, EndFine DEF CutOff
<1>3. QED
  BY <1>1, <1>2

LEMMA DisconnectKeeps ==
    ASSUME IInv, NEW t \in Turns, Disconnect(t)
    PROVE  IInv'
<1>1. Fine(Facts, CutOff(turn[t]))
  BY Now, CutOffFine DEF Disconnect, Connected
<1>2. QED
  BY <1>1, Local DEF Disconnect, Becomes

\* Conversations lapse, to nothing pending.
LEMMA LapsesKeep ==
    ASSUME IInv, NEW C, Store!Lapse(C), UNCHANGED <<asked, ask, bankVars>>,
           turn' \in [Turns -> TurnState],
           \A t \in Turns : Fine(Facts, turn'[t])
    PROVE  IInv'
<1>1. /\ asked' = asked /\ ask' = ask
      /\ code' = code /\ sent' = sent /\ minted' = minted /\ usable' = usable
      /\ changes' = changes
  BY DEF bankVars
<1>2. Facts' = Facts
  BY <1>1, GrowsStill DEF IInv
<1>3. open' = [c \in Customers |-> IF c \in C THEN Closed ELSE open[c]]
  BY DEF Store!Lapse
<1>4. open' \in [Customers -> Class]
  BY <1>3, Constants DEF IInv, TypeOK
<1>5. SessionGood(Facts', open')
  <2>1. ASSUME NEW c \in Customers PROVE Prompt(Facts, c, open'[c])
    BY <1>3, ClosedIsPrompt DEF IInv, SessionGood
  <2>2. QED
    BY <2>1, <1>2 DEF SessionGood
<1>6. TypeOK'
  BY <1>1, <1>4 DEF IInv, TypeOK, BankTypeOK
<1>7. NotYet' /\ Consent'
  BY <1>1, <1>2 DEF IInv, NotYet, Consent
<1>8. TurnsGood'
  BY <1>2 DEF TurnsGood, Fine
<1>9. SessionGood(Facts, open)'
  BY <1>5
<1>10. QED
  BY <1>6, <1>7, <1>8, <1>9 DEF IInv

LEMMA RestartKeeps ==
    ASSUME IInv, Restart
    PROVE  IInv'
<1>1. turn' = [t \in Turns |-> CutOff(turn[t])] /\ ~Connected
  BY DEF Restart, Connected
<1>2. \A t \in Turns : Fine(Facts, CutOff(turn[t]))
  BY <1>1, Now, CutOffFine
<1>3. turn' \in [Turns -> TurnState] /\ \A t \in Turns : Fine(Facts, turn'[t])
  BY <1>1, <1>2 DEF Fine
<1>4. QED
  BY <1>3, LapsesKeep DEF Restart

LEMMA SessionLapsesKeeps ==
    ASSUME IInv, NEW c \in Customers, SessionLapses(c)
    PROVE  IInv'
<1>1. turn' = turn
  BY DEF SessionLapses
<1>2. turn' \in [Turns -> TurnState] /\ \A t \in Turns : Fine(Facts, turn'[t])
  BY <1>1, Now DEF IInv, TypeOK, Fine
<1>3. QED
  BY <1>2, LapsesKeep DEF SessionLapses

\* Nothing the invariant relates moves when a code or a token expires.
LEMMA ExpiryKeeps ==
    ASSUME IInv, Expiry
    PROVE  IInv'
<1>1. /\ turn' = turn /\ open' = open /\ asked' = asked /\ ask' = ask
      /\ sent' = sent /\ minted' = minted /\ changes' = changes
  BY DEF Expiry, chatVars, CodeExpires, TokenExpires
<1>2. BankTypeOK'
  <2>1. 0 \in 0..MaxQuestions
    BY BankAssumption
  <2>2. code' \in [Customers -> 0..MaxQuestions] /\ usable' \subseteq Token
    BY <2>1 DEF Expiry, CodeExpires, TokenExpires, IInv, TypeOK, BankTypeOK
  <2>3. QED
    BY <1>1, <2>2 DEF IInv, TypeOK, BankTypeOK
<1>3. Facts' = Facts
  BY <1>1, GrowsStill DEF IInv
<1>4. TypeOK'
  BY <1>1, <1>2 DEF IInv, TypeOK
<1>5. TurnsGood' /\ NotYet' /\ Consent'
  BY <1>1, <1>3 DEF IInv, TurnsGood, NotYet, Consent
<1>6. SessionGood(Facts, open)'
  BY <1>1, <1>3 DEF IInv
<1>7. QED
  BY <1>4, <1>5, <1>6 DEF IInv

LEMMA StutterKeeps ==
    ASSUME IInv, UNCHANGED vars
    PROVE  IInv'
<1>1. /\ turn' = turn /\ open' = open /\ asked' = asked /\ ask' = ask
      /\ code' = code /\ sent' = sent /\ minted' = minted /\ usable' = usable
      /\ changes' = changes
  BY DEF vars, bankVars
<1>2. Facts' = Facts
  BY <1>1, GrowsStill DEF IInv
<1>3. TypeOK'
  BY <1>1 DEF IInv, TypeOK, BankTypeOK
<1>4. TurnsGood' /\ NotYet' /\ Consent'
  BY <1>1, <1>2 DEF IInv, TurnsGood, NotYet, Consent
<1>5. SessionGood(Facts, open)'
  BY <1>1, <1>2 DEF IInv
<1>6. QED
  BY <1>3, <1>4, <1>5 DEF IInv

-----------------------------------------------------------------------------
(* The invariant is inductive.                                               *)

LEMMA InitIInv == Init => IInv
<1> SUFFICES ASSUME Init PROVE IInv
  OBVIOUS
<1>1. /\ turn = [t \in Turns |-> Fresh(Anyone)] /\ asked = 0
      /\ ask = [q \in Questions |-> Unasked] /\ open = [c \in Customers |-> Closed]
  BY DEF Init, Store!Init
<1>2. BankTypeOK /\ changes = [q \in Questions |-> 0]
  BY BankAssumption DEF Init, BankInit, BankTypeOK
<1>3. Unasked \in Question /\ ~Unasked.shown /\ ~Unasked.yes
  BY Constants DEF Unasked, Question
<1>4. Answered \in Outcome /\ Answered.executed = "unsaid"
  <2>1. Closed \in Class
    BY Constants
  <2>2. QED
    BY <2>1 DEF Answered, Tell, Outcome
<1>5. Fine(Facts, Fresh(Anyone))
  <2> DEFINE U == Fresh(Anyone)
  <2>1. /\ U \in TurnState /\ U.pc = "idle" /\ U.outcome = Answered
        /\ ~U.acted /\ U.audited = 0 /\ U.results = 0 /\ U.ended = "not"
    BY <1>4, Constants, FreshIsFresh
  <2> HIDE DEF U
  <2>2. TurnGood(Facts, U)
    BY <2>1 DEF TurnGood
  <2>3. U.outcome.executed = "unsaid"
    BY <1>4, <2>1
  <2>4. U.pc = "idle" /\ ~U.acted /\ U.audited = 0 /\ U.results = 0 /\ U.ended # "done"
    BY <2>1
  <2>5. Report(U)
    BY <2>3, <2>4 DEF Report, Early
  <2>6. QED
    BY <2>1, <2>2, <2>5 DEF Fine, U
<1>6. TypeOK
  BY <1>1, <1>2, <1>3, <1>5, Constants DEF TypeOK, Fine
<1>7. TurnsGood
  BY <1>1, <1>5 DEF TurnsGood, Fine
<1>8. SessionGood(Facts, open)
  BY <1>1, ClosedIsPrompt DEF SessionGood
<1>9. NotYet /\ Consent
  BY <1>1, <1>2, <1>3 DEF NotYet, Consent
<1>10. QED
  BY <1>6, <1>7, <1>8, <1>9 DEF IInv

LEMMA StepKeeps ==
    ASSUME IInv, NEW t \in Turns, Step(t)
    PROVE  IInv'
BY EnterKeeps, ReadCodeKeeps, ReadYesKeeps, GatheringKeeps, PutQuestionKeeps, SendOtpKeeps,
   VerifyOtpKeeps, FulfilKeeps, RepliedKeeps, RefusedKeeps, ComposeKeeps, KbFailsKeeps,
   ResultKeeps, DoneKeeps, RecordKeeps DEF Step

LEMMA NextKeeps == IInv /\ [Next]_vars => IInv'
BY SendKeeps, StepKeeps, DisconnectKeeps, RestartKeeps, SessionLapsesKeeps, ExpiryKeeps,
   StutterKeeps DEF Next

LEMMA SpecIInv == Spec => []IInv
<1> QED BY InitIInv, NextKeeps, PTL DEF Spec

-----------------------------------------------------------------------------
(* What follows from it, whatever the faults.                                *)

\* Type correctness of the chat handler and the bank.
THEOREM ChatTurnTypeOK == Spec => []TypeOK
<1>1. IInv => TypeOK
  BY DEF IInv
<1> QED BY <1>1, SpecIInv, PTL

\* A result event says "executed": true only of a change this turn carried out, and
\* false only where it carried out none, whatever becomes of the bank's answer.
THEOREM ChatTurnTruthfulResult == Spec => []TruthfulResult
<1>1. IInv => TruthfulResult
  BY DEF IInv, TurnsGood, Report, TruthfulResult
<1> QED BY <1>1, SpecIInv, PTL

\* A stream that ended with "done" carried one result event, and no turn is audited
\* twice, wherever the stream was cut.
THEOREM ChatTurnStreamShape == Spec => []StreamShape
<1>1. IInv => StreamShape
  BY DEF IInv, TurnsGood, Report, StreamShape
<1> QED BY <1>1, SpecIInv, PTL

\* Where neither a disconnect nor a restart cuts a stream, a turn that changed
\* something at the bank is over only with its audit line written.
THEOREM ChatTurnChangesAreAudited ==
    ASSUME "disconnect" \notin Faults, "restart" \notin Faults
    PROVE  Spec => []ChangesAreAudited
<1>1. IInv => ChangesAreAudited
  BY DEF IInv, TurnsGood, Report, Connected, ChangesAreAudited, At
<1> QED BY <1>1, SpecIInv, PTL

-----------------------------------------------------------------------------
(* What follows where a model writes the questions.                          *)

\* Nothing is carried out at the bank that its customer did not see, agree to where
\* a yes is due, and verify with a code where a code is.
THEOREM ChatTurnConsentBeforeChange ==
    ASSUME "model" \notin Faults PROVE Spec => []ConsentBeforeChange
<1>1. IInv => ConsentBeforeChange
  BY DEF IInv, Consent, Seen, Facts, ConsentBeforeChange
<1> QED BY <1>1, SpecIInv, PTL

\* What the session says is pending was put to that customer, in words, and a code
\* step was reached by the code (and, for a freeze, the yes) it stands for.
THEOREM ChatTurnPendingIsBacked ==
    ASSUME "model" \notin Faults PROVE Spec => []PendingIsBacked
<1>1. ASSUME IInv, NEW c \in Customers, open[c].type # "CLOSED"
      PROVE  LET w == open[c]
             IN  /\ w.q \in 1..asked
                 /\ ask[w.q].shown /\ ask[w.q].cust = c
                 /\ ask[w.q].service = w.service /\ ask[w.q].value = w.value
                 /\ w.type = "OTP_REQUIRED" =>
                       /\ NeedsCode(w.service) /\ sent[w.q] > 0
                       /\ NeedsYes(w.service) => ask[w.q].yes
                       /\ w.token <= minted[w.q]
  <2>1. Prompt(Facts, c, open[c])
    BY <1>1 DEF IInv, SessionGood
  <2>2. QED
    BY <1>1, <2>1 DEF Prompt, Stands, MayText, About, Seen, Facts
<1>2. IInv => PendingIsBacked
  BY <1>1 DEF PendingIsBacked
<1> QED BY <1>2, SpecIInv, PTL

\* Which turn a change comes from.
LEMMA ChangesAreFulfilled ==
    ASSUME TypeOK, [Next]_vars, NEW q \in Questions, changes'[q] # changes[q]
    PROVE  \E t \in Turns : Fulfil(t) /\ turn[t].work.q = q
<1>1. changes' # changes
  OBVIOUS
<1>2. ASSUME UNCHANGED bankVars PROVE FALSE
  BY <1>1, <1>2 DEF bankVars
<1>3. ASSUME NEW t \in Turns, SendOtp(t) \/ VerifyOtp(t) PROVE FALSE
  BY <1>1, <1>3 DEF SendOtp, VerifyOtp, SendOtpCall, VerifyOtpCall, Texted, bankVars
<1>4. ~Expiry
  BY <1>1 DEF Expiry, CodeExpires, TokenExpires
<1>5. PICK t \in Turns : Step(t)
  BY <1>2, <1>4 DEF Next, vars, Send, Disconnect, Restart, SessionLapses
<1>6. Fulfil(t)
  BY <1>2, <1>3, <1>5
     DEF Step, Enter, ReadCode, ReadYes, Classify, Cards, Lookup, AskForMore, Answer,
         PutQuestion, ReadBank, Replied, Refused, Compose, KbFails, Result, Done, Record
<1>7. turn[t].work.q = q
  BY <1>6 DEF Fulfil, CarryOut, TypeOK, BankTypeOK
<1>8. QED
  BY <1>6, <1>7

\* What the bank carries out is the customer, service and value the question put.
THEOREM ChatTurnChangedAsShown ==
    ASSUME "model" \notin Faults PROVE Spec => ChangedAsShown
<1>1. ASSUME IInv, [Next]_vars, NEW q \in Questions, changes'[q] # changes[q]
      PROVE  \E t \in Turns : /\ At(t, "fulfil") /\ turn[t].work.q = q
                              /\ ask[q].shown
                              /\ turn[t].cust = ask[q].cust
                              /\ turn[t].work.service = ask[q].service
                              /\ turn[t].work.value = ask[q].value
  <2>1. PICK t \in Turns : Fulfil(t) /\ turn[t].work.q = q
    BY <1>1, ChangesAreFulfilled DEF IInv
  <2>2. At(t, "fulfil") /\ Cleared(Facts, turn[t].cust, turn[t].work)
    BY <1>1, <2>1, Now DEF Fulfil, At, TurnGood
  <2>3. QED
    BY <2>1, <2>2 DEF Cleared, Prompt, Stands, About, Seen, Facts
<1>2. IInv /\ [Next]_vars =>
        [\A q \in Questions : changes'[q] # changes[q] =>
           \E t \in Turns : /\ At(t, "fulfil") /\ turn[t].work.q = q
                            /\ ask[q].shown
                            /\ turn[t].cust = ask[q].cust
                            /\ turn[t].work.service = ask[q].service
                            /\ turn[t].work.value = ask[q].value]_vars
  BY <1>1
<1> QED BY <1>2, SpecIInv, PTL DEF Spec, ChangedAsShown

-----------------------------------------------------------------------------
(* The handler implements the authorisation the bank may rely on.            *)

Kind == [q \in Questions |-> KindOf(q)]
Shown == {q \in Questions : ask[q].shown}
Agreed == {q \in Questions : ask[q].yes}

\* What a question put needs.
LEMMA KindsAre ==
    ASSUME NEW q \in Questions, asked \in Nat, q <= asked,
           NeedsYes(ask[q].service) \/ NeedsCode(ask[q].service)
    PROVE  /\ Kind[q] \in {"yes", "code", "both"}
           /\ Kind[q] \in {"yes", "both"} <=> NeedsYes(ask[q].service)
           /\ Kind[q] \in {"code", "both"} <=> NeedsCode(ask[q].service)
<1>1. ~(q > asked)
  BY DEF Questions
<1>2. Kind[q] = IF NeedsYes(ask[q].service)
                THEN IF NeedsCode(ask[q].service) THEN "both" ELSE "yes"
                ELSE "code"
  BY <1>1 DEF Kind, KindOf
<1>3. QED
  BY <1>2

\* A step that leaves the questions and the bank's permits as they are.
LEMMA AuthStutters ==
    ASSUME asked' = asked, minted' = minted, usable' = usable, changes' = changes,
           \A q \in Questions : /\ ask'[q].service = ask[q].service
                                /\ ask'[q].shown = ask[q].shown
                                /\ ask'[q].yes = ask[q].yes
    PROVE  UNCHANGED Auth!avars
<1>1. Kind' = Kind
  BY DEF Kind, KindOf
<1>2. Shown' = Shown /\ Agreed' = Agreed
  BY DEF Shown, Agreed
<1>3. QED
  BY <1>1, <1>2 DEF Auth!avars, Kind, Shown, Agreed

\* Nothing but the turn, the session or a code on record moves.
LEMMA AuthLeftAlone ==
    ASSUME UNCHANGED <<asked, ask, minted, usable, changes>>
    PROVE  UNCHANGED Auth!avars
BY AuthStutters

\* A question that is shown, agreed to, or given a permit.
LEMMA ShownIsShow ==
    ASSUME TypeOK, NEW q \in Questions, Kind[q] # "none", NEW r \in Question,
           r.service = ask[q].service, r.yes = ask[q].yes, r.shown,
           ask' = [ask EXCEPT ![q] = r], UNCHANGED <<asked, bankVars>>
    PROVE  Auth!Show(q)
<1>1. ask \in [Questions -> Question]
  BY DEF TypeOK
<1>2. Kind' = Kind
  BY <1>1 DEF Kind, KindOf
<1>3. Agreed' = Agreed
  BY <1>1 DEF Agreed
<1>4. Shown' = Shown \cup {q}
  BY <1>1 DEF Shown
<1>5. QED
  BY <1>2, <1>3, <1>4 DEF Auth!Show, Kind, Shown, Agreed, bankVars

LEMMA ConfirmedIsAgree ==
    ASSUME TypeOK, NEW q \in Questions, Kind[q] \in {"yes", "both"}, q \in Shown,
           NEW r \in Question,
           r.service = ask[q].service, r.shown = ask[q].shown, r.yes,
           ask' = [ask EXCEPT ![q] = r], UNCHANGED <<asked, bankVars>>
    PROVE  Auth!Agree(q)
<1>1. ask \in [Questions -> Question]
  BY DEF TypeOK
<1>2. Kind' = Kind
  BY <1>1 DEF Kind, KindOf
<1>3. Shown' = Shown
  BY <1>1 DEF Shown
<1>4. Agreed' = Agreed \cup {q}
  BY <1>1 DEF Agreed
<1>5. QED
  BY <1>2, <1>3, <1>4 DEF Auth!Agree, Kind, Shown, Agreed, bankVars

LEMMA ReadCodeStutters ==
    ASSUME IInv, NEW t \in Turns, ReadCode(t)
    PROVE  UNCHANGED Auth!avars
<1>1. PICK d, n \in BOOLEAN :
          ask' = [ask EXCEPT ![turn[t].work.q].dropped = d, ![turn[t].work.q].no = n]
  <2>1. PICK reading \in Readings(turn[t].msg) :
            ask' = [ask EXCEPT ![turn[t].work.q].dropped = @ \/ (reading = "other"
                                                                 /\ ~turn[t].msg.heard),
                               ![turn[t].work.q].no = @ \/ (reading = "decline"
                                                 /\ ~Submitted(turn[t].work, turn[t].msg))]
    BY DEF ReadCode
  <2>2. QED
    BY <2>1
<1>2. ask \in [Questions -> Question] /\ UNCHANGED <<asked, minted, usable, changes>>
  BY DEF IInv, TypeOK, ReadCode, bankVars
<1>3. QED
  BY <1>1, <1>2, AuthStutters DEF Question

LEMMA ReadYesMaps ==
    ASSUME "model" \notin Faults, IInv, NEW t \in Turns, ReadYes(t)
    PROVE  UNCHANGED Auth!avars \/ \E q \in Questions : Auth!Agree(q)
<1> DEFINE w == turn[t].work
           q == turn[t].work.q
<1>1. PICK reading \in Readings(turn[t].msg) :
          ask' = [ask EXCEPT ![q].dropped = @ \/ reading = "other",
                             ![q].no = @ \/ reading = "decline",
                             ![q].yes = @ \/ reading = "confirm"]
  BY DEF ReadYes
<1>2. w.type = "CONFIRMATION_REQUIRED" /\ Prompt(Facts, turn[t].cust, w)
  BY Now DEF ReadYes, At, TurnGood
<1>3. /\ q \in Questions /\ q <= asked /\ ask[q] \in Question /\ ask[q].shown
      /\ NeedsYes(ask[q].service) /\ ask \in [Questions -> Question] /\ asked \in Nat
  BY <1>2, BankAssumption
     DEF Prompt, Stands, About, Seen, Facts, IInv, TypeOK, BankTypeOK, Questions
<1> DEFINE r == [ask[q] EXCEPT !.dropped = @ \/ reading = "other",
                               !.no = @ \/ reading = "decline",
                               !.yes = @ \/ reading = "confirm"]
<1>4. /\ r \in Question /\ r.service = ask[q].service /\ r.shown = ask[q].shown
      /\ reading = "confirm" => r.yes
  BY <1>3 DEF Question
<1>5. reading # "confirm" => r.yes = ask[q].yes
  BY <1>3 DEF Question
<1>6. ask' = [ask EXCEPT ![q] = r]
  BY <1>1
<1>7. UNCHANGED <<asked, bankVars>>
  BY DEF ReadYes
<1> HIDE DEF r
<1>8. CASE reading = "confirm"
  <2>1. Kind[q] \in {"yes", "both"} /\ q \in Shown
    BY <1>3, KindsAre DEF Shown
  <2>2. PICK p \in Questions : p = q
    BY <1>3
  <2>3. /\ Kind[p] \in {"yes", "both"} /\ p \in Shown /\ r.service = ask[p].service
        /\ r.shown = ask[p].shown /\ ask' = [ask EXCEPT ![p] = r]
    BY <1>4, <1>6, <2>1, <2>2
  <2>4. Auth!Agree(p)
    BY <1>4, <1>7, <1>8, <2>3, ConfirmedIsAgree DEF IInv
  <2>5. QED
    BY <2>4
<1>9. CASE reading # "confirm"
  <2>1. \A p \in Questions : /\ ask'[p].service = ask[p].service
                             /\ ask'[p].shown = ask[p].shown
                             /\ ask'[p].yes = ask[p].yes
    BY <1>3, <1>4, <1>5, <1>6, <1>9
  <2>2. QED
    BY <1>7, <2>1, AuthStutters DEF bankVars
<1>10. QED
  BY <1>8, <1>9

LEMMA PutQuestionMaps ==
    ASSUME IInv, NEW t \in Turns, PutQuestion(t)
    PROVE  \E q \in Questions, k \in Auth!Kinds : Auth!Put(q, k)
<1> DEFINE s == turn[t].work.service
           q == asked + 1
           k == Kind'[q]
<1>1. PICK v \in Values :
         /\ NeedsYes(s) \/ GateOf[s] = "contact"
         /\ asked' = q
         /\ ask' = [ask EXCEPT ![q] = [Unasked EXCEPT !.cust = turn[t].cust,
                                         !.service = s, !.value = v]]
  BY DEF PutQuestion
<1>2. /\ s \in Services
  BY Now DEF PutQuestion, At, TurnGood
<1>3. /\ asked \in Nat /\ q \in Questions /\ ask \in [Questions -> Question]
      /\ \A p \in Questions : p \in Nat
  BY BankAssumption DEF PutQuestion, IInv, TypeOK, BankTypeOK, Questions
<1>4. ask'[q].service = s /\ ~ask'[q].shown /\ ~ask'[q].yes
  BY <1>1, <1>3 DEF Unasked
<1>5. \A p \in Questions : p # q => ask'[p] = ask[p]
  BY <1>1, <1>3
<1>6. ~ask[q].shown /\ ~ask[q].yes
  BY <1>3 DEF IInv, NotYet
<1>7. Kind[q] = "none"
  BY <1>3 DEF Kind, KindOf
<1>8. NeedsYes(s) \/ NeedsCode(s)
  BY <1>1, <1>2 DEF NeedsCode
<1>9. k \in Auth!Kinds
  BY <1>1, <1>3, <1>4, <1>8 DEF Kind, KindOf, Auth!Kinds
<1>10. Kind' = [Kind EXCEPT ![q] = k]
  <2>1. ASSUME NEW p \in Questions, p # q PROVE Kind'[p] = Kind[p]
    BY <2>1, <1>1, <1>3, <1>5 DEF Kind, KindOf
  <2>2. Kind = [p \in Questions |-> Kind[p]] /\ Kind' = [p \in Questions |-> Kind'[p]]
    BY DEF Kind
  <2> HIDE DEF k
  <2>3. k = Kind'[q]
    BY DEF k
  <2>4. QED
    BY <1>3, <2>1, <2>2, <2>3
<1>11. Shown' = Shown /\ Agreed' = Agreed
  BY <1>4, <1>5, <1>6 DEF Shown, Agreed
<1>12. minted' = minted /\ usable' = usable /\ changes' = changes
  BY DEF PutQuestion, bankVars
<1> HIDE DEF k
<1>13. Auth!Put(q, k)
  BY <1>7, <1>10, <1>11, <1>12 DEF Auth!Put, Kind, Shown, Agreed
<1>14. QED
  BY <1>3, <1>9, <1>13

LEMMA VerifyOtpMaps ==
    ASSUME "model" \notin Faults, IInv, NEW t \in Turns, VerifyOtp(t)
    PROVE  UNCHANGED Auth!avars \/ \E q \in Questions : Auth!Permit(q)
<1> DEFINE w == turn[t].work
           q == turn[t].work.q
<1>1. UNCHANGED <<asked, ask>>
  BY DEF VerifyOtp
<1>2. w.type = "OTP_REQUIRED" /\ Prompt(Facts, turn[t].cust, w)
  BY Now DEF VerifyOtp, At, TurnGood
<1>3. /\ q \in Questions /\ q <= asked /\ ask[q].shown
      /\ NeedsCode(ask[q].service) /\ asked \in Nat
      /\ NeedsYes(ask[q].service) => ask[q].yes
  BY <1>2, BankAssumption
     DEF Prompt, Stands, MayText, About, Seen, Facts, IInv, TypeOK, BankTypeOK, Questions
<1>4. CASE /\ minted[q] < MaxCodes /\ minted' = [minted EXCEPT ![q] = @ + 1]
           /\ usable' = usable \cup {<<q, minted[q] + 1>>} /\ changes' = changes
  <2>1. /\ Kind[q] \in {"code", "both"} /\ q \in Shown
        /\ Kind[q] = "both" => q \in Agreed
    BY <1>3, KindsAre DEF Shown, Agreed
  <2>2. Kind' = Kind /\ Shown' = Shown /\ Agreed' = Agreed
    BY <1>1 DEF Kind, KindOf, Shown, Agreed
  <2>3. Auth!Permit(q)
    BY <1>4, <2>1, <2>2 DEF Auth!Permit, Kind, Shown, Agreed
  <2>4. QED
    BY <1>3, <2>3
<1>5. CASE minted' = minted /\ usable' = usable /\ changes' = changes
  BY <1>1, <1>5, AuthLeftAlone
<1>6. QED
  BY <1>4, <1>5 DEF VerifyOtp, VerifyOtpCall, bankVars

LEMMA FulfilMaps ==
    ASSUME "model" \notin Faults, IInv, NEW t \in Turns, Fulfil(t)
    PROVE  \E q \in Questions : Auth!Change(q)
<1> DEFINE w == turn[t].work
           q == turn[t].work.q
<1>1. /\ NeedsCode(w.service) => TokenOf(w) \in usable
      /\ CarryOut(q, TokenOf(w)) /\ UNCHANGED <<asked, ask>>
  BY DEF Fulfil
<1>2. Cleared(Facts, turn[t].cust, w) /\ w \in Class
  BY Now DEF Fulfil, At, TurnGood, TurnState
<1>3. /\ q \in Questions /\ q <= asked /\ ask[q].shown /\ ask[q].service = w.service
      /\ minted[q] \in Nat /\ asked \in Nat
  BY <1>2, BankAssumption
     DEF Cleared, Prompt, Stands, About, Seen, Facts, IInv, TypeOK, BankTypeOK, Questions
<1>4. /\ w.type = "CONFIRMATION_REQUIRED" =>
            NeedsYes(w.service) /\ ask[q].yes /\ ~NeedsCode(w.service) /\ w.token = 0
      /\ w.type = "OTP_REQUIRED" =>
            /\ NeedsCode(w.service) /\ w.token # 0 /\ w.token <= minted[q]
            /\ NeedsYes(w.service) => ask[q].yes
      /\ w.type \in {"CONFIRMATION_REQUIRED", "OTP_REQUIRED"}
  BY <1>2 DEF Cleared, Prompt, Stands, MayText, Facts, Class
<1>5. NeedsYes(w.service) => ask[q].yes
  BY <1>4
<1>6. /\ Kind[q] \in {"yes", "code", "both"} /\ q \in Shown
      /\ Kind[q] \in {"yes", "both"} => q \in Agreed
      /\ Kind[q] \in {"code", "both"} => NeedsCode(w.service)
      /\ Kind[q] = "yes" => ~NeedsCode(w.service)
  BY <1>3, <1>4, <1>5, KindsAre DEF Shown, Agreed
<1>7. Kind' = Kind /\ Shown' = Shown /\ Agreed' = Agreed
  BY <1>1 DEF Kind, KindOf, Shown, Agreed
<1>8. /\ changes' = [changes EXCEPT ![q] = @ + 1] /\ usable' = usable \ {<<q, w.token>>}
      /\ minted' = minted
  BY <1>1 DEF CarryOut, TokenOf
<1>9. CASE Kind[q] = "yes"
  <2>1. w.token = 0
    BY <1>4, <1>6, <1>9
  <2>2. <<q, w.token>> \notin usable
    <3>1. usable \subseteq Token
      BY DEF IInv, TypeOK, BankTypeOK
    <3>2. QED
      BY <2>1, <3>1, BankAssumption DEF Token
  <2>3. usable' = usable
    BY <1>8, <2>2
  <2>4. Auth!Change(q)
    BY <1>6, <1>7, <1>8, <1>9, <2>3 DEF Auth!Change, Kind, Shown, Agreed
  <2>5. QED
    BY <1>3, <2>4
<1>10. CASE Kind[q] \in {"code", "both"}
  <2>1. <<q, w.token>> \in usable /\ w.token \in 1..minted[q]
    <3>1. w.token \in Nat
      BY <1>2, BankAssumption DEF Class
    <3>2. QED
      BY <1>1, <1>3, <1>4, <1>6, <1>10, <3>1 DEF TokenOf
  <2>2. \E n \in 1..minted[q] : <<q, n>> \in usable /\ usable' = usable \ {<<q, n>>}
    BY <1>8, <2>1
  <2>3. Auth!Change(q)
    BY <1>6, <1>7, <1>8, <1>10, <2>2 DEF Auth!Change, Kind, Shown, Agreed
  <2>4. QED
    BY <1>3, <2>3
<1>11. QED
  BY <1>6, <1>9, <1>10

LEMMA ComposeMaps ==
    ASSUME "model" \notin Faults, IInv, NEW t \in Turns, Compose(t)
    PROVE  UNCHANGED Auth!avars \/ \E q \in Questions : Auth!Show(q)
<1> DEFINE k == turn[t].outcome.class
           q == turn[t].outcome.class.q
<1>1. /\ ask' = [p \in Questions |->
                   IF p = q THEN [ask[p] EXCEPT !.shown = @ \/ TRUE] ELSE ask[p]]
      /\ UNCHANGED <<asked, bankVars>>
  BY DEF Compose
<1>2. Stands(Facts, turn[t].cust, k)
  BY Now DEF Compose, At, TurnGood
<1>3. ask \in [Questions -> Question]
  BY DEF IInv, TypeOK
<1>4. CASE k.type = "CLOSED"
  <2>1. q \notin Questions
    BY <1>2, <1>4 DEF Stands, Closed, Questions
  <2>2. ask' = ask
    BY <1>1, <1>3, <2>1
  <2>3. QED
    BY <1>1, <2>2, AuthLeftAlone DEF bankVars
<1>5. CASE k.type # "CLOSED"
  <2>1. q \in Questions /\ q <= asked
    BY <1>2, <1>5, BankAssumption
       DEF Stands, About, Facts, IInv, TypeOK, BankTypeOK, Questions
  <2>2. Kind[q] # "none"
    <3>1. asked \in Nat /\ q \in Nat
      BY <2>1, BankAssumption DEF IInv, TypeOK, Questions
    <3>2. QED
      BY <2>1, <3>1 DEF Kind, KindOf
  <2> DEFINE r == [ask[q] EXCEPT !.shown = @ \/ TRUE]
  <2>3. /\ r \in Question /\ r.service = ask[q].service /\ r.yes = ask[q].yes /\ r.shown
    BY <1>3, <2>1 DEF Question
  <2>4. ask' = [ask EXCEPT ![q] = r]
    BY <1>1, <1>3, <2>1
  <2> HIDE DEF r
  <2>5. PICK p \in Questions : p = q
    BY <2>1
  <2>6. /\ Kind[p] # "none" /\ r.service = ask[p].service /\ r.yes = ask[p].yes
        /\ ask' = [ask EXCEPT ![p] = r]
    BY <2>2, <2>3, <2>4, <2>5
  <2>7. Auth!Show(p)
    BY <1>1, <2>3, <2>6, ShownIsShow DEF IInv
  <2>8. QED
    BY <2>7
<1>6. QED
  BY <1>4, <1>5

LEMMA ExpiryMaps ==
    ASSUME Expiry
    PROVE  UNCHANGED Auth!avars \/ \E p \in usable : Auth!Lose(p)
<1>1. UNCHANGED <<asked, ask, minted, changes>>
  BY DEF Expiry, chatVars, CodeExpires, TokenExpires
<1>2. CASE usable' = usable
  BY <1>1, <1>2, AuthLeftAlone
<1>3. ASSUME NEW p \in usable, usable' = usable \ {p} PROVE Auth!Lose(p)
  BY <1>1, <1>3 DEF Auth!Lose, KindOf
<1>4. QED
  BY <1>2, <1>3 DEF Expiry, CodeExpires, TokenExpires

LEMMA NextMaps ==
    ASSUME "model" \notin Faults, IInv, [Next]_vars
    PROVE  [Auth!Next]_Auth!avars
<1> SUFFICES Auth!Next \/ UNCHANGED Auth!avars
  OBVIOUS
<1>1. ASSUME UNCHANGED <<asked, ask, bankVars>> PROVE UNCHANGED Auth!avars
  BY <1>1, AuthLeftAlone DEF bankVars
<1>2. CASE UNCHANGED vars
  BY <1>1, <1>2 DEF vars
<1>3. ASSUME NEW t \in Turns, Step(t) PROVE Auth!Next \/ UNCHANGED Auth!avars
  <2>1. CASE ReadCode(t) \/ ReadYes(t)
    BY <2>1, ReadCodeStutters, ReadYesMaps DEF Auth!Next
  <2>2. CASE PutQuestion(t)
    BY <2>2, PutQuestionMaps DEF Auth!Next
  <2>3. CASE SendOtp(t)
    BY <2>3, AuthLeftAlone DEF SendOtp, SendOtpCall, Texted, bankVars
  <2>4. CASE VerifyOtp(t) \/ Fulfil(t)
    BY <2>4, VerifyOtpMaps, FulfilMaps DEF Auth!Next
  <2>5. CASE Compose(t)
    BY <2>5, ComposeMaps DEF Auth!Next
  <2>6. CASE \/ Enter(t) \/ Classify(t) \/ Cards(t) \/ Lookup(t) \/ AskForMore(t) \/ Answer(t)
             \/ ReadBank(t) \/ Replied(t) \/ Refused(t) \/ KbFails(t) \/ Result(t) \/ Done(t)
             \/ Record(t)
    BY <1>1, <2>6 DEF Enter, Classify, Cards, Lookup, AskForMore, Answer, ReadBank, Replied,
                      Refused, KbFails, Result, Done, Record
  <2>7. QED
    BY <1>3, <2>1, <2>2, <2>3, <2>4, <2>5, <2>6 DEF Step
<1>4. CASE Expiry
  BY <1>4, ExpiryMaps DEF Auth!Next
<1>5. CASE \/ \E t \in Turns, c \in Customers, m \in Messages : Send(t, c, m)
           \/ \E t \in Turns : Disconnect(t)
           \/ Restart
           \/ \E c \in Customers : SessionLapses(c)
  BY <1>1, <1>5 DEF Send, Disconnect, Restart, SessionLapses
<1>6. QED
  BY <1>2, <1>3, <1>4, <1>5 DEF Next

LEMMA InitMaps == Init => Auth!Init
<1> SUFFICES ASSUME Init PROVE Auth!Init
  OBVIOUS
<1>1. /\ asked = 0 /\ ask = [q \in Questions |-> Unasked]
      /\ minted = [q \in Questions |-> 0] /\ usable = {} /\ changes = [q \in Questions |-> 0]
  BY DEF Init, BankInit
<1>2. Kind = [q \in Questions |-> "none"]
  BY <1>1, BankAssumption DEF Kind, KindOf, Questions
<1>3. Shown = {} /\ Agreed = {}
  BY <1>1 DEF Shown, Agreed, Unasked
<1>4. QED
  BY <1>1, <1>2, <1>3 DEF Auth!Init, Kind, Shown, Agreed

\* A change reaches the bank only for a question that was shown and then authorised as
\* its kind demands, and every code authorises one change: the handler with all its
\* interleavings, cuts, lapses and expiries implements AuthorisedChange.
THEOREM ChatTurnImplementsAuthorisedChange ==
    ASSUME "model" \notin Faults PROVE Spec => AuthorisedChangeSpec
<1> QED BY InitMaps, NextMaps, SpecIInv, PTL DEF Spec, AuthorisedChangeSpec, Auth!Spec

-----------------------------------------------------------------------------
(* One tab for each customer.  What follows is of conversations in which a   *)
(* customer waits for a reply before sending the next message; there may be  *)
(* any number of customers at once.                                          *)

\* A tab is in use from its first request on, and each customer has one.
InUse(t) == turn[t].pc # "idle" \/ turn[t].ended # "not"
OneTabEach ==
    \A t, u \in Turns : InUse(t) /\ InUse(u) /\ turn[t].cust = turn[u].cust => t = u

\* What the bank holds is taken as one value too.
Marks == [code |-> code, usable |-> usable, changes |-> changes]

\* Nothing has come of the question that w is a step of: it was not carried out, no other
\* question's code reached the phone, and the stored token was not spent.
Live(k, c, w) ==
    w.type # "CLOSED" =>
        /\ k.changes[w.q] = 0
        /\ w.type = "OTP_REQUIRED" => k.code[c] \in {0, w.q}
        /\ w.token # 0 /\ "expiry" \notin Faults => <<w.q, w.token>> \in k.usable

\* Something came of it, and the turn that did it will record that it is over.
Telling == {"compose", "result", "done", "record"}
Settling(T) ==
    /\ T.pc \in Telling \cup {"reply"} /\ T.known
    /\ T.pc \in Telling => T.outcome.record = "after"

SessionLive ==
    \A c \in Customers : \/ Live(Marks, c, open[c])
                         \/ \E t \in Turns : turn[t].cust = c /\ Settling(turn[t])

TurnLive(k, T) ==
    /\ T.pc \in {"readCode", "readYes", "verifyOtp", "fulfil"} =>
          T.known /\ Live(k, T.cust, T.work)
    /\ T.pc = "sendOtp" => T.known /\ k.changes[T.work.q] = 0
    /\ T.pc \in {"cards", "lookup", "gather", "reply"} => T.known
    /\ T.pc \in Telling =>
          /\ Live(k, T.cust, T.outcome.class)
          /\ T.outcome.class.type # "CLOSED" => T.known /\ T.outcome.record = "after"

TabInv ==
    /\ SessionLive
    /\ \A t \in Turns : TurnLive(Marks, turn[t])
    /\ OneChangePerQuestion

-----------------------------------------------------------------------------
(* How a step of one customer's turn leaves the others'.                     *)

\* Nothing of customer c is touched, but their code or tokens may expire.
Aside(c) ==
    /\ \A q \in 1..asked : ask[q].cust = c => changes'[q] = changes[q]
    /\ code'[c] \in {0, code[c]}
    /\ "expiry" \notin Faults =>
          \A q \in 1..asked : \A n : ask[q].cust = c /\ <<q, n>> \in usable => <<q, n>> \in usable'

LEMMA LiveAside ==
    ASSUME NEW c, NEW w, w.type # "CLOSED" => About(Facts, c, w), Live(Marks, c, w), Aside(c)
    PROVE  Live(Marks', c, w)
BY DEF Live, Aside, About, Facts, Marks

LEMMA TurnAside ==
    ASSUME NEW T \in TurnState, TurnGood(Facts, T), TurnLive(Marks, T), Aside(T.cust)
    PROVE  TurnLive(Marks', T)
<1>1. CASE T.pc \in {"readCode", "readYes", "verifyOtp", "fulfil"}
  <2>1. T.work.type # "CLOSED" => About(Facts, T.cust, T.work)
    BY <1>1 DEF TurnGood, Cleared, Prompt, Stands
  <2>2. Live(Marks', T.cust, T.work)
    BY <1>1, <2>1, LiveAside DEF TurnLive
  <2>3. QED
    BY <1>1, <2>2 DEF TurnLive, Telling
<1>2. CASE T.pc = "sendOtp"
  BY <1>2 DEF TurnLive, TurnGood, MayText, About, Aside, Marks, Facts, Telling
<1>3. CASE T.pc \in Telling
  <2>1. T.outcome.class.type # "CLOSED" => About(Facts, T.cust, T.outcome.class)
    BY <1>3 DEF TurnGood, Prompt, Stands, Telling
  <2>2. Live(Marks', T.cust, T.outcome.class)
    BY <1>3, <2>1, LiveAside DEF TurnLive
  <2>3. QED
    BY <1>3, <2>2 DEF TurnLive, Telling
<1>4. QED
  BY <1>1, <1>2, <1>3 DEF TurnLive

\* A customer's turn is the only one of theirs.
LEMMA OnlyTheirs ==
    ASSUME OneTabEach, NEW t \in Turns, turn[t].pc # "idle",
           NEW u \in Turns, turn[u].pc # "idle", turn[u].cust = turn[t].cust
    PROVE  u = t
BY DEF OneTabEach, InUse

\* Unless the turn is settling it, the step its customer is in is live.
LEMMA TheirsIsLive ==
    ASSUME IInv, TabInv, OneTabEach, NEW t \in Turns, turn[t].pc # "idle", ~Settling(turn[t])
    PROVE  Live(Marks, turn[t].cust, open[turn[t].cust])
<1>1. turn[t].cust \in Customers
  BY Now DEF TurnState
<1>2. ASSUME NEW u \in Turns, turn[u].cust = turn[t].cust, Settling(turn[u]) PROVE FALSE
  BY <1>2, OnlyTheirs DEF Settling, Telling
<1>3. QED
  BY <1>1, <1>2 DEF TabInv, SessionLive

LEMMA TabMoves ==
    ASSUME IInv, TabInv, OneTabEach, NEW t \in Turns, turn[t].pc # "idle",
           NEW U, turn' = [turn EXCEPT ![t] = U], U.cust = turn[t].cust,
           \A c \in Customers \ {U.cust} : Aside(c) /\ open'[c] = open[c],
           TurnLive(Marks', U), Live(Marks', U.cust, open'[U.cust]) \/ Settling(U),
           OneChangePerQuestion'
    PROVE  TabInv'
<1>1. turn \in [Turns -> TurnState] /\ turn'[t] = U
  BY DEF IInv, TypeOK
<1>2. ASSUME NEW u \in Turns PROVE TurnLive(Marks', turn'[u])
  <2>1. CASE u = t
    BY <1>1, <2>1
  <2>2. CASE u # t /\ turn[u].pc = "idle"
    BY <1>1, <2>2 DEF TurnLive, Telling
  <2>3. CASE u # t /\ turn[u].pc # "idle"
    <3>1. turn[u] \in TurnState /\ TurnGood(Facts, turn[u]) /\ TurnLive(Marks, turn[u])
      BY Now DEF TabInv
    <3>2. turn[u].cust \in Customers \ {U.cust}
      BY <2>3, <3>1, OnlyTheirs DEF TurnState
    <3>3. TurnLive(Marks', turn[u])
      BY <3>1, <3>2, TurnAside
    <3>4. QED
      BY <1>1, <2>3, <3>3
  <2>4. QED
    BY <2>1, <2>2, <2>3
<1>3. ASSUME NEW c \in Customers
      PROVE  Live(Marks', c, open'[c]) \/ \E u \in Turns : turn'[u].cust = c /\ Settling(turn'[u])
  <2>1. CASE c = U.cust
    BY <1>1, <2>1
  <2>2. CASE c # U.cust
    <3>1. Aside(c) /\ open'[c] = open[c]
      BY <2>2
    <3>2. CASE Live(Marks, c, open[c])
      <4>1. open[c].type # "CLOSED" => About(Facts, c, open[c])
        BY DEF IInv, SessionGood, Prompt, Stands
      <4>2. Live(Marks', c, open[c])
        BY <3>1, <3>2, <4>1, LiveAside
      <4>3. QED
        BY <3>1, <4>2
    <3>3. ASSUME NEW u \in Turns, turn[u].cust = c, Settling(turn[u])
          PROVE  turn'[u].cust = c /\ Settling(turn'[u])
      BY <1>1, <2>2, <3>3
    <3>4. QED
      BY <3>2, <3>3 DEF TabInv, SessionLive
  <2>3. QED
    BY <2>1, <2>2
<1>4. QED
  BY <1>2, <1>3 DEF TabInv, SessionLive

\* Nothing but the turn moves.
LEMMA AllAside ==
    ASSUME IInv, UNCHANGED bankVars, NEW c \in Customers
    PROVE  Aside(c) /\ Marks' = Marks
BY DEF bankVars, Aside, Marks

LEMMA TabQuiet ==
    ASSUME IInv, TabInv, OneTabEach, NEW t \in Turns, turn[t].pc # "idle",
           NEW U, turn' = [turn EXCEPT ![t] = U], U.cust = turn[t].cust,
           UNCHANGED <<open, bankVars>>,
           TurnLive(Marks, U), Settling(turn[t]) => Settling(U)
    PROVE  TabInv'
<1>1. turn[t].cust \in Customers
  BY Now DEF TurnState
<1>2. /\ Marks' = Marks /\ open' = open
      /\ \A c \in Customers : Aside(c)
  BY <1>1, AllAside
<1>3. Live(Marks', U.cust, open'[U.cust]) \/ Settling(U)
  BY <1>2, TheirsIsLive
<1>4. OneChangePerQuestion'
  BY DEF TabInv, OneChangePerQuestion, bankVars
<1>5. QED
  BY <1>2, <1>3, <1>4, TabMoves

-----------------------------------------------------------------------------
(* What a turn becomes.                                                      *)

LEMMA SaidLive ==
    ASSUME NEW k, NEW T, NEW U, Said(T, U)
    PROVE  TurnLive(k, U)
BY DEF Said, Plain, Closed, TurnLive, Live, Telling

LEMMA OpensLive ==
    ASSUME NEW k, NEW T, NEW U, Opens(T, U), T.known
    PROVE  TurnLive(k, U)
BY DEF Opens, Kept, TurnLive, Telling

LEMMA GoesLive ==
    ASSUME NEW k, NEW T, NEW U, NEW pc \in Early, NEW w, GoesTo(T, U, pc, w),
           pc \in {"readCode", "readYes", "verifyOtp", "fulfil"} => T.known /\ Live(k, T.cust, w),
           pc = "sendOtp" => T.known /\ k.changes[w.q] = 0,
           pc \in {"cards", "lookup", "gather"} => T.known
    PROVE  TurnLive(k, U)
BY DEF GoesTo, Kept, TurnLive, Early, Telling

LEMMA AskRecords ==
    ASSUME NEW w, NEW a
    PROVE  Ask(w, a).class = w /\ Ask(w, a).record = "after" /\ Ask(w, a).executed = "unsaid"
BY DEF Ask, Tell

LEMMA AsksLive ==
    ASSUME NEW k, NEW T, NEW U, NEW w, NEW a, Told(T, U, Ask(w, a)), T.known, Live(k, T.cust, w)
    PROVE  TurnLive(k, U)
BY AskRecords DEF Told, Kept, TurnLive, Telling

LEMMA RequestedKnown ==
    ASSUME NEW T \in TurnState, NEW s \in Services, Opens(T, Requested(T, s))
    PROVE  T.known
<1> SUFFICES ASSUME ~T.known PROVE FALSE
  OBVIOUS
<1>1. GateOf[s] \in Gates /\ Requested(T, s).pc # "compose"
  BY Constants DEF Opens
<1>2. Requested(T, s) \in {Say(T, Tell(Closed, "unsaid", "first", "never")), Say(T, KbAnswer),
                           Say(T, Answered)}
  BY DEF Requested
<1>3. QED
  BY <1>1, <1>2, PlainOutcomes, SayIsSaid DEF Said

LEMMA RequestedLive ==
    ASSUME NEW k, NEW T \in TurnState, NEW s \in Services
    PROVE  TurnLive(k, Requested(T, s)) /\ Requested(T, s).cust = T.cust
<1>1. TurnLive(k, Requested(T, s))
  BY RequestedShape, RequestedKnown, SaidLive, OpensLive
<1>2. QED
  BY <1>1, RequestedShape DEF Said, Opens, Kept

LEMMA RoutedLive ==
    ASSUME NEW k, NEW T \in TurnState
    PROVE  TurnLive(k, Routed(T)) /\ Routed(T).cust = T.cust
<1>1. CASE T.msg.route = None
  <2>1. GoesTo(T, [T EXCEPT !.pc = "classify"], "classify", T.work) /\ "classify" \in Early
    BY Going DEF Early, Pcs
  <2>2. Routed(T) = [T EXCEPT !.pc = "classify"]
    BY <1>1 DEF Routed, None, Invalid
  <2>3. QED
    BY <2>1, <2>2, GoesLive DEF GoesTo, Kept
<1>2. CASE T.msg.route = Invalid /\ T.msg.route # None
  <2>1. Said(T, Routed(T))
    BY <1>2, PlainOutcomes, SayIsSaid DEF Routed
  <2>2. QED
    BY <2>1, SaidLive DEF Said, Kept
<1>3. CASE T.msg.route \in Services
  BY <1>3, RequestedLive, ChatTurnAssumption DEF Routed
<1>4. QED
  BY <1>1, <1>2, <1>3 DEF TurnState, Message

LEMMA CodeStepLive ==
    ASSUME NEW k, NEW T \in TurnState, NEW declined \in BOOLEAN, T.work.service \in Services,
           T.known, Live(k, T.cust, T.work)
    PROVE  TurnLive(k, CodeStep(T, declined)) /\ CodeStep(T, declined).cust = T.cust
<1> DEFINE U == CodeStep(T, declined)
<1>1. CASE Said(T, U)
  BY <1>1, SaidLive DEF Said, Kept
<1>2. CASE Told(T, U, Ask(T.work, "first"))
  BY <1>2, AsksLive DEF Told, Kept
<1>3. ASSUME NEW pc \in {"verifyOtp", "fulfil"}, GoesTo(T, U, pc, T.work)
      PROVE  TurnLive(k, U) /\ U.cust = T.cust
  <2>1. pc \in Early
    BY <1>3 DEF Early, Pcs
  <2>2. QED
    BY <1>3, <2>1, GoesLive DEF GoesTo, Kept
<1>4. QED
  BY <1>1, <1>2, <1>3, CodeStepShape

-----------------------------------------------------------------------------
(* Each step keeps the invariant.                                            *)

LEMMA TabSend ==
    ASSUME IInv, TabInv, NEW t \in Turns, NEW c \in Customers, NEW m \in Messages, Send(t, c, m)
    PROVE  TabInv'
<1> DEFINE U == [Fresh(c) EXCEPT !.pc = "verify", !.msg = m]
<1>1. turn[t].pc = "idle" /\ turn' = [turn EXCEPT ![t] = U] /\ UNCHANGED <<open, bankVars>>
  BY DEF Send, At, Becomes
<1>2. U.pc = "verify"
  BY DEF Fresh
<1> HIDE DEF U
<1>3. turn \in [Turns -> TurnState] /\ Marks' = Marks /\ open' = open
  BY <1>1 DEF IInv, TypeOK, Marks, bankVars
<1>4. \A u \in Turns : TurnLive(Marks', turn'[u])
  <2>1. TurnLive(Marks, U)
    BY <1>2 DEF TurnLive, Telling
  <2>2. QED
    BY <1>1, <1>3, <2>1 DEF TabInv
<1>5. \A u \in Turns : Settling(turn[u]) => turn'[u] = turn[u]
  BY <1>1, <1>3 DEF Settling, Telling
<1>6. SessionLive'
  <2>1. ASSUME NEW d \in Customers
        PROVE  \/ Live(Marks', d, open'[d])
               \/ \E u \in Turns : turn'[u].cust = d /\ Settling(turn'[u])
    BY <1>3, <1>5 DEF TabInv, SessionLive
  <2>2. QED
    BY <2>1 DEF SessionLive
<1>7. OneChangePerQuestion'
  BY <1>1 DEF TabInv, OneChangePerQuestion, bankVars
<1>8. QED
  BY <1>4, <1>6, <1>7 DEF TabInv

LEMMA TabEnter ==
    ASSUME IInv, TabInv, OneTabEach, NEW t \in Turns, Enter(t)
    PROVE  TabInv'
<1>1. PICK known \in BOOLEAN :
          LET m == turn[t].msg
              last == IF known THEN open[turn[t].cust] ELSE Closed
              T == [turn[t] EXCEPT !.known = known]
              W == [T EXCEPT !.work = last]
          IN  \/ /\ AwaitsCode(last, m)
                 /\ Becomes(t, IF m.route = None THEN [W EXCEPT !.pc = "readCode"]
                                                 ELSE CodeStep(W, FALSE))
              \/ /\ ~AwaitsCode(last, m) /\ m.heard
                 /\ Becomes(t, Heard(T))
              \/ /\ AwaitsYes(last, m) /\ ~m.heard
                 /\ Becomes(t, [W EXCEPT !.pc = "readYes"])
              \/ /\ ~AwaitsCode(last, m) /\ ~AwaitsYes(last, m) /\ ~m.heard
                 /\ Becomes(t, Routed(T))
  BY DEF Enter
<1> DEFINE m == turn[t].msg
           last == IF known THEN open[turn[t].cust] ELSE Closed
           T == [turn[t] EXCEPT !.known = known]
           W == [T EXCEPT !.work = last]
<1>2. turn[t] \in TurnState /\ turn[t].pc = "verify" /\ UNCHANGED <<open, bankVars>>
      /\ turn[t].cust \in Customers /\ ~Settling(turn[t])
  BY Now DEF Enter, At, TurnState, Settling, Telling
<1>3. T \in TurnState /\ T.cust = turn[t].cust /\ T.known = known
  BY <1>2 DEF TurnState
<1>4. /\ last \in Class /\ Live(Marks, turn[t].cust, last) /\ Stands(Facts, turn[t].cust, last)
      /\ last.type # "CLOSED" => known
  <2>1. Live(Marks, turn[t].cust, open[turn[t].cust])
    BY <1>2, TheirsIsLive
  <2>2. Live(Marks, turn[t].cust, Closed) /\ Closed.type = "CLOSED"
    BY DEF Live, Closed
  <2>3. QED
    BY <1>2, <2>1, <2>2, Constants, ClosedIsPrompt DEF IInv, TypeOK, SessionGood, Prompt
<1> HIDE DEF last, T
<1>5. W \in TurnState /\ W.cust = turn[t].cust /\ W.known = known /\ W.work = last
  BY <1>3, <1>4 DEF TurnState
<1> HIDE DEF W
<1>6. \E U : /\ turn' = [turn EXCEPT ![t] = U] /\ U.cust = turn[t].cust /\ TurnLive(Marks, U)
  <2>1. ASSUME NEW pc \in {"readCode", "readYes"}, last.type # "CLOSED",
               Becomes(t, [W EXCEPT !.pc = pc])
        PROVE  \E U : /\ turn' = [turn EXCEPT ![t] = U] /\ U.cust = turn[t].cust
                      /\ TurnLive(Marks, U)
    <3>1. pc \in Early /\ pc \in Pcs
      BY DEF Early, Pcs
    <3>2. GoesTo(W, [W EXCEPT !.pc = pc], pc, W.work)
      BY <1>5, <3>1, Going
    <3>3. TurnLive(Marks, [W EXCEPT !.pc = pc])
      BY <1>4, <1>5, <2>1, <3>1, <3>2, GoesLive
    <3>4. QED
      BY <1>5, <2>1, <3>2, <3>3 DEF Becomes, GoesTo, Kept
  <2>2. CASE AwaitsCode(last, m) /\ Becomes(t, CodeStep(W, FALSE))
    <3>1. last.type # "CLOSED" /\ last.service \in Services
      BY <1>4, <2>2 DEF AwaitsCode, Stands, About
    <3>2. TurnLive(Marks, CodeStep(W, FALSE)) /\ CodeStep(W, FALSE).cust = W.cust
      BY <1>4, <1>5, <3>1, CodeStepLive
    <3>3. QED
      BY <1>5, <2>2, <3>2 DEF Becomes
  <2>3. CASE Becomes(t, Heard(T))
    <3>1. Said(T, Heard(T))
      BY <1>3, PlainOutcomes, SayIsSaid DEF Heard
    <3>2. QED
      BY <1>3, <2>3, <3>1, SaidLive DEF Becomes, Said, Kept
  <2>4. CASE Becomes(t, Routed(T))
    BY <1>3, <2>4, RoutedLive DEF Becomes
  <2>5. QED
    BY <1>1, <2>1, <2>2, <2>3, <2>4 DEF last, T, W, AwaitsCode, AwaitsYes
<1>7. QED
  BY <1>2, <1>6, TabQuiet

LEMMA TabReadCode ==
    ASSUME IInv, TabInv, OneTabEach, NEW t \in Turns, ReadCode(t)
    PROVE  TabInv'
<1> DEFINE T == turn[t]
           moved == [T EXCEPT !.work = Closed]
<1>1. PICK reading : IF reading = "other"
                     THEN Becomes(t, IF T.msg.heard THEN Heard(moved) ELSE Routed(moved))
                     ELSE Becomes(t, CodeStep(T, reading = "decline"))
  BY DEF ReadCode
<1>2. /\ T \in TurnState /\ T.pc = "readCode" /\ UNCHANGED <<open, bankVars>> /\ ~Settling(T)
      /\ T.work.service \in Services /\ T.known /\ Live(Marks, T.cust, T.work)
  BY Now DEF ReadCode, At, TurnGood, Prompt, Stands, About, TabInv, TurnLive, Settling, Telling
<1>3. moved \in TurnState /\ moved.cust = T.cust
  BY <1>2, Constants DEF TurnState
<1> HIDE DEF moved
<1>4. Said(moved, Heard(moved))
  BY <1>3, PlainOutcomes, SayIsSaid DEF Heard
<1>5. /\ TurnLive(Marks, Heard(moved)) /\ Heard(moved).cust = T.cust
      /\ TurnLive(Marks, Routed(moved)) /\ Routed(moved).cust = T.cust
  BY <1>3, <1>4, SaidLive, RoutedLive DEF Said, Kept
<1>6. /\ TurnLive(Marks, CodeStep(T, reading = "decline"))
      /\ CodeStep(T, reading = "decline").cust = T.cust
  BY <1>2, CodeStepLive
<1>7. QED
  BY <1>1, <1>2, <1>5, <1>6, TabQuiet DEF Becomes

LEMMA TabReadYes ==
    ASSUME IInv, TabInv, OneTabEach, NEW t \in Turns, ReadYes(t)
    PROVE  TabInv'
<1> DEFINE T == turn[t]
           w == T.work
           moved == [T EXCEPT !.work = Closed]
<1>1. \/ Becomes(t, Routed(moved))
      \/ Becomes(t, Say(T, SwitchedOff)) \/ Becomes(t, Say(T, NotDone("after")))
      \/ Becomes(t, Say(T, Ask(w, "after")))
      \/ Becomes(t, [T EXCEPT !.pc = "sendOtp"]) \/ Becomes(t, [T EXCEPT !.pc = "fulfil"])
  BY DEF ReadYes
<1>2. /\ T \in TurnState /\ T.pc = "readYes" /\ UNCHANGED <<open, bankVars>> /\ ~Settling(T)
      /\ T.known /\ Live(Marks, T.cust, w) /\ w \in Class /\ w.type # "CLOSED"
  BY Now DEF ReadYes, At, TurnGood, TurnState, TabInv, TurnLive, Settling, Telling
<1>3. moved \in TurnState /\ moved.cust = T.cust
  BY <1>2, Constants DEF TurnState
<1> HIDE DEF moved
<1>4. Said(T, Say(T, SwitchedOff)) /\ Said(T, Say(T, NotDone("after")))
  BY <1>2, PlainOutcomes, SayIsSaid
<1>5. Told(T, Say(T, Ask(w, "after")), Ask(w, "after"))
  BY <1>2, AskAsks, SayTells
<1>6. ASSUME NEW pc \in {"sendOtp", "fulfil"}
      PROVE  TurnLive(Marks, [T EXCEPT !.pc = pc]) /\ [T EXCEPT !.pc = pc].cust = T.cust
  <2>1. pc \in Early /\ pc \in Pcs
    BY DEF Early, Pcs
  <2>2. GoesTo(T, [T EXCEPT !.pc = pc], pc, w)
    BY <1>2, <2>1, Going
  <2>3. Marks.changes[w.q] = 0
    BY <1>2 DEF Live
  <2>4. TurnLive(Marks, [T EXCEPT !.pc = pc])
    BY <1>2, <2>1, <2>2, <2>3, GoesLive
  <2>5. QED
    BY <2>2, <2>4 DEF GoesTo, Kept
<1>7. \E U : turn' = [turn EXCEPT ![t] = U] /\ U.cust = T.cust /\ TurnLive(Marks, U)
  <2>1. CASE Becomes(t, Routed(moved))
    BY <1>3, <2>1, RoutedLive DEF Becomes
  <2>2. ASSUME NEW U, Said(T, U), Becomes(t, U)
        PROVE  turn' = [turn EXCEPT ![t] = U] /\ U.cust = T.cust /\ TurnLive(Marks, U)
    BY <2>2, SaidLive DEF Becomes, Said, Kept
  <2>3. CASE Becomes(t, Say(T, Ask(w, "after")))
    <3>1. Say(T, Ask(w, "after")).cust = T.cust /\ TurnLive(Marks, Say(T, Ask(w, "after")))
      BY <1>2, <1>5, AsksLive DEF Told, Kept
    <3>2. QED
      BY <2>3, <3>1 DEF Becomes
  <2>4. ASSUME NEW pc \in {"sendOtp", "fulfil"}, Becomes(t, [T EXCEPT !.pc = pc])
        PROVE  \E U : turn' = [turn EXCEPT ![t] = U] /\ U.cust = T.cust /\ TurnLive(Marks, U)
    BY <1>6, <2>4 DEF Becomes
  <2>5. QED
    BY <1>1, <1>4, <2>1, <2>2, <2>3, <2>4
<1>8. QED
  BY <1>2, <1>7, TabQuiet

LEMMA EndLive ==
    ASSUME NEW k, NEW T \in TurnState, NEW how \in {"not", "done", "error", "broken", "cut"}
    PROVE  TurnLive(k, End(T, how)) /\ End(T, how).cust = T.cust /\ End(T, how).pc = "idle"
BY EndEnds DEF TurnLive, Telling

LEMMA TabGathering ==
    ASSUME IInv, TabInv, OneTabEach, NEW t \in Turns,
           Classify(t) \/ Cards(t) \/ Lookup(t) \/ AskForMore(t) \/ Answer(t) \/ ReadBank(t)
    PROVE  TabInv'
<1> DEFINE T == turn[t]
<1>1. /\ T \in TurnState /\ T.pc \in {"classify", "cards", "lookup", "gather", "readBank"}
      /\ UNCHANGED <<open, bankVars>> /\ ~Settling(T)
      /\ T.pc \in {"cards", "lookup", "gather"} => T.known
  BY Now DEF Classify, Cards, Lookup, AskForMore, Answer, ReadBank, At, TabInv, TurnLive,
             Settling, Telling
<1>2. ASSUME NEW o \in Plain PROVE TurnLive(Marks, Say(T, o)) /\ Say(T, o).cust = T.cust
  BY <1>1, SayIsSaid, SaidLive DEF Said, Kept
<1>3. ASSUME NEW how \in {"error", "broken"}
      PROVE  TurnLive(Marks, End(T, how)) /\ End(T, how).cust = T.cust
  BY <1>1, EndLive
<1>4. ASSUME NEW s \in Services
      PROVE  TurnLive(Marks, Requested(T, s)) /\ Requested(T, s).cust = T.cust
  BY <1>1, RequestedLive
<1>5. ASSUME T.known, NEW pc \in {"gather", "readBank"}
      PROVE  TurnLive(Marks, [T EXCEPT !.pc = pc]) /\ [T EXCEPT !.pc = pc].cust = T.cust
  <2>1. GoesTo(T, [T EXCEPT !.pc = pc], pc, T.work) /\ pc \in Early
    BY <1>1, Going DEF Early, Pcs
  <2>2. QED
    BY <1>5, <2>1, GoesLive DEF GoesTo, Kept
<1>6. {Answered, Emitted, KbAnswer, AppAnswer, Tell(Closed, "unsaid", "first", "before")} \subseteq Plain
  BY PlainOutcomes
<1>7. \E U : turn' = [turn EXCEPT ![t] = U] /\ U.cust = T.cust /\ TurnLive(Marks, U)
  <2>1. CASE Classify(t)
    BY <2>1, <1>2, <1>3, <1>4, <1>6 DEF Classify, Becomes
  <2>2. CASE Cards(t) \/ Lookup(t)
    BY <2>2, <1>1, <1>2, <1>3, <1>5, <1>6 DEF Cards, Lookup, Becomes, At
  <2>3. CASE AskForMore(t) \/ Answer(t) \/ ReadBank(t)
    BY <2>3, <1>1, <1>2, <1>5, <1>6 DEF AskForMore, Answer, ReadBank, Becomes, At
  <2>4. QED
    BY <1>1, <2>1, <2>2, <2>3 DEF Classify, Cards, Lookup, AskForMore, Answer, ReadBank
<1>8. T.pc # "idle"
  BY <1>1
<1>9. QED
  BY <1>1, <1>7, <1>8, TabQuiet

\* A question just put has no past.
LEMMA TabPutQuestion ==
    ASSUME IInv, TabInv, OneTabEach, NEW t \in Turns, PutQuestion(t)
    PROVE  TabInv'
<1> DEFINE T == turn[t]
           s == T.work.service
           q == asked + 1
<1>1. PICK v \in Values :
         LET w == [type |-> "CONFIRMATION_REQUIRED", service |-> s,
                   value |-> v, q |-> q, token |-> 0]
         IN  \/ Becomes(t, Say(T, Ask(w, "after")))
             \/ Becomes(t, [T EXCEPT !.work = [w EXCEPT !.type = "OTP_REQUIRED"],
                                     !.pc = "sendOtp"])
  BY DEF PutQuestion
<1> DEFINE w == [type |-> "CONFIRMATION_REQUIRED", service |-> s,
                 value |-> v, q |-> q, token |-> 0]
           x == [type |-> "OTP_REQUIRED", service |-> s,
                 value |-> v, q |-> q, token |-> 0]
<1>2. /\ T \in TurnState /\ T.pc = "gather" /\ T.known /\ ~Settling(T)
      /\ s \in Services /\ UNCHANGED <<open, bankVars>>
  BY Now DEF PutQuestion, At, TurnGood, TabInv, TurnLive, Settling, Telling
<1>3. asked \in Nat /\ q \in Questions /\ q \in 0..MaxQuestions /\ MaxCodes \in Nat /\ q > asked
  <2>1. asked \in 0..MaxQuestions /\ asked < MaxQuestions /\ MaxQuestions \in Nat /\ MaxCodes \in Nat
    BY BankAssumption DEF PutQuestion, IInv, TypeOK
  <2>2. QED
    BY <2>1 DEF Questions
<1>4. w \in Class /\ x \in Class /\ [w EXCEPT !.type = "OTP_REQUIRED"] = x /\ x.q = q
  BY <1>2, <1>3 DEF Class
<1>5. Marks.changes[q] = 0 /\ Live(Marks, T.cust, w)
  BY <1>3 DEF IInv, NotYet, Live, Marks
<1> HIDE DEF w, x
<1>6. CASE Becomes(t, Say(T, Ask(w, "after")))
  <2>1. Told(T, Say(T, Ask(w, "after")), Ask(w, "after"))
    BY <1>2, <1>4, AskAsks, SayTells
  <2>2. /\ TurnLive(Marks, Say(T, Ask(w, "after")))
        /\ Say(T, Ask(w, "after")).cust = T.cust
    BY <1>2, <1>5, <2>1, AsksLive DEF Told, Kept
  <2>3. QED
    BY <1>2, <1>6, <2>2, TabQuiet DEF Becomes
<1>7. CASE Becomes(t, [T EXCEPT !.work = x, !.pc = "sendOtp"])
  <2> DEFINE U == [T EXCEPT !.work = x, !.pc = "sendOtp"]
  <2>1. GoesTo(T, U, "sendOtp", x) /\ "sendOtp" \in Early
    BY <1>2, <1>4, GoingWith DEF Early, Pcs
  <2>2. Marks.changes[x.q] = 0
    BY <1>4, <1>5
  <2> HIDE DEF U
  <2>3. TurnLive(Marks, U) /\ U.cust = T.cust
    BY <1>2, <2>1, <2>2, GoesLive DEF GoesTo, Kept
  <2>4. QED
    BY <1>2, <1>7, <2>3, TabQuiet DEF Becomes, U
<1>8. QED
  BY <1>1, <1>4, <1>6, <1>7 DEF w

\* Whatever is said after a code was asked for ends or opens the step it is for.
LEMMA TabSendOtp ==
    ASSUME IInv, TabInv, OneTabEach, NEW t \in Turns, SendOtp(t)
    PROVE  TabInv'
<1> DEFINE T == turn[t]
           w == T.work
<1>1. PICK answer \in {"OK", "SEND_THROTTLED", "INVALID_PHONE", "UNAVAILABLE"} :
          SendOtpCall(T.cust, w.q, answer) /\ Becomes(t, AfterSend(T, answer))
  BY DEF SendOtp
<1>2. /\ T \in TurnState /\ T.pc = "sendOtp" /\ T.known /\ Marks.changes[w.q] = 0
      /\ T.cust \in Customers /\ w \in Class /\ open' = open
  BY Now DEF SendOtp, At, TabInv, TurnLive, TurnState, Telling
<1>3. code \in [Customers -> 0..MaxQuestions]
  BY DEF IInv, TypeOK, BankTypeOK
<1>4. /\ changes' = changes /\ usable' = usable
      /\ \A c \in Customers \ {T.cust} : code'[c] = code[c]
      /\ answer = "OK" => code'[T.cust] = w.q
  <2>1. CASE Texted(T.cust, w.q)
    BY <1>2, <1>3, <2>1 DEF Texted
  <2>2. CASE answer # "OK" /\ UNCHANGED bankVars
    BY <2>2 DEF bankVars
  <2>3. QED
    BY <1>1, <2>1, <2>2 DEF SendOtpCall
<1>5. \A c \in Customers \ {T.cust} : Aside(c) /\ open'[c] = open[c]
  BY <1>2, <1>4 DEF Aside
<1>6. TurnLive(Marks', AfterSend(T, answer)) /\ Settling(AfterSend(T, answer))
      /\ AfterSend(T, answer).cust = T.cust
  <2>1. CASE answer = "OK"
    <3> DEFINE y == Pending(w)
    <3>1. y \in Class /\ y.type = "OTP_REQUIRED" /\ y.token = 0 /\ y.q = w.q
      BY <1>2, PendingIsOpen
    <3> HIDE DEF y
    <3>2. Told(T, Say(T, Ask(y, "first")), Ask(y, "first"))
      BY <1>2, <3>1, AskAsks, SayTells
    <3>3. Live(Marks', T.cust, y)
      BY <1>2, <1>4, <2>1, <3>1 DEF Live, Marks
    <3>4. AfterSend(T, answer) = Say(T, Ask(y, "first"))
      BY <2>1 DEF AfterSend, y
    <3>5. TurnLive(Marks', Say(T, Ask(y, "first")))
      BY <1>2, <3>2, <3>3, AsksLive
    <3> DEFINE U == Say(T, Ask(y, "first"))
    <3>6. U.pc = "compose" /\ U.known /\ U.outcome = Ask(y, "first") /\ U.cust = T.cust
      BY <1>2, <3>2 DEF Told, Kept
    <3> HIDE DEF U
    <3>7. Settling(U)
      BY <3>6, AskRecords DEF Settling, Telling
    <3>8. QED
      BY <3>4, <3>5, <3>6, <3>7 DEF U
  <2>2. CASE answer # "OK"
    <3>1. \A o \in {NotDone("first"), Emitted} : o \in Plain /\ o.record = "after"
      BY PlainOutcomes DEF NotDone, Emitted, Tell
    <3>2. ASSUME NEW o \in {NotDone("first"), Emitted}
          PROVE  /\ TurnLive(Marks', Say(T, o)) /\ Settling(Say(T, o)) /\ Say(T, o).cust = T.cust
      <4>1. Said(T, Say(T, o)) /\ Say(T, o).outcome = o /\ o.record = "after"
        BY <1>2, <3>1, SayIsSaid
      <4>2. QED
        BY <1>2, <4>1, SaidLive DEF Said, Kept, Settling, Telling
    <3>3. QED
      BY <2>2, <3>2 DEF AfterSend
  <2>3. QED
    BY <2>1, <2>2
<1>7. OneChangePerQuestion'
  BY <1>4 DEF TabInv, OneChangePerQuestion
<1>8. QED
  BY <1>1, <1>2, <1>5, <1>6, <1>7, TabMoves DEF Becomes

\* Only the code of this question can be accepted, and only its tokens appear.
LEMMA TabVerifyOtp ==
    ASSUME IInv, TabInv, OneTabEach, NEW t \in Turns, VerifyOtp(t)
    PROVE  TabInv'
<1> DEFINE T == turn[t]
           w == T.work
           U(answer) ==
                  CASE answer = "OK" -> [T EXCEPT !.pc = "fulfil", !.work.token = minted'[w.q]]
                    [] answer = "OTP_EXPIRED" -> [T EXCEPT !.pc = "sendOtp"]
                    [] answer = "OTP_INCORRECT" -> Say(T, Ask([w EXCEPT !.token = 0], "first"))
                    [] answer = "OTP_BLOCKED" /\ GateOf[w.service] = "freeze" ->
                          Say(T, NotDone("first"))
                    [] OTHER -> Say(T, Emitted)
<1>1. PICK answer \in {"OK", "OTP_INCORRECT", "OTP_EXPIRED", "OTP_BLOCKED", "UNAVAILABLE"} :
          /\ VerifyOtpCall(T.cust, w.q, T.msg.otp = "right", answer)
          /\ turn' = [turn EXCEPT ![t] = U(answer)]
  BY DEF VerifyOtp, Becomes
<1>2. /\ T \in TurnState /\ T.pc = "verifyOtp" /\ T.known /\ Live(Marks, T.cust, w)
      /\ T.cust \in Customers /\ w \in Class /\ w.type = "OTP_REQUIRED" /\ open' = open
      /\ About(Facts, T.cust, w) /\ ~Settling(T)
  BY Now DEF VerifyOtp, At, TabInv, TurnLive, TurnState, Telling, TurnGood, Prompt, Stands, Settling
<1>3. /\ w.q \in Questions /\ code \in [Customers -> 0..MaxQuestions]
      /\ minted \in [Questions -> 0..MaxCodes] /\ MaxCodes \in Nat
  BY <1>2, BankAssumption DEF About, Facts, IInv, TypeOK, BankTypeOK, Questions
<1>4. /\ changes' = changes /\ usable \subseteq usable'
      /\ \A c \in Customers : code'[c] \in {0, code[c]}
      /\ answer = "OK" => /\ minted'[w.q] \in 0..MaxCodes
                          /\ <<w.q, minted'[w.q]>> \in usable'
  <2>1. CASE /\ answer = "OK" /\ minted[w.q] < MaxCodes
             /\ code' = [code EXCEPT ![T.cust] = 0]
             /\ minted' = [minted EXCEPT ![w.q] = minted[w.q] + 1]
             /\ usable' = usable \cup {<<w.q, minted[w.q] + 1>>}
             /\ UNCHANGED <<sent, changes>>
    BY <1>2, <1>3, <2>1
  <2>2. CASE answer # "OK" /\ code' = [code EXCEPT ![T.cust] = 0]
             /\ UNCHANGED <<sent, minted, usable, changes>>
    BY <1>2, <1>3, <2>2
  <2>3. CASE answer # "OK" /\ UNCHANGED bankVars
    BY <2>3 DEF bankVars
  <2>4. QED
    BY <1>1, <2>1, <2>2, <2>3 DEF VerifyOtpCall
<1>5. \A c \in Customers : Aside(c) /\ open'[c] = open[c]
  BY <1>2, <1>4 DEF Aside
<1>6. Live(Marks', T.cust, w)
  BY <1>2, <1>5, LiveAside
<1>7. Live(Marks', T.cust, open'[T.cust])
  <2>1. Live(Marks, T.cust, open[T.cust])
    BY <1>2, TheirsIsLive
  <2>2. open[T.cust].type # "CLOSED" => About(Facts, T.cust, open[T.cust])
    BY <1>2 DEF IInv, SessionGood, Prompt, Stands
  <2>3. QED
    BY <1>2, <1>5, <2>1, <2>2, LiveAside
<1>8. Marks'.changes[w.q] = 0
  BY <1>2, <1>6 DEF Live
<1>9. TurnLive(Marks', U(answer)) /\ U(answer).cust = T.cust
  <2>1. CASE answer = "OK"
    <3> DEFINE n == minted'[w.q]
               y == [w EXCEPT !.token = n]
               V == [T EXCEPT !.pc = "fulfil", !.work.token = n]
    <3>1. y \in Class /\ y.token = n /\ y.type = w.type /\ y.q = w.q
      BY <1>2, <1>4, <2>1, WithToken
    <3>2. V = [T EXCEPT !.work = y, !.pc = "fulfil"]
      BY <1>2 DEF TurnState
    <3>3. Live(Marks', T.cust, y)
      BY <1>2, <1>4, <1>6, <2>1, <3>1 DEF Live, Marks
    <3> HIDE DEF y
    <3>4. GoesTo(T, V, "fulfil", y) /\ "fulfil" \in Early
      BY <1>2, <3>1, <3>2, GoingWith DEF Early, Pcs
    <3> HIDE DEF V
    <3>5. TurnLive(Marks', V) /\ V.cust = T.cust
      BY <1>2, <3>3, <3>4, GoesLive DEF GoesTo, Kept
    <3>6. QED
      BY <2>1, <3>5 DEF V
  <2>2. CASE answer = "OTP_EXPIRED"
    <3> DEFINE V == [T EXCEPT !.pc = "sendOtp"]
    <3>1. GoesTo(T, V, "sendOtp", w) /\ "sendOtp" \in Early
      BY <1>2, Going DEF Early, Pcs
    <3> HIDE DEF V
    <3>2. TurnLive(Marks', V) /\ V.cust = T.cust
      BY <1>2, <1>8, <3>1, GoesLive DEF GoesTo, Kept
    <3>3. QED
      BY <2>2, <3>2 DEF V
  <2>3. CASE answer = "OTP_INCORRECT"
    <3> DEFINE y == [w EXCEPT !.token = 0]
               V == Say(T, Ask(y, "first"))
    <3>1. y \in Class /\ y.token = 0 /\ y.type = w.type /\ y.q = w.q
      BY <1>2, <1>3, WithToken
    <3>2. Live(Marks', T.cust, y)
      BY <1>2, <1>6, <3>1 DEF Live
    <3> HIDE DEF y
    <3>3. Told(T, V, Ask(y, "first"))
      BY <1>2, <3>1, AskAsks, SayTells
    <3> HIDE DEF V
    <3>4. TurnLive(Marks', V) /\ V.cust = T.cust
      BY <1>2, <3>2, <3>3, AsksLive DEF Told, Kept
    <3>5. QED
      BY <2>3, <3>4 DEF V, y
  <2>4. CASE answer \in {"OTP_BLOCKED", "UNAVAILABLE"}
    <3>1. U(answer) \in {Say(T, NotDone("first")), Say(T, Emitted)}
      BY <2>4
    <3> HIDE DEF U
    <3>2. Said(T, U(answer))
      BY <1>2, <3>1, PlainOutcomes, SayIsSaid
    <3>3. QED
      BY <3>2, SaidLive DEF Said, Kept
  <2>5. QED
    BY <2>1, <2>2, <2>3, <2>4
<1>10. OneChangePerQuestion'
  BY <1>4 DEF TabInv, OneChangePerQuestion
<1> HIDE DEF U
<1>11. QED
  BY <1>1, <1>2, <1>5, <1>7, <1>9, <1>10, TabMoves

\* The change goes through for the first time.
LEMMA TabFulfil ==
    ASSUME IInv, TabInv, OneTabEach, NEW t \in Turns, Fulfil(t)
    PROVE  TabInv'
<1> DEFINE T == turn[t]
           w == T.work
           U == [T EXCEPT !.pc = "reply", !.acted = TRUE]
<1>1. /\ CarryOut(w.q, TokenOf(w)) /\ turn' = [turn EXCEPT ![t] = U] /\ open' = open
  BY DEF Fulfil, Becomes
<1>2. /\ T \in TurnState /\ T.pc = "fulfil" /\ T.known /\ w.type # "CLOSED"
      /\ Live(Marks, T.cust, w) /\ About(Facts, T.cust, w)
  BY Now DEF Fulfil, At, TabInv, TurnLive, Telling, TurnGood, Cleared, Prompt, Stands
<1>3. /\ w.q \in Questions /\ changes[w.q] = 0 /\ changes \in [Questions -> 0..MaxChanges]
  BY <1>2, BankAssumption DEF About, Facts, IInv, TypeOK, BankTypeOK, Questions, Live, Marks
<1>4. /\ changes' = [changes EXCEPT ![w.q] = changes[w.q] + 1]
      /\ usable' = usable \ {<<w.q, w.token>>} /\ code' = code
  BY <1>1 DEF CarryOut, TokenOf
<1>5. U.pc = "reply" /\ U.known /\ U.cust = T.cust
  BY <1>2 DEF TurnState
<1> HIDE DEF U
<1>6. TurnLive(Marks', U) /\ Settling(U)
  BY <1>5 DEF TurnLive, Settling, Telling
<1>7. ASSUME NEW c \in Customers \ {T.cust} PROVE Aside(c) /\ open'[c] = open[c]
  <2>1. \A q \in 1..asked : ask[q].cust = c => q # w.q
    BY <1>2 DEF About, Facts
  <2>2. \A q \in 1..asked : q \in Questions
    BY BankAssumption DEF IInv, TypeOK, Questions
  <2>3. \A q \in 1..asked : ask[q].cust = c => changes'[q] = changes[q]
    BY <1>3, <1>4, <2>1, <2>2
  <2>4. \A q \in 1..asked : \A n : ask[q].cust = c /\ <<q, n>> \in usable => <<q, n>> \in usable'
    BY <1>4, <2>1
  <2>5. QED
    BY <1>1, <1>4, <2>3, <2>4 DEF Aside
<1>8. OneChangePerQuestion'
  BY <1>3, <1>4 DEF TabInv, OneChangePerQuestion
<1>9. QED
  BY <1>1, <1>2, <1>5, <1>6, <1>7, <1>8, TabMoves

LEMMA TabReplied ==
    ASSUME IInv, TabInv, OneTabEach, NEW t \in Turns, Replied(t)
    PROVE  TabInv'
<1> DEFINE T == turn[t]
<1>1. T \in TurnState /\ T.pc = "reply" /\ T.known /\ UNCHANGED <<open, bankVars>>
  BY Now DEF Replied, At, TabInv, TurnLive
<1>2. AuditOf(T.work) \in {"first", "after"} /\ Closed \in Class
  BY Constants DEF AuditOf
<1>3. PICK o \in {Tell(Closed, "yes", AuditOf(T.work), "after"), Unavailable(T.work)} :
          turn' = [turn EXCEPT ![t] = Say(T, o)]
  BY DEF Replied, Becomes
<1>4. o \in Outcome /\ o.class = Closed /\ o.record = "after"
  BY <1>2, <1>3, OutcomesAreOutcomes DEF Unavailable
<1> DEFINE U == Say(T, o)
<1>5. U.pc = "compose" /\ U.outcome = o /\ U.known /\ U.cust = T.cust
  BY <1>1, <1>4, SayTells DEF Told, Kept
<1> HIDE DEF U
<1>6. TurnLive(Marks, U) /\ Settling(U)
  BY <1>4, <1>5 DEF TurnLive, Settling, Telling, Live, Closed
<1>7. QED
  BY <1>1, <1>3, <1>5, <1>6, TabQuiet DEF U

LEMMA TabRefused ==
    ASSUME IInv, TabInv, OneTabEach, NEW t \in Turns, Refused(t)
    PROVE  TabInv'
<1> DEFINE T == turn[t]
           w == T.work
<1>1. /\ T \in TurnState /\ T.pc = "fulfil" /\ T.known /\ UNCHANGED <<open, bankVars>>
      /\ w \in Class /\ w.type # "CLOSED" /\ Live(Marks, T.cust, w) /\ ~Settling(T)
  BY Now DEF Refused, At, TabInv, TurnLive, Telling, TurnGood, Cleared, TurnState, Settling
<1>2. AuditOf(w) \in {"first", "after"}
  BY DEF AuditOf
<1>3. Unavailable(w) \in Plain /\ NotDone("first") \in Plain
  BY <1>2, PlainOutcomes DEF Unavailable
<1>4. ASSUME NEW o \in Plain PROVE TurnLive(Marks, Say(T, o)) /\ Say(T, o).cust = T.cust
  BY <1>1, SayIsSaid, SaidLive DEF Said, Kept
<1>5. TurnLive(Marks, [T EXCEPT !.pc = "sendOtp"]) /\ [T EXCEPT !.pc = "sendOtp"].cust = T.cust
  <2> DEFINE V == [T EXCEPT !.pc = "sendOtp"]
  <2>1. GoesTo(T, V, "sendOtp", w) /\ "sendOtp" \in Early /\ Marks.changes[w.q] = 0
    BY <1>1, Going DEF Early, Pcs, Live
  <2> HIDE DEF V
  <2>2. TurnLive(Marks, V) /\ V.cust = T.cust
    BY <1>1, <2>1, GoesLive DEF GoesTo, Kept
  <2>3. QED
    BY <2>2 DEF V
<1>6. TurnLive(Marks, Say(T, Ask(w, "first"))) /\ Say(T, Ask(w, "first")).cust = T.cust
  <2>1. Told(T, Say(T, Ask(w, "first")), Ask(w, "first"))
    BY <1>1, AskAsks, SayTells
  <2>2. QED
    BY <1>1, <2>1, AsksLive DEF Told, Kept
<1>7. \E U : turn' = [turn EXCEPT ![t] = U] /\ U.cust = T.cust /\ TurnLive(Marks, U)
  BY <1>3, <1>4, <1>5, <1>6 DEF Refused, Becomes
<1>8. QED
  BY <1>1, <1>7, TabQuiet

-----------------------------------------------------------------------------
(* How a turn is recorded.                                                   *)

\* A turn that goes on telling the same thing.
LEMMA TellingLive ==
    ASSUME NEW k, NEW T, T.pc \in Telling, TurnLive(k, T),
           NEW U, U.pc \in Telling, U.cust = T.cust, U.known = T.known, U.outcome = T.outcome
    PROVE  TurnLive(k, U) /\ (Settling(T) => Settling(U))
BY DEF TurnLive, Settling, Telling

LEMMA TabCompose ==
    ASSUME IInv, TabInv, OneTabEach, NEW t \in Turns, Compose(t)
    PROVE  TabInv'
<1> DEFINE T == turn[t]
           U == [T EXCEPT !.pc = "result", !.audited = Audited(T, "first")]
<1>1. /\ T \in TurnState /\ T.pc = "compose" /\ TurnLive(Marks, T)
      /\ turn' = [turn EXCEPT ![t] = U] /\ UNCHANGED <<open, bankVars>>
  BY Now DEF Compose, At, TabInv, Becomes
<1>2. U.pc = "result" /\ U.cust = T.cust /\ U.known = T.known /\ U.outcome = T.outcome
  BY <1>1 DEF TurnState
<1> HIDE DEF U
<1>3. TurnLive(Marks, U) /\ (Settling(T) => Settling(U))
  BY <1>1, <1>2, TellingLive DEF Telling
<1>4. QED
  BY <1>1, <1>2, <1>3, TabQuiet

LEMMA TabDone ==
    ASSUME IInv, TabInv, OneTabEach, NEW t \in Turns, Done(t)
    PROVE  TabInv'
<1> DEFINE T == turn[t]
           V == [T EXCEPT !.pc = "record", !.ended = "done"]
<1>1. /\ T \in TurnState /\ T.pc = "done" /\ TurnLive(Marks, T)
      /\ UNCHANGED <<open, bankVars>>
  BY Now DEF Done, At, TabInv
<1>2. CASE T.outcome.record = "after" /\ turn' = [turn EXCEPT ![t] = V]
  <2>1. V.pc = "record" /\ V.cust = T.cust /\ V.known = T.known /\ V.outcome = T.outcome
    BY <1>1 DEF TurnState
  <2> HIDE DEF V
  <2>2. TurnLive(Marks, V) /\ (Settling(T) => Settling(V))
    BY <1>1, <2>1, TellingLive DEF Telling
  <2>3. QED
    BY <1>1, <1>2, <2>1, <2>2, TabQuiet
<1>3. CASE T.outcome.record # "after" /\ turn' = [turn EXCEPT ![t] = End(T, "done")]
  <2>1. ~Settling(T)
    BY <1>1, <1>3 DEF Settling, Telling
  <2>2. TurnLive(Marks, End(T, "done")) /\ End(T, "done").cust = T.cust
    BY <1>1, EndLive
  <2>3. QED
    BY <1>1, <1>3, <2>1, <2>2, TabQuiet
<1>4. QED
  BY <1>2, <1>3 DEF Done, Becomes

\* The session learns what the turn came to.
LEMMA TabRecords ==
    ASSUME IInv, TabInv, OneTabEach, NEW t \in Turns, turn[t].pc \in Telling,
           Recorded(turn[t]), UNCHANGED bankVars,
           NEW U, turn' = [turn EXCEPT ![t] = U], U.cust = turn[t].cust, TurnLive(Marks, U)
    PROVE  TabInv'
<1> DEFINE T == turn[t]
<1>1. T.cust \in Customers /\ open \in [Customers -> Class] /\ TurnLive(Marks, T)
      /\ T.pc # "idle"
  BY Now DEF TurnState, IInv, TypeOK, TabInv, Telling
<1>2. Marks' = Marks /\ \A c \in Customers : Aside(c)
  BY AllAside, <1>1
<1>3. IF T.known THEN open' = [open EXCEPT ![T.cust] = T.outcome.class] ELSE open' = open
  BY DEF Recorded, Store!Record
<1>4. \A c \in Customers \ {T.cust} : open'[c] = open[c]
  BY <1>1, <1>3
<1>5. Live(Marks, T.cust, open'[T.cust])
  <2>1. CASE T.known
    <3>1. open'[T.cust] = T.outcome.class
      BY <1>1, <1>3, <2>1
    <3>2. QED
      BY <1>1, <3>1 DEF TurnLive
  <2>2. CASE ~T.known
    <3>1. ~Settling(T)
      BY <2>2 DEF Settling
    <3>2. QED
      BY <1>1, <1>3, <2>2, <3>1, TheirsIsLive
  <2>3. QED
    BY <2>1, <2>2
<1>6. OneChangePerQuestion'
  BY DEF TabInv, OneChangePerQuestion, bankVars
<1>7. QED
  BY <1>1, <1>2, <1>4, <1>5, <1>6, TabMoves

LEMMA TabRecording ==
    ASSUME IInv, TabInv, OneTabEach, NEW t \in Turns, KbFails(t) \/ Result(t) \/ Record(t)
    PROVE  TabInv'
<1> DEFINE T == turn[t]
           V == [T EXCEPT !.pc = "done", !.results = @ + 1, !.audited = Audited(T, "after")]
<1>1. /\ T \in TurnState /\ T.pc \in Telling /\ TurnLive(Marks, T)
      /\ UNCHANGED bankVars
  BY Now DEF KbFails, Result, Record, At, TabInv, Telling
<1>2. ASSUME NEW how \in {"done", "error"}, turn' = [turn EXCEPT ![t] = End(T, how)], Recorded(T)
      PROVE  TabInv'
  <2>1. TurnLive(Marks, End(T, how)) /\ End(T, how).cust = T.cust
    BY <1>1, EndLive
  <2>2. QED
    BY <1>1, <1>2, <2>1, TabRecords
<1>3. ASSUME turn' = [turn EXCEPT ![t] = V], Recorded(T) \/ UNCHANGED open
      PROVE  TabInv'
  <2>1. V.pc = "done" /\ V.cust = T.cust /\ V.known = T.known /\ V.outcome = T.outcome
    BY <1>1 DEF TurnState
  <2> HIDE DEF V
  <2>2. TurnLive(Marks, V) /\ (Settling(T) => Settling(V))
    BY <1>1, <2>1, TellingLive DEF Telling
  <2>3. CASE Recorded(T)
    BY <1>1, <1>3, <2>1, <2>2, <2>3, TabRecords
  <2>4. CASE UNCHANGED open
    BY <1>1, <1>3, <2>1, <2>2, <2>4, TabQuiet DEF Telling
  <2>5. QED
    BY <1>3, <2>3, <2>4
<1>4. QED
  BY <1>2, <1>3 DEF KbFails, Result, Record, Becomes

-----------------------------------------------------------------------------
(* What the world does, but for the client that goes away.                   *)

LEMMA TabRestart ==
    ASSUME IInv, TabInv, Restart
    PROVE  TabInv'
<1>1. ASSUME NEW t \in Turns PROVE turn'[t].pc = "idle"
  <2>1. turn[t] \in TurnState /\ turn'[t] = CutOff(turn[t])
    BY Now DEF Restart
  <2>2. QED
    BY <2>1, EndEnds DEF CutOff
<1>2. ASSUME NEW c \in Customers PROVE open'[c].type = "CLOSED"
  BY DEF Restart, Store!Lapse, Closed
<1>3. OneChangePerQuestion'
  BY DEF TabInv, OneChangePerQuestion, Restart, bankVars
<1>4. SessionLive'
  BY <1>2 DEF SessionLive, Live
<1>5. \A t \in Turns : TurnLive(Marks', turn'[t])
  BY <1>1 DEF TurnLive, Telling
<1>6. QED
  BY <1>3, <1>4, <1>5 DEF TabInv

LEMMA TabLapses ==
    ASSUME IInv, TabInv, NEW d \in Customers, SessionLapses(d)
    PROVE  TabInv'
<1>1. turn' = turn /\ Marks' = Marks /\ changes' = changes
  BY DEF SessionLapses, Marks, bankVars
<1>2. ASSUME NEW c \in Customers PROVE open'[c] = open[c] \/ open'[c].type = "CLOSED"
  BY DEF SessionLapses, Store!Lapse, Closed
<1>3. SessionLive'
  <2>1. ASSUME NEW c \in Customers
        PROVE  \/ Live(Marks', c, open'[c])
               \/ \E t \in Turns : turn'[t].cust = c /\ Settling(turn'[t])
    BY <1>1, <1>2 DEF TabInv, SessionLive, Live
  <2>2. QED
    BY <2>1 DEF SessionLive
<1>4. QED
  BY <1>1, <1>3 DEF TabInv, OneChangePerQuestion

LEMMA TabAllAside ==
    ASSUME IInv, TabInv, turn' = turn, open' = open, changes' = changes,
           \A c \in Customers : Aside(c)
    PROVE  TabInv'
<1>1. ASSUME NEW t \in Turns PROVE TurnLive(Marks', turn'[t])
  <2>1. turn[t] \in TurnState /\ TurnGood(Facts, turn[t]) /\ TurnLive(Marks, turn[t])
        /\ turn[t].cust \in Customers
    BY Now DEF TabInv, TurnState
  <2>2. QED
    BY <2>1, TurnAside
<1>2. SessionLive'
  <2>1. ASSUME NEW c \in Customers
        PROVE  \/ Live(Marks', c, open'[c])
               \/ \E t \in Turns : turn'[t].cust = c /\ Settling(turn'[t])
    <3>1. open[c].type # "CLOSED" => About(Facts, c, open[c])
      BY DEF IInv, SessionGood, Prompt, Stands
    <3>2. Live(Marks, c, open[c]) => Live(Marks', c, open[c])
      BY <3>1, LiveAside
    <3>3. QED
      BY <3>2 DEF TabInv, SessionLive
  <2>2. QED
    BY <2>1 DEF SessionLive
<1>3. QED
  BY <1>1, <1>2 DEF TabInv, OneChangePerQuestion

LEMMA TabExpiry ==
    ASSUME IInv, TabInv, Expiry
    PROVE  TabInv'
<1>1. code \in [Customers -> 0..MaxQuestions]
  BY DEF IInv, TypeOK, BankTypeOK
<1>2. /\ "expiry" \in Faults /\ turn' = turn /\ open' = open /\ changes' = changes
      /\ \A c \in Customers : code'[c] \in {0, code[c]}
  BY <1>1 DEF Expiry, CodeExpires, TokenExpires, chatVars
<1>3. QED
  BY <1>2, TabAllAside DEF Aside

LEMMA TabStutters ==
    ASSUME IInv, TabInv, UNCHANGED vars
    PROVE  TabInv'
BY TabAllAside DEF vars, bankVars, Aside

LEMMA InitTabInv == Init => TabInv
<1> SUFFICES ASSUME Init PROVE TabInv
  OBVIOUS
<1>1. \A c \in Customers : open[c].type = "CLOSED"
  BY DEF Init, Store!Init, Closed
<1>2. \A t \in Turns : turn[t].pc = "idle"
  BY DEF Init, Fresh
<1>3. \A q \in Questions : changes[q] = 0
  BY DEF Init, BankInit
<1>4. QED
  BY <1>1, <1>2, <1>3 DEF TabInv, SessionLive, Live, TurnLive, Telling, OneChangePerQuestion

LEMMA NextTab ==
    ASSUME "disconnect" \notin Faults
    PROVE  IInv /\ TabInv /\ OneTabEach /\ [Next]_vars => TabInv'
<1> SUFFICES ASSUME IInv, TabInv, OneTabEach, [Next]_vars PROVE TabInv'
  OBVIOUS
<1>1. ASSUME NEW t \in Turns, Step(t) PROVE TabInv'
  BY <1>1, TabEnter, TabReadCode, TabReadYes, TabGathering, TabPutQuestion, TabSendOtp,
     TabVerifyOtp, TabFulfil, TabReplied, TabRefused, TabCompose, TabDone, TabRecording DEF Step
<1>2. \A t \in Turns : ~Disconnect(t)
  BY DEF Disconnect
<1>3. QED
  BY <1>1, <1>2, TabSend, TabRestart, TabLapses, TabExpiry, TabStutters DEF Next

LEMMA SpecTabInv ==
    ASSUME "disconnect" \notin Faults
    PROVE  Spec /\ []OneTabEach => []TabInv
<1>1. IInv /\ TabInv /\ OneTabEach /\ [Next]_vars => TabInv'
  BY NextTab
<1> QED BY <1>1, InitTabInv, SpecIInv, PTL DEF Spec

\* Where each customer keeps to one tab and its connection holds, no question is
\* carried out twice: not by asking again, by a stored token, nor after an answer
\* of the bank was lost.
THEOREM ChatTurnOneChangePerQuestion ==
    ASSUME "disconnect" \notin Faults
    PROVE  Spec /\ []OneTabEach => []OneChangePerQuestion
<1>1. TabInv => OneChangePerQuestion
  BY DEF TabInv
<1> QED BY <1>1, SpecTabInv, PTL

\* Which turn a token comes from.
LEMMA TokensAreVerified ==
    ASSUME TypeOK, [Next]_vars, NEW q \in Questions, minted'[q] # minted[q]
    PROVE  \E t \in Turns : VerifyOtp(t) /\ turn[t].work.q = q /\ code[turn[t].cust] # 0
<1>1. minted' # minted
  OBVIOUS
<1>2. ASSUME UNCHANGED bankVars PROVE FALSE
  BY <1>1, <1>2 DEF bankVars
<1>3. ASSUME NEW t \in Turns, SendOtp(t) \/ Fulfil(t) PROVE FALSE
  BY <1>1, <1>3 DEF SendOtp, Fulfil, SendOtpCall, CarryOut, Texted, bankVars
<1>4. ~Expiry
  BY <1>1 DEF Expiry, CodeExpires, TokenExpires
<1>5. PICK t \in Turns : Step(t)
  BY <1>2, <1>4 DEF Next, vars, Send, Disconnect, Restart, SessionLapses
<1>6. VerifyOtp(t)
  BY <1>2, <1>3, <1>5
     DEF Step, Enter, ReadCode, ReadYes, Classify, Cards, Lookup, AskForMore, Answer,
         PutQuestion, ReadBank, Replied, Refused, Compose, KbFails, Result, Done, Record
<1>7. PICK answer :
         VerifyOtpCall(turn[t].cust, turn[t].work.q, turn[t].msg.otp = "right", answer)
  BY <1>6 DEF VerifyOtp
<1>8. /\ minted' = [minted EXCEPT ![turn[t].work.q] = @ + 1]
      /\ code[turn[t].cust] # 0
  BY <1>1, <1>7 DEF VerifyOtpCall, bankVars
<1>9. turn[t].work.q = q
  BY <1>8 DEF TypeOK, BankTypeOK
<1>10. QED
  BY <1>6, <1>8, <1>9

\* A code opens only the request it was texted for, in one tab over a good
\* connection, although the bank would take it for any of that phone's.
THEOREM ChatTurnCodeForItsOwnQuestion ==
    ASSUME "disconnect" \notin Faults
    PROVE  Spec /\ []OneTabEach => CodeForItsOwnQuestion
<1>1. ASSUME IInv, TabInv, [Next]_vars, NEW q \in Questions, minted'[q] # minted[q]
      PROVE  code[ask[q].cust] = q
  <2>1. PICK t \in Turns : VerifyOtp(t) /\ turn[t].work.q = q /\ code[turn[t].cust] # 0
    BY <1>1, TokensAreVerified DEF IInv
  <2>2. /\ turn[t].pc = "verifyOtp" /\ turn[t].work.type = "OTP_REQUIRED"
        /\ About(Facts, turn[t].cust, turn[t].work)
    BY <1>1, <2>1, Now DEF VerifyOtp, At, TurnGood, Prompt, Stands
  <2>3. Live(Marks, turn[t].cust, turn[t].work)
    BY <1>1, <2>2 DEF TabInv, TurnLive
  <2>4. QED
    BY <2>1, <2>2, <2>3 DEF Live, Marks, About, Facts
<1>2. IInv /\ TabInv /\ [Next]_vars =>
        [\A q \in Questions : minted'[q] # minted[q] => code[ask[q].cust] = q]_vars
  BY <1>1
<1> QED BY <1>2, SpecIInv, SpecTabInv, PTL DEF Spec, CodeForItsOwnQuestion

\* While tokens do not expire, a token the session keeps for a re-asked PIN is one
\* the bank still takes, in one tab over a good connection.
THEOREM ChatTurnStoredTokenIsGood ==
    ASSUME "disconnect" \notin Faults, "expiry" \notin Faults
    PROVE  Spec /\ []OneTabEach => []StoredTokenIsGood
<1>1. ASSUME IInv, TabInv, \A t \in Turns : At(t, "idle"),
             NEW c \in Customers, open[c].token # 0
      PROVE  TokenOf(open[c]) \in usable
  <2>1. Live(Marks, c, open[c])
    BY <1>1 DEF TabInv, SessionLive, Settling, Telling, At
  <2>2. open[c].type # "CLOSED"
    BY <1>1 DEF IInv, SessionGood, Prompt, Stands, Closed
  <2>3. QED
    BY <1>1, <2>1, <2>2 DEF Live, Marks, TokenOf
<1>2. IInv /\ TabInv => StoredTokenIsGood
  BY <1>1 DEF StoredTokenIsGood
<1> QED BY <1>2, SpecIInv, SpecTabInv, PTL

-----------------------------------------------------------------------------
(* The prompt on the screen is the step the session waits on.                *)

\* A step of a turn does not end it as done, unless it has told everything.
LEMMA GoesOn ==
    ASSUME IInv, NEW t \in Turns, Step(t), ~Done(t), ~Record(t)
    PROVE  \E U : /\ turn' = [turn EXCEPT ![t] = U]
                  /\ U.pc # "idle" \/ U.ended # "done"
<1> DEFINE T == turn[t]
           Good(U) == U.pc # "idle" \/ U.ended # "done"
<1>1. T \in TurnState /\ TurnGood(Facts, T)
  BY Now
<1>2. ASSUME NEW V \in TurnState, NEW o PROVE Good(Say(V, o))
  BY <1>2 DEF Say, TurnState
<1>3. ASSUME NEW V \in TurnState PROVE Good(Routed(V))
  BY RoutedShape DEF Said, Opens, GoesTo
<1>4. ASSUME NEW V \in TurnState, NEW s \in Services PROVE Good(Requested(V, s))
  BY RequestedShape DEF Said, Opens
<1>5. ASSUME NEW V \in TurnState, NEW declined \in BOOLEAN, V.work.service \in Services
      PROVE  Good(CodeStep(V, declined))
  BY <1>5, CodeStepShape DEF Said, Told, GoesTo
<1>6. ASSUME NEW V \in TurnState, NEW pc \in Pcs \ {"idle"} PROVE Good([V EXCEPT !.pc = pc])
  BY DEF TurnState
<1>7. ASSUME NEW how \in {"error", "broken"} PROVE Good(End(T, how))
  BY <1>1, EndEnds
<1>8. CASE Enter(t)
  <2>1. PICK known \in BOOLEAN :
          LET m == T.msg
              last == IF known THEN open[T.cust] ELSE Closed
              K == [T EXCEPT !.known = known]
              W == [K EXCEPT !.work = last]
          IN  \/ AwaitsCode(last, m) /\ Becomes(t, [W EXCEPT !.pc = "readCode"])
              \/ AwaitsCode(last, m) /\ Becomes(t, CodeStep(W, FALSE))
              \/ Becomes(t, Heard(K))
              \/ Becomes(t, [W EXCEPT !.pc = "readYes"])
              \/ Becomes(t, Routed(K))
    BY <1>8 DEF Enter
  <2> DEFINE last == IF known THEN open[T.cust] ELSE Closed
             K == [T EXCEPT !.known = known]
             W == [K EXCEPT !.work = last]
  <2>2. /\ last \in Class /\ Prompt(Facts, T.cust, last)
    BY <1>1, Constants, ClosedIsPrompt DEF IInv, TypeOK, SessionGood, TurnState
  <2> HIDE DEF last
  <2>3. K \in TurnState /\ W \in TurnState /\ W.work = last
    BY <1>1, <2>2 DEF TurnState
  <2> HIDE DEF K, W
  <2>4. AwaitsCode(last, T.msg) => last.service \in Services
    BY <2>2 DEF AwaitsCode, Prompt, Stands, About
  <2>5. /\ AwaitsCode(last, T.msg) => Good(CodeStep(W, FALSE))
        /\ Good([W EXCEPT !.pc = "readCode"]) /\ Good([W EXCEPT !.pc = "readYes"])
        /\ Good(Heard(K)) /\ Good(Routed(K))
    BY <2>3, <2>4, <1>2, <1>3, <1>5, <1>6 DEF Heard, Pcs
  <2> HIDE DEF Good
  <2>6. QED
    BY <2>1, <2>5 DEF Becomes, last, K, W, Good
<1>9. CASE ReadCode(t)
  <2> DEFINE moved == [T EXCEPT !.work = Closed]
  <2>1. PICK reading :
           \/ Becomes(t, Heard(moved)) \/ Becomes(t, Routed(moved))
           \/ Becomes(t, CodeStep(T, reading = "decline"))
    BY <1>9 DEF ReadCode
  <2>2. moved \in TurnState /\ T.work.service \in Services
    BY <1>1, <1>9, Constants DEF TurnState, ReadCode, At, TurnGood, Prompt, Stands, About
  <2> HIDE DEF moved
  <2>3. Good(Heard(moved)) /\ Good(Routed(moved)) /\ Good(CodeStep(T, reading = "decline"))
    BY <1>1, <2>2, <1>2, <1>3, <1>5 DEF Heard
  <2>4. QED
    BY <2>1, <2>3 DEF Becomes
<1>10. CASE ReadYes(t)
  <2> DEFINE moved == [T EXCEPT !.work = Closed]
  <2>1. \/ Becomes(t, Routed(moved)) \/ \E o : Becomes(t, Say(T, o))
        \/ Becomes(t, [T EXCEPT !.pc = "sendOtp"]) \/ Becomes(t, [T EXCEPT !.pc = "fulfil"])
    BY <1>10 DEF ReadYes
  <2>2. moved \in TurnState
    BY <1>1, Constants DEF TurnState
  <2> HIDE DEF moved
  <2>3. /\ Good(Routed(moved)) /\ \A o : Good(Say(T, o))
        /\ Good([T EXCEPT !.pc = "sendOtp"]) /\ Good([T EXCEPT !.pc = "fulfil"])
    BY <1>1, <2>2, <1>2, <1>3, <1>6 DEF Pcs
  <2> HIDE DEF Good
  <2>4. QED
    BY <2>1, <2>3 DEF Becomes, Good
<1>11. CASE Classify(t) \/ Cards(t) \/ Lookup(t) \/ AskForMore(t) \/ Answer(t) \/ ReadBank(t)
  <2>1. \/ \E o : Becomes(t, Say(T, o)) \/ \E s \in Services : Becomes(t, Requested(T, s))
        \/ Becomes(t, End(T, "error")) \/ Becomes(t, End(T, "broken"))
        \/ Becomes(t, [T EXCEPT !.pc = "gather"]) \/ Becomes(t, [T EXCEPT !.pc = "readBank"])
    BY <1>11 DEF Classify, Cards, Lookup, AskForMore, Answer, ReadBank
  <2>2. /\ \A o : Good(Say(T, o)) /\ \A s \in Services : Good(Requested(T, s))
        /\ Good(End(T, "error")) /\ Good(End(T, "broken"))
        /\ Good([T EXCEPT !.pc = "gather"]) /\ Good([T EXCEPT !.pc = "readBank"])
    BY <1>1, <1>2, <1>4, <1>6, <1>7 DEF Pcs
  <2> HIDE DEF Good
  <2>3. QED
    BY <2>1, <2>2 DEF Becomes, Good
<1>12. CASE PutQuestion(t) \/ SendOtp(t) \/ VerifyOtp(t)
  <2>1. \/ \E o : Becomes(t, Say(T, o))
        \/ \E w : Becomes(t, [T EXCEPT !.work = w, !.pc = "sendOtp"])
        \/ \E n : Becomes(t, [T EXCEPT !.pc = "fulfil", !.work.token = n])
        \/ Becomes(t, [T EXCEPT !.pc = "sendOtp"])
    BY <1>12 DEF PutQuestion, SendOtp, VerifyOtp, AfterSend
  <2>2. /\ \A o : Good(Say(T, o)) /\ Good([T EXCEPT !.pc = "sendOtp"])
        /\ \A w : Good([T EXCEPT !.work = w, !.pc = "sendOtp"])
        /\ \A n : Good([T EXCEPT !.pc = "fulfil", !.work.token = n])
    BY <1>1, <1>2, <1>6 DEF Pcs, TurnState
  <2> HIDE DEF Good
  <2>3. QED
    BY <2>1, <2>2 DEF Becomes, Good
<1>13. CASE Fulfil(t) \/ Replied(t) \/ Refused(t) \/ Compose(t) \/ KbFails(t)
  <2>1. \/ \E o : Becomes(t, Say(T, o))
        \/ Becomes(t, [T EXCEPT !.pc = "reply", !.acted = TRUE])
        \/ Becomes(t, [T EXCEPT !.pc = "sendOtp"])
        \/ \E n : Becomes(t, [T EXCEPT !.pc = "result", !.audited = n])
        \/ Becomes(t, End(T, "error"))
    BY <1>13 DEF Fulfil, Replied, Refused, Compose, KbFails
  <2>2. /\ \A o : Good(Say(T, o)) /\ Good([T EXCEPT !.pc = "reply", !.acted = TRUE])
        /\ Good([T EXCEPT !.pc = "sendOtp"]) /\ Good(End(T, "error"))
        /\ \A n : Good([T EXCEPT !.pc = "result", !.audited = n])
    BY <1>1, <1>2, <1>6, <1>7 DEF Pcs, TurnState
  <2> HIDE DEF Good
  <2>3. QED
    BY <2>1, <2>2 DEF Becomes, Good
<1>14. CASE Result(t)
  <2> DEFINE V == [T EXCEPT !.pc = "done", !.results = @ + 1, !.audited = Audited(T, "after")]
  <2>1. Becomes(t, V) /\ V.pc = "done"
    BY <1>1, <1>14 DEF Result, TurnState
  <2> HIDE DEF V
  <2>2. QED
    BY <2>1 DEF Becomes
<1>15. QED
  BY <1>8, <1>9, <1>10, <1>11, <1>12, <1>13, <1>14 DEF Step

\* Only a turn's own customer's session is recorded.
LEMMA OthersOpen ==
    ASSUME IInv, NEW t \in Turns, Step(t), NEW c \in Customers, c # turn[t].cust
    PROVE  open'[c] = open[c] /\ turn[t].pc # "idle"
<1>1. Recorded(turn[t]) => open'[c] = open[c]
  BY DEF Recorded, Store!Record, IInv, TypeOK
<1>2. QED
  BY <1>1
     DEF Step, Enter, ReadCode, ReadYes, Classify, Cards, Lookup, AskForMore, Answer,
         PutQuestion, ReadBank, SendOtp, VerifyOtp, Fulfil, Replied, Refused, Compose, KbFails,
         Result, Done, Record, At

\* What the customer sees of a turn that is over is what the session waits on.
LEMMA EndsOpen ==
    ASSUME IInv, TabInv, NEW t \in Turns, Done(t) \/ Record(t)
    PROVE  \E U : /\ turn' = [turn EXCEPT ![t] = U] /\ U.cust = turn[t].cust
                  /\ U.pc = "idle" /\ U.ended = "done" /\ U.outcome.class.type # "CLOSED"
                        => open'[U.cust] = U.outcome.class
<1> DEFINE T == turn[t]
           E == End(T, "done")
           V == [T EXCEPT !.pc = "record", !.ended = "done"]
<1>1. T \in TurnState /\ TurnLive(Marks, T) /\ T.cust \in Customers /\ T.outcome \in Outcome
  BY Now DEF TabInv, TurnState
<1>2. E.cust = T.cust /\ E.outcome.class = T.outcome.class
  <2>1. E.outcome = Tell(T.outcome.class, T.outcome.executed, "after", "after")
    BY <1>1 DEF End, TurnState
  <2>2. QED
    BY <1>1, <2>1, EndEnds DEF Tell
<1>3. V.cust = T.cust /\ V.pc = "record"
  BY <1>1 DEF TurnState
<1> HIDE DEF E, V
<1>4. CASE Done(t)
  <2>1. T.pc = "done" /\ open' = open
        /\ turn' = [turn EXCEPT ![t] = IF T.outcome.record = "after" THEN V ELSE E]
    BY <1>4 DEF Done, At, Becomes, E, V
  <2>2. CASE T.outcome.record = "after"
    BY <1>3, <2>1, <2>2
  <2>3. CASE T.outcome.record # "after"
    <3>1. T.outcome.class.type = "CLOSED"
      BY <1>1, <2>1, <2>3 DEF TurnLive, Telling
    <3>2. QED
      BY <1>2, <2>1, <2>3, <3>1
  <2>4. QED
    BY <2>2, <2>3
<1>5. CASE Record(t)
  <2>1. T.pc = "record" /\ Recorded(T) /\ turn' = [turn EXCEPT ![t] = E]
    BY <1>5 DEF Record, At, Becomes, E
  <2>2. T.outcome.class.type # "CLOSED" => open'[T.cust] = T.outcome.class
    BY <1>1, <2>1 DEF TurnLive, Telling, Recorded, Store!Record, IInv, TypeOK
  <2>3. QED
    BY <1>2, <2>1, <2>2
<1>6. QED
  BY <1>4, <1>5

LEMMA StepPrompt ==
    ASSUME IInv, TabInv, OneTabEach, PromptStaysOpen, NEW t \in Turns, Step(t)
    PROVE  PromptStaysOpen'
<1>1. PICK U : /\ turn' = [turn EXCEPT ![t] = U]
               /\ U.pc = "idle" /\ U.ended = "done" /\ U.outcome.class.type # "CLOSED"
                     => open'[U.cust] = U.outcome.class
  BY GoesOn, EndsOpen
<1>2. turn[t].pc # "idle" /\ turn[t].cust \in Customers
  <2>1. turn[t].pc # "idle"
    BY DEF Step, Enter, ReadCode, ReadYes, Classify, Cards, Lookup, AskForMore, Answer,
           PutQuestion, ReadBank, SendOtp, VerifyOtp, Fulfil, Replied, Refused, Compose,
           KbFails, Result, Done, Record, At
  <2>2. QED
    BY <2>1, Now DEF TurnState
<1>3. ASSUME NEW u \in Turns, turn'[u].pc = "idle", turn'[u].ended = "done",
             turn'[u].outcome.class.type # "CLOSED"
      PROVE  open'[turn'[u].cust] = turn'[u].outcome.class
  <2>1. CASE u = t
    BY <1>1, <1>3, <2>1 DEF IInv, TypeOK
  <2>2. CASE u # t
    <3>1. turn'[u] = turn[u] /\ turn[u].cust \in Customers
      BY <1>1, <2>2, Now DEF IInv, TypeOK, TurnState
    <3>2. open[turn[u].cust] = turn[u].outcome.class
      BY <1>3, <3>1 DEF PromptStaysOpen, At
    <3>3. turn[u].cust # turn[t].cust
      BY <1>2, <1>3, <2>2, <3>1 DEF OneTabEach, InUse
    <3>4. QED
      BY <3>1, <3>2, <3>3, OthersOpen
  <2>3. QED
    BY <2>1, <2>2
<1>4. QED
  BY <1>3 DEF PromptStaysOpen, At

LEMMA NextPrompt ==
    ASSUME "disconnect" \notin Faults, "restart" \notin Faults, "lapse" \notin Faults
    PROVE  IInv /\ TabInv /\ OneTabEach /\ PromptStaysOpen /\ [Next]_vars => PromptStaysOpen'
<1> SUFFICES ASSUME IInv, TabInv, OneTabEach, PromptStaysOpen, [Next]_vars
             PROVE  PromptStaysOpen'
  OBVIOUS
<1>1. ASSUME NEW t \in Turns, NEW c \in Customers, NEW m \in Messages, Send(t, c, m)
      PROVE  PromptStaysOpen'
  <2> DEFINE U == [Fresh(c) EXCEPT !.pc = "verify", !.msg = m]
  <2>1. turn' = [turn EXCEPT ![t] = U] /\ open' = open
    BY <1>1 DEF Send, Becomes
  <2>2. U.pc = "verify"
    BY DEF Fresh
  <2> HIDE DEF U
  <2>3. QED
    BY <2>1, <2>2 DEF PromptStaysOpen, At, IInv, TypeOK
<1>2. CASE UNCHANGED <<turn, open>>
  BY <1>2 DEF PromptStaysOpen, At
<1>3. /\ ~Restart /\ \A t \in Turns : ~Disconnect(t)
      /\ \A c \in Customers : ~SessionLapses(c)
  BY DEF Restart, Disconnect, SessionLapses
<1>4. Expiry \/ UNCHANGED vars => UNCHANGED <<turn, open>>
  BY DEF Expiry, vars, chatVars
<1>5. ASSUME NEW t \in Turns, Step(t) PROVE PromptStaysOpen'
  BY <1>5, StepPrompt
<1>6. QED
  BY <1>1, <1>2, <1>3, <1>4, <1>5 DEF Next

\* While the session lives, the yes/no or code prompt a finished turn left on its
\* customer's screen is the step the next message answers.
THEOREM ChatTurnPromptStaysOpen ==
    ASSUME "disconnect" \notin Faults, "restart" \notin Faults, "lapse" \notin Faults
    PROVE  Spec /\ []OneTabEach => []PromptStaysOpen
<1>1. IInv /\ TabInv /\ OneTabEach /\ PromptStaysOpen /\ [Next]_vars => PromptStaysOpen'
  BY NextPrompt
<1>2. Init => PromptStaysOpen
  BY DEF Init, Fresh, PromptStaysOpen, At
<1> QED BY <1>1, <1>2, SpecIInv, SpecTabInv, PTL DEF Spec

-----------------------------------------------------------------------------
(* What was declined or moved on from is not carried out.                    *)

\* A knowledge service that is switched off, or a lookup whose login is refused,
\* ends a turn that moved on without recording it (run moved_on).
CatalogueStaysOn == \A m \in Messages, s \in Services : GateOf[s] = "catalogue" => s \notin m.off
NoLookups == OpensForm \/ \A s \in Services : GateOf[s] # "add"

Away(a, q) == a[q].no \/ a[q].dropped
Standing(a, w) == w.type # "CLOSED" => ~Away(a, w.q)

\* The turn will record that its customer has left the step they were in.
Moving == {"classify", "cards", "lookup", "gather", "readBank",
           "sendOtp", "verifyOtp", "fulfil", "reply"}
Leaving(T) ==
    /\ T.known
    /\ \/ T.pc \in Moving
       \/ T.pc \in {"compose", "result"} /\ T.outcome.record \in {"after", "before"}
       \/ T.pc \in {"done", "record"} /\ T.outcome.record = "after"

Offered(m) == \A s \in Services : GateOf[s] = "catalogue" => s \notin m.off
TurnStanding(a, T) ==
    /\ T.pc \in {"readCode", "readYes", "sendOtp", "verifyOtp", "fulfil"} => ~Away(a, T.work.q)
    /\ T.pc \in Telling => Standing(a, T.outcome.class)
    /\ T.pc # "lookup" /\ Offered(T.msg)

SessionStanding ==
    \A c \in Customers : \/ Standing(ask, open[c])
                         \/ \E t \in Turns : turn[t].cust = c /\ Leaving(turn[t])
LeftInv == SessionStanding /\ \A t \in Turns : TurnStanding(ask, turn[t])

\* No question of customer c is declined or moved on from.
Unheard(c) ==
    \A q \in 1..asked : ask[q].cust = c =>
        ask'[q].no = ask[q].no /\ ask'[q].dropped = ask[q].dropped

LEMMA StandingStill ==
    ASSUME NEW c, NEW w, w.type # "CLOSED" => About(Facts, c, w), Standing(ask, w), Unheard(c)
    PROVE  Standing(ask', w)
BY DEF Standing, Away, Unheard, About, Facts

LEMMA TurnStandingStill ==
    ASSUME NEW T \in TurnState, TurnGood(Facts, T), TurnStanding(ask, T), Unheard(T.cust)
    PROVE  TurnStanding(ask', T)
<1>1. CASE T.pc \in {"readCode", "readYes", "sendOtp", "verifyOtp", "fulfil"}
  <2>1. About(Facts, T.cust, T.work)
    BY <1>1 DEF TurnGood, Cleared, Prompt, Stands, MayText
  <2>2. QED
    BY <1>1, <2>1 DEF TurnStanding, Away, Unheard, About, Facts, Telling
<1>2. CASE T.pc \in Telling
  <2>1. T.outcome.class.type # "CLOSED" => About(Facts, T.cust, T.outcome.class)
    BY <1>2 DEF TurnGood, Prompt, Stands, Telling
  <2>2. QED
    BY <1>2, <2>1, StandingStill DEF TurnStanding, Telling
<1>3. QED
  BY <1>1, <1>2 DEF TurnStanding

LEMMA TheirsStands ==
    ASSUME IInv, LeftInv, OneTabEach, NEW t \in Turns, turn[t].pc # "idle", ~Leaving(turn[t])
    PROVE  Standing(ask, open[turn[t].cust])
<1>1. turn[t].cust \in Customers
  BY Now DEF TurnState
<1>2. ASSUME NEW u \in Turns, turn[u].cust = turn[t].cust, Leaving(turn[u]) PROVE FALSE
  BY <1>2, OnlyTheirs DEF Leaving, Moving
<1>3. QED
  BY <1>1, <1>2 DEF LeftInv, SessionStanding

LEMMA LeftMoves ==
    ASSUME IInv, LeftInv, OneTabEach, NEW t \in Turns, turn[t].pc # "idle",
           NEW U, turn' = [turn EXCEPT ![t] = U], U.cust = turn[t].cust,
           \A c \in Customers \ {U.cust} : Unheard(c) /\ open'[c] = open[c],
           TurnStanding(ask', U), Standing(ask', open'[U.cust]) \/ Leaving(U)
    PROVE  LeftInv'
<1>1. turn \in [Turns -> TurnState] /\ turn'[t] = U
  BY DEF IInv, TypeOK
<1>2. ASSUME NEW u \in Turns PROVE TurnStanding(ask', turn'[u])
  <2>1. CASE u = t
    BY <1>1, <2>1
  <2>2. CASE u # t /\ turn[u].pc = "idle"
    BY <1>1, <2>2 DEF TurnStanding, Telling, LeftInv
  <2>3. CASE u # t /\ turn[u].pc # "idle"
    <3>1. turn[u] \in TurnState /\ TurnGood(Facts, turn[u]) /\ TurnStanding(ask, turn[u])
      BY Now DEF LeftInv
    <3>2. turn[u].cust \in Customers \ {U.cust}
      BY <2>3, <3>1, OnlyTheirs DEF TurnState
    <3>3. TurnStanding(ask', turn[u])
      BY <3>1, <3>2, TurnStandingStill
    <3>4. QED
      BY <1>1, <2>3, <3>3
  <2>4. QED
    BY <2>1, <2>2, <2>3
<1>3. ASSUME NEW c \in Customers
      PROVE  \/ Standing(ask', open'[c])
             \/ \E u \in Turns : turn'[u].cust = c /\ Leaving(turn'[u])
  <2>1. CASE c = U.cust
    BY <1>1, <2>1
  <2>2. CASE c # U.cust
    <3>1. Unheard(c) /\ open'[c] = open[c]
      BY <2>2
    <3>2. CASE Standing(ask, open[c])
      <4>1. open[c].type # "CLOSED" => About(Facts, c, open[c])
        BY DEF IInv, SessionGood, Prompt, Stands
      <4>2. QED
        BY <3>1, <3>2, <4>1, StandingStill
    <3>3. ASSUME NEW u \in Turns, turn[u].cust = c, Leaving(turn[u])
          PROVE  turn'[u].cust = c /\ Leaving(turn'[u])
      BY <1>1, <2>2, <3>3
    <3>4. QED
      BY <3>2, <3>3 DEF LeftInv, SessionStanding
  <2>3. QED
    BY <2>1, <2>2
<1>4. QED
  BY <1>2, <1>3 DEF LeftInv, SessionStanding

LEMMA LeftQuiet ==
    ASSUME IInv, LeftInv, OneTabEach, NEW t \in Turns, turn[t].pc # "idle",
           NEW U, turn' = [turn EXCEPT ![t] = U], U.cust = turn[t].cust, open' = open,
           \A c \in Customers : Unheard(c),
           TurnStanding(ask', U), Leaving(turn[t]) => Leaving(U)
    PROVE  LeftInv'
<1>1. turn[t].cust \in Customers
  BY Now DEF TurnState
<1>2. open[U.cust].type # "CLOSED" => About(Facts, U.cust, open[U.cust])
  BY <1>1 DEF IInv, SessionGood, Prompt, Stands
<1>3. Standing(ask', open'[U.cust]) \/ Leaving(U)
  BY <1>1, <1>2, TheirsStands, StandingStill
<1>4. QED
  BY <1>3, LeftMoves

-----------------------------------------------------------------------------
(* What a turn becomes.                                                      *)

\* The answers that leave nothing pending and are recorded.
Closing == {o \in Plain : o.record \in {"after", "before"}}

LEMMA ClosingOutcomes ==
    /\ \A a \in {"first", "after", "never"} : NotDone(a) \in Closing
    /\ {Answered, Emitted, SwitchedOff, KbAnswer, AppAnswer,
        Tell(Closed, "unsaid", "first", "before")} \subseteq Closing
    /\ \A w : Unavailable(w) \in Closing
<1>1. \A e \in {"unsaid", "no"}, a \in {"first", "after", "never"}, r \in {"after", "before"} :
         Tell(Closed, e, a, r) \in Closing
  BY Constants, OutcomesAreOutcomes DEF Closing, Plain
<1>2. \A w : AuditOf(w) \in {"first", "after"}
  BY DEF AuditOf
<1>3. QED
  BY <1>1, <1>2 DEF NotDone, Answered, Emitted, SwitchedOff, KbAnswer, AppAnswer, Unavailable

LEMMA SayStanding ==
    ASSUME NEW a, NEW T \in TurnState, NEW o \in Outcome, Standing(a, o.class)
    PROVE  /\ TurnStanding(a, Say(T, o)) /\ Say(T, o).cust = T.cust
           /\ T.known /\ o.record \in {"after", "before"} => Leaving(Say(T, o))
<1> DEFINE U == Say(T, o)
<1>1. Told(T, U, o) /\ U.msg = NoMessage
  BY SayTells DEF Say, TurnState
<1> HIDE DEF U
<1>2. TurnStanding(a, U)
  BY <1>1 DEF TurnStanding, Told, Telling, Offered, NoMessage
<1>3. QED
  BY <1>1, <1>2 DEF Told, Kept, Leaving, U

LEMMA PlainStanding ==
    ASSUME NEW a, NEW T \in TurnState, NEW o \in Plain
    PROVE  /\ TurnStanding(a, Say(T, o)) /\ Say(T, o).cust = T.cust
           /\ T.known /\ o \in Closing => Leaving(Say(T, o))
<1>1. o \in Outcome /\ Standing(a, o.class) /\ (o \in Closing => o.record \in {"after", "before"})
  BY DEF Plain, Standing, Closed, Closing
<1>2. QED
  BY <1>1, SayStanding

LEMMA AskStanding ==
    ASSUME NEW a, NEW T \in TurnState, NEW w \in Class, NEW when \in {"first", "after"},
           Standing(a, w)
    PROVE  /\ TurnStanding(a, Say(T, Ask(w, when))) /\ Say(T, Ask(w, when)).cust = T.cust
           /\ T.known => Leaving(Say(T, Ask(w, when)))
BY AskAsks, AskRecords, SayStanding

\* The turn goes on with the same message, and with the same question if any.
LEMMA GoingStanding ==
    ASSUME NEW a, NEW T \in TurnState, Offered(T.msg),
           NEW U, NEW pc \in Early \ {"lookup"}, NEW w, GoesTo(T, U, pc, w), U.msg = T.msg,
           pc \in {"readCode", "readYes", "sendOtp", "verifyOtp", "fulfil"} => ~Away(a, w.q)
    PROVE  /\ TurnStanding(a, U) /\ U.cust = T.cust
           /\ T.known /\ pc \in Moving => Leaving(U)
BY DEF GoesTo, Kept, TurnStanding, Telling, Early, Leaving

LEMMA RequestedStanding ==
    ASSUME NoLookups, NEW a, NEW T \in TurnState, Offered(T.msg), NEW s \in Services
    PROVE  /\ TurnStanding(a, Requested(T, s)) /\ Requested(T, s).cust = T.cust
           /\ T.known => Leaving(Requested(T, s))
<1> DEFINE w == [Closed EXCEPT !.service = s]
           T2 == [T EXCEPT !.work = w]
<1>1. w \in Class
  BY BankAssumption DEF Closed, Class
<1>2. T2 \in TurnState /\ GoesTo(T, T2, T.pc, w) /\ T2.msg = T.msg
  BY <1>1 DEF TurnState, GoesTo, Kept
<1>3. GateOf[s] \in Gates /\ T.known \in BOOLEAN
  BY Constants DEF TurnState
<1> HIDE DEF w, T2
<1>4. ASSUME NEW pc \in {"cards", "gather"}
      PROVE  /\ TurnStanding(a, [T2 EXCEPT !.pc = pc]) /\ [T2 EXCEPT !.pc = pc].cust = T.cust
             /\ T.known => Leaving([T2 EXCEPT !.pc = pc])
  <2> DEFINE U == [T2 EXCEPT !.pc = pc]
  <2>1. /\ GoesTo(T2, U, pc, T2.work) /\ U.msg = T2.msg
        /\ pc \in Early \ {"lookup"} /\ pc \in Moving
    BY <1>2, Going DEF TurnState, Pcs, Early, Moving
  <2> HIDE DEF U
  <2>2. QED
    BY <1>2, <2>1, GoingStanding DEF GoesTo, Kept, U
<1>5. /\ Requested(T, s) \in {Say(T, KbAnswer), Say(T, Answered), Say(T, SwitchedOff),
                              Say(T, Emitted), [T2 EXCEPT !.pc = "cards"],
                              [T2 EXCEPT !.pc = "gather"]}
  BY <1>3 DEF Requested, T2, w, Gates, Offered, NoLookups
<1>6. ASSUME NEW o \in {KbAnswer, Answered, SwitchedOff, Emitted}
      PROVE  /\ TurnStanding(a, Say(T, o)) /\ Say(T, o).cust = T.cust
             /\ T.known => Leaving(Say(T, o))
  <2>1. o \in Closing /\ o \in Plain
    BY ClosingOutcomes DEF Closing
  <2>2. QED
    BY <2>1, PlainStanding
<1>7. QED
  BY <1>4, <1>5, <1>6

LEMMA RoutedStanding ==
    ASSUME NoLookups, NEW a, NEW T \in TurnState, Offered(T.msg)
    PROVE  /\ TurnStanding(a, Routed(T)) /\ Routed(T).cust = T.cust
           /\ T.known => Leaving(Routed(T))
<1>1. CASE T.msg.route = None
  <2> DEFINE U == [T EXCEPT !.pc = "classify"]
  <2>1. /\ GoesTo(T, U, "classify", T.work) /\ U.msg = T.msg
        /\ "classify" \in Early \ {"lookup"} /\ "classify" \in Moving
    BY Going DEF TurnState, Pcs, Early, Moving
  <2>2. Routed(T) = U
    BY <1>1 DEF Routed, None, Invalid
  <2> HIDE DEF U
  <2>3. QED
    BY <2>1, <2>2, GoingStanding
<1>2. CASE T.msg.route = Invalid /\ T.msg.route # None
  <2>1. Answered \in Closing /\ Answered \in Plain
    BY ClosingOutcomes DEF Closing
  <2>2. QED
    BY <1>2, <2>1, PlainStanding DEF Routed
<1>3. CASE T.msg.route \in Services
  BY <1>3, RequestedStanding, ChatTurnAssumption DEF Routed
<1>4. QED
  BY <1>1, <1>2, <1>3 DEF TurnState, Message

LEMMA CodeStepStanding ==
    ASSUME NEW a, NEW T \in TurnState, Offered(T.msg), NEW declined \in BOOLEAN,
           (declined /\ ~Submitted(T.work, T.msg)) \/ ~Away(a, T.work.q)
    PROVE  /\ TurnStanding(a, CodeStep(T, declined)) /\ CodeStep(T, declined).cust = T.cust
           /\ T.known => Leaving(CodeStep(T, declined))
<1>1. ASSUME NEW o \in {SwitchedOff, NotDone("first")}
      PROVE  /\ TurnStanding(a, Say(T, o)) /\ Say(T, o).cust = T.cust
             /\ T.known => Leaving(Say(T, o))
  <2>1. o \in Closing /\ o \in Plain
    BY ClosingOutcomes DEF Closing
  <2>2. QED
    BY <2>1, PlainStanding
<1>2. CASE ~Away(a, T.work.q)
  <2>1. T.work \in Class /\ Standing(a, T.work)
    BY <1>2 DEF TurnState, Standing
  <2>2. /\ TurnStanding(a, Say(T, Ask(T.work, "first"))) /\ Say(T, Ask(T.work, "first")).cust = T.cust
        /\ T.known => Leaving(Say(T, Ask(T.work, "first")))
    BY <2>1, AskStanding
  <2>3. ASSUME NEW pc \in {"verifyOtp", "fulfil"}
        PROVE  /\ TurnStanding(a, [T EXCEPT !.pc = pc]) /\ [T EXCEPT !.pc = pc].cust = T.cust
               /\ T.known => Leaving([T EXCEPT !.pc = pc])
    <3> DEFINE U == [T EXCEPT !.pc = pc]
    <3>1. /\ GoesTo(T, U, pc, T.work) /\ U.msg = T.msg
          /\ pc \in Early \ {"lookup"} /\ pc \in Moving
      BY Going DEF TurnState, Pcs, Early, Moving
    <3> HIDE DEF U
    <3>2. QED
      BY <1>2, <3>1, GoingStanding DEF U
  <2>4. CodeStep(T, declined) \in {Say(T, SwitchedOff), Say(T, NotDone("first")),
            Say(T, Ask(T.work, "first")), [T EXCEPT !.pc = "verifyOtp"], [T EXCEPT !.pc = "fulfil"]}
    BY DEF CodeStep
  <2>5. QED
    BY <1>1, <2>2, <2>3, <2>4
<1>3. CASE declined /\ ~Submitted(T.work, T.msg)
  <2>1. CodeStep(T, declined) \in {Say(T, SwitchedOff), Say(T, NotDone("first"))}
    BY <1>3 DEF CodeStep
  <2>2. QED
    BY <1>1, <2>1
<1>4. QED
  BY <1>2, <1>3

-----------------------------------------------------------------------------
(* Each step keeps it.                                                       *)

LEMMA LeftSend ==
    ASSUME CatalogueStaysOn, IInv, LeftInv,
           NEW t \in Turns, NEW c \in Customers, NEW m \in Messages, Send(t, c, m)
    PROVE  LeftInv'
<1> DEFINE U == [Fresh(c) EXCEPT !.pc = "verify", !.msg = m]
<1>1. turn[t].pc = "idle" /\ turn' = [turn EXCEPT ![t] = U] /\ open' = open /\ ask' = ask
  BY DEF Send, At, Becomes
<1>2. U.pc = "verify" /\ U.msg = m
  BY DEF Fresh
<1> HIDE DEF U
<1>3. turn \in [Turns -> TurnState]
  BY DEF IInv, TypeOK
<1>4. TurnStanding(ask, U)
  BY <1>2 DEF TurnStanding, Telling, Offered, CatalogueStaysOn
<1>5. \A u \in Turns : Leaving(turn[u]) => turn'[u] = turn[u]
  BY <1>1, <1>3 DEF Leaving, Moving
<1>6. SessionStanding'
  <2>1. ASSUME NEW d \in Customers
        PROVE  \/ Standing(ask', open'[d])
               \/ \E u \in Turns : turn'[u].cust = d /\ Leaving(turn'[u])
    BY <1>1, <1>5 DEF LeftInv, SessionStanding
  <2>2. QED
    BY <2>1 DEF SessionStanding
<1>7. \A u \in Turns : TurnStanding(ask', turn'[u])
  BY <1>1, <1>3, <1>4 DEF LeftInv
<1>8. QED
  BY <1>6, <1>7 DEF LeftInv

LEMMA AllUnheard ==
    ASSUME ask' = ask, NEW c
    PROVE  Unheard(c)
BY DEF Unheard

LEMMA LeftEnter ==
    ASSUME NoLookups, IInv, TabInv, LeftInv, OneTabEach, NEW t \in Turns, Enter(t)
    PROVE  LeftInv'
<1> DEFINE T == turn[t]
<1>1. PICK known \in BOOLEAN :
          LET m == T.msg
              last == IF known THEN open[T.cust] ELSE Closed
              K == [T EXCEPT !.known = known]
              W == [K EXCEPT !.work = last]
          IN  \/ AwaitsCode(last, m) /\ Becomes(t, [W EXCEPT !.pc = "readCode"])
              \/ AwaitsCode(last, m) /\ Becomes(t, CodeStep(W, FALSE))
              \/ Becomes(t, Heard(K))
              \/ AwaitsYes(last, m) /\ Becomes(t, [W EXCEPT !.pc = "readYes"])
              \/ Becomes(t, Routed(K))
  BY DEF Enter
<1> DEFINE last == IF known THEN open[T.cust] ELSE Closed
           K == [T EXCEPT !.known = known]
           W == [K EXCEPT !.work = last]
<1>2. /\ T \in TurnState /\ T.pc = "verify" /\ T.cust \in Customers /\ open' = open /\ ask' = ask
      /\ ~Leaving(T) /\ Offered(T.msg)
  BY Now DEF Enter, At, TurnState, Leaving, Moving, LeftInv, TurnStanding
<1>3. /\ last \in Class /\ Standing(ask, last) /\ Prompt(Facts, T.cust, last)
  <2>1. Standing(ask, open[T.cust])
    BY <1>2, TheirsStands
  <2>2. Standing(ask, Closed)
    BY DEF Standing, Closed
  <2>3. QED
    BY <1>2, <2>1, <2>2, Constants, ClosedIsPrompt DEF IInv, TypeOK, SessionGood
<1> HIDE DEF last
<1>4. K \in TurnState /\ K.cust = T.cust /\ K.msg = T.msg
  BY <1>2 DEF TurnState
<1>5. W \in TurnState /\ W.cust = T.cust /\ W.msg = T.msg /\ W.work = last
  BY <1>2, <1>3 DEF TurnState
<1> HIDE DEF K, W
<1>6. last.type # "CLOSED" => ~Away(ask, last.q)
  BY <1>3 DEF Standing
<1>7. ASSUME NEW pc \in {"readCode", "readYes"}, last.type # "CLOSED"
      PROVE  TurnStanding(ask, [W EXCEPT !.pc = pc]) /\ [W EXCEPT !.pc = pc].cust = T.cust
  <2> DEFINE U == [W EXCEPT !.pc = pc]
  <2>1. GoesTo(W, U, pc, last) /\ U.msg = W.msg /\ pc \in Early \ {"lookup"}
    BY <1>5, Going DEF TurnState, Pcs, Early
  <2> HIDE DEF U
  <2>2. QED
    BY <1>2, <1>5, <1>6, <1>7, <2>1, GoingStanding DEF U
<1>8. ASSUME last.type # "CLOSED"
      PROVE  TurnStanding(ask, CodeStep(W, FALSE)) /\ CodeStep(W, FALSE).cust = T.cust
  BY <1>2, <1>5, <1>6, <1>8, CodeStepStanding
<1>9. TurnStanding(ask, Heard(K)) /\ Heard(K).cust = T.cust
  BY <1>4, PlainOutcomes, PlainStanding DEF Heard
<1>10. TurnStanding(ask, Routed(K)) /\ Routed(K).cust = T.cust
  BY <1>2, <1>4, RoutedStanding
<1>11. \E U : turn' = [turn EXCEPT ![t] = U] /\ U.cust = T.cust /\ TurnStanding(ask, U)
  <2>1. /\ AwaitsCode(last, T.msg) => last.type # "CLOSED"
        /\ AwaitsYes(last, T.msg) => last.type # "CLOSED"
    BY DEF AwaitsCode, AwaitsYes
  <2>2. \/ AwaitsCode(last, T.msg) /\ Becomes(t, [W EXCEPT !.pc = "readCode"])
        \/ AwaitsCode(last, T.msg) /\ Becomes(t, CodeStep(W, FALSE))
        \/ Becomes(t, Heard(K))
        \/ AwaitsYes(last, T.msg) /\ Becomes(t, [W EXCEPT !.pc = "readYes"])
        \/ Becomes(t, Routed(K))
    BY <1>1 DEF last, K, W
  <2>3. QED
    BY <1>7, <1>8, <1>9, <1>10, <2>1, <2>2 DEF Becomes
<1>12. QED
  BY <1>2, <1>11, AllUnheard, LeftQuiet

\* Nobody else's question is answered by a turn's reply.
LEMMA OthersUnheard ==
    ASSUME TypeOK, NEW c, NEW q \in 1..asked, NEW r, ask' = [ask EXCEPT ![q] = r],
           NEW d, d # c, ask[q].cust = c
    PROVE  Unheard(d)
<1>1. \A p \in 1..asked : p \in Questions
  BY BankAssumption DEF TypeOK, Questions
<1>2. QED
  BY <1>1 DEF Unheard, TypeOK

LEMMA LeftReadCode ==
    ASSUME NoLookups, IInv, TabInv, LeftInv, OneTabEach, NEW t \in Turns, ReadCode(t)
    PROVE  LeftInv'
<1> DEFINE T == turn[t]
           q == T.work.q
           moved == [T EXCEPT !.work = Closed]
<1>1. PICK reading :
          /\ IF reading = "other"
             THEN Becomes(t, IF T.msg.heard THEN Heard(moved) ELSE Routed(moved))
             ELSE Becomes(t, CodeStep(T, reading = "decline"))
          /\ ask' = [ask EXCEPT ![q].dropped = @ \/ (reading = "other" /\ ~T.msg.heard),
                                ![q].no = @ \/ (reading = "decline"
                                                /\ ~Submitted(T.work, T.msg))]
  BY DEF ReadCode
<1>2. /\ T \in TurnState /\ T.pc = "readCode" /\ T.pc # "idle" /\ open' = open /\ T.known
      /\ T.cust \in Customers /\ About(Facts, T.cust, T.work) /\ ~Away(ask, q)
      /\ Offered(T.msg) /\ ~Leaving(T)
  BY Now DEF ReadCode, At, TurnGood, Prompt, Stands, TabInv, TurnLive, LeftInv, TurnStanding,
             TurnState, Leaving, Moving
<1>3. q \in 1..asked /\ ask[q].cust = T.cust /\ q \in Questions /\ ask \in [Questions -> Question]
  BY <1>2, BankAssumption DEF About, Facts, IInv, TypeOK, Questions
<1>4. /\ moved \in TurnState /\ moved.cust = T.cust /\ moved.msg = T.msg /\ moved.known
  BY <1>2, Constants DEF TurnState
<1> HIDE DEF moved
<1>5. \A d \in Customers \ {T.cust} : Unheard(d)
  <2>1. \E r : ask' = [ask EXCEPT ![q] = r]
    BY <1>1
  <2>2. QED
    BY <1>3, <2>1, OthersUnheard DEF IInv
<1>6. CASE reading = "other" /\ T.msg.heard
  <2>1. TurnStanding(ask', Heard(moved)) /\ Heard(moved).cust = T.cust
    BY <1>4, PlainOutcomes, PlainStanding DEF Heard
  <2>2. ask'[q].no = ask[q].no /\ ask'[q].dropped = ask[q].dropped
    BY <1>1, <1>3, <1>6 DEF Question
  <2>3. \A p \in 1..asked : p # q => ask'[p] = ask[p]
    BY <1>1, <1>3, BankAssumption DEF IInv, TypeOK, Questions
  <2>4. \A c \in Customers : Unheard(c)
    BY <2>2, <2>3 DEF Unheard
  <2>5. QED
    BY <1>1, <1>2, <1>6, <2>1, <2>4, LeftQuiet DEF Becomes
<1>7. CASE reading = "other" /\ ~T.msg.heard
  <2>1. TurnStanding(ask', Routed(moved)) /\ Routed(moved).cust = T.cust /\ Leaving(Routed(moved))
    BY <1>2, <1>4, RoutedStanding
  <2>2. QED
    BY <1>1, <1>2, <1>5, <1>7, <2>1, LeftMoves DEF Becomes
<1>8. CASE reading # "other"
  <2> DEFINE declined == reading = "decline"
  <2>1. (declined /\ ~Submitted(T.work, T.msg)) \/ ~Away(ask', q)
    BY <1>1, <1>2, <1>3, <1>8 DEF Away, Question
  <2>2. /\ TurnStanding(ask', CodeStep(T, declined)) /\ CodeStep(T, declined).cust = T.cust
        /\ Leaving(CodeStep(T, declined))
    BY <1>2, <2>1, CodeStepStanding
  <2>3. QED
    BY <1>1, <1>2, <1>5, <1>8, <2>2, LeftMoves DEF Becomes
<1>9. QED
  BY <1>6, <1>7, <1>8

LEMMA LeftReadYes ==
    ASSUME NoLookups, IInv, TabInv, LeftInv, OneTabEach, NEW t \in Turns, ReadYes(t)
    PROVE  LeftInv'
<1> DEFINE T == turn[t]
           w == T.work
           q == T.work.q
           moved == [T EXCEPT !.work = Closed]
<1>1. PICK reading :
          /\ \/ reading = "other" /\ Becomes(t, Routed(moved))
             \/ reading \notin {"other", "decline"} /\ Becomes(t, Say(T, SwitchedOff))
             \/ reading = "decline" /\ Becomes(t, Say(T, NotDone("after")))
             \/ reading \notin {"other", "decline"} /\ Becomes(t, Say(T, Ask(w, "after")))
             \/ /\ reading \notin {"other", "decline"}
                /\ \/ Becomes(t, [T EXCEPT !.pc = "sendOtp"])
                   \/ Becomes(t, [T EXCEPT !.pc = "fulfil"])
          /\ ask' = [ask EXCEPT ![q].dropped = @ \/ reading = "other",
                                ![q].no = @ \/ reading = "decline",
                                ![q].yes = @ \/ reading = "confirm"]
  BY DEF ReadYes
<1>2. /\ T \in TurnState /\ T.pc = "readYes" /\ T.pc # "idle" /\ open' = open /\ T.known
      /\ T.cust \in Customers /\ About(Facts, T.cust, w) /\ ~Away(ask, q) /\ w \in Class
      /\ Offered(T.msg) /\ ~Leaving(T)
  BY Now DEF ReadYes, At, TurnGood, Prompt, Stands, TabInv, TurnLive, LeftInv, TurnStanding,
             TurnState, Leaving, Moving
<1>3. q \in 1..asked /\ ask[q].cust = T.cust /\ q \in Questions /\ ask \in [Questions -> Question]
  BY <1>2, BankAssumption DEF About, Facts, IInv, TypeOK, Questions
<1>4. /\ moved \in TurnState /\ moved.cust = T.cust /\ moved.msg = T.msg /\ moved.known
  BY <1>2, Constants DEF TurnState
<1> HIDE DEF moved
<1>5. \A d \in Customers \ {T.cust} : Unheard(d)
  <2>1. \E r : ask' = [ask EXCEPT ![q] = r]
    BY <1>1
  <2>2. QED
    BY <1>3, <2>1, OthersUnheard DEF IInv
<1>6. reading \notin {"other", "decline"} => ~Away(ask', q)
  BY <1>1, <1>2, <1>3 DEF Away, Question
<1>7. TurnStanding(ask', Routed(moved)) /\ Routed(moved).cust = T.cust /\ Leaving(Routed(moved))
  BY <1>2, <1>4, RoutedStanding
<1>8. ASSUME NEW o \in {SwitchedOff, NotDone("after")}
      PROVE  TurnStanding(ask', Say(T, o)) /\ Say(T, o).cust = T.cust /\ Leaving(Say(T, o))
  <2>1. o \in Closing /\ o \in Plain
    BY ClosingOutcomes DEF Closing
  <2>2. QED
    BY <1>2, <2>1, PlainStanding
<1>9. ASSUME ~Away(ask', q)
      PROVE  /\ TurnStanding(ask', Say(T, Ask(w, "after"))) /\ Leaving(Say(T, Ask(w, "after")))
             /\ Say(T, Ask(w, "after")).cust = T.cust
  BY <1>2, <1>9, AskStanding DEF Standing
<1>10. ASSUME ~Away(ask', q), NEW pc \in {"sendOtp", "fulfil"}
       PROVE  /\ TurnStanding(ask', [T EXCEPT !.pc = pc]) /\ Leaving([T EXCEPT !.pc = pc])
              /\ [T EXCEPT !.pc = pc].cust = T.cust
  <2> DEFINE U == [T EXCEPT !.pc = pc]
  <2>1. /\ GoesTo(T, U, pc, w) /\ U.msg = T.msg /\ pc \in Early \ {"lookup"} /\ pc \in Moving
    BY <1>2, Going DEF TurnState, Pcs, Early, Moving
  <2> HIDE DEF U
  <2>2. QED
    BY <1>2, <1>10, <2>1, GoingStanding DEF U
<1>11. \E U : /\ turn' = [turn EXCEPT ![t] = U] /\ U.cust = T.cust
              /\ TurnStanding(ask', U) /\ Leaving(U)
  <2>1. CASE reading \in {"other", "decline"}
    BY <1>1, <1>7, <1>8, <2>1 DEF Becomes
  <2>2. CASE reading \notin {"other", "decline"}
    BY <1>1, <1>6, <1>8, <1>9, <1>10, <2>2 DEF Becomes
  <2>3. QED
    BY <2>1, <2>2
<1>12. QED
  BY <1>2, <1>5, <1>11, LeftMoves

\* A turn that goes to gather or to read from the bank.
LEMMA LeftGathering ==
    ASSUME NoLookups, "model" \notin Faults, IInv, LeftInv, OneTabEach, NEW t \in Turns,
           Classify(t) \/ Cards(t) \/ Lookup(t) \/ AskForMore(t) \/ Answer(t) \/ ReadBank(t)
    PROVE  LeftInv'
<1> DEFINE T == turn[t]
<1>1. /\ T \in TurnState /\ T.pc \in {"classify", "cards", "gather", "readBank"}
      /\ T.pc # "idle" /\ open' = open /\ ask' = ask /\ Offered(T.msg)
      /\ Leaving(T) => T.known
  BY Now DEF Classify, Cards, Lookup, AskForMore, Answer, ReadBank, At, LeftInv, TurnStanding,
             Leaving
<1>2. ASSUME NEW o \in {Answered, Emitted, KbAnswer, AppAnswer,
                        Tell(Closed, "unsaid", "first", "before")}
      PROVE  /\ TurnStanding(ask, Say(T, o)) /\ Say(T, o).cust = T.cust
             /\ T.known => Leaving(Say(T, o))
  <2>1. o \in Closing /\ o \in Plain
    BY ClosingOutcomes DEF Closing
  <2>2. QED
    BY <1>1, <2>1, PlainStanding
<1>3. ASSUME NEW s \in Services
      PROVE  /\ TurnStanding(ask, Requested(T, s)) /\ Requested(T, s).cust = T.cust
             /\ T.known => Leaving(Requested(T, s))
  BY <1>1, RequestedStanding
<1>4. ASSUME NEW pc \in {"gather", "readBank"}
      PROVE  /\ TurnStanding(ask, [T EXCEPT !.pc = pc]) /\ [T EXCEPT !.pc = pc].cust = T.cust
             /\ T.known => Leaving([T EXCEPT !.pc = pc])
  <2> DEFINE U == [T EXCEPT !.pc = pc]
  <2>1. /\ GoesTo(T, U, pc, T.work) /\ U.msg = T.msg
        /\ pc \in Early \ {"lookup"} /\ pc \in Moving
    BY <1>1, Going DEF TurnState, Pcs, Early, Moving
  <2> HIDE DEF U
  <2>2. QED
    BY <1>1, <2>1, GoingStanding DEF U
<1>5. \E U : /\ turn' = [turn EXCEPT ![t] = U] /\ U.cust = T.cust
             /\ TurnStanding(ask, U) /\ (T.known => Leaving(U))
  <2>1. CASE Classify(t)
    BY <2>1, <1>2, <1>3 DEF Classify, Becomes
  <2>2. CASE Cards(t)
    BY <2>2, <1>2, <1>4 DEF Cards, Becomes
  <2>3. CASE AskForMore(t) \/ Answer(t) \/ ReadBank(t)
    BY <2>3, <1>2, <1>4 DEF AskForMore, Answer, ReadBank, Becomes
  <2>4. ~Lookup(t)
    BY <1>1 DEF Lookup, At
  <2>5. QED
    BY <2>1, <2>2, <2>3, <2>4
<1>6. QED
  BY <1>1, <1>5, AllUnheard, LeftQuiet

\* A question is new: nobody has answered it.
LEMMA LeftPutQuestion ==
    ASSUME IInv, LeftInv, OneTabEach, NEW t \in Turns, PutQuestion(t)
    PROVE  LeftInv'
<1> DEFINE T == turn[t]
           s == T.work.service
           q == asked + 1
<1>1. PICK v \in Values :
         LET w == [type |-> "CONFIRMATION_REQUIRED", service |-> s,
                   value |-> v, q |-> q, token |-> 0]
         IN  /\ \/ Becomes(t, Say(T, Ask(w, "after")))
                \/ Becomes(t, [T EXCEPT !.work = [w EXCEPT !.type = "OTP_REQUIRED"],
                                        !.pc = "sendOtp"])
             /\ ask' = [ask EXCEPT ![q] = [Unasked EXCEPT !.cust = T.cust,
                                             !.service = s, !.value = v]]
  BY DEF PutQuestion
<1> DEFINE w == [type |-> "CONFIRMATION_REQUIRED", service |-> s,
                 value |-> v, q |-> q, token |-> 0]
           x == [type |-> "OTP_REQUIRED", service |-> s,
                 value |-> v, q |-> q, token |-> 0]
           r == [Unasked EXCEPT !.cust = T.cust, !.service = s, !.value = v]
<1>2. /\ T \in TurnState /\ T.pc = "gather" /\ T.pc # "idle" /\ open' = open /\ Offered(T.msg)
      /\ s \in Services /\ (Leaving(T) => T.known)
  BY Now DEF PutQuestion, At, TurnGood, LeftInv, TurnStanding, Leaving
<1>3. asked \in Nat /\ q \in Questions /\ q \in 0..MaxQuestions /\ MaxCodes \in Nat
  <2>1. asked \in 0..MaxQuestions /\ asked < MaxQuestions /\ MaxQuestions \in Nat /\ MaxCodes \in Nat
    BY BankAssumption DEF PutQuestion, IInv, TypeOK
  <2>2. QED
    BY <2>1 DEF Questions
<1>4. w \in Class /\ x \in Class /\ [w EXCEPT !.type = "OTP_REQUIRED"] = x /\ x.q = q /\ w.q = q
  BY <1>2, <1>3 DEF Class
<1>5. ~r.no /\ ~r.dropped
  BY DEF Unasked
<1> HIDE DEF r
<1>6. ask' = [ask EXCEPT ![q] = r]
  BY <1>1 DEF r
<1>7. ask'[q] = r /\ \A p \in 1..asked : ask'[p] = ask[p]
  <2>1. \A p \in 1..asked : p \in Questions /\ p # q
    BY <1>3, BankAssumption DEF IInv, TypeOK, Questions
  <2>2. QED
    BY <1>3, <1>6, <2>1 DEF IInv, TypeOK
<1>8. ~Away(ask', q) /\ \A c \in Customers : Unheard(c)
  BY <1>5, <1>7 DEF Away, Unheard
<1>9. CASE Becomes(t, Say(T, Ask(w, "after")))
  <2> HIDE DEF w
  <2>1. Standing(ask', w)
    BY <1>4, <1>8 DEF Standing
  <2>2. /\ TurnStanding(ask', Say(T, Ask(w, "after"))) /\ Say(T, Ask(w, "after")).cust = T.cust
        /\ T.known => Leaving(Say(T, Ask(w, "after")))
    BY <1>2, <1>4, <2>1, AskStanding
  <2>3. QED
    BY <1>2, <1>8, <1>9, <2>2, LeftQuiet DEF Becomes
<1>10. CASE Becomes(t, [T EXCEPT !.work = x, !.pc = "sendOtp"])
  <2> DEFINE U == [T EXCEPT !.work = x, !.pc = "sendOtp"]
  <2> HIDE DEF x
  <2>1. /\ GoesTo(T, U, "sendOtp", x) /\ U.msg = T.msg
        /\ "sendOtp" \in Early \ {"lookup"} /\ "sendOtp" \in Moving
    BY <1>2, <1>4, GoingWith DEF TurnState, Early, Pcs, Moving
  <2>2. ~Away(ask', x.q)
    BY <1>4, <1>8
  <2> HIDE DEF U
  <2>3. TurnStanding(ask', U) /\ U.cust = T.cust /\ (T.known => Leaving(U))
    BY <1>2, <2>1, <2>2, GoingStanding
  <2>4. QED
    BY <1>2, <1>8, <1>10, <2>3, LeftQuiet DEF Becomes, U
<1> HIDE DEF w, x
<1>11. QED
  BY <1>1, <1>4, <1>9, <1>10 DEF w

LEMMA LeftCodes ==
    ASSUME IInv, LeftInv, OneTabEach, NEW t \in Turns, SendOtp(t) \/ VerifyOtp(t)
    PROVE  LeftInv'
<1> DEFINE T == turn[t]
           w == T.work
<1>1. /\ T \in TurnState /\ T.pc \in {"sendOtp", "verifyOtp"} /\ T.pc # "idle" /\ w \in Class
      /\ open' = open /\ ask' = ask /\ Offered(T.msg) /\ ~Away(ask, w.q) /\ (Leaving(T) => T.known)
  BY Now DEF SendOtp, VerifyOtp, At, LeftInv, TurnStanding, Leaving, TurnState
<1>2. ASSUME NEW o \in {NotDone("first"), Emitted}
      PROVE  /\ TurnStanding(ask, Say(T, o)) /\ Say(T, o).cust = T.cust
             /\ T.known => Leaving(Say(T, o))
  <2>1. o \in Closing /\ o \in Plain
    BY ClosingOutcomes DEF Closing
  <2>2. QED
    BY <1>1, <2>1, PlainStanding
<1>3. ASSUME NEW y \in Class, y.q = w.q
      PROVE  /\ TurnStanding(ask, Say(T, Ask(y, "first"))) /\ Say(T, Ask(y, "first")).cust = T.cust
             /\ T.known => Leaving(Say(T, Ask(y, "first")))
  BY <1>1, <1>3, AskStanding DEF Standing
<1>4. ASSUME NEW y \in Class, y.q = w.q, NEW pc \in {"sendOtp", "fulfil"}
      PROVE  /\ TurnStanding(ask, [T EXCEPT !.work = y, !.pc = pc])
             /\ [T EXCEPT !.work = y, !.pc = pc].cust = T.cust
             /\ T.known => Leaving([T EXCEPT !.work = y, !.pc = pc])
  <2> DEFINE U == [T EXCEPT !.work = y, !.pc = pc]
  <2>1. /\ GoesTo(T, U, pc, y) /\ U.msg = T.msg
        /\ pc \in Early \ {"lookup"} /\ pc \in Moving
    BY <1>1, GoingWith DEF TurnState, Early, Pcs, Moving
  <2>2. ~Away(ask, y.q)
    BY <1>1, <1>4
  <2> HIDE DEF U
  <2>3. TurnStanding(ask, U) /\ U.cust = T.cust /\ (T.known => Leaving(U))
    BY <1>1, <2>1, <2>2, GoingStanding
  <2>4. QED
    BY <2>3 DEF U
<1>5. CASE SendOtp(t)
  <2>1. Pending(w) \in Class /\ Pending(w).q = w.q
    BY <1>1, PendingIsOpen
  <2>2. \E o \in {Ask(Pending(w), "first"), NotDone("first"), Emitted} : Becomes(t, Say(T, o))
    BY <1>5 DEF SendOtp, AfterSend
  <2>3. \E U : /\ turn' = [turn EXCEPT ![t] = U] /\ U.cust = T.cust
               /\ TurnStanding(ask, U) /\ (T.known => Leaving(U))
    BY <1>2, <1>3, <2>1, <2>2 DEF Becomes
  <2>4. QED
    BY <1>1, <2>3, AllUnheard, LeftQuiet
<1>6. CASE VerifyOtp(t)
  <2> DEFINE n == minted'[w.q]
             y == [w EXCEPT !.token = 0]
             z == [w EXCEPT !.token = n]
  <2>1. MaxCodes \in Nat /\ w.q \in Questions
    <3>1. About(Facts, T.cust, w)
      BY <1>6, Now DEF VerifyOtp, At, TurnGood, Prompt, Stands
    <3>2. QED
      BY <3>1, BankAssumption DEF About, Facts, IInv, TypeOK, Questions
  <2>2. y \in Class /\ y.q = w.q
    BY <1>1, <2>1, WithToken
  <2>3. BankTypeOK'
    BY <1>1, <1>6, <2>1, VerifyOtpCalls DEF VerifyOtp, IInv, TurnState
  <2>4. z \in Class /\ z.q = w.q
    BY <1>1, <2>1, <2>3, WithToken DEF BankTypeOK
  <2>5. /\ [T EXCEPT !.pc = "fulfil", !.work.token = n] = [T EXCEPT !.work = z, !.pc = "fulfil"]
        /\ [T EXCEPT !.pc = "sendOtp"] = [T EXCEPT !.work = w, !.pc = "sendOtp"]
    BY <1>1 DEF TurnState
  <2>6. \/ Becomes(t, [T EXCEPT !.pc = "fulfil", !.work.token = n])
        \/ Becomes(t, [T EXCEPT !.pc = "sendOtp"])
        \/ \E o \in {Ask(y, "first"), NotDone("first"), Emitted} : Becomes(t, Say(T, o))
    BY <1>6 DEF VerifyOtp
  <2> HIDE DEF y, z, n
  <2>7. \E U : /\ turn' = [turn EXCEPT ![t] = U] /\ U.cust = T.cust
               /\ TurnStanding(ask, U) /\ (T.known => Leaving(U))
    BY <1>1, <1>2, <1>3, <1>4, <2>2, <2>4, <2>5, <2>6 DEF Becomes
  <2>8. QED
    BY <1>1, <2>7, AllUnheard, LeftQuiet
<1>7. QED
  BY <1>5, <1>6

LEMMA LeftChanges ==
    ASSUME IInv, LeftInv, OneTabEach, NEW t \in Turns, Fulfil(t) \/ Replied(t) \/ Refused(t)
    PROVE  LeftInv'
<1> DEFINE T == turn[t]
           w == T.work
<1>1. /\ T \in TurnState /\ T.pc \in {"fulfil", "reply"} /\ T.pc # "idle" /\ w \in Class
      /\ open' = open /\ ask' = ask /\ Offered(T.msg) /\ (Leaving(T) => T.known)
      /\ T.pc = "fulfil" => ~Away(ask, w.q)
  BY Now DEF Fulfil, Replied, Refused, At, LeftInv, TurnStanding, Leaving, TurnState
<1>2. ASSUME NEW o \in Closing
      PROVE  /\ TurnStanding(ask, Say(T, o)) /\ Say(T, o).cust = T.cust
             /\ T.known => Leaving(Say(T, o))
  <2>1. o \in Plain
    BY DEF Closing
  <2>2. QED
    BY <1>1, <2>1, PlainStanding
<1>3. CASE Fulfil(t)
  <2> DEFINE U == [T EXCEPT !.pc = "reply", !.acted = TRUE]
  <2>1. U.pc = "reply" /\ U.known = T.known /\ U.cust = T.cust /\ U.msg = T.msg
    BY <1>1 DEF TurnState
  <2>2. turn' = [turn EXCEPT ![t] = U]
    BY <1>3 DEF Fulfil, Becomes
  <2> HIDE DEF U
  <2>3. TurnStanding(ask, U) /\ (T.known => Leaving(U))
    BY <1>1, <2>1 DEF TurnStanding, Telling, Leaving, Moving
  <2>4. QED
    BY <1>1, <2>1, <2>2, <2>3, AllUnheard, LeftQuiet
<1>4. CASE Replied(t)
  <2> DEFINE o == Tell(Closed, "yes", AuditOf(w), "after")
  <2>1. AuditOf(w) \in {"first", "after"} /\ Closed \in Class
    BY Constants DEF AuditOf
  <2>2. o \in Outcome /\ o.class = Closed /\ o.record = "after"
    BY <2>1, OutcomesAreOutcomes
  <2> HIDE DEF o
  <2>3. Standing(ask, o.class)
    BY <2>2 DEF Standing, Closed
  <2>4. /\ TurnStanding(ask, Say(T, o)) /\ Say(T, o).cust = T.cust
        /\ T.known => Leaving(Say(T, o))
    BY <1>1, <2>2, <2>3, SayStanding
  <2>5. CASE Becomes(t, Say(T, o))
    BY <1>1, <2>4, <2>5, AllUnheard, LeftQuiet DEF Becomes
  <2>6. CASE Becomes(t, Say(T, Unavailable(w)))
    <3>1. /\ TurnStanding(ask, Say(T, Unavailable(w))) /\ Say(T, Unavailable(w)).cust = T.cust
          /\ T.known => Leaving(Say(T, Unavailable(w)))
      BY <1>2, ClosingOutcomes
    <3>2. QED
      BY <1>1, <2>6, <3>1, AllUnheard, LeftQuiet DEF Becomes
  <2>7. QED
    BY <1>4, <2>5, <2>6 DEF Replied, o
<1>5. CASE Refused(t)
  <2>1. ~Away(ask, w.q)
    BY <1>1, <1>5 DEF Refused, At
  <2>2. /\ TurnStanding(ask, Say(T, Ask(w, "first"))) /\ Say(T, Ask(w, "first")).cust = T.cust
        /\ T.known => Leaving(Say(T, Ask(w, "first")))
    BY <1>1, <2>1, AskStanding DEF Standing
  <2> DEFINE V == [T EXCEPT !.pc = "sendOtp"]
  <2>3. /\ GoesTo(T, V, "sendOtp", w) /\ V.msg = T.msg
        /\ "sendOtp" \in Early \ {"lookup"} /\ "sendOtp" \in Moving
    BY <1>1, Going DEF TurnState, Early, Pcs, Moving
  <2> HIDE DEF V
  <2>4. TurnStanding(ask, V) /\ V.cust = T.cust /\ (T.known => Leaving(V))
    BY <1>1, <2>1, <2>3, GoingStanding
  <2>5. Unavailable(w) \in Closing /\ NotDone("first") \in Closing
    BY ClosingOutcomes
  <2>6. ASSUME NEW o \in Closing, Becomes(t, Say(T, o))
        PROVE  \E U : /\ turn' = [turn EXCEPT ![t] = U] /\ U.cust = T.cust
                      /\ TurnStanding(ask, U) /\ (T.known => Leaving(U))
    BY <1>2, <2>6 DEF Becomes
  <2>7. \/ \E o \in Closing : Becomes(t, Say(T, o))
        \/ Becomes(t, V) \/ Becomes(t, Say(T, Ask(w, "first")))
    BY <1>5, <2>5 DEF Refused, V
  <2>8. \E U : /\ turn' = [turn EXCEPT ![t] = U] /\ U.cust = T.cust
               /\ TurnStanding(ask, U) /\ (T.known => Leaving(U))
    BY <2>2, <2>4, <2>6, <2>7 DEF Becomes
  <2>9. QED
    BY <1>1, <2>8, AllUnheard, LeftQuiet
<1>6. QED
  BY <1>3, <1>4, <1>5

LEMMA EndStanding ==
    ASSUME NEW a, NEW T \in TurnState, NEW how \in {"not", "done", "error", "broken", "cut"}
    PROVE  TurnStanding(a, End(T, how)) /\ End(T, how).cust = T.cust
<1>1. End(T, how).pc = "idle" /\ End(T, how).cust = T.cust
  BY EndEnds
<1>2. End(T, how).msg = NoMessage
  BY DEF End, TurnState
<1>3. QED
  BY <1>1, <1>2 DEF TurnStanding, Telling, Offered, NoMessage

\* A turn that goes on telling the same thing.
LEMMA TellingStanding ==
    ASSUME NEW a, NEW T, T.pc \in Telling, TurnStanding(a, T),
           NEW U, U.pc \in Telling, U.cust = T.cust, U.known = T.known,
           U.outcome = T.outcome, U.msg = T.msg
    PROVE  TurnStanding(a, U)
BY DEF TurnStanding, Telling

LEMMA LeftCompose ==
    ASSUME IInv, LeftInv, OneTabEach, NEW t \in Turns, Compose(t)
    PROVE  LeftInv'
<1> DEFINE T == turn[t]
           U == [T EXCEPT !.pc = "result", !.audited = Audited(T, "first")]
           q == T.outcome.class.q
<1>1. PICK worded :
         /\ turn' = [turn EXCEPT ![t] = U]
         /\ ask' = [p \in Questions |->
                      IF p = q THEN [ask[p] EXCEPT !.shown = @ \/ worded] ELSE ask[p]]
  BY DEF Compose, Becomes
<1>2. /\ T \in TurnState /\ T.pc = "compose" /\ T.pc # "idle" /\ TurnGood(Facts, T)
      /\ TurnStanding(ask, T) /\ open' = open
  BY Now DEF Compose, At, LeftInv
<1>3. /\ U.pc = "result" /\ U.cust = T.cust /\ U.known = T.known
      /\ U.outcome = T.outcome /\ U.msg = T.msg
  BY <1>2 DEF TurnState
<1> HIDE DEF U
<1>4. \A p \in Questions : ask'[p].no = ask[p].no /\ ask'[p].dropped = ask[p].dropped
  BY <1>1 DEF IInv, TypeOK, Question
<1>5. \A p \in 1..asked : p \in Questions
  BY BankAssumption DEF IInv, TypeOK, Questions
<1>6. \A c \in Customers : Unheard(c)
  BY <1>4, <1>5 DEF Unheard
<1>7. TurnStanding(ask', T)
  <2>1. Unheard(T.cust)
    BY <1>4, <1>5 DEF Unheard
  <2>2. QED
    BY <1>2, <2>1, TurnStandingStill
<1>8. TurnStanding(ask', U)
  BY <1>2, <1>3, <1>7, TellingStanding DEF Telling
<1>9. Leaving(T) => Leaving(U)
  BY <1>2, <1>3 DEF Leaving, Moving
<1>10. QED
  BY <1>1, <1>2, <1>3, <1>6, <1>8, <1>9, LeftQuiet

LEMMA LeftDone ==
    ASSUME IInv, LeftInv, OneTabEach, NEW t \in Turns, Done(t)
    PROVE  LeftInv'
<1> DEFINE T == turn[t]
           V == [T EXCEPT !.pc = "record", !.ended = "done"]
<1>1. /\ T \in TurnState /\ T.pc = "done" /\ T.pc # "idle" /\ TurnStanding(ask, T)
      /\ open' = open /\ ask' = ask
  BY Now DEF Done, At, LeftInv
<1>2. CASE T.outcome.record = "after" /\ turn' = [turn EXCEPT ![t] = V]
  <2>1. /\ V.pc = "record" /\ V.cust = T.cust /\ V.known = T.known
        /\ V.outcome = T.outcome /\ V.msg = T.msg
    BY <1>1 DEF TurnState
  <2> HIDE DEF V
  <2>2. TurnStanding(ask, V) /\ (Leaving(T) => Leaving(V))
    BY <1>1, <1>2, <2>1, TellingStanding DEF Telling, Leaving
  <2>3. QED
    BY <1>1, <1>2, <2>1, <2>2, AllUnheard, LeftQuiet
<1>3. CASE T.outcome.record # "after" /\ turn' = [turn EXCEPT ![t] = End(T, "done")]
  <2>1. ~Leaving(T)
    BY <1>1, <1>3 DEF Leaving, Moving
  <2>2. TurnStanding(ask, End(T, "done")) /\ End(T, "done").cust = T.cust
    BY <1>1, EndStanding
  <2>3. QED
    BY <1>1, <1>3, <2>1, <2>2, AllUnheard, LeftQuiet
<1>4. QED
  BY <1>2, <1>3 DEF Done, Becomes

LEMMA LeftRecords ==
    ASSUME IInv, LeftInv, OneTabEach, NEW t \in Turns, turn[t].pc \in Telling,
           Recorded(turn[t]), ask' = ask,
           NEW U, turn' = [turn EXCEPT ![t] = U], U.cust = turn[t].cust, TurnStanding(ask, U)
    PROVE  LeftInv'
<1> DEFINE T == turn[t]
<1>1. T.cust \in Customers /\ open \in [Customers -> Class] /\ TurnStanding(ask, T)
      /\ T.pc # "idle"
  BY Now DEF TurnState, IInv, TypeOK, LeftInv, Telling
<1>2. IF T.known THEN open' = [open EXCEPT ![T.cust] = T.outcome.class] ELSE open' = open
  BY DEF Recorded, Store!Record
<1>3. \A c \in Customers \ {T.cust} : open'[c] = open[c]
  BY <1>1, <1>2
<1>4. Standing(ask, open'[T.cust])
  <2>1. CASE T.known
    <3>1. open'[T.cust] = T.outcome.class
      BY <1>1, <1>2, <2>1
    <3>2. QED
      BY <1>1, <3>1 DEF TurnStanding
  <2>2. CASE ~T.known
    <3>1. ~Leaving(T)
      BY <2>2 DEF Leaving
    <3>2. QED
      BY <1>1, <1>2, <2>2, <3>1, TheirsStands
  <2>3. QED
    BY <2>1, <2>2
<1>5. QED
  BY <1>1, <1>3, <1>4, AllUnheard, LeftMoves

LEMMA LeftRecording ==
    ASSUME IInv, LeftInv, OneTabEach, NEW t \in Turns, KbFails(t) \/ Result(t) \/ Record(t)
    PROVE  LeftInv'
<1> DEFINE T == turn[t]
           V == [T EXCEPT !.pc = "done", !.results = @ + 1, !.audited = Audited(T, "after")]
<1>1. /\ T \in TurnState /\ T.pc \in Telling /\ T.pc # "idle" /\ TurnStanding(ask, T)
      /\ ask' = ask
  BY Now DEF KbFails, Result, Record, At, LeftInv, Telling
<1>2. ASSUME NEW how \in {"done", "error"}, turn' = [turn EXCEPT ![t] = End(T, how)], Recorded(T)
      PROVE  LeftInv'
  <2>1. TurnStanding(ask, End(T, how)) /\ End(T, how).cust = T.cust
    BY <1>1, EndStanding
  <2>2. QED
    BY <1>1, <1>2, <2>1, LeftRecords
<1>3. ASSUME T.pc = "result", turn' = [turn EXCEPT ![t] = V],
             IF T.outcome.record = "before" THEN Recorded(T) ELSE open' = open
      PROVE  LeftInv'
  <2>1. /\ V.pc = "done" /\ V.cust = T.cust /\ V.known = T.known
        /\ V.outcome = T.outcome /\ V.msg = T.msg
    BY <1>1 DEF TurnState
  <2> HIDE DEF V
  <2>2. TurnStanding(ask, V)
    BY <1>1, <2>1, TellingStanding DEF Telling
  <2>3. CASE T.outcome.record = "before"
    BY <1>1, <1>3, <2>1, <2>2, <2>3, LeftRecords
  <2>4. CASE T.outcome.record # "before"
    <3>1. Leaving(T) => Leaving(V)
      BY <1>3, <2>1, <2>4 DEF Leaving, Moving
    <3>2. QED
      BY <1>1, <1>3, <2>1, <2>2, <2>4, <3>1, AllUnheard, LeftQuiet
  <2>5. QED
    BY <2>3, <2>4
<1>4. QED
  BY <1>2, <1>3 DEF KbFails, Result, Record, Becomes, At

LEMMA LeftRestart ==
    ASSUME IInv, LeftInv, Restart
    PROVE  LeftInv'
<1>1. ASSUME NEW t \in Turns PROVE TurnStanding(ask', turn'[t])
  <2>1. /\ turn[t] \in TurnState /\ turn'[t] = CutOff(turn[t]) /\ TurnStanding(ask, turn[t])
        /\ ask' = ask
    BY Now DEF Restart, LeftInv
  <2>2. CASE turn[t].pc = "idle"
    BY <2>1, <2>2 DEF CutOff
  <2>3. CASE turn[t].pc # "idle"
    BY <2>1, <2>3, EndStanding DEF CutOff
  <2>4. QED
    BY <2>2, <2>3
<1>2. \A c \in Customers : Standing(ask', open'[c])
  BY DEF Restart, Store!Lapse, Standing, Closed
<1>3. QED
  BY <1>1, <1>2 DEF LeftInv, SessionStanding

LEMMA LeftLapses ==
    ASSUME IInv, LeftInv, turn' = turn, ask' = ask,
           \A c \in Customers : open'[c] = open[c] \/ open'[c].type = "CLOSED"
    PROVE  LeftInv'
<1>1. ASSUME NEW c \in Customers
      PROVE  \/ Standing(ask', open'[c])
             \/ \E t \in Turns : turn'[t].cust = c /\ Leaving(turn'[t])
  BY DEF LeftInv, SessionStanding, Standing
<1>2. QED
  BY <1>1 DEF LeftInv, SessionStanding

LEMMA InitLeftInv == Init => LeftInv
<1> SUFFICES ASSUME Init PROVE LeftInv
  OBVIOUS
<1>1. \A c \in Customers : open[c].type = "CLOSED"
  BY DEF Init, Store!Init, Closed
<1>2. \A t \in Turns : turn[t].pc = "idle" /\ turn[t].msg.off = {}
  BY DEF Init, Fresh, NoMessage
<1>3. QED
  BY <1>1, <1>2 DEF LeftInv, SessionStanding, Standing, TurnStanding, Telling, Offered

LEMMA NextLeft ==
    ASSUME "disconnect" \notin Faults, "model" \notin Faults, CatalogueStaysOn, NoLookups
    PROVE  IInv /\ TabInv /\ LeftInv /\ OneTabEach /\ [Next]_vars => LeftInv'
<1> SUFFICES ASSUME IInv, TabInv, LeftInv, OneTabEach, [Next]_vars PROVE LeftInv'
  OBVIOUS
<1>1. ASSUME NEW t \in Turns, Step(t) PROVE LeftInv'
  BY <1>1, LeftEnter, LeftReadCode, LeftReadYes, LeftGathering, LeftPutQuestion, LeftCodes,
     LeftChanges, LeftCompose, LeftDone, LeftRecording DEF Step
<1>2. \A t \in Turns : ~Disconnect(t)
  BY DEF Disconnect
<1>3. ASSUME NEW c \in Customers, SessionLapses(c) PROVE LeftInv'
  <2>1. /\ turn' = turn /\ ask' = ask
        /\ \A d \in Customers : open'[d] = open[d] \/ open'[d].type = "CLOSED"
    BY <1>3 DEF SessionLapses, Store!Lapse, Closed
  <2>2. QED
    BY <2>1, LeftLapses
<1>4. ASSUME Expiry \/ UNCHANGED vars PROVE LeftInv'
  BY <1>4, LeftLapses DEF Expiry, vars, chatVars
<1>5. QED
  BY <1>1, <1>2, <1>3, <1>4, LeftSend, LeftRestart DEF Next

\* In one tab over a good connection, with a model that answers, the catalogue on and
\* beneficiaries added in the app's form, a change the customer said no to or moved on
\* from is not carried out afterwards.
THEOREM ChatTurnNothingAfterRefusal ==
    ASSUME "disconnect" \notin Faults, "model" \notin Faults, CatalogueStaysOn, NoLookups
    PROVE  Spec /\ []OneTabEach => NothingAfterRefusal
<1>1. IInv /\ TabInv /\ LeftInv /\ OneTabEach /\ [Next]_vars => LeftInv'
  BY NextLeft
<1>2. ASSUME IInv, LeftInv, [Next]_vars, NEW q \in Questions, changes'[q] # changes[q]
      PROVE  ~ask[q].no /\ ~ask[q].dropped
  <2>1. PICK t \in Turns : Fulfil(t) /\ turn[t].work.q = q
    BY <1>2, ChangesAreFulfilled DEF IInv
  <2>2. QED
    BY <1>2, <2>1 DEF LeftInv, TurnStanding, Away, Fulfil, At
<1>3. IInv /\ LeftInv /\ [Next]_vars =>
        [\A q \in Questions : changes'[q] # changes[q] => ~ask[q].no /\ ~ask[q].dropped]_vars
  BY <1>2
<1> QED BY <1>1, <1>3, InitLeftInv, SpecIInv, SpecTabInv, PTL DEF Spec, NothingAfterRefusal
=============================================================================
