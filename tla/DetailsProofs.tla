---------------------------- MODULE DetailsProofs ----------------------------
(***************************************************************************)
(* Whose details a request has, whatever the model reads into the          *)
(* messages: an amount or a stranger's number in it is one the customer    *)
(* wrote about it, and money does not go to an older number.               *)
(*                                                                         *)
(* The proof follows a request through everything a turn does with it.     *)
(* Each step is shown to keep `Theirs` (what the request holds is from the *)
(* message or carried over from the same request) and `Newest` (a number   *)
(* in the message beats one carried over).                                 *)
(***************************************************************************)
EXTENDS Details, TLAPS

\* What the customer wrote about service `s` before this message.
Carried(s) == IF last.service # None /\ s = last.service THEN wrote ELSE NothingWritten

\* The amount and the number in `p` come from message `m` or from what was written, `w`.
From(p, m, w) ==
    /\ DOMAIN p = Fields
    /\ p.amount \in {None} \cup AmountsIn[m] \cup w.amounts
    /\ p.number \in Numbers => p.number \in NumbersIn[m] \cup w.numbers

\* A request, as the steps of a turn pass it on.
Theirs(r, m) ==
    /\ r = Request(r.service, r.sub, r.pay)
    /\ From(r.pay, m, Carried(r.service))

\* A number given in the message is the one a transfer has.
Newest(r, m) ==
    r.service \in Transfers /\ m.runs # {} /\ r.pay.number \in Numbers => r.pay.number \in NumbersIn[m]

\* What the last turn left.  A turn about nothing holds no detail, and the choices a
\* transfer offers are the customer's own accounts.
DetailsInv ==
    /\ last.service \in Services \cup {None}
    /\ DOMAIN last.pay = Fields
    /\ wrote = [amounts |-> wrote.amounts, numbers |-> wrote.numbers]
    /\ DetailsAreTheirs
    /\ last.service = None => last.pay = Nothing /\ last.missing = {}
    /\ last.type \in Selection /\ last.service \in Transfers => last.cands \subseteq Own

-----------------------------------------------------------------------------
(* Payloads. *)

LEMMA NoDetail ==
    ASSUME NEW m, NEW w PROVE From(Nothing, m, w)
BY DetailsAssumption DEF From, Nothing, Fields, Numbers

LEMMA WrittenNow ==
    ASSUME NEW p, NEW m, NEW s, From(p, m, NothingWritten) PROVE From(p, m, Carried(s))
BY DEF From, Carried, NothingWritten

LEMMA BothAreFrom ==
    ASSUME NEW p, NEW q, NEW m, NEW w, From(p, m, w), From(q, m, w)
    PROVE  From(Over(p, q), m, w)
BY DEF From, Over, Fields

\* What the last turn left of a request that goes on.
LEMMA LastIsTheirs ==
    ASSUME DetailsInv, NEW m PROVE From(last.pay, m, Carried(last.service))
<1>1. CASE last.service = None
  BY <1>1, NoDetail DEF DetailsInv
<1>2. CASE last.service # None
  BY <1>2 DEF DetailsInv, DetailsAreTheirs, From, Carried
<1> QED
  BY <1>1, <1>2

LEMMA FilledIsWritten ==
    ASSUME NEW fields, NEW m, NEW p \in Filled(fields, m)
    PROVE  From(p, m, NothingWritten)
<1> DEFINE Filling(f) == IF f \in fields THEN Fillings(f, m) ELSE {None}
<1>1. p \in [amount : Filling("amount"), number : Filling("number"), kind : Filling("kind"),
             words : Filling("words"), txn : Filling("txn"), card : Filling("card")]
  BY DEF Filled, Payloads
<1>2. Filling("amount") \subseteq {None} \cup AmountsIn[m]
  BY DEF Fillings
<1>3. Filling("number") \subseteq {None, Made} \cup NumbersIn[m]
  BY DEF Fillings
<1> HIDE DEF Filling
<1>4. /\ DOMAIN p = Fields
      /\ p.amount \in {None} \cup AmountsIn[m]
      /\ p.number \in {None, Made} \cup NumbersIn[m]
  BY <1>1, <1>2, <1>3 DEF Fields
<1> QED
  BY <1>4, DetailsAssumption DEF From, NothingWritten, Numbers

\* A new reading keeps only what the message has.
LEMMA FreshIsWritten ==
    ASSUME NEW m \in Messages, NEW r \in Fresh[m]
    PROVE  /\ r = Request(r.service, r.sub, r.pay)
           /\ r.service \in Reached \ Tools
           /\ From(r.pay, m, NothingWritten)
           /\ r.pay.number \in {None, Made} \cup NumbersIn[m]
<1>1. PICK s \in Reached \ Tools : \E sub \in SubsOf(s) \cup {None}, p \in Readings(s, m) :
         r = Request(s, sub, CheckNumbers(CheckAmount(FromApp(p, m), m), m))
  BY DEF Fresh
<1> PICK sub \in SubsOf(s) \cup {None}, p \in Readings(s, m) :
         r = Request(s, sub, CheckNumbers(CheckAmount(FromApp(p, m), m), m))
  BY <1>1
<1> DEFINE a == FromApp(p, m)
           b == CheckAmount(a, m)
           c == CheckNumbers(b, m)
<1>2. DOMAIN p = Fields
  BY DEF Readings, Payloads, Fields
<1>3. DOMAIN a = Fields
  BY <1>2 DEF FromApp, Nothing, Fields
<1>4. DOMAIN b = Fields /\ b.amount \in {None} \cup AmountsIn[m]
  BY <1>3 DEF CheckAmount, Fields
<1>5. /\ DOMAIN c = Fields /\ c.amount \in {None} \cup AmountsIn[m]
      /\ c.number \in {None, Made} \cup NumbersIn[m]
  BY <1>4 DEF CheckNumbers, Fields
<1>6. r.pay = c /\ r.service = s /\ r.sub = sub
  BY DEF Request
<1> QED
  BY <1>5, <1>6, DetailsAssumption DEF From, NothingWritten, Numbers, Request

-----------------------------------------------------------------------------
(* The steps of a turn. *)

LEMMA ReachedAreServices == Reached \ Tools \subseteq Services
<1>1. ASSUME NEW first \in Answers, NEW second \in Answers, NEW notes \in BOOLEAN
      PROVE  Routed(first, second, notes) \in Services \cup Tools
  <2>1. ASSUME NEW a \in Answers PROVE a.tool = "route" => a.service \in Services \cup {"nowhere"}
    BY DEF Answers, Tools
  <2>2. "nowhere" \notin Services
    BY DEF Services
  <2>3. "kb" \in Tools /\ "ask" \in Tools
    BY DEF Tools
  <2>4. ASSUME NEW a, Usable(a, notes) PROVE a.tool \in Tools
    BY <2>4 DEF Usable
  <2>5. Again(second, notes) \in Services \cup Tools
    BY <2>3, <2>4 DEF Again
  <2>6. CASE ~Usable(first, notes)
    BY <2>1, <2>3, <2>5, <2>6 DEF Routed
  <2>7. CASE Usable(first, notes)
    BY <2>4, <2>7 DEF Routed, Tools
  <2> QED
    BY <2>6, <2>7
<1> QED
  BY <1>1 DEF Reached

\* Carrying over is from the same request only; it never covers a number just read.
LEMMA CarriedAreTheirs ==
    ASSUME DetailsInv, NEW m, NEW fresh,
           fresh = Request(fresh.service, fresh.sub, fresh.pay),
           From(fresh.pay, m, NothingWritten)
    PROVE  LET r == CarryForward(fresh, Context) IN
           /\ Theirs(r, m)
           /\ r.service = fresh.service
           /\ fresh.pay.number # None => r.pay.number = fresh.pay.number
<1> DEFINE r == CarryForward(fresh, Context)
           kept == Over(Context.pay, fresh.pay)
<1>1. From(fresh.pay, m, Carried(fresh.service))
  BY WrittenNow
<1>2. CASE r = fresh
  BY <1>1, <1>2 DEF Theirs
<1>3. CASE r # fresh
  <2>1. /\ Context.type \in {"CLARIFICATION", "BANKING_SERVICE"}
        /\ Context.service = fresh.service
        /\ r.pay = kept /\ r.service = fresh.service /\ r = Request(r.service, r.sub, r.pay)
    BY <1>3 DEF CarryForward, Request
  <2>2. Context = last
    BY <2>1 DEF Context, Other
  <2>3. From(Context.pay, m, Carried(fresh.service))
    BY <2>1, <2>2, LastIsTheirs
  <2>4. From(kept, m, Carried(fresh.service))
    BY <1>1, <2>3, BothAreFrom
  <2>5. fresh.pay.number # None => kept.number = fresh.pay.number
    BY DEF Over, Fields
  <2> QED
    BY <2>1, <2>4, <2>5 DEF Theirs
<1> QED
  BY <1>2, <1>3

\* What the message says beats what was carried over; nothing else changes.
LEMMA PreferredIs ==
    ASSUME NEW m \in Messages, NEW r, NEW fresh, DOMAIN r.pay = Fields,
           NEW new \in PreferNew(r, fresh, m)
    PROVE  /\ new = Request(r.service, new.sub, new.pay) /\ new.service = r.service
           /\ DOMAIN new.pay = Fields
           /\ new.pay.amount # r.pay.amount =>
                 new.pay.amount \in AmountsIn[m] /\ r.pay.amount # None
           /\ new.pay.number \in {r.pay.number, None}
           /\ m.runs = {} => new.pay.number = r.pay.number
           /\ /\ m.runs # {} /\ DOMAIN fresh.pay = Fields /\ fresh.pay.number = None
              /\ new.pay.number \in Numbers
              => new.pay.number \in NumbersIn[m]
<1> DEFINE carried == Given(r.pay) \ Given(fresh.pay)
           amounts == {r.pay.amount} \cup IF "amount" \in carried THEN AmountsIn[m] ELSE {}
           numbers == IF "number" \in carried THEN KeptNumber(r.pay.number, m) ELSE {r.pay.number}
           subs == {r.sub} \cup
                   IF r.service = "wallet" /\ r.sub # None /\ fresh.sub = None
                      /\ m.names \in Wallets
                   THEN {m.names} ELSE {}
<1>1. PreferNew(r, fresh, m) = 
    {Request(r.service, sub, Restated(r.pay, a, n)) : sub \in subs, a \in amounts, n \in numbers}
  BY DEF PreferNew
<1>2. PICK sub \in subs, a \in amounts, n \in numbers :
         new = Request(r.service, sub, Restated(r.pay, a, n))
  <2> HIDE DEF numbers, subs, amounts
  <2> QED
    BY <1>1
<1>3. n \in {r.pay.number, None} /\ (m.runs = {} => n = r.pay.number)
  BY DEF KeptNumber
<1>4. ASSUME m.runs # {}, DOMAIN fresh.pay = Fields, fresh.pay.number = None, n \in Numbers
      PROVE  n \in NumbersIn[m]
  <2>1. n = r.pay.number /\ n # None /\ n # Made
    BY <1>3, <1>4, DetailsAssumption DEF Numbers
  <2>2. "number" \in carried
    BY <1>4, <2>1 DEF Given, Fields
  <2>3. Digits[n] \in m.runs
    BY <1>4, <2>1, <2>2 DEF KeptNumber
  <2>4. Digits[n] \in SubSeqs(m.digits)
    BY <2>3, MessagesAssumption
  <2> QED
    BY <1>4, <2>4 DEF NumbersIn
<1>5. a # r.pay.amount => a \in AmountsIn[m] /\ r.pay.amount # None
  BY DEF Given
<1> HIDE DEF numbers, subs, amounts, carried
<1>6. /\ new = Request(r.service, new.sub, new.pay) /\ new.service = r.service
      /\ new.pay = Restated(r.pay, a, n)
  BY <1>2 DEF Request
<1>7. DOMAIN new.pay = Fields /\ new.pay.amount = a /\ new.pay.number = n
  BY <1>6 DEF Restated, Fields
<1> QED
  BY <1>3, <1>4, <1>5, <1>6, <1>7

LEMMA NewIsPreferred ==
    ASSUME NEW m \in Messages, NEW r, NEW fresh, Theirs(r, m), From(fresh.pay, m, NothingWritten),
           fresh.pay.number # None => r.pay.number = fresh.pay.number,
           NEW new \in PreferNew(r, fresh, m)
    PROVE  Theirs(new, m) /\ Newest(new, m) /\ new.service = r.service
<1>1. DOMAIN r.pay = Fields /\ DOMAIN fresh.pay = Fields
  BY DEF Theirs, From
<1>2. /\ new = Request(r.service, new.sub, new.pay) /\ new.service = r.service
      /\ DOMAIN new.pay = Fields
      /\ new.pay.amount \in {r.pay.amount} \cup AmountsIn[m]
      /\ new.pay.number \in {r.pay.number, None}
  BY <1>1, PreferredIs
<1>3. Theirs(new, m)
  BY <1>2, DetailsAssumption DEF Theirs, From, Numbers
<1>4. Newest(new, m)
  <2>1. CASE fresh.pay.number = None
    BY <1>1, <2>1, PreferredIs DEF Newest
  <2>2. CASE fresh.pay.number # None
    <3>1. new.pay.number \in Numbers => new.pay.number = fresh.pay.number
      BY <1>2, <2>2, DetailsAssumption DEF Numbers
    <3> QED
      BY <3>1 DEF Newest, From, NothingWritten
  <2> QED
    BY <2>1, <2>2
<1> QED
  BY <1>2, <1>3, <1>4

\* The checks of a request change neither whose details it has nor its number.
LEMMA GroundedAreTheirs ==
    ASSUME NEW m, NEW r, Theirs(r, m), Newest(r, m), r.service \in Services \cup {None},
           NEW new \in GroundFreeze(r, m) \cup {NormalizeFee(r, m)} \cup GroundDestination(r, m)
                       \cup GroundAction(r, m)
    PROVE  Theirs(new, m) /\ Newest(new, m) /\ new.service \in Services \cup {None}
<1>1. CASE new = Unclear
  <2>1. new = Request(None, None, Nothing)
    BY <1>1 DEF Unclear
  <2>2. new.service = None /\ new.sub = None /\ new.pay = Nothing /\ Nothing.number = None
    BY <2>1 DEF Request, Nothing, Fields
  <2> QED
    BY <2>1, <2>2, NoDetail, DetailsAssumption DEF Theirs, Newest, Numbers
<1>2. CASE \E w : new = Request(r.service, r.sub, [r.pay EXCEPT !.words = w])
  BY <1>2 DEF Theirs, From, Newest, Request, Fields
<1>3. CASE new = [r EXCEPT !.pay.kind = None]
  BY <1>3 DEF Theirs, From, Newest, Request, Fields
<1>4. CASE new = [r EXCEPT !.sub = None]
  BY <1>4 DEF Theirs, From, Newest, Request
<1>5. CASE new = r
  BY <1>5
<1> QED
  BY <1>1, <1>2, <1>3, <1>4, <1>5 DEF GroundFreeze, NormalizeFee, GroundDestination, GroundAction

LEMMA FilledInAreTheirs ==
    ASSUME NEW m, NEW r, Theirs(r, m), Newest(r, m), NEW new \in FillKnown(r, m)
    PROVE  Theirs(new, m) /\ Newest(new, m) /\ new.service = r.service
<1>1. CASE new = r
  BY <1>1
<1>2. CASE new # r
  <2>1. PICK p : /\ \E fields : p \in Filled(fields, m)
                 /\ new = Request(r.service, r.sub, Over(r.pay, p))
    BY <1>2 DEF FillKnown
  <2>2. /\ From(p, m, Carried(r.service))
        /\ p.number \in Numbers => p.number \in NumbersIn[m]
    BY <2>1, FilledIsWritten, WrittenNow DEF From, NothingWritten
  <2>3. From(Over(r.pay, p), m, Carried(r.service))
    BY <2>2, BothAreFrom DEF Theirs
  <2>4. Over(r.pay, p).number \in {r.pay.number, p.number}
    BY DEF Over, Fields
  <2> QED
    BY <2>1, <2>2, <2>3, <2>4 DEF Theirs, Newest, Request
<1> QED
  BY <1>1, <1>2

LEMMA CleanedIs ==
    ASSUME NEW r, NEW c \in Clean(r)
    PROVE  c = r \/ c = [r EXCEPT !.pay.number = None]
BY DEF Clean

LEMMA CleanedAreTheirs ==
    ASSUME NEW m, NEW r, Theirs(r, m), Newest(r, m), NEW c \in Clean(r)
    PROVE  Theirs(c, m) /\ Newest(c, m) /\ c.service = r.service
<1>1. CASE c = r
  BY <1>1
<1>2. CASE c = [r EXCEPT !.pay.number = None]
  BY <1>2, DetailsAssumption DEF Theirs, From, Newest, Request, Fields, Numbers
<1> QED
  BY <1>1, <1>2, CleanedIs

\* All of what is done to a new reading.
LEMMA ClassifiedAreTheirs ==
    ASSUME DetailsInv, NEW m \in Messages, NEW fresh \in Fresh[m], NEW r \in Classified(fresh, m)
    PROVE  Theirs(r, m) /\ Newest(r, m) /\ r.service \in Services \cup {None}
<1> DEFINE Ok(q) == Theirs(q, m) /\ Newest(q, m) /\ q.service \in Services \cup {None}
           preferred == PreferNew(CarryForward(fresh, Context), fresh, m)
           freezes == UNION {GroundFreeze(q, m) : q \in preferred}
           placed == UNION {GroundDestination(NormalizeFee(q, m), m) : q \in freezes}
           asked == UNION {GroundAction(q, m) : q \in placed}
<1>1. \A q \in preferred : Ok(q)
  <2>1. /\ fresh = Request(fresh.service, fresh.sub, fresh.pay)
        /\ fresh.service \in Services
        /\ From(fresh.pay, m, NothingWritten)
    BY FreshIsWritten, ReachedAreServices
  <2> DEFINE carried == CarryForward(fresh, Context)
  <2>2. /\ Theirs(carried, m) /\ carried.service = fresh.service
        /\ fresh.pay.number # None => carried.pay.number = fresh.pay.number
    BY <2>1, CarriedAreTheirs
  <2> HIDE DEF carried
  <2>3. ASSUME NEW q \in PreferNew(carried, fresh, m) PROVE Ok(q)
    BY <2>1, <2>2, <2>3, NewIsPreferred
  <2> QED
    BY <2>3 DEF carried
<1> HIDE DEF preferred
<1>2. ASSUME NEW q, Ok(q), NEW n \in GroundFreeze(q, m) PROVE Ok(n)
  BY <1>2, GroundedAreTheirs
<1>3. ASSUME NEW q, Ok(q) PROVE Ok(NormalizeFee(q, m))
  BY <1>3, GroundedAreTheirs
<1>4. ASSUME NEW q, Ok(q), NEW n \in GroundDestination(q, m) PROVE Ok(n)
  BY <1>4, GroundedAreTheirs
<1>5. ASSUME NEW q, Ok(q), NEW n \in GroundAction(q, m) PROVE Ok(n)
  BY <1>5, GroundedAreTheirs
<1>6. ASSUME NEW q, Ok(q), NEW n \in FillKnown(q, m) PROVE Ok(n)
  BY <1>6, FilledInAreTheirs
<1> HIDE DEF Ok
<1>7. \A q \in freezes : Ok(q)
  BY <1>1, <1>2
<1> HIDE DEF freezes
<1>8. \A q \in placed : Ok(q)
  BY <1>3, <1>4, <1>7
<1> HIDE DEF placed
<1>9. \A q \in asked : Ok(q)
  BY <1>5, <1>8
<1> HIDE DEF asked
<1>10. r \in UNION {FillKnown(q, m) : q \in asked}
  BY DEF Classified, asked, placed, freezes, preferred
<1>11. Ok(r)
  BY <1>6, <1>9, <1>10
<1> QED
  BY <1>11 DEF Ok

-----------------------------------------------------------------------------
(* What a turn leaves. *)

\* A payload the turn may leave for request `r`: the bank adds an account of theirs to a
\* dispute, and nothing to a transfer.
Leavable(p, r) ==
    /\ DOMAIN p = Fields
    /\ p.amount \in {None, r.pay.amount}
    /\ \/ p.number \in {None, r.pay.number}
       \/ p.number \in Own /\ r.service \notin Transfers

\* A classification the turn may leave for request `r`.
LeftFor(t, r) ==
    /\ t.service = r.service
    /\ Leavable(t.pay, r)
    /\ t.type \in Selection /\ r.service \in Transfers => t.cands \subseteq Own

LEMMA LeavableNothing ==
    ASSUME NEW r PROVE Leavable(Nothing, r)
BY DEF Leavable, Nothing, Fields

LEMMA LeavableTheirs ==
    ASSUME NEW m, NEW r, Theirs(r, m) PROVE Leavable(r.pay, r)
BY DEF Leavable, Theirs, From

LEMMA LeavableAccount ==
    ASSUME NEW m, NEW r, Theirs(r, m), r.service = "dispute", NEW a \in AccountsToTry(r)
    PROVE  Leavable(WithAccount(r.pay, a), r)
BY DEF Leavable, Theirs, From, WithAccount, AccountsToTry, Fields, Transfers

LEMMA LeftIs ==
    ASSUME NEW type, NEW r, NEW p
    PROVE  /\ Left(type, r, p).type = type /\ Left(type, r, p).service = r.service
           /\ Left(type, r, p).pay = p /\ Left(type, r, p).missing = {}
BY DEF Left, Other

LEMMA AskedIs ==
    ASSUME NEW type, NEW r, NEW p, NEW c
    PROVE  /\ Asked(type, r, p, c).type = type /\ Asked(type, r, p, c).service = r.service
           /\ Asked(type, r, p, c).pay = p /\ Asked(type, r, p, c).cands = c
BY DEF Left, Asked, Other

LEMMA AnsweredFor ==
    ASSUME NEW m, NEW r, Theirs(r, m) PROVE LeftFor(Answered(r), r)
<1>1. Answered(r).type \notin Selection
  BY LeftIs DEF Answered, Selection, Pending
<1>2. Answered(r).service = r.service /\ Answered(r).pay \in {Nothing, r.pay}
  BY LeftIs DEF Answered
<1> QED
  BY <1>1, <1>2, LeavableNothing, LeavableTheirs DEF LeftFor

LEMMA PicksFor ==
    ASSUME NEW m, NEW r, Theirs(r, m), NEW t \in Picks(r) PROVE LeftFor(t, r)
<1>1. CASE t = Answered(r)
  BY <1>1, AnsweredFor
<1>2. ASSUME NEW c, t = Asked("ACCOUNT_SELECTION", r, r.pay, c),
             r.service \in Transfers => c = Own
      PROVE  LeftFor(t, r)
  BY <1>2, AskedIs, LeavableTheirs DEF LeftFor
<1>3. ASSUME r.service = "dispute", NEW a \in AccountsToTry(r),
             t = Asked("TRANSACTION_SELECTION", r, WithAccount(r.pay, a), {"theirs"})
      PROVE  LeftFor(t, r)
  BY <1>3, AskedIs, LeavableAccount DEF LeftFor, Transfers
<1>4. CASE r.service = "freeze"
  <2>1. t \in {Asked("ACCOUNT_SELECTION", r, r.pay, Cards), Answered(r)}
    BY <1>4 DEF Picks
  <2>2. r.service \notin Transfers
    BY <1>4 DEF Transfers
  <2> QED
    BY <1>1, <1>2, <2>1, <2>2
<1>5. CASE r.service = "bank"
  BY <1>1, <1>2, <1>5 DEF Picks
<1>6. CASE r.service = "dispute" /\ r.pay.txn = None
  <2>1. t \in {Asked("TRANSACTION_SELECTION", r, WithAccount(r.pay, a), {"theirs"}) :
                 a \in AccountsToTry(r)}
             \cup IF r.pay.number = None THEN {Asked("ACCOUNT_SELECTION", r, r.pay, Own)} ELSE {}
    BY <1>6 DEF Picks
  <2> QED
    BY <1>2, <1>3, <1>6, <2>1
<1>7. CASE r.service = "dispute" /\ r.pay.txn # None
  BY <1>2, <1>7 DEF Picks, Transfers
<1>8. CASE r.service \notin {"freeze", "bank", "dispute"}
  BY <1>8 DEF Picks
<1> QED
  BY <1>4, <1>5, <1>6, <1>7, <1>8

LEMMA PrefilledIsLeavable ==
    ASSUME NEW m, NEW r, Theirs(r, m), NEW p \in Prefilled(r) PROVE Leavable(p, r)
<1>1. CASE p = r.pay
  BY <1>1, LeavableTheirs
<1>2. ASSUME NEW c, p = [r.pay EXCEPT !.card = c] PROVE Leavable(p, r)
  BY <1>2, LeavableTheirs DEF Leavable, Fields
<1>3. ASSUME r.service = "dispute", NEW a \in AccountsToTry(r), NEW t,
             p = [WithAccount(r.pay, a) EXCEPT !.txn = t]
      PROVE  Leavable(p, r)
  BY <1>3, LeavableAccount DEF Leavable, Fields
<1>4. CASE r.service = "dispute"
  BY <1>1, <1>3, <1>4 DEF Prefilled
<1>5. CASE r.service # "dispute"
  BY <1>1, <1>2, <1>5 DEF Prefilled
<1> QED
  BY <1>4, <1>5

LEMMA SettledFor ==
    ASSUME NEW m, NEW r, Theirs(r, m), NEW p, Leavable(p, r), NEW t \in Settled(r, p)
    PROVE  LeftFor(t, r)
<1>1. CASE t = Answered(r)
  BY <1>1, AnsweredFor
<1>2. CASE \E c : t = [Left("CLARIFICATION", r, p) EXCEPT !.missing = c]
  BY <1>2 DEF Left, Other, LeftFor, Selection, Pending
<1>3. CASE t = Left("CONFIRMATION", r, p)
  BY <1>3, LeftIs DEF LeftFor, Selection, Pending
<1>4. CASE t = Asked("ACCOUNT_SELECTION", r, p, Own)
  BY <1>4, AskedIs DEF LeftFor
<1>5. CASE Missing(r.service, p) # {}
  BY <1>2, <1>5 DEF Settled
<1>6. CASE Missing(r.service, p) = {}
  BY <1>1, <1>3, <1>4, <1>6 DEF Settled, AccountRead
<1> QED
  BY <1>5, <1>6

\* Every outcome of a request that is about a service is left for it, or leaves nothing.
LEMMA OutcomesFor ==
    ASSUME NEW m, NEW r, Theirs(r, m), r.service # None, NEW t \in Outcomes(r)
    PROVE  t = Other \/ LeftFor(t, r)
<1>1. CASE t \in Picks(r)
  BY <1>1, PicksFor
<1>2. ASSUME NEW p \in Prefilled(r), t \in Settled(r, p) PROVE LeftFor(t, r)
  BY <1>2, PrefilledIsLeavable, SettledFor
<1> QED
  BY <1>1, <1>2 DEF Outcomes

-----------------------------------------------------------------------------
(* The turn. *)

\* A turn that is about no request leaves nothing of one.
LEMMA NothingLeft ==
    ASSUME last' = Other \/ last' = Left("CLARIFICATION", Unclear, Nothing),
           wrote' = [amounts |-> wrote'.amounts, numbers |-> wrote'.numbers]
    PROVE  DetailsInv' /\ NewNumberWins'
<1>1. /\ last'.service = None /\ last'.pay = Nothing /\ last'.missing = {}
      /\ last'.type \notin Selection
  <2>1. CASE last' = Other
    BY <2>1 DEF Other, Selection, Pending
  <2>2. CASE last' = Left("CLARIFICATION", Unclear, Nothing)
    <3>1. Unclear.service = None
      BY DEF Unclear, Request
    <3>2. "CLARIFICATION" \notin Selection
      BY DEF Selection, Pending
    <3> QED
      BY <2>2, <3>1, <3>2, LeftIs
  <2> QED
    BY <2>1, <2>2
<1>2. DOMAIN Nothing = Fields /\ Nothing.amount = None /\ Nothing.number = None
  BY DEF Nothing, Fields
<1> QED
  BY <1>1, <1>2, DetailsAssumption DEF DetailsInv, DetailsAreTheirs, NewNumberWins, Numbers

LEMMA ConcludeKeeps ==
    ASSUME Own \cap Numbers = {}, DetailsInv, NEW m, NEW r,
           Theirs(r, m), Newest(r, m), r.service \in Services \cup {None}, Conclude(r, m)
    PROVE  DetailsInv' /\ NewNumberWins'
<1>1. PICK c \in Clean(r) : last' \in Outcomes(c)
  BY DEF Conclude
<1>2. Theirs(c, m) /\ Newest(c, m) /\ c.service = r.service /\ message' = m
  BY CleanedAreTheirs DEF Conclude
<1>3. wrote' = [amounts |-> wrote'.amounts, numbers |-> wrote'.numbers]
  BY DEF Conclude, Writes, NothingWritten
<1>4. CASE last' = Other
  BY <1>3, <1>4, NothingLeft
<1>5. CASE c.service = None
  <2>1. last' = Left("CLARIFICATION", c, Nothing)
    BY <1>1, <1>5 DEF Outcomes
  <2>2. /\ last'.service = None /\ last'.pay = Nothing /\ last'.missing = {}
        /\ last'.type \notin Selection
    BY <2>1, <1>5 DEF Left, Other, Selection, Pending
  <2>3. DOMAIN Nothing = Fields /\ Nothing.amount = None /\ Nothing.number = None
    BY DEF Nothing, Fields
  <2> QED
    BY <1>3, <2>2, <2>3, DetailsAssumption
       DEF DetailsInv, DetailsAreTheirs, NewNumberWins, Numbers
<1>6. CASE last' # Other /\ c.service # None
  <2>1. LeftFor(last', c)
    BY <1>1, <1>2, <1>6, OutcomesFor
  <2>2. /\ Writes(m).amounts = AmountsIn[m] /\ Writes(m).numbers = NumbersIn[m]
        /\ NothingWritten.amounts = {} /\ NothingWritten.numbers = {}
    BY DEF Writes, NothingWritten
  <2>3. /\ wrote'.amounts = Carried(c.service).amounts \cup Writes(m).amounts
        /\ wrote'.numbers = Carried(c.service).numbers \cup Writes(m).numbers
    <3>1. CASE last.service # None /\ c.service = last.service
      BY <1>6, <2>1, <3>1 DEF Conclude, Continues, Carried, LeftFor
    <3>2. CASE ~(last.service # None /\ c.service = last.service)
      BY <1>6, <2>1, <2>2, <3>2 DEF Conclude, Continues, Carried, LeftFor
    <3> QED
      BY <3>1, <3>2
  <2>4. /\ last'.service = c.service /\ DOMAIN last'.pay = Fields
        /\ last'.pay.amount \in {None, c.pay.amount}
        /\ \/ last'.pay.number \in {None, c.pay.number}
           \/ last'.pay.number \in Own /\ c.service \notin Transfers
    BY <2>1 DEF LeftFor, Leavable
  <2>5. DetailsAreTheirs'
    <3>1. From(c.pay, m, Carried(c.service))
      BY <1>2 DEF Theirs
    <3>2. last'.pay.amount \in wrote'.amounts \cup {None}
      BY <2>2, <2>3, <2>4, <3>1 DEF From
    <3>3. ASSUME last'.pay.number \in Numbers PROVE last'.pay.number \in wrote'.numbers
      BY <2>2, <2>3, <2>4, <3>1, <3>3, DetailsAssumption DEF From, Numbers
    <3> QED
      BY <3>2, <3>3 DEF DetailsAreTheirs
  <2>6. NewNumberWins'
    BY <1>2, <2>4, DetailsAssumption DEF NewNumberWins, Newest, Numbers
  <2> QED
    BY <1>2, <1>3, <1>6, <2>1, <2>4, <2>5, <2>6 DEF DetailsInv, LeftFor
<1> QED
  BY <1>4, <1>5, <1>6

\* A new request is one of the readings, and the turn notes whether its number is made up.
LEMMA ClassifyReads ==
    ASSUME NEW m, Classify(m)
    PROVE  \E fresh \in Fresh[m] : /\ \E r \in Classified(fresh, m) : Conclude(r, m)
                                   /\ invented' = (fresh.pay.number = Made)
<1>1. PICK made \in BOOLEAN :
         LET read == {fresh \in Fresh[m] : (fresh.pay.number = Made) = made} IN
         /\ \E r \in UNION {Classified(fresh, m) : fresh \in read} : Conclude(r, m)
         /\ invented' = made
  BY DEF Classify
<1>2. PICK fresh \in Fresh[m] : /\ (fresh.pay.number = Made) = made
                               /\ \E r \in Classified(fresh, m) : Conclude(r, m)
  BY <1>1
<1> QED
  BY <1>1, <1>2

\* The three ways a turn about a request comes to one, and the turn about none.
LEMMA DetailsTurnKeeps ==
    ASSUME Own \cap Numbers = {}, DetailsInv, DetailsNext
    PROVE  DetailsInv' /\ NewNumberWins'
<1>1. PICK m \in Messages : Pick(m) \/ Fill(m) \/ Classify(m) \/ Elsewhere(m)
  BY DEF DetailsNext
<1>2. From(last.pay, m, Carried(last.service))
  BY LastIsTheirs
<1>3. CASE Pick(m)
  <2>1. PICK c \in last.cands \cup {m.pick} :
           /\ c \in last.cands
           /\ Conclude(Request(last.service, last.sub, Over(last.pay, Chosen(c))), m)
    BY <1>3 DEF Pick, PickedInApp
  <2> DEFINE p == Over(last.pay, Chosen(c))
             r == Request(last.service, last.sub, p)
  <2>2. /\ DOMAIN Chosen(c) = Fields /\ Chosen(c).amount = None
        /\ Chosen(c).number = IF c \in Own THEN c ELSE None
    BY DEF Chosen, Nothing, Fields
  <2>3. From(p, m, Carried(last.service))
    <3>1. From(Chosen(c), m, Carried(last.service))
      BY <2>2, DetailsAssumption DEF From, Numbers
    <3> QED
      BY <3>1, <1>2, BothAreFrom
  <2>4. Theirs(r, m) /\ r.service = last.service
    BY <2>3 DEF Theirs, Request
  <2>5. Newest(r, m)
    <3>1. ASSUME last.service \in Transfers PROVE p.number = c
      <4>1. c \in Own
        BY <2>1, <1>3, <3>1 DEF Pick, DetailsInv
      <4> QED
        BY <2>2, <4>1, DetailsAssumption DEF Over, Fields
    <3> QED
      BY <2>1, <2>4, <3>1, <1>3 DEF Newest, Pick, DetailsInv, Request
  <2> HIDE DEF r
  <2>6. last.service \in Services \cup {None}
    BY DEF DetailsInv
  <2> QED
    BY <2>1, <2>4, <2>5, <2>6, ConcludeKeeps DEF r
<1>4. CASE Fill(m)
  <2>1. PICK p \in Filled(FillFields, m) :
           \E r \in PreferNew(Request(last.service, last.sub, Over(last.pay, p)),
                              Request(last.service, None, Nothing), m) : Conclude(r, m)
    BY <1>4 DEF Fill
  <2> DEFINE given == Request(last.service, last.sub, Over(last.pay, p))
             fresh == Request(last.service, None, Nothing)
  <2>2. From(Over(last.pay, p), m, Carried(last.service))
    BY <1>2, FilledIsWritten, WrittenNow, BothAreFrom
  <2>3. Theirs(given, m) /\ given.service = last.service
    BY <2>2 DEF Theirs, Request
  <2>4. From(fresh.pay, m, NothingWritten) /\ fresh.pay.number = None
    BY NoDetail DEF Request, Nothing, Fields
  <2> HIDE DEF given, fresh
  <2>5. PICK r \in PreferNew(given, fresh, m) : Conclude(r, m)
    BY <2>1 DEF given, fresh
  <2>6. Theirs(r, m) /\ Newest(r, m) /\ r.service = last.service
    BY <2>3, <2>4, NewIsPreferred
  <2>7. last.service \in Services \cup {None}
    BY DEF DetailsInv
  <2> QED
    BY <2>5, <2>6, <2>7, ConcludeKeeps
<1>5. CASE Classify(m)
  <2>1. PICK fresh \in Fresh[m] : \E r \in Classified(fresh, m) : Conclude(r, m)
    BY <1>5, ClassifyReads
  <2>2. PICK r \in Classified(fresh, m) : Conclude(r, m)
    BY <2>1
  <2>3. Theirs(r, m) /\ Newest(r, m) /\ r.service \in Services \cup {None}
    BY ClassifiedAreTheirs
  <2> QED
    BY <2>2, <2>3, ConcludeKeeps
<1>6. CASE Elsewhere(m)
  BY <1>6, NothingLeft DEF Elsewhere, NothingWritten
<1> QED
  BY <1>1, <1>3, <1>4, <1>5, <1>6

-----------------------------------------------------------------------------
(* What was gathered while a question was open. *)

\* The number gathered is still the request's: the message has no digits, and the
\* classifier made none up (`made`).
Held(m, made) == last.pay.number \in Numbers \cup Own /\ m.digits = <<>> /\ ~made

\* The request still has what the last turn had gathered and the message does not change.
Keeps(r, m, made) ==
    /\ last.type = "CLARIFICATION" /\ last.service \notin NoFollowUp \cup {None}
    /\ r.service = last.service
    => /\ last.pay.amount # None => r.pay.amount \in {last.pay.amount} \cup AmountsIn[m]
       /\ Held(m, made) => r.pay.number = last.pay.number

Gathers(r, m, made) ==
    r = Request(r.service, r.sub, r.pay) /\ DOMAIN r.pay = Fields /\ Keeps(r, m, made)

\* A number the checks of a request let stand.
Stands(n, service) == n \in Numbers \cup Own => Real(n, service)

\* What the last turn left: only missing details are asked for, and a number gathered has
\* passed the checks already.
GatherInv ==
    /\ DOMAIN last.pay = Fields
    /\ last.service = None => last.pay = Nothing
    /\ last.type = "CLARIFICATION" =>
         /\ last.missing \cap Given(last.pay) = {}
         /\ last.service = None => last.missing = {}
         /\ last.service # None => Stands(last.pay.number, last.service)

\* A message without digits has no number, whole or in part.
LEMMA NoDigits ==
    ASSUME NEW m \in Messages, m.digits = <<>>
    PROVE  NumbersIn[m] = {} /\ m.runs = {}
<1>1. SubSeqs(m.digits) \subseteq {<<>>}
  <2>1. ASSUME NEW i \in 0..Len(<<>>), NEW j \in 0..Len(<<>>) PROVE SubSeq(<<>>, i + 1, j) = <<>>
    <3>1. i = 0 /\ j = 0
      OBVIOUS
    <3> QED
      BY <3>1
  <2> QED
    BY <2>1 DEF SubSeqs
<1>2. m.runs = {}
  BY <1>1, MessagesAssumption
<1>3. \A n \in Numbers \cup Own : Digits[n] # <<>>
  BY DetailsAssumption
<1> QED
  BY <1>1, <1>2, <1>3 DEF NumbersIn

\* Filling in what is missing keeps what is there.
LEMMA FilledOnlyAsked ==
    ASSUME NEW fields, NEW m, NEW p \in Filled(fields, m)
    PROVE  /\ DOMAIN p = Fields
           /\ "amount" \notin fields => p.amount = None
           /\ "number" \notin fields => p.number = None
<1> DEFINE Filling(f) == IF f \in fields THEN Fillings(f, m) ELSE {None}
<1>1. p \in [amount : Filling("amount"), number : Filling("number"), kind : Filling("kind"),
             words : Filling("words"), txn : Filling("txn"), card : Filling("card")]
  BY DEF Filled, Payloads
<1>2. /\ "amount" \notin fields => Filling("amount") = {None}
      /\ "number" \notin fields => Filling("number") = {None}
  OBVIOUS
<1> HIDE DEF Filling
<1> QED
  BY <1>1, <1>2 DEF Fields

LEMMA CarriedGathers ==
    ASSUME GatherInv, NEW m \in Messages, NEW fresh,
           fresh = Request(fresh.service, fresh.sub, fresh.pay),
           From(fresh.pay, m, NothingWritten),
           fresh.pay.number \in {None, Made} \cup NumbersIn[m]
    PROVE  Gathers(CarryForward(fresh, Context), m, fresh.pay.number = Made)
<1> DEFINE r == CarryForward(fresh, Context)
           kept == Over(Context.pay, fresh.pay)
           carries == /\ Context.type \in {"CLARIFICATION", "BANKING_SERVICE"}
                      /\ Context.service = fresh.service /\ Given(Context.pay) # {}
<1>1. DOMAIN fresh.pay = Fields /\ fresh.pay.amount \in {None} \cup AmountsIn[m]
  BY DEF From, NothingWritten
<1>2. CASE ~carries
  <2>1. r = fresh
    BY <1>2 DEF CarryForward
  <2>2. ASSUME last.type = "CLARIFICATION", last.service = fresh.service
        PROVE  last.pay.amount = None /\ last.pay.number = None
    BY <1>2, <2>2 DEF Context, Pending, Given, Fields
  <2> QED
    BY <1>1, <2>1, <2>2, DetailsAssumption DEF Gathers, Keeps, Held
<1>3. CASE carries
  <2>1. r.pay = kept /\ r.service = fresh.service /\ r = Request(r.service, r.sub, r.pay)
    BY <1>3 DEF CarryForward, Request
  <2>2. Context = last
    BY <1>3 DEF Context, Other
  <2>3. /\ DOMAIN kept = Fields
        /\ kept.amount = IF fresh.pay.amount # None THEN fresh.pay.amount ELSE last.pay.amount
        /\ kept.number = IF fresh.pay.number # None THEN fresh.pay.number ELSE last.pay.number
    BY <2>2 DEF Over, Fields
  <2>4. Held(m, fresh.pay.number = Made) => fresh.pay.number = None
    BY NoDigits DEF Held
  <2> HIDE DEF r, kept
  <2> QED
    BY <1>1, <2>1, <2>3, <2>4 DEF Gathers, Keeps, r
<1> QED
  BY <1>2, <1>3

LEMMA PreferredGathers ==
    ASSUME NEW m \in Messages, NEW made, NEW r, NEW fresh, Gathers(r, m, made),
           NEW new \in PreferNew(r, fresh, m)
    PROVE  Gathers(new, m, made)
<1>1. DOMAIN r.pay = Fields
  BY DEF Gathers
<1>2. /\ new = Request(r.service, new.sub, new.pay) /\ new.service = r.service
      /\ DOMAIN new.pay = Fields
      /\ new.pay.amount \in {r.pay.amount} \cup AmountsIn[m]
      /\ m.runs = {} => new.pay.number = r.pay.number
  BY <1>1, PreferredIs
<1>3. Held(m, made) => m.runs = {}
  BY NoDigits DEF Held
<1> QED
  BY <1>2, <1>3 DEF Gathers, Keeps

LEMMA GroundedGathers ==
    ASSUME NEW m, NEW made, NEW r, Gathers(r, m, made),
           NEW new \in GroundFreeze(r, m) \cup {NormalizeFee(r, m)} \cup GroundDestination(r, m)
                       \cup GroundAction(r, m)
    PROVE  Gathers(new, m, made)
<1>1. CASE new = Unclear
  BY <1>1 DEF Gathers, Keeps, Unclear, Request, Nothing, Fields
<1>2. CASE \E w : new = Request(r.service, r.sub, [r.pay EXCEPT !.words = w])
  BY <1>2 DEF Gathers, Keeps, Request, Fields
<1>3. CASE new = [r EXCEPT !.pay.kind = None]
  BY <1>3 DEF Gathers, Keeps, Request, Fields
<1>4. CASE new = [r EXCEPT !.sub = None]
  BY <1>4 DEF Gathers, Keeps, Request
<1>5. CASE new = r
  BY <1>5
<1> QED
  BY <1>1, <1>2, <1>3, <1>4, <1>5 DEF GroundFreeze, NormalizeFee, GroundDestination, GroundAction

LEMMA FilledInGathers ==
    ASSUME NEW m, NEW made, NEW r, Gathers(r, m, made), NEW new \in FillKnown(r, m)
    PROVE  Gathers(new, m, made)
<1> DEFINE missing == Required(r.service) \ (Given(r.pay) \cup BankKnows(r.service))
<1>1. CASE new = r
  BY <1>1
<1>2. CASE new # r
  <2>1. PICK p \in Filled(missing, m) : new = Request(r.service, r.sub, Over(r.pay, p))
    BY <1>2 DEF FillKnown
  <2>2. /\ DOMAIN p = Fields
        /\ r.pay.amount # None => p.amount = None
        /\ r.pay.number # None => p.number = None
    BY FilledOnlyAsked DEF Given, Gathers, Fields
  <2> HIDE DEF missing
  <2>3. /\ DOMAIN Over(r.pay, p) = Fields
        /\ Over(r.pay, p).amount = IF p.amount # None THEN p.amount ELSE r.pay.amount
        /\ r.pay.number # None => Over(r.pay, p).number = r.pay.number
    BY <2>2 DEF Over, Fields
  <2>4. p.amount \in {None} \cup AmountsIn[m]
    BY <2>1, FilledIsWritten DEF From, NothingWritten
  <2>5. Held(m, made) => last.pay.number # None
    BY DetailsAssumption DEF Held
  <2>6. Keeps(Request(r.service, r.sub, Over(r.pay, p)), m, made)
    BY <2>3, <2>4, <2>5 DEF Gathers, Keeps, Request
  <2> QED
    BY <2>1, <2>3, <2>6 DEF Gathers, Request
<1> QED
  BY <1>1, <1>2

\* Checking a number again does not drop one that was checked before.
LEMMA CleanedGathers ==
    ASSUME GatherInv, NEW m, NEW made, NEW r, Gathers(r, m, made), NEW c \in Clean(r)
    PROVE  /\ Gathers(c, m, made) /\ c.service = r.service
           /\ Stands(c.pay.number, c.service)
<1> DEFINE dropped == [r EXCEPT !.pay.number = None]
<1>1. dropped = Request(r.service, r.sub, [r.pay EXCEPT !.number = None])
  BY DEF Gathers, Request
<1>2. /\ dropped.service = r.service /\ dropped.pay.number = None
      /\ DOMAIN dropped.pay = Fields /\ dropped.pay.amount = r.pay.amount
      /\ dropped = Request(dropped.service, dropped.sub, dropped.pay)
  BY <1>1 DEF Gathers, Request, Fields
<1> HIDE DEF dropped
<1>3. None \notin Numbers \cup Own /\ Made \notin Numbers \cup Own
  BY DetailsAssumption
<1>4. \/ c = r
      \/ c = dropped /\ (r.pay.number = Made \/ ~Real(r.pay.number, r.service))
  BY DEF Clean, dropped
<1>5. CASE c = r
  <2>1. Stands(r.pay.number, r.service)
    BY <1>2, <1>3, <1>5 DEF Clean, Stands, dropped
  <2> QED
    BY <1>5, <2>1
<1>6. CASE c = dropped /\ (r.pay.number = Made \/ ~Real(r.pay.number, r.service))
  <2>1. ASSUME last.type = "CLARIFICATION", r.service = last.service, last.service # None,
               Held(m, made)
        PROVE  r.pay.number # last.pay.number
    BY <1>3, <1>6, <2>1 DEF Held, GatherInv, Stands
  <2>2. Keeps(c, m, made)
    BY <1>2, <1>6, <2>1 DEF Gathers, Keeps
  <2> QED
    BY <1>2, <1>3, <1>6, <2>2 DEF Gathers, Stands
<1> QED
  BY <1>4, <1>5, <1>6

LEMMA ClassifiedGathers ==
    ASSUME GatherInv, NEW m \in Messages, NEW fresh \in Fresh[m],
           NEW r \in Classified(fresh, m)
    PROVE  Gathers(r, m, fresh.pay.number = Made)
<1> DEFINE made == fresh.pay.number = Made
           preferred == PreferNew(CarryForward(fresh, Context), fresh, m)
           freezes == UNION {GroundFreeze(q, m) : q \in preferred}
           placed == UNION {GroundDestination(NormalizeFee(q, m), m) : q \in freezes}
           asked == UNION {GroundAction(q, m) : q \in placed}
<1>1. \A q \in preferred : Gathers(q, m, made)
  <2>1. /\ fresh = Request(fresh.service, fresh.sub, fresh.pay)
        /\ From(fresh.pay, m, NothingWritten)
        /\ fresh.pay.number \in {None, Made} \cup NumbersIn[m]
    BY FreshIsWritten
  <2> DEFINE carried == CarryForward(fresh, Context)
  <2>2. Gathers(carried, m, made)
    BY <2>1, CarriedGathers
  <2> HIDE DEF carried, made
  <2>3. ASSUME NEW q \in PreferNew(carried, fresh, m) PROVE Gathers(q, m, made)
    BY <2>2, <2>3, PreferredGathers
  <2> QED
    BY <2>3 DEF carried
<1> HIDE DEF preferred, made
<1>2. \A q \in freezes : Gathers(q, m, made)
  BY <1>1, GroundedGathers
<1> HIDE DEF freezes
<1>3. ASSUME NEW q \in freezes PROVE Gathers(NormalizeFee(q, m), m, made)
  BY <1>2, GroundedGathers
<1>4. \A q \in placed : Gathers(q, m, made)
  BY <1>3, GroundedGathers
<1> HIDE DEF placed
<1>5. \A q \in asked : Gathers(q, m, made)
  BY <1>4, GroundedGathers
<1> HIDE DEF asked
<1>6. r \in UNION {FillKnown(q, m) : q \in asked}
  BY DEF Classified, asked, placed, freezes, preferred
<1>7. Gathers(r, m, made)
  BY <1>5, <1>6, FilledInGathers
<1> QED
  BY <1>7 DEF made

\* A payload that has all of request `r`.
Whole(p, r) ==
    /\ DOMAIN p = Fields /\ p.amount = r.pay.amount
    /\ \/ p.number = r.pay.number
       \/ r.pay.number = None /\ r.service = "dispute" /\ p.number \in Own

\* A classification that has all of request `r`, and asks for nothing `r` has.
StaysFor(t, r) ==
    /\ t.service = r.service /\ DOMAIN t.pay = Fields
    /\ r.service \notin NoFollowUp => Whole(t.pay, r)
    /\ t.type = "CLARIFICATION" => Whole(t.pay, r) /\ t.missing = Missing(r.service, t.pay)

LEMMA AnsweredStays ==
    ASSUME NEW r, DOMAIN r.pay = Fields PROVE StaysFor(Answered(r), r)
<1>1. /\ Answered(r).type = "BANKING_SERVICE" /\ Answered(r).service = r.service
      /\ Answered(r).pay = IF r.service \in NoFollowUp THEN Nothing ELSE r.pay
  BY LeftIs DEF Answered
<1>2. DOMAIN Nothing = Fields /\ Nothing.amount = None /\ Nothing.number = None
  BY DEF Nothing, Fields
<1> QED
  BY <1>1, <1>2 DEF StaysFor, Whole

LEMMA WholeAccount ==
    ASSUME NEW r, DOMAIN r.pay = Fields, r.service = "dispute", NEW a \in AccountsToTry(r)
    PROVE  Whole(WithAccount(r.pay, a), r)
BY DEF Whole, WithAccount, AccountsToTry, Fields

LEMMA PicksStay ==
    ASSUME NEW r, DOMAIN r.pay = Fields, NEW t \in Picks(r)
    PROVE  StaysFor(t, r)
<1>1. CASE t = Answered(r)
  BY <1>1, AnsweredStays
<1>2. ASSUME NEW c, t = Asked("ACCOUNT_SELECTION", r, r.pay, c) PROVE StaysFor(t, r)
  BY <1>2, AskedIs DEF StaysFor, Whole
<1>3. ASSUME r.service = "dispute", NEW a \in AccountsToTry(r),
             t = Asked("TRANSACTION_SELECTION", r, WithAccount(r.pay, a), {"theirs"})
      PROVE  StaysFor(t, r)
  BY <1>3, AskedIs, WholeAccount DEF StaysFor, Whole
<1>4. CASE r.service = "freeze"
  <2>1. t \in {Asked("ACCOUNT_SELECTION", r, r.pay, Cards), Answered(r)}
    BY <1>4 DEF Picks
  <2> QED
    BY <1>1, <1>2, <2>1
<1>5. CASE r.service = "bank"
  BY <1>1, <1>2, <1>5 DEF Picks
<1>6. CASE r.service = "dispute" /\ r.pay.txn = None
  <2>1. t \in {Asked("TRANSACTION_SELECTION", r, WithAccount(r.pay, a), {"theirs"}) :
                 a \in AccountsToTry(r)}
             \cup IF r.pay.number = None THEN {Asked("ACCOUNT_SELECTION", r, r.pay, Own)} ELSE {}
    BY <1>6 DEF Picks
  <2> QED
    BY <1>2, <1>3, <1>6, <2>1
<1>7. CASE r.service = "dispute" /\ r.pay.txn # None
  BY <1>2, <1>7 DEF Picks
<1>8. CASE r.service \notin {"freeze", "bank", "dispute"}
  BY <1>8 DEF Picks
<1> QED
  BY <1>4, <1>5, <1>6, <1>7, <1>8

LEMMA PrefilledIsWhole ==
    ASSUME NEW r, DOMAIN r.pay = Fields, NEW p \in Prefilled(r) PROVE Whole(p, r)
<1>1. CASE p = r.pay
  BY <1>1 DEF Whole
<1>2. ASSUME NEW c, p = [r.pay EXCEPT !.card = c] PROVE Whole(p, r)
  BY <1>2 DEF Whole, Fields
<1>3. ASSUME r.service = "dispute", NEW a \in AccountsToTry(r), NEW t,
             p = [WithAccount(r.pay, a) EXCEPT !.txn = t]
      PROVE  Whole(p, r)
  BY <1>3, WholeAccount DEF Whole, Fields
<1>4. CASE r.service = "dispute"
  BY <1>1, <1>3, <1>4 DEF Prefilled
<1>5. CASE r.service # "dispute"
  BY <1>1, <1>2, <1>5 DEF Prefilled
<1> QED
  BY <1>4, <1>5

LEMMA SettledStays ==
    ASSUME NEW r, DOMAIN r.pay = Fields, NEW p, Whole(p, r), NEW t \in Settled(r, p)
    PROVE  StaysFor(t, r)
<1>1. CASE t = Answered(r)
  BY <1>1, AnsweredStays
<1>2. CASE t = [Left("CLARIFICATION", r, p) EXCEPT !.missing = Missing(r.service, p)]
  <2>1. /\ t.type = "CLARIFICATION" /\ t.service = r.service /\ t.pay = p
        /\ t.missing = Missing(r.service, p)
    BY <1>2 DEF Left, Other
  <2> QED
    BY <2>1 DEF StaysFor, Whole
<1>3. CASE t = Left("CONFIRMATION", r, p)
  BY <1>3, LeftIs DEF StaysFor, Whole
<1>4. CASE t = Asked("ACCOUNT_SELECTION", r, p, Own)
  BY <1>4, AskedIs DEF StaysFor, Whole
<1>5. CASE Missing(r.service, p) # {}
  BY <1>2, <1>5 DEF Settled
<1>6. CASE Missing(r.service, p) = {}
  BY <1>1, <1>3, <1>4, <1>6 DEF Settled, AccountRead
<1> QED
  BY <1>5, <1>6

\* The step, for a request that comes to a conclusion.
GatheredStep ==
    last.type = "CLARIFICATION" /\ last'.service = last.service /\ last.service \notin NoFollowUp =>
        /\ last.pay.amount # None => last'.pay.amount \in {last.pay.amount} \cup AmountsIn[message']
        /\ /\ last.pay.number \in Numbers \cup Own
           /\ message'.digits = <<>> /\ ~invented'
           => last'.pay.number = last.pay.number

LEMMA NothingToKeep ==
    ASSUME GatherInv, last'.service = None, last'.pay = Nothing, last'.missing = {}
    PROVE  GatherInv' /\ GatheredStep
<1>1. /\ DOMAIN Nothing = Fields /\ Nothing.amount = None /\ Nothing.number = None
  BY DEF Nothing, Fields
<1> QED
  BY <1>1, DetailsAssumption DEF GatherInv, GatheredStep

LEMMA AboutNothing ==
    ASSUME GatherInv, last' = Other \/ last' = Left("CLARIFICATION", Unclear, Nothing)
    PROVE  GatherInv' /\ GatheredStep
<1>1. Unclear.service = None
  BY DEF Unclear, Request
<1>2. last'.service = None /\ last'.pay = Nothing /\ last'.missing = {}
  BY <1>1, LeftIs DEF Other
<1> QED
  BY <1>2, NothingToKeep

LEMMA ConcludeGathers ==
    ASSUME GatherInv, NEW m, NEW r, Gathers(r, m, invented'), Conclude(r, m)
    PROVE  GatherInv' /\ GatheredStep
<1>1. PICK c \in Clean(r) : last' \in Outcomes(c)
  BY DEF Conclude
<1>2. /\ Gathers(c, m, invented') /\ Stands(c.pay.number, c.service)
      /\ message' = m
  BY CleanedGathers DEF Conclude
<1>3. CASE last' = Other
  BY <1>3, NothingToKeep DEF Other
<1>4. CASE c.service = None
  <2>1. last' = Left("CLARIFICATION", c, Nothing)
    BY <1>1, <1>4 DEF Outcomes
  <2> QED
    BY <1>4, <2>1, LeftIs, NothingToKeep
<1>5. CASE last' # Other /\ c.service # None
  <2>1. DOMAIN c.pay = Fields /\ Keeps(c, m, invented')
    BY <1>2 DEF Gathers
  <2>2. StaysFor(last', c)
    <3>1. ASSUME NEW p \in Prefilled(c), last' \in Settled(c, p) PROVE StaysFor(last', c)
      BY <2>1, <3>1, PrefilledIsWhole, SettledStays
    <3>2. CASE last' \in Picks(c)
      BY <2>1, <3>2, PicksStay
    <3> QED
      BY <1>1, <1>5, <3>1, <3>2 DEF Outcomes
  <2>3. GatheredStep
    <3>1. SUFFICES ASSUME last.type = "CLARIFICATION", last'.service = last.service,
                          last.service \notin NoFollowUp
                   PROVE  /\ last.pay.amount # None =>
                                last'.pay.amount \in {last.pay.amount} \cup AmountsIn[m]
                          /\ Held(m, invented') => last'.pay.number = last.pay.number
      BY <1>2 DEF GatheredStep, Held
    <3>2. c.service = last.service /\ last.service # None /\ Whole(last'.pay, c)
      BY <1>5, <2>2, <3>1 DEF StaysFor
    <3>3. Held(m, invented') => c.pay.number # None
      BY <2>1, <3>1, <3>2, DetailsAssumption DEF Held, Keeps
    <3> QED
      BY <2>1, <3>1, <3>2, <3>3 DEF Keeps, Whole
  <2>4. GatherInv'
    <3>1. DOMAIN last'.pay = Fields /\ last'.service = c.service
      BY <2>2 DEF StaysFor
    <3>2. ASSUME last'.type = "CLARIFICATION"
          PROVE  /\ last'.missing \cap Given(last'.pay) = {}
                 /\ Stands(last'.pay.number, last'.service)
      <4>1. last'.missing = Missing(c.service, last'.pay) /\ Whole(last'.pay, c)
        BY <2>2, <3>2 DEF StaysFor
      <4>2. \A n \in Own : Real(n, "dispute")
        BY DetailsAssumption DEF Real
      <4>3. Stands(last'.pay.number, c.service)
        BY <1>2, <4>1, <4>2 DEF Whole, Stands
      <4> QED
        BY <3>1, <4>1, <4>3 DEF Missing
    <3> QED
      BY <1>5, <3>1, <3>2 DEF GatherInv, Given
  <2> QED
    BY <2>3, <2>4
<1> QED
  BY <1>3, <1>4, <1>5

LEMMA DetailsTurnGathers ==
    ASSUME GatherInv, DetailsNext
    PROVE  GatherInv' /\ GatheredStep
<1>1. PICK m \in Messages : Pick(m) \/ Fill(m) \/ Classify(m) \/ Elsewhere(m)
  BY DEF DetailsNext
<1>2. CASE Pick(m)
  <2>1. PICK c : Conclude(Request(last.service, last.sub, Over(last.pay, Chosen(c))), m)
    BY <1>2 DEF Pick
  <2> DEFINE r == Request(last.service, last.sub, Over(last.pay, Chosen(c)))
  <2>2. last.type # "CLARIFICATION"
    BY <1>2 DEF Pick, Selection
  <2>3. Gathers(r, m, invented')
    BY <2>2 DEF Gathers, Keeps, Request, Over
  <2> QED
    BY <2>1, <2>3, ConcludeGathers
<1>3. CASE Fill(m)
  <2>1. PICK p \in Filled(FillFields, m) :
           \E r \in PreferNew(Request(last.service, last.sub, Over(last.pay, p)),
                              Request(last.service, None, Nothing), m) : Conclude(r, m)
    BY <1>3 DEF Fill
  <2> DEFINE given == Request(last.service, last.sub, Over(last.pay, p))
             fresh == Request(last.service, None, Nothing)
  <2>2. PICK r \in PreferNew(given, fresh, m) : Conclude(r, m)
    BY <2>1
  <2>3. /\ DOMAIN p = Fields
        /\ "amount" \notin FillFields => p.amount = None
        /\ "number" \notin FillFields => p.number = None
    BY FilledOnlyAsked
  <2>4. last.type = "CLARIFICATION" =>
           /\ last.pay.amount # None => "amount" \notin FillFields
           /\ last.pay.number # None => "number" \notin FillFields
    BY DEF FillFields, GatherInv, Given, Fields
  <2>5. /\ DOMAIN Over(last.pay, p) = Fields
        /\ Over(last.pay, p).amount = IF p.amount # None THEN p.amount ELSE last.pay.amount
        /\ Over(last.pay, p).number = IF p.number # None THEN p.number ELSE last.pay.number
    BY DEF Over, Fields
  <2>6. Gathers(given, m, invented')
    BY <2>3, <2>4, <2>5, DetailsAssumption DEF Gathers, Keeps, Held, Request
  <2> HIDE DEF given, fresh
  <2>7. Gathers(r, m, invented')
    BY <2>2, <2>6, PreferredGathers
  <2> QED
    BY <2>2, <2>7, ConcludeGathers
<1>4. CASE Classify(m)
  <2>1. PICK fresh \in Fresh[m] : /\ \E r \in Classified(fresh, m) : Conclude(r, m)
                                 /\ invented' = (fresh.pay.number = Made)
    BY <1>4, ClassifyReads
  <2>2. PICK r \in Classified(fresh, m) : Conclude(r, m)
    BY <2>1
  <2>3. Gathers(r, m, invented')
    BY <2>1, ClassifiedGathers
  <2> QED
    BY <2>2, <2>3, ConcludeGathers
<1>5. CASE Elsewhere(m)
  <2>1. last' = Other \/ last' = Left("CLARIFICATION", Unclear, Nothing)
    BY <1>5 DEF Elsewhere
  <2> QED
    BY <2>1, AboutNothing
<1> QED
  BY <1>1, <1>2, <1>3, <1>4, <1>5

-----------------------------------------------------------------------------
(* The types of what a turn about the details of a request leaves. *)

\* What each field of a payload may hold.
AmountOK == {None} \cup Amounts
NumberOK == {None, Made} \cup Numbers \cup Own
KindOK == {None} \cup Kinds
WordsOK == {None, Said, Made}
TxnOK == {None, "theirs", Made}
CardOK == {None} \cup Cards

\* The details of a request, field by field.
LEMMA PayloadIs ==
    Payload = [amount : AmountOK, number : NumberOK, kind : KindOK, words : WordsOK,
               txn : TxnOK, card : CardOK]
<1>1. /\ ValuesOf("amount") = AmountOK /\ ValuesOf("number") = NumberOK
      /\ ValuesOf("kind") = KindOK /\ ValuesOf("words") = WordsOK
      /\ ValuesOf("txn") = TxnOK /\ ValuesOf("card") = CardOK
  BY DEF ValuesOf, AmountOK, NumberOK, KindOK, WordsOK, TxnOK, CardOK
<1> QED
  BY <1>1 DEF Payload, Payloads

\* A record of the right fields with the right value in each is a payload.
LEMMA FieldByField ==
    ASSUME NEW p, p = [f \in Fields |-> p[f]],
           p.amount \in AmountOK, p.number \in NumberOK, p.kind \in KindOK,
           p.words \in WordsOK, p.txn \in TxnOK, p.card \in CardOK
    PROVE  p \in Payload
<1>1. p = [amount |-> p.amount, number |-> p.number, kind |-> p.kind, words |-> p.words,
           txn |-> p.txn, card |-> p.card]
  BY DEF Fields
<1> QED
  BY <1>1, PayloadIs

\* What each field of a payload may hold.
LEMMA PayloadFields ==
    ASSUME NEW p \in Payload
    PROVE  /\ p.amount \in AmountOK /\ p.number \in NumberOK /\ p.kind \in KindOK
           /\ p.words \in WordsOK /\ p.txn \in TxnOK /\ p.card \in CardOK
           /\ DOMAIN p = Fields
BY PayloadIs DEF Fields

\* No detail is a payload.
LEMMA NothingTyped == Nothing \in Payload
BY FieldByField DEF Nothing, Fields, AmountOK, NumberOK, KindOK, WordsOK, TxnOK, CardOK

\* One payload written over another is a payload.
LEMMA OverTyped ==
    ASSUME NEW p \in Payload, NEW q \in Payload PROVE Over(p, q) \in Payload
<1> DEFINE o == Over(p, q)
<1>1. o = [f \in Fields |-> o[f]]
  BY DEF Over
<1>2. \A f \in Fields : o[f] \in {p[f], q[f]}
  BY DEF Over
<1> HIDE DEF o
<1>3. /\ o.amount \in AmountOK /\ o.number \in NumberOK /\ o.kind \in KindOK
      /\ o.words \in WordsOK /\ o.txn \in TxnOK /\ o.card \in CardOK
  BY <1>2, PayloadFields DEF Fields
<1>4. o \in Payload
  BY <1>1, <1>3, FieldByField
<1> QED
  BY <1>4 DEF o

\* A payload with one field changed is a payload.
LEMMA ChangedTyped ==
    ASSUME NEW p \in Payload
    PROVE  /\ \A v \in AmountOK : [p EXCEPT !.amount = v] \in Payload
           /\ \A v \in NumberOK : [p EXCEPT !.number = v] \in Payload
           /\ \A v \in KindOK : [p EXCEPT !.kind = v] \in Payload
           /\ \A v \in WordsOK : [p EXCEPT !.words = v] \in Payload
           /\ \A v \in TxnOK : [p EXCEPT !.txn = v] \in Payload
           /\ \A v \in CardOK : [p EXCEPT !.card = v] \in Payload
BY PayloadIs

\* What a message may say.
LEMMA MessageFields ==
    ASSUME NEW m \in Messages
    PROVE  /\ AmountsIn[m] \subseteq Amounts /\ NumbersIn[m] \subseteq Numbers \cup Own
           /\ m.names \in KindOK /\ m.words \in BOOLEAN /\ m.pick \in Own \cup Cards \cup {None}
           /\ m \in Message
BY MessagesAssumption DEF Message, AmountsIn, NumbersIn, KindOK

\* The requests a turn works on.
RequestOK == [service : Services \cup {None}, sub : Kinds \cup {None}, pay : Payload]

\* A service, a kind and a payload make a request.
LEMMA RequestTyped ==
    ASSUME NEW s \in Services \cup {None}, NEW sub \in Kinds \cup {None}, NEW p \in Payload
    PROVE  /\ Request(s, sub, p) \in RequestOK /\ Request(s, sub, p).service = s
           /\ Request(s, sub, p).sub = sub /\ Request(s, sub, p).pay = p
BY DEF Request, RequestOK

\* The parts of a request.
LEMMA RequestFields ==
    ASSUME NEW r \in RequestOK
    PROVE  r.service \in Services \cup {None} /\ r.sub \in Kinds \cup {None} /\ r.pay \in Payload
BY DEF RequestOK

\* What the model fills in is typed.
LEMMA FilledTyped ==
    ASSUME NEW m \in Messages, NEW fields, NEW p \in Filled(fields, m)
    PROVE  p \in Payload
<1> DEFINE Filling(f) == IF f \in fields THEN Fillings(f, m) ELSE {None}
<1>1. /\ Filling("amount") \subseteq AmountOK /\ Filling("number") \subseteq NumberOK
      /\ Filling("kind") \subseteq KindOK /\ Filling("words") \subseteq WordsOK
      /\ Filling("txn") \subseteq TxnOK /\ Filling("card") \subseteq CardOK
  BY MessageFields DEF Fillings, AmountOK, NumberOK, KindOK, WordsOK, TxnOK, CardOK, Numbers
<1>2. p \in [amount : Filling("amount"), number : Filling("number"), kind : Filling("kind"),
             words : Filling("words"), txn : Filling("txn"), card : Filling("card")]
  BY DEF Filled, Payloads
<1> HIDE DEF Filling
<1> QED
  BY <1>1, <1>2, PayloadIs

\* What the classifier reads is, once its amount and its number are checked.
LEMMA CheckedTyped ==
    ASSUME NEW m \in Messages, NEW s \in Services, NEW p \in Readings(s, m)
    PROVE  CheckNumbers(CheckAmount(FromApp(p, m), m), m) \in Payload
<1> DEFINE Read(f) == {None} \cup
            IF f \notin Required(s) THEN {}
            ELSE CASE f = "amount" -> Amounts
                   [] f = "number" -> Numbers \cup Own \cup {Made}
                   [] f = "kind" -> Kinds
                   [] f = "words" -> IF m.words THEN {Said, Made} ELSE {Made}
                   [] f = "txn" -> {Made}
<1>1. /\ Read("kind") \subseteq KindOK /\ Read("words") \subseteq WordsOK
      /\ Read("txn") \subseteq TxnOK /\ Read("card") = {None}
      /\ Read("number") \subseteq NumberOK /\ Read("amount") \subseteq AmountOK
  <2>1. "card" \notin Required(s)
    BY DEF Required
  <2> QED
    BY <2>1, MessageFields DEF AmountOK, NumberOK, KindOK, WordsOK, TxnOK, Numbers
<1>2. p \in [amount : Read("amount"), number : Read("number"), kind : Read("kind"),
             words : Read("words"), txn : Read("txn"), card : Read("card")]
  BY DEF Readings, Payloads
<1> HIDE DEF Read
<1>3. p \in Payload
  BY <1>1, <1>2, PayloadIs DEF CardOK
<1> DEFINE a == FromApp(p, m)
           c == CheckAmount(a, m)
<1>4. c \in Payload
  <2>1. a \in Payload
    BY <1>3, NothingTyped, ChangedTyped, MessageFields DEF FromApp, NumberOK, CardOK
  <2> HIDE DEF a
  <2> QED
    BY <2>1, ChangedTyped DEF CheckAmount, AmountOK
<1> HIDE DEF c
<1>5. CheckNumbers(c, m) \in Payload
  BY <1>4, ChangedTyped DEF CheckNumbers, NumberOK
<1> QED
  BY <1>5 DEF c

\* What the session holds of the last turn.
LEMMA LastTyped ==
    ASSUME DetailsTypeOK
    PROVE  /\ last \in Turn /\ last.service \in Services \cup {None}
           /\ last.sub \in Kinds \cup {None} /\ last.pay \in Payload
           /\ last.cands \in SUBSET (Own \cup Cards \cup {"theirs"})
BY DEF DetailsTypeOK, Turn

\* A turn about no service leaves a turn.
LEMMA OtherTyped == Other \in Turn
BY NothingTyped DEF Other, Turn

\* A request with the details of the last turn carried over is a request.
LEMMA CarriedTyped ==
    ASSUME DetailsTypeOK, NEW r \in RequestOK PROVE CarryForward(r, Context) \in RequestOK
<1>1. Context.sub \in Kinds \cup {None} /\ Context.pay \in Payload
  BY LastTyped, OtherTyped DEF Context, Turn
<1>2. /\ (IF r.sub # None THEN r.sub ELSE Context.sub) \in Kinds \cup {None}
      /\ Over(Context.pay, r.pay) \in Payload
  BY <1>1, OverTyped, RequestFields
<1> QED
  BY <1>2, RequestFields, RequestTyped DEF CarryForward

\* So is one where the new message was preferred to what was carried.
LEMMA PreferredTyped ==
    ASSUME NEW r \in RequestOK, NEW fresh, NEW m \in Messages, NEW t \in PreferNew(r, fresh, m)
    PROVE  t \in RequestOK
<1> DEFINE carried == Given(r.pay) \ Given(fresh.pay)
           amounts == {r.pay.amount} \cup IF "amount" \in carried THEN AmountsIn[m] ELSE {}
           numbers == IF "number" \in carried THEN KeptNumber(r.pay.number, m) ELSE {r.pay.number}
           subs == {r.sub} \cup
                   IF r.service = "wallet" /\ r.sub # None /\ fresh.sub = None /\ m.names \in Wallets
                   THEN {m.names} ELSE {}
<1>1. numbers \subseteq NumberOK
  <2>1. numbers \subseteq {r.pay.number, None}
    BY DEF KeptNumber
  <2> QED
    BY <2>1, RequestFields, PayloadFields DEF NumberOK
<1>2. amounts \subseteq AmountOK
  BY RequestFields, PayloadFields, MessageFields DEF AmountOK
<1>3. subs \subseteq Kinds \cup {None}
  BY RequestFields, MessageFields DEF KindOK
<1>4. PreferNew(r, fresh, m) = 
    {Request(r.service, sub, Restated(r.pay, a, n)) : sub \in subs, a \in amounts, n \in numbers}
  BY DEF PreferNew
<1> HIDE DEF numbers, amounts, subs
<1>5. PICK sub \in subs, a \in amounts, n \in numbers : t = Request(r.service, sub, Restated(r.pay, a, n))
  BY <1>4
<1>6. Restated(r.pay, a, n) \in Payload
  <2>1. a \in AmountOK /\ n \in NumberOK /\ r.pay \in Payload
    BY <1>1, <1>2, RequestFields
  <2> QED
    BY <2>1, PayloadIs DEF Restated
<1> QED
  BY <1>3, <1>5, <1>6, RequestFields, RequestTyped

\* A request nobody could read is a request.
LEMMA UnclearTyped == Unclear \in RequestOK
BY NothingTyped, RequestTyped DEF Unclear

\* The checks of a request against the message give requests.
LEMMA GroundedTyped ==
    ASSUME NEW r \in RequestOK, NEW m
    PROVE  /\ GroundFreeze(r, m) \subseteq RequestOK
           /\ NormalizeFee(r, m) \in RequestOK
           /\ GroundDestination(r, m) \subseteq RequestOK
           /\ GroundAction(r, m) \subseteq RequestOK
<1>1. /\ r.service \in Services \cup {None} /\ r.sub \in Kinds \cup {None} /\ r.pay \in Payload
  BY RequestFields
<1>2. GroundFreeze(r, m) \subseteq RequestOK
  <2>1. \A w \in {Said, None} : [r.pay EXCEPT !.words = w] \in Payload
    BY <1>1, ChangedTyped DEF WordsOK
  <2>2. \A w \in {Said, None} : Request(r.service, r.sub, [r.pay EXCEPT !.words = w]) \in RequestOK
    BY <1>1, <2>1, RequestTyped
  <2> QED
    BY <2>2, UnclearTyped DEF GroundFreeze
<1>3. NormalizeFee(r, m) \in RequestOK
  <2>1. [r.pay EXCEPT !.kind = None] \in Payload
    BY <1>1, ChangedTyped DEF KindOK
  <2> QED
    BY <2>1 DEF NormalizeFee, RequestOK
<1>4. GroundDestination(r, m) \subseteq RequestOK
  BY DEF GroundDestination, RequestOK
<1>5. GroundAction(r, m) \subseteq RequestOK
  BY UnclearTyped DEF GroundAction
<1> QED
  BY <1>2, <1>3, <1>4, <1>5

\* What is filled in of what is missing gives a request.
LEMMA FilledInTyped ==
    ASSUME NEW r \in RequestOK, NEW m \in Messages, NEW t \in FillKnown(r, m)
    PROVE  t \in RequestOK
<1> DEFINE missing == Required(r.service) \ (Given(r.pay) \cup BankKnows(r.service))
<1>1. CASE t = r
  BY <1>1
<1>2. ASSUME NEW p \in Filled(missing, m), t = Request(r.service, r.sub, Over(r.pay, p))
      PROVE  t \in RequestOK
  <2>1. p \in Payload
    BY <1>2, FilledTyped
  <2> QED
    BY <1>2, <2>1, OverTyped, RequestFields, RequestTyped
<1> QED
  BY <1>1, <1>2 DEF FillKnown

\* Whatever the classifier reads becomes a request.
LEMMA ClassifiedTyped ==
    ASSUME DetailsTypeOK, NEW m \in Messages, NEW fresh \in Fresh[m],
           NEW r \in Classified(fresh, m)
    PROVE  r \in RequestOK
<1>1. fresh \in RequestOK
  <2>1. PICK s \in Reached \ Tools :
           fresh \in {Request(s, sub, CheckNumbers(CheckAmount(FromApp(p, m), m), m)) :
                        sub \in SubsOf(s) \cup {None}, p \in Readings(s, m)}
    BY DEF Fresh
  <2>2. PICK sub \in SubsOf(s) \cup {None}, p \in Readings(s, m) :
           fresh = Request(s, sub, CheckNumbers(CheckAmount(FromApp(p, m), m), m))
    BY <2>1
  <2>3. s \in Services
    BY ReachedAreServices
  <2>4. sub \in Kinds \cup {None}
    BY <2>3 DEF SubsOf, Kinds, Services
  <2>5. CheckNumbers(CheckAmount(FromApp(p, m), m), m) \in Payload
    BY <2>3, CheckedTyped
  <2> QED
    BY <2>2, <2>3, <2>4, <2>5, RequestTyped
<1> DEFINE preferred == PreferNew(CarryForward(fresh, Context), fresh, m)
           freezes == UNION {GroundFreeze(q, m) : q \in preferred}
           placed == UNION {GroundDestination(NormalizeFee(q, m), m) : q \in freezes}
           asked == UNION {GroundAction(q, m) : q \in placed}
<1>2. preferred \subseteq RequestOK
  BY <1>1, CarriedTyped, PreferredTyped
<1>3. r \in UNION {FillKnown(q, m) : q \in asked}
  BY DEF Classified
<1> HIDE DEF preferred
<1>4. freezes \subseteq RequestOK
  BY <1>2, GroundedTyped
<1> HIDE DEF freezes
<1>5. placed \subseteq RequestOK
  BY <1>4, GroundedTyped
<1> HIDE DEF placed
<1>6. asked \subseteq RequestOK
  BY <1>5, GroundedTyped
<1> HIDE DEF asked
<1> QED
  BY <1>3, <1>6, FilledInTyped

\* What a turn may leave is a classification the next can read.
LEMMA LeftTyped ==
    ASSUME NEW type \in Pending \cup {"BANKING_SERVICE", "CONFIRMATION", "OTHER"},
           NEW r \in RequestOK, NEW p \in Payload
    PROVE  /\ Left(type, r, p) \in Turn
           /\ \A c \in SUBSET (Own \cup Cards \cup {"theirs"}) : Asked(type, r, p, c) \in Turn
           /\ \A f \in SUBSET Fields : [Left(type, r, p) EXCEPT !.missing = f] \in Turn
<1>1. Left(type, r, p) \in Turn
  BY OtherTyped, RequestFields DEF Left, Turn
<1> QED
  BY <1>1 DEF Asked, Turn

\* An answered request leaves a turn.
LEMMA AnsweredTyped ==
    ASSUME NEW r \in RequestOK PROVE Answered(r) \in Turn
BY LeftTyped, RequestFields, NothingTyped DEF Answered

\* A request that waits for a choice leaves a turn.
LEMMA PicksTyped ==
    ASSUME NEW r \in RequestOK, NEW t \in Picks(r) PROVE t \in Turn
<1>1. CASE t = Answered(r)
  BY <1>1, AnsweredTyped
<1>2. ASSUME NEW c \in {Own, Cards}, t = Asked("ACCOUNT_SELECTION", r, r.pay, c)
      PROVE  t \in Turn
  BY <1>2, LeftTyped, RequestFields DEF Pending
<1>3. ASSUME NEW a \in AccountsToTry(r),
             t = Asked("TRANSACTION_SELECTION", r, WithAccount(r.pay, a), {"theirs"})
      PROVE  t \in Turn
  <2>1. a \in NumberOK /\ r.pay \in Payload
    BY RequestFields, PayloadFields DEF AccountsToTry, NumberOK
  <2>2. WithAccount(r.pay, a) \in Payload
    BY <2>1, ChangedTyped DEF WithAccount
  <2> QED
    BY <1>3, <2>2, LeftTyped DEF Pending
<1>4. CASE r.service = "freeze"
  BY <1>1, <1>2, <1>4 DEF Picks
<1>5. CASE r.service = "bank"
  BY <1>1, <1>2, <1>5 DEF Picks
<1>6. CASE r.service = "dispute" /\ r.pay.txn = None
  <2>1. t \in {Asked("TRANSACTION_SELECTION", r, WithAccount(r.pay, a), {"theirs"}) :
                 a \in AccountsToTry(r)}
             \cup IF r.pay.number = None THEN {Asked("ACCOUNT_SELECTION", r, r.pay, Own)} ELSE {}
    BY <1>6 DEF Picks
  <2> QED
    BY <1>2, <1>3, <2>1
<1>7. CASE r.service = "dispute" /\ r.pay.txn # None
  BY <1>2, <1>7 DEF Picks
<1>8. CASE r.service \notin {"freeze", "bank", "dispute"}
  BY <1>8 DEF Picks
<1> QED
  BY <1>4, <1>5, <1>6, <1>7, <1>8

\* What the bank already knows gives a payload.
LEMMA PrefilledTyped ==
    ASSUME NEW r \in RequestOK, NEW p \in Prefilled(r) PROVE p \in Payload
<1>1. r.pay \in Payload
  BY RequestFields
<1>2. ASSUME NEW c \in Cards, p = [r.pay EXCEPT !.card = c] PROVE p \in Payload
  BY <1>1, <1>2, ChangedTyped DEF CardOK
<1>3. ASSUME NEW a \in AccountsToTry(r), NEW t \in {"theirs", r.pay.txn},
             p = [WithAccount(r.pay, a) EXCEPT !.txn = t]
      PROVE  p \in Payload
  <2>1. a \in NumberOK /\ t \in TxnOK
    BY <1>1, PayloadFields DEF AccountsToTry, NumberOK, TxnOK
  <2>2. WithAccount(r.pay, a) \in Payload
    BY <1>1, <2>1, ChangedTyped DEF WithAccount
  <2> QED
    BY <1>3, <2>1, <2>2, ChangedTyped
<1>4. CASE r.service = "dispute"
  BY <1>1, <1>3, <1>4 DEF Prefilled
<1>5. CASE r.service # "dispute"
  BY <1>1, <1>2, <1>5 DEF Prefilled
<1> QED
  BY <1>4, <1>5

\* However the bot concludes a request, it leaves a turn.
LEMMA OutcomesTyped ==
    ASSUME NEW r \in RequestOK, NEW t \in Outcomes(r) PROVE t \in Turn
<1>1. CASE t = Left("CLARIFICATION", r, Nothing) \/ t = Other
  BY <1>1, LeftTyped, NothingTyped, OtherTyped DEF Pending
<1>2. CASE t \in Picks(r)
  BY <1>2, PicksTyped
<1>3. ASSUME NEW p \in Prefilled(r), t \in Settled(r, p) PROVE t \in Turn
  <2>1. p \in Payload
    BY PrefilledTyped
  <2>2. Missing(r.service, p) \subseteq Fields
    BY DEF Missing, Required, Fields
  <2>3. CASE t = [Left("CLARIFICATION", r, p) EXCEPT !.missing = Missing(r.service, p)]
    BY <2>1, <2>2, <2>3, LeftTyped DEF Pending
  <2>4. CASE t = Left("CONFIRMATION", r, p) \/ t = Answered(r)
    BY <2>1, <2>4, LeftTyped, AnsweredTyped
  <2>5. CASE t = Asked("ACCOUNT_SELECTION", r, p, Own)
    BY <2>1, <2>5, LeftTyped DEF Pending
  <2>6. CASE Missing(r.service, p) # {}
    BY <1>3, <2>3, <2>6 DEF Settled
  <2>7. CASE Missing(r.service, p) = {}
    BY <1>3, <2>4, <2>5, <2>7 DEF Settled, AccountRead
  <2> QED
    BY <2>6, <2>7
<1> QED
  BY <1>1, <1>2, <1>3 DEF Outcomes

\* Concluding a request leaves typed state.
LEMMA ConcludeIsTyped ==
    ASSUME DetailsTypeOK, NEW r \in RequestOK, NEW m \in Messages, Conclude(r, m),
           invented' \in BOOLEAN
    PROVE  DetailsTypeOK'
<1>1. PICK c \in Clean(r) : last' \in Outcomes(c)
  BY DEF Conclude
<1>2. c \in RequestOK
  <2>1. [r.pay EXCEPT !.number = None] \in Payload
    BY RequestFields, ChangedTyped DEF NumberOK
  <2>2. [r EXCEPT !.pay.number = None] \in RequestOK
    BY <2>1 DEF RequestOK
  <2> QED
    BY <2>2, CleanedIs
<1>3. last' \in Turn /\ message' \in Message
  BY <1>1, <1>2, OutcomesTyped, MessageFields DEF Conclude
<1>4. /\ Writes(m).amounts \in SUBSET Amounts /\ Writes(m).numbers \in SUBSET (Numbers \cup Own)
      /\ Writes(m) \in [amounts : SUBSET Amounts, numbers : SUBSET (Numbers \cup Own)]
      /\ NothingWritten \in [amounts : SUBSET Amounts, numbers : SUBSET (Numbers \cup Own)]
  BY MessageFields DEF Writes, NothingWritten
<1>5. wrote.amounts \in SUBSET Amounts /\ wrote.numbers \in SUBSET (Numbers \cup Own)
  BY DEF DetailsTypeOK
<1>6. wrote' \in [amounts : SUBSET Amounts, numbers : SUBSET (Numbers \cup Own)]
  BY <1>4, <1>5 DEF Conclude
<1> QED
  BY <1>3, <1>6 DEF DetailsTypeOK

\* A turn about the details of a request leaves typed state.
LEMMA DetailsTurnIsTyped ==
    ASSUME DetailsTypeOK, DetailsNext PROVE DetailsTypeOK'
<1>1. PICK m \in Messages : Pick(m) \/ Fill(m) \/ Classify(m) \/ Elsewhere(m)
  BY DEF DetailsNext
<1>2. CASE Pick(m)
  <2>1. PICK c \in last.cands :
           Conclude(Request(last.service, last.sub, Over(last.pay, Chosen(c))), m)
    BY <1>2 DEF Pick, PickedInApp
  <2>2. c \in Own \cup Cards \cup {"theirs"}
    BY LastTyped
  <2>3. Chosen(c) \in Payload
    <3>1. CASE c \in Own
      BY <3>1, NothingTyped, ChangedTyped DEF Chosen, NumberOK
    <3>2. CASE c \in Cards \ Own
      BY <3>2, NothingTyped, ChangedTyped DEF Chosen, CardOK
    <3>3. CASE c \notin Own \cup Cards
      BY <2>2, <3>3, NothingTyped, ChangedTyped DEF Chosen, TxnOK
    <3> QED
      BY <3>1, <3>2, <3>3
  <2>4. Request(last.service, last.sub, Over(last.pay, Chosen(c))) \in RequestOK
    BY <2>3, LastTyped, OverTyped, RequestTyped
  <2>5. invented' \in BOOLEAN
    BY <1>2 DEF Pick
  <2> QED
    BY <2>1, <2>4, <2>5, ConcludeIsTyped
<1>3. CASE Fill(m)
  <2>1. PICK p \in Filled(FillFields, m) :
           \E r \in PreferNew(Request(last.service, last.sub, Over(last.pay, p)),
                              Request(last.service, None, Nothing), m) : Conclude(r, m)
    BY <1>3 DEF Fill
  <2>2. Over(last.pay, p) \in Payload
    BY FilledTyped, LastTyped, OverTyped
  <2>3. Request(last.service, last.sub, Over(last.pay, p)) \in RequestOK
    BY <2>2, LastTyped, RequestTyped
  <2>4. invented' \in BOOLEAN
    BY <1>3 DEF Fill
  <2> QED
    BY <2>1, <2>3, <2>4, PreferredTyped, ConcludeIsTyped
<1>4. CASE Classify(m)
  <2>1. PICK fresh \in Fresh[m] : \E r \in Classified(fresh, m) : Conclude(r, m)
    BY <1>4, ClassifyReads
  <2>2. invented' \in BOOLEAN
    BY <1>4 DEF Classify
  <2> QED
    BY <2>1, <2>2, ClassifiedTyped, ConcludeIsTyped
<1>5. CASE Elsewhere(m)
  <2>1. last' \in {Left("CLARIFICATION", Unclear, Nothing), Other}
    BY <1>5 DEF Elsewhere
  <2>2. last' \in Turn
    BY <2>1, LeftTyped, UnclearTyped, NothingTyped, OtherTyped DEF Pending
  <2> QED
    BY <1>5, <2>2, MessageFields DEF Elsewhere, DetailsTypeOK, NothingWritten
<1> QED
  BY <1>1, <1>2, <1>3, <1>4, <1>5

\* The session starts with nothing said and nothing written.
LEMMA StartIsTyped ==
    /\ NothingSaid \in Message
    /\ NothingWritten \in [amounts : SUBSET Amounts, numbers : SUBSET (Numbers \cup Own)]
BY DEF NothingSaid, Message, NothingWritten
=============================================================================
