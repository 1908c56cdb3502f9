------------------------------ MODULE ChatTurn ------------------------------
(***************************************************************************)
(* The chat handler, app/routes/chat.py: _chat_stream and the helpers that *)
(* ask for a yes, text a code and carry out a change at the bank.          *)
(*                                                                         *)
(* A turn is one request being streamed.  Between two awaits (or yields)   *)
(* the handler runs alone; at each of them another turn, of the same       *)
(* customer or not, may run, the client may disconnect, or the process may *)
(* restart.  One action here is the code between two such points.          *)
(*                                                                         *)
(* The session store is seen as OpenQuestion: the classification of the    *)
(* customer's last turn, which is all the gates read (Session implements   *)
(* it).  What the model says of a message, and what slot filling makes of  *)
(* it, is any answer it could give.                                        *)
(***************************************************************************)
EXTENDS Bank, FiniteSets

CONSTANTS
    Turns,          \* requests in flight at once
    Services,       \* a few (category, service) pairs
    GateOf,         \* GateOf[s]: what stands between a request and the bank
    Values,         \* what a change would save (a nickname, an address...)
    Messages,       \* the requests customers send
    OpensForm,      \* settings.BENEFICIARY_ADD_OPENS_FORM
    Faults          \* of "disconnect", "restart", "lapse", "expiry", "model"

None == "none"
Invalid == "invalid"    \* an explicit route that is not in the taxonomy

Gates == {"confirm", "add", "freeze", "contact", "read", "summary", "catalogue"}
Message == [route : Services \cup {None, Invalid},
            says : {"text", "yes", "no", "secret"},
            otp : {None, "right", "wrong"},
            cred : {None, "right", "wrong", "both"},
            heard : BOOLEAN,
            off : SUBSET Services]

ASSUME ChatTurnAssumption ==
    /\ Customers # {}
    /\ {None, Invalid} \cap Services = {}
    /\ None \notin Values
    /\ GateOf \in [Services -> Gates]
    /\ Messages \subseteq Message
    /\ OpensForm \in BOOLEAN

NeedsYes(s) == s \in Services /\ GateOf[s] \in {"confirm", "add", "freeze"}
NeedsCode(s) == s \in Services /\ GateOf[s] \in {"freeze", "contact"}

\* What a recorded turn leaves behind: the two pending steps, or anything else.
Class == [type : {"CLOSED", "CONFIRMATION_REQUIRED", "OTP_REQUIRED"},
          service : Services \cup {None}, value : Values \cup {None},
          q : 0..MaxQuestions, token : 0..MaxCodes]
Closed == [type |-> "CLOSED", service |-> None, value |-> None, q |-> 0, token |-> 0]

\* audit: the audit line comes before the result event (_emit_outcome), after
\* it (the branches written out in _chat_stream), or never.  record: the turn
\* goes to the session after "done", before it, or never.
Outcome == [class : Class, executed : {"yes", "no", "unsaid"},
            audit : {"first", "after", "never"}, record : {"after", "before", "never"}]
Tell(class, executed, audit, record) ==
    [class |-> class, executed |-> executed, audit |-> audit, record |-> record]

\* What a branch says and leaves behind.  (A definition that ends in Instead is a
\* way the code could have gone wrong.)
Answered == Tell(Closed, "unsaid", "after", "after")
Emitted == Tell(Closed, "unsaid", "first", "after")
NotDoneForgottenInstead(audit) == Tell(Closed, "no", audit, "never")
NotDone(audit) == Tell(Closed, "no", audit, "after")
SwitchedOff == Tell(Closed, "no", "first", "after")
KbAnswer == Tell(Closed, "unsaid", "never", "after")
AppAnswer == Tell(Closed, "unsaid", "never", "before")
HeardTwoWays == Tell(Closed, "unsaid", "never", "never")
AskForgottenInstead(class, audit) == Tell(class, "unsaid", audit, "never")
Ask(class, audit) == Tell(class, "unsaid", audit, "after")

NoMessage == [route |-> None, says |-> "text", otp |-> None, cred |-> None,
              heard |-> FALSE, off |-> {}]
HasSecret(m) == m.otp # None \/ m.cred # None

VARIABLES
    turn,           \* turn[t]: the state of one request
    open,           \* the session store: classification of the last turn
    asked,          \* history: questions put so far
    ask             \* history: ask[q], what became of question q

chatVars == <<turn, open, asked, ask>>
vars == <<turn, open, asked, ask, bankVars>>

Store == INSTANCE OpenQuestion WITH Classes <- Class, NoClass <- Closed

Pcs == {"idle", "verify", "readCode", "readYes", "classify", "gather", "cards",
        "lookup", "readBank", "sendOtp", "verifyOtp", "fulfil", "reply",
        "compose", "result", "done", "record"}
TurnState == [pc : Pcs, cust : Customers, known : BOOLEAN, msg : Message,
              work : Class, outcome : Outcome, acted : BOOLEAN,
              audited : 0..2, results : 0..2,
              ended : {"not", "done", "error", "broken", "cut"}]
Question == [cust : Customers, service : Services \cup {None}, value : Values \cup {None},
             shown : BOOLEAN, yes : BOOLEAN, no : BOOLEAN, dropped : BOOLEAN]

Fresh(c) == [pc |-> "idle", cust |-> c, known |-> FALSE, msg |-> NoMessage,
             work |-> Closed, outcome |-> Answered, acted |-> FALSE,
             audited |-> 0, results |-> 0, ended |-> "not"]
Anyone == CHOOSE c \in Customers : TRUE
Unasked == [cust |-> Anyone, service |-> None, value |-> None,
            shown |-> FALSE, yes |-> FALSE, no |-> FALSE, dropped |-> FALSE]

Init ==
    /\ turn = [t \in Turns |-> Fresh(Anyone)]
    /\ Store!Init
    /\ asked = 0
    /\ ask = [q \in Questions |-> Unasked]
    /\ BankInit

-----------------------------------------------------------------------------
(* Steps every branch ends in. *)

At(t, pc) == turn[t].pc = pc
Becomes(t, T) == turn' = [turn EXCEPT ![t] = T]
Say(T, outcome) == [T EXCEPT !.pc = "compose", !.outcome = outcome,
                             !.work = Closed, !.msg = NoMessage]
\* The turn is over; of its outcome only what the customer was told is kept.
End(T, how) ==
    [T EXCEPT !.pc = "idle", !.ended = how, !.known = FALSE,
              !.work = Closed, !.msg = NoMessage,
              !.outcome = IF how = "done"
                          THEN Tell(@.class, @.executed, "after", "after")
                          ELSE Answered]
RecordedForAnyoneInstead(T) == IF T.known THEN Store!Record(Anyone, T.outcome.class)
                                   ELSE UNCHANGED open
ExecutedNotRecordedInstead(T) ==
    IF T.known /\ T.outcome.executed # "yes" THEN Store!Record(T.cust, T.outcome.class)
                                             ELSE UNCHANGED open
Recorded(T) == IF T.known THEN Store!Record(T.cust, T.outcome.class)
                          ELSE UNCHANGED open

\* The service is known: what is asked of it, before anything is gathered.
Requested(T, s) ==
    LET T2 == [T EXCEPT !.work = [Closed EXCEPT !.service = s]]
        off == s \in T.msg.off
    IN  CASE GateOf[s] = "catalogue" /\ off ->
               Say(T, Tell(Closed, "unsaid", "first", "never"))
          [] GateOf[s] = "catalogue" /\ ~off -> Say(T, KbAnswer)
          [] GateOf[s] # "catalogue" /\ ~T.known -> Say(T, Answered)
          [] GateOf[s] # "catalogue" /\ T.known /\ off -> Say(T, SwitchedOff)
          [] GateOf[s] = "freeze" /\ T.known /\ ~off -> [T2 EXCEPT !.pc = "cards"]
          [] GateOf[s] = "add" /\ T.known /\ ~off ->
               IF OpensForm THEN Say(T, Emitted) ELSE [T2 EXCEPT !.pc = "lookup"]
          [] OTHER -> [T2 EXCEPT !.pc = "gather"]

\* No pending step takes the message: an explicit route, or the classifier.
Routed(T) ==
    CASE T.msg.route = None -> [T EXCEPT !.pc = "classify"]
      [] T.msg.route = Invalid -> Say(T, Answered)
      [] OTHER -> Requested(T, T.msg.route)

\* The voice message reads two ways: ask which, record nothing.
Heard(T) == Say(T, HeardTwoWays)

-----------------------------------------------------------------------------
(* The request comes in. *)

Send(t, c, m) ==
    /\ At(t, "idle")
    /\ Becomes(t, [Fresh(c) EXCEPT !.pc = "verify", !.msg = m])
    /\ UNCHANGED <<open, asked, ask, bankVars>>

AwaitsCode(last, m) ==
    /\ last.type = "OTP_REQUIRED"
    /\ m.route = None \/ (m.route = last.service /\ HasSecret(m))
AwaitsYes(last, m) == last.type = "CONFIRMATION_REQUIRED" /\ m.route = None

\* What the submitted form is good for, at the step the customer is in.
Submitted(w, m) == IF GateOf[w.service] = "freeze" THEN HasSecret(m) ELSE m.otp # None
Complete(w, m) ==
    IF GateOf[w.service] = "freeze"
    THEN m.cred \in {"right", "wrong"} /\ (m.otp # None \/ w.token # 0)
    ELSE m.otp # None

CodeStep(T, declined) ==
    LET w == T.work
        m == T.msg
    IN  CASE w.service \in m.off -> Say(T, SwitchedOff)
          [] w.service \notin m.off /\ declined /\ ~Submitted(w, m) -> Say(T, NotDone("first"))
          [] w.service \notin m.off /\ ~(declined /\ ~Submitted(w, m)) /\ ~Complete(w, m) ->
               Say(T, Ask(w, "first"))
          [] OTHER -> [T EXCEPT !.pc = IF m.otp # None THEN "verifyOtp" ELSE "fulfil"]

\* verify_jwt has answered; the session is read once, here, for the whole turn.
Enter(t) ==
    /\ At(t, "verify")
    /\ \E known \in BOOLEAN :
          LET m == turn[t].msg
              last == IF known THEN open[turn[t].cust] ELSE Closed
              T == [turn[t] EXCEPT !.known = known]
              W == [T EXCEPT !.work = last]
          IN  \/ /\ AwaitsCode(last, m)
                 /\ Becomes(t, IF m.route = None THEN [W EXCEPT !.pc = "readCode"]
                                                 ELSE CodeStep(W, FALSE))
              \/ /\ ~AwaitsCode(last, m) /\ m.heard
                 /\ Becomes(t, Heard(T))
              \/ /\ AwaitsYes(last, m) /\ ~m.heard
                 /\ Becomes(t, [W EXCEPT !.pc = "readYes"])
              \/ /\ ~AwaitsCode(last, m) /\ ~AwaitsYes(last, m) /\ ~m.heard
                 /\ Becomes(t, Routed(T))
    /\ UNCHANGED <<open, asked, ask, bankVars>>

\* _read_pending_reply: a button decides, a secret is not read, the model reads
\* the rest (a failure or an ungrounded yes is "unsure").
Readings(m) ==
    CASE m.says = "yes" -> {"confirm"}
      [] m.says = "no" -> {"decline"}
      [] m.says \notin {"yes", "no"} /\ (m.says = "secret" \/ HasSecret(m)) -> {"secret"}
      [] OTHER -> {"confirm", "decline", "unsure", "other"}

\* The reply at the code step was read.
ReadCode(t) ==
    /\ At(t, "readCode")
    /\ LET T == turn[t]
           q == T.work.q
           moved == [T EXCEPT !.work = Closed]
       IN  \E reading \in Readings(T.msg) :
             /\ IF reading = "other"
                THEN Becomes(t, IF T.msg.heard THEN Heard(moved) ELSE Routed(moved))
                ELSE Becomes(t, CodeStep(T, reading = "decline"))
             /\ ask' = [ask EXCEPT ![q].dropped = @ \/ (reading = "other"
                                                        /\ ~T.msg.heard),
                                   ![q].no = @ \/ (reading = "decline"
                                                   /\ ~Submitted(T.work, T.msg))]
    /\ UNCHANGED <<open, asked, bankVars>>

\* Only a clear yes goes on to the change.
ProceedsUnlessDeclinedInstead(reading) == reading # "decline"
Proceeds(reading) == reading = "confirm"

\* The reply to a confirmation question was read.
ReadYes(t) ==
    /\ At(t, "readYes")
    /\ LET T == turn[t]
           w == T.work
           off == w.service \in T.msg.off
       IN  \E reading \in Readings(T.msg) :
             /\ \/ /\ reading = "other"
                   /\ Becomes(t, Routed([T EXCEPT !.work = Closed]))
                \/ /\ reading \notin {"other", "decline"} /\ off
                   /\ Becomes(t, Say(T, SwitchedOff))
                \/ /\ reading = "decline"
                   /\ Becomes(t, Say(T, NotDone("after")))
                \/ /\ reading \in {"unsure", "secret"} /\ ~Proceeds(reading) /\ ~off
                   /\ Becomes(t, Say(T, Ask(w, "after")))
                \/ /\ reading \notin {"other", "decline"} /\ Proceeds(reading) /\ ~off
                   /\ Becomes(t, [T EXCEPT !.pc = IF NeedsCode(w.service)
                                                  THEN "sendOtp" ELSE "fulfil"])
             /\ ask' = [ask EXCEPT ![w.q].dropped = @ \/ reading = "other",
                                   ![w.q].no = @ \/ reading = "decline",
                                   ![w.q].yes = @ \/ reading = "confirm"]
    /\ UNCHANGED <<open, asked, bankVars>>

-----------------------------------------------------------------------------
(* A new request: classified, completed, and asked about. *)

\* The message is classified: a service, a clarification or unknown service, a
\* knowledge question, one of the answers that record before "done" (rates,
\* advice, apply, save offer: audited; app actions: not), or the model is down.
Classify(t) ==
    /\ At(t, "classify")
    /\ \/ \E s \in Services : Becomes(t, Requested(turn[t], s))
       \/ \E o \in {Answered, KbAnswer, AppAnswer, Tell(Closed, "unsaid", "first", "before")} :
             Becomes(t, Say(turn[t], o))
       \/ "model" \in Faults /\ Becomes(t, End(turn[t], "error"))
    /\ UNCHANGED <<open, asked, ask, bankVars>>

\* The card list: none or several end the turn, one goes on (or was chosen).
Cards(t) ==
    /\ At(t, "cards")
    /\ \/ Becomes(t, Say(turn[t], Answered))
       \/ Becomes(t, [turn[t] EXCEPT !.pc = "gather"])
    /\ UNCHANGED <<open, asked, ask, bankVars>>

\* lookup_recipient: found or not, unavailable, or the login is refused -- then
\* the outcome's say is a plain string and _emit_outcome fails to unpack it.
Lookup(t) ==
    /\ At(t, "lookup")
    /\ \/ Becomes(t, [turn[t] EXCEPT !.pc = "gather"])
       \/ Becomes(t, Say(turn[t], Emitted))
       \/ Becomes(t, End(turn[t], "broken"))
    /\ UNCHANGED <<open, asked, ask, bankVars>>

\* The request cannot be completed yet: prefill has something to say, or a
\* field is missing.
AskForMore(t) ==
    /\ At(t, "gather")
    /\ \E o \in {Emitted, Answered} : Becomes(t, Say(turn[t], o))
    /\ UNCHANGED <<open, asked, ask, bankVars>>

\* The request is complete and changes nothing: read it, or sum it up.
Answer(t) ==
    /\ At(t, "gather")
    /\ \/ /\ GateOf[turn[t].work.service] = "read"
          /\ Becomes(t, [turn[t] EXCEPT !.pc = "readBank"])
       \/ /\ GateOf[turn[t].work.service] = "summary"
          /\ Becomes(t, Say(turn[t], Answered))
    /\ UNCHANGED <<open, asked, ask, bankVars>>

\* The request is a complete change: it becomes a question, put as a yes/no or,
\* for an email or mobile number, as a code straight away.
PutQuestion(t) ==
    /\ At(t, "gather")
    /\ asked < MaxQuestions
    /\ LET T == turn[t]
           s == T.work.service
           q == asked + 1
       IN  \E v \in Values :
             LET w == [type |-> "CONFIRMATION_REQUIRED", service |-> s,
                       value |-> v, q |-> q, token |-> 0]
             IN  /\ \/ NeedsYes(s) /\ Becomes(t, Say(T, Ask(w, "after")))
                    \/ /\ GateOf[s] = "contact"
                       /\ Becomes(t, [T EXCEPT !.work = [w EXCEPT !.type = "OTP_REQUIRED"],
                                               !.pc = "sendOtp"])
                 /\ asked' = q
                 /\ ask' = [ask EXCEPT ![q] = [Unasked EXCEPT !.cust = T.cust,
                                                 !.service = s, !.value = v]]
    /\ UNCHANGED <<open, bankVars>>

ReadBank(t) ==
    /\ At(t, "readBank")
    /\ Becomes(t, Say(turn[t], Answered))
    /\ UNCHANGED <<open, asked, ask, bankVars>>

-----------------------------------------------------------------------------
(* The code, and the change itself. *)

\* The code step opens only when the code went out; throttled, nothing is done.
Pending(w) == [w EXCEPT !.type = "OTP_REQUIRED", !.token = 0]
AfterSendAlwaysAsksInstead(T, answer) == Say(T, Ask(Pending(T.work), "first"))
AfterSendTriesAnywayInstead(T, answer) ==
    CASE answer = "SEND_THROTTLED" -> [T EXCEPT !.pc = "verifyOtp"]
      [] answer = "OK" -> Say(T, Ask(Pending(T.work), "first"))
      [] OTHER -> Say(T, Emitted)
AfterSend(T, answer) ==
    Say(T, CASE answer = "OK" -> Ask(Pending(T.work), "first")
             [] answer = "SEND_THROTTLED" -> NotDone("first")
             [] OTHER -> Emitted)

\* _send_freeze_otp, _send_contact_otp
SendOtp(t) ==
    /\ At(t, "sendOtp")
    /\ LET T == turn[t]
       IN  \E answer \in {"OK", "SEND_THROTTLED", "INVALID_PHONE", "UNAVAILABLE"} :
             /\ SendOtpCall(T.cust, T.work.q, answer)
             /\ Becomes(t, AfterSend(T, answer))
    /\ UNCHANGED <<open, asked, ask>>

VerifyOtp(t) ==
    /\ At(t, "verifyOtp")
    /\ LET T == turn[t]
           w == T.work
           freeze == GateOf[w.service] = "freeze"
       IN  \E answer \in {"OK", "OTP_INCORRECT", "OTP_EXPIRED", "OTP_BLOCKED", "UNAVAILABLE"} :
             /\ VerifyOtpCall(T.cust, w.q, T.msg.otp = "right", answer)
             /\ Becomes(t,
                  CASE answer = "OK" -> [T EXCEPT !.pc = "fulfil", !.work.token = minted'[w.q]]
                    [] answer = "OTP_EXPIRED" -> [T EXCEPT !.pc = "sendOtp"]
                    [] answer = "OTP_INCORRECT" -> Say(T, Ask([w EXCEPT !.token = 0], "first"))
                    [] answer = "OTP_BLOCKED" /\ freeze -> Say(T, NotDone("first"))
                    [] OTHER -> Say(T, Emitted))
    /\ UNCHANGED <<open, asked, ask>>

TokenOf(w) == <<w.q, w.token>>
AuditOfCodeOnlyInstead(w) == IF NeedsCode(w.service) THEN "first" ELSE "never"
AuditOf(w) == IF NeedsCode(w.service) THEN "first" ELSE "after"

\* No answer, or a refusal in words: the step is over and says nothing of whether
\* the change was made.
UnavailableSaysNotInstead(w) == Tell(Closed, "no", AuditOf(w), "after")
UnavailableStaysOpenInstead(w) == Ask(w, AuditOf(w))
Unavailable(w) == Tell(Closed, "unsaid", AuditOf(w), "after")

\* The bank carries the change out; its answer is still on the way.
Fulfil(t) ==
    /\ At(t, "fulfil")
    /\ LET T == turn[t]
           w == T.work
       IN  /\ NeedsCode(w.service) => TokenOf(w) \in usable
           /\ GateOf[w.service] = "freeze" => T.msg.cred = "right"
           /\ CarryOut(w.q, TokenOf(w))
           /\ Becomes(t, [T EXCEPT !.pc = "reply", !.acted = TRUE])
    /\ UNCHANGED <<open, asked, ask>>

\* The answer arrives, or is lost; a change behind a yes/no may have been saved
\* and still be answered 409 (the address PATCH was).
Replied(t) ==
    /\ At(t, "reply")
    /\ LET T == turn[t]
       IN  \/ Becomes(t, Say(T, Tell(Closed, "yes", AuditOf(T.work), "after")))
           \/ Becomes(t, Say(T, Unavailable(T.work)))
    /\ UNCHANGED <<open, asked, ask, bankVars>>

\* The bank does not carry it out: login refused, unavailable, refused in words,
\* or (freeze) the token or the PIN is no good.
Refused(t) ==
    /\ At(t, "fulfil")
    /\ LET T == turn[t]
           w == T.work
           good == TokenOf(w) \in usable
       IN  \/ Becomes(t, Say(T, Unavailable(w)))
           \/ /\ GateOf[w.service] = "contact"
              /\ Becomes(t, Say(T, NotDone("first")))
           \/ /\ GateOf[w.service] = "freeze" /\ ~good
              /\ Becomes(t, [T EXCEPT !.pc = "sendOtp"])
           \/ /\ GateOf[w.service] = "freeze" /\ good /\ T.msg.cred = "wrong"
              /\ Becomes(t, Say(T, Ask(w, "first")))
    /\ UNCHANGED <<open, asked, ask, bankVars>>

-----------------------------------------------------------------------------
(* The reply is streamed and the turn recorded. *)

Audited(T, when) == IF T.outcome.audit = when THEN T.audited + 1 ELSE T.audited

\* The words have been streamed; _emit_outcome audits before the result event.
\* Where the model cannot be reached the composer sends its fixed message, which
\* shows nothing of the question, and the turn goes on all the same.
Compose(t) ==
    /\ At(t, "compose")
    /\ LET T == turn[t]
           q == T.outcome.class.q
       IN  \E worded \in IF "model" \in Faults THEN BOOLEAN ELSE {TRUE} :
             /\ Becomes(t, [T EXCEPT !.pc = "result",
                              !.audited = Audited(T, "first")])
             /\ ask' = [p \in Questions |->
                          IF p = q THEN [ask[p] EXCEPT !.shown = @ \/ worded]
                                   ELSE ask[p]]
    /\ UNCHANGED <<open, asked, bankVars>>

\* _kb_stream gave up with an error event; the turn is recorded all the same.
KbFails(t) ==
    /\ At(t, "compose")
    /\ turn[t].outcome = KbAnswer
    /\ Becomes(t, End(turn[t], "error"))
    /\ Recorded(turn[t])
    /\ UNCHANGED <<asked, ask, bankVars>>

\* The result event has been taken; the branches written out audit now.
Result(t) ==
    /\ At(t, "result")
    /\ LET T == turn[t]
       IN  /\ Becomes(t, [T EXCEPT !.pc = "done", !.results = @ + 1,
                            !.audited = Audited(T, "after")])
           /\ IF T.outcome.record = "before" THEN Recorded(T) ELSE UNCHANGED open
    /\ UNCHANGED <<asked, ask, bankVars>>

\* "done" is sent; most branches still have to record the turn.
Done(t) ==
    /\ At(t, "done")
    /\ LET T == turn[t]
       IN  Becomes(t, IF T.outcome.record = "after"
                      THEN [T EXCEPT !.pc = "record", !.ended = "done"]
                      ELSE End(T, "done"))
    /\ UNCHANGED <<open, asked, ask, bankVars>>

Record(t) ==
    /\ At(t, "record")
    /\ Becomes(t, End(turn[t], "done"))
    /\ Recorded(turn[t])
    /\ UNCHANGED <<asked, ask, bankVars>>

-----------------------------------------------------------------------------
(* What the world does to it. *)

CutOff(T) == IF T.pc = "idle" THEN T
             ELSE End(T, IF T.ended = "done" THEN "done" ELSE "cut")

\* The client goes away: the generator is cancelled where it waits.
Disconnect(t) ==
    /\ "disconnect" \in Faults
    /\ turn[t].pc # "idle"
    /\ Becomes(t, CutOff(turn[t]))
    /\ UNCHANGED <<open, asked, ask, bankVars>>

\* The process restarts: streams are cut, the session store is empty.
Restart ==
    /\ "restart" \in Faults
    /\ turn' = [t \in Turns |-> CutOff(turn[t])]
    /\ Store!Lapse(Customers)
    /\ UNCHANGED <<asked, ask, bankVars>>

\* Thirty idle minutes.
SessionLapses(c) ==
    /\ "lapse" \in Faults
    /\ Store!Lapse({c})
    /\ UNCHANGED <<turn, asked, ask, bankVars>>

Expiry ==
    /\ "expiry" \in Faults
    /\ \/ \E c \in Customers : CodeExpires(c)
       \/ \E token \in usable : TokenExpires(token)
    /\ UNCHANGED chatVars

Step(t) ==
    \/ Enter(t) \/ ReadCode(t) \/ ReadYes(t)
    \/ Classify(t) \/ Cards(t) \/ Lookup(t)
    \/ AskForMore(t) \/ Answer(t) \/ PutQuestion(t) \/ ReadBank(t)
    \/ SendOtp(t) \/ VerifyOtp(t) \/ Fulfil(t) \/ Replied(t) \/ Refused(t)
    \/ Compose(t) \/ KbFails(t) \/ Result(t) \/ Done(t) \/ Record(t)

Next ==
    \/ \E t \in Turns, c \in Customers, m \in Messages : Send(t, c, m)
    \/ \E t \in Turns : Step(t)
    \/ \E t \in Turns : Disconnect(t)
    \/ Restart
    \/ \E c \in Customers : SessionLapses(c)
    \/ Expiry

Spec == Init /\ [][Next]_vars

\* Every await the handler makes has a timeout (30 s at the bank, 20 to 30 s
\* at the model), so a turn that can go on does.
FairSpec == Spec /\ \A t \in Turns : WF_vars(Step(t))
-----------------------------------------------------------------------------
(* Properties that hold whatever happens: several requests of a customer at *)
(* once, disconnects, restarts, lapses and expiries.  Those that say what   *)
(* the customer was shown need a model to write it: with "model" among the  *)
(* faults ConsentBeforeChange is violated.                                  *)

\* Type invariant.
TypeOK ==
    /\ turn \in [Turns -> TurnState]
    /\ open \in [Customers -> Class]
    /\ asked \in 0..MaxQuestions
    /\ ask \in [Questions -> Question]
    /\ BankTypeOK

\* A change the bank carried out was put to the customer in words, then agreed to
\* if its gate is a yes/no, and verified by a code if its gate is a code
\* (_CONFIRM_CHANGE_KEYS "changes that run after an explicit yes", T-57, T-75).
ConsentBeforeChange ==
    \A q \in Questions :
        changes[q] > 0 =>
            /\ ask[q].shown
            /\ NeedsYes(ask[q].service) => ask[q].yes
            /\ NeedsCode(ask[q].service) => minted[q] > 0

\* What is carried out is what was shown: the customer, service and value the turn
\* sends to the bank are those of the question put, after any number of re-asks,
\* re-sent codes and stored tokens in between.
ChangedAsShown ==
    [][\A q \in Questions : changes'[q] # changes[q] =>
          \E t \in Turns : /\ At(t, "fulfil") /\ turn[t].work.q = q
                           /\ ask[q].shown
                           /\ turn[t].cust = ask[q].cust
                           /\ turn[t].work.service = ask[q].service
                           /\ turn[t].work.value = ask[q].value]_vars

\* The step the session says is pending is one its customer has seen the words of,
\* and a code step says only what is so: a code was sent for it, a freeze was
\* agreed to first, and a stored token was really minted for it.
PendingIsBacked ==
    \A c \in Customers : open[c].type # "CLOSED" =>
        LET w == open[c]
        IN  /\ w.q \in 1..asked
            /\ ask[w.q].shown /\ ask[w.q].cust = c
            /\ ask[w.q].service = w.service /\ ask[w.q].value = w.value
            /\ w.type = "OTP_REQUIRED" =>
                  /\ NeedsCode(w.service) /\ sent[w.q] > 0
                  /\ NeedsYes(w.service) => ask[w.q].yes
                  /\ w.token <= minted[w.q]

\* The result event does not lie: "executed": true only if this turn's call was
\* carried out, false only if it was not.  An unavailable bank says neither.
TruthfulResult ==
    \A t \in Turns : /\ turn[t].outcome.executed = "yes" => turn[t].acted
                     /\ turn[t].outcome.executed = "no" => ~turn[t].acted

\* A finished stream carried exactly one result event before "done", and no turn
\* is audited twice (INTEGRATION.md:318, SRS FR-CONTRACT-03, audit.py:87).
StreamShape ==
    \A t \in Turns : /\ turn[t].ended = "done" => turn[t].results = 1
                     /\ turn[t].audited <= 1

\* The handler implements the authorisation the bank may rely on.
KindOf(q) ==
    LET s == ask[q].service
    IN  IF q > asked THEN "none"
        ELSE IF NeedsYes(s) THEN IF NeedsCode(s) THEN "both" ELSE "yes"
        ELSE "code"
Auth == INSTANCE AuthorisedChange WITH
            kind <- [q \in Questions |-> KindOf(q)],
            shown <- {q \in Questions : ask[q].shown},
            agreed <- {q \in Questions : ask[q].yes},
            given <- minted, permits <- usable, count <- changes
AuthorisedChangeSpec == Auth!Spec

-----------------------------------------------------------------------------
(* Properties of one conversation held in one tab over a good connection.   *)

\* A question is carried out at most once, however the customer answers and
\* whatever the bank answers (a lost answer closes the question too).
OneChangePerQuestion == \A q \in Questions : changes[q] <= 1

\* A change the customer declined, or moved on from, is never carried out later
\* (chat.py:3758 "the pending change is dropped -- never executed").
NothingAfterRefusal ==
    [][\A q \in Questions : changes'[q] # changes[q] => ~ask[q].no /\ ~ask[q].dropped]_vars

\* A code is accepted only for the request whose prompt it was texted for, though
\* the bank ties a code to the phone and not to the request.
CodeForItsOwnQuestion ==
    [][\A q \in Questions : minted'[q] # minted[q] =>
          code[ask[q].cust] = q]_vars

\* The prompt the customer is looking at is the step the session is waiting on:
\* the next answer is taken as an answer to it.
PromptStaysOpen ==
    \A t \in Turns :
        LET T == turn[t]
        IN  /\ At(t, "idle") /\ T.ended = "done"
            /\ T.outcome.class.type # "CLOSED"
            => open[T.cust] = T.outcome.class

\* When the prompt asks for the PIN alone ("the code is still valid"), the stored
\* token is one the bank would still take.
StoredTokenIsGood ==
    (\A t \in Turns : At(t, "idle")) =>
        \A c \in Customers : open[c].token # 0 => TokenOf(open[c]) \in usable

\* A turn that changed something at the bank leaves its audit line (FR-SEC-03).
ChangesAreAudited ==
    \A t \in Turns : At(t, "idle") /\ turn[t].acted => turn[t].audited = 1

-----------------------------------------------------------------------------
(* Liveness, under FairSpec. *)

\* Every accepted request ends its stream with "done" or "error".
EveryStreamEnds ==
    \A t \in Turns :
        At(t, "verify") ~> (At(t, "idle") /\ turn[t].ended \in {"done", "error"})

\* A change that was carried out is reported in a result event, audited and
\* recorded before the turn ends: the session no longer holds its question, which
\* another yes would carry out again.
ChangeIsReported ==
    \A t \in Turns :
        At(t, "reply") ~> (/\ At(t, "idle") /\ turn[t].results = 1 /\ turn[t].audited = 1
                           /\ open[turn[t].cust] = Closed)
=============================================================================
