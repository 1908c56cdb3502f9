---------------------------- MODULE ReplyStream ----------------------------
(***************************************************************************)
(* How one message of the assistant is written and checked before the      *)
(* customer sees it: app/conversation/composer.py, compose_stream and the  *)
(* compose it falls back on.                                               *)
(*                                                                         *)
(* The model writes symbol by symbol, in chunks that end anywhere, inside  *)
(* a number too.  A text is a sequence over Symbols; the facts hold one    *)
(* amount, which the message must carry, attached to its label.  What the  *)
(* checks do not tell apart (wording, Bangla digits, length) is left out;  *)
(* a currency sign not in the facts is stopped where a wrong number is.    *)
(***************************************************************************)
EXTENDS Naturals, Sequences, SequencesExt

CONSTANTS
    Digits,         \* what numbers are written with
    Amount,         \* the value in must_include, a sequence of digits
    MinDigits,      \* shorter numbers are not checked (3 in the code)
    MaxText,        \* num_predict: the model stops there
    MaxChunk,       \* symbols in a chunk
    Drafts          \* what the model may answer when asked for a whole reply

Space == " "
Comma == ","
Label == "label"    \* the words that say what the amount is
Other == "other"    \* the words that say what something else is
Symbols == Digits \cup {Space, Comma, Label, Other}

ASSUME ReplyStreamAssumption ==
    /\ Digits \cap {Space, Comma, Label, Other} = {}
    /\ Amount \in Seq(Digits) /\ Amount # <<>>
    /\ MinDigits \in Nat /\ MaxText \in Nat /\ MaxChunk \in Nat \ {0}
    /\ Drafts \subseteq Seq(Symbols)

VARIABLES
    phase,          \* "stream", "compose" (the fallback) or "over"
    full,           \* what the model has streamed so far
    sent,           \* how much of it was released
    attempt,        \* whole replies asked for and refused
    shown,          \* history: what the customer has been shown
    how             \* history: who wrote the end of it

vars == <<phase, full, sent, attempt, shown, how>>

Init ==
    /\ phase = "stream"
    /\ full = <<>> /\ sent = 0 /\ attempt = 0
    /\ shown = <<>> /\ how = "nobody"

-----------------------------------------------------------------------------
(* What the checks see in a text. *)

\* Digits and separators from i to j, as many as there are (NUMBER_RE).
IsNumber(s, i, j) ==
    /\ s[i] \in Digits
    /\ \A k \in i..j : s[k] \in Digits \cup {Comma}
    /\ j < Len(s) => s[j + 1] \notin Digits \cup {Comma}
    /\ \A k \in 1..(i - 1) :
          s[k] \in Digits => \E l \in k..i : s[l] \notin Digits \cup {Comma}
Plain(s) ==
    LET kept[k \in 0..Len(s)] ==
            IF k = 0 THEN <<>>
            ELSE IF s[k] = Comma THEN kept[k - 1] ELSE Append(kept[k - 1], s[k])
    IN  kept[Len(s)]
Numbers(s) == {p \in (1..Len(s)) \X (1..Len(s)) : p[1] <= p[2] /\ IsNumber(s, p[1], p[2])}

IsPartOf(n, s) == \E i, j \in 1..Len(s) : i <= j /\ SubSeq(s, i, j) = n

\* A number is supported by the facts if it is the amount, or a part of it.
UnsupportedNumbers(s) ==
    {n \in {Plain(SubSeq(s, p[1], p[2])) : p \in Numbers(s)} :
        Len(n) >= MinDigits /\ ~IsPartOf(n, Amount)}

\* Where the amount is: verbatim, or the same number with separators.
FindValue(s) ==
    {i \in 1..Len(s) : \E j \in i..Len(s) :
        \/ SubSeq(s, i, j) = Amount
        \/ IsNumber(s, i, j) /\ Plain(SubSeq(s, i, j)) = Amount}

\* The amount is attached to its label, or no other label claims it.
LabelKept(s) ==
    \E i \in FindValue(s) : \/ \E k \in 1..(i - 1) : s[k] = Label
                            \/ \A k \in 1..(i - 1) : s[k] # Other

CheckReply(s) ==
    /\ s # <<>>
    /\ UnsupportedNumbers(s) = {}
    /\ FindValue(s) # {}
    /\ LabelKept(s)

Listing == <<Label>> \o Amount

-----------------------------------------------------------------------------
(* The stream. *)

\* Where a piece may end: a separator with white space after it.
EndsAnywhereInstead(s) == {i \in 1..Len(s) : s[i] = Comma}
Ends(s) == {i \in 1..(Len(s) - 1) : s[i] = Comma /\ s[i + 1] = Space}

\* What may be released: up to the last such place, or all of a finished text.
Safe(s, done) ==
    IF done THEN s
    ELSE SubSeq(s, 1, CHOOSE i \in Ends(s) \cup {0} : \A e \in Ends(s) : e <= i)
CheckedLastClauseNotInstead(s, done) == Safe(s, FALSE)
Checked(s, done) == Safe(s, done)

\* The first piece loses the white space in front of it.
Stripped(s) ==
    LET i == SelectInSeq(s, LAMBDA x : x # Space)
    IN  IF i = 0 THEN <<>> ELSE SubSeq(s, i, Len(s))
Piece(s, done) ==
    LET safe == Safe(s, done)
        piece == SubSeq(safe, sent + 1, Len(safe))
    IN  IF sent = 0 THEN Stripped(piece) ELSE piece

\* The stream is over: nothing was released and a whole reply is asked for, or
\* what was released is completed by the amount, if that was left out.
Closes(said, missing) ==
    /\ how' = "stream"
    /\ phase' = "over"
    /\ shown' = IF missing THEN said \o <<Space>> \o Listing ELSE said
FallsBack(said) == phase' = "compose" /\ shown' = said /\ UNCHANGED how
FinishComparesAllInstead(text, released, said) ==
    IF released = 0 THEN FallsBack(said)
    ELSE Closes(said, FindValue(text) = {})
FinishRegeneratesInstead(text, released, said) ==
    IF released = 0 \/ FindValue(SubSeq(text, 1, released)) = {} THEN FallsBack(said)
    ELSE Closes(said, FALSE)
Finish(text, released, said) ==
    IF released = 0 THEN FallsBack(said)
    ELSE Closes(said, FindValue(SubSeq(text, 1, released)) = {})

\* A chunk arrives, the last one saying that the text is done.
Chunk ==
    /\ phase = "stream"
    /\ \E c \in BoundedSeq(Symbols, MaxChunk), done \in BOOLEAN :
          LET text == full \o c
              good == UnsupportedNumbers(Checked(text, done)) = {}
              piece == IF good THEN Piece(text, done) ELSE <<>>
              released == IF piece = <<>> THEN sent ELSE Len(Safe(text, done))
          IN  /\ Len(text) <= MaxText
              /\ done \/ c # <<>>
              /\ full' = text
              /\ sent' = released
              /\ IF done \/ ~good
                 THEN Finish(text, released, shown \o piece)
                 ELSE shown' = shown \o piece /\ UNCHANGED <<phase, how>>
    /\ UNCHANGED attempt

\* The call fails or times out, or the stream ends and never said it was done.
Break ==
    /\ phase = "stream"
    /\ Finish(full, sent, shown)
    /\ UNCHANGED <<full, sent, attempt>>

-----------------------------------------------------------------------------
(* The whole reply. *)

Over(reply, who) == phase' = "over" /\ shown' = shown \o reply /\ how' = who

Attempts == 2

\* The model answers; what it says may also be too long or have markdown in it.
Draft ==
    /\ phase = "compose"
    /\ \E d \in Drafts :
          \/ /\ CheckReply(d)
             /\ Over(d, "model")
             /\ UNCHANGED attempt
          \/ /\ attempt' = attempt + 1
             /\ IF attempt' = Attempts THEN Over(Listing, "facts")
                                       ELSE UNCHANGED <<phase, shown, how>>
    /\ UNCHANGED <<full, sent>>

\* The model cannot be reached: LLM_DOWN_MESSAGE.
Down ==
    /\ phase = "compose"
    /\ Over(<<>>, "down")
    /\ UNCHANGED <<full, sent, attempt>>

Next == Chunk \/ Break \/ Draft \/ Down

Spec == Init /\ [][Next]_vars

-----------------------------------------------------------------------------
(* Properties. *)

\* Type invariant; a reply is asked for at most twice (composer.py:276).
TypeOK ==
    /\ phase \in {"stream", "compose", "over"}
    /\ full \in Seq(Symbols) /\ Len(full) <= MaxText
    /\ sent \in 0..Len(full)
    /\ attempt \in 0..2
    /\ shown \in Seq(Symbols)
    /\ how \in {"nobody", "stream", "model", "facts", "down"}

\* "A wrong amount must never reach a customer" (composer.py:57-58): however the text is
\* cut into chunks, whatever was released before the check failed, and with the lines
\* added at the end, no number the facts do not support is ever on the screen.
OnlySupported == UnsupportedNumbers(shown) = {}

\* No piece ends inside a number (composer.py:288-291): a prefix of an amount is another
\* amount, which the check would let pass.
NumbersAreWhole ==
    0 < sent /\ sent < Len(full) =>
        ~\E p \in Numbers(full) : /\ p[1] <= sent /\ sent < p[2]
                                  /\ \E k \in (sent + 1)..p[2] : full[k] \in Digits

\* When the message is over the customer has seen the amount, however the stream ended:
\* at a bad number, in mid-sentence, or never having begun (composer.py:304-308).
ValuesReachTheCustomer ==
    phase = "over" /\ how # "down" => FindValue(shown) # {}

\* Once a piece is out the message is never started over: a whole reply is asked for only
\* while nothing was shown.
SaidOnce == phase = "compose" \/ how \in {"model", "facts", "down"} => sent = 0

\* "Every exact value in must_include appears verbatim, still attached to its label"
\* (composer.py:6-7).
ValuesStayAttached ==
    phase = "over" /\ how # "down" => LabelKept(shown)
=============================================================================
