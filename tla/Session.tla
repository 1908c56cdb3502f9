------------------------------ MODULE Session ------------------------------
(***************************************************************************)
(* The in-memory session store, app/banking/session.py: one entry per      *)
(* customer with the recent turns, the lines the app reported about its    *)
(* own forms (UI notes), and the time of the last activity.  An entry      *)
(* older than the idle timeout is ignored by every reader and replaced by  *)
(* the next writer; nothing deletes it before.                             *)
(*                                                                         *)
(* talk is a history variable: what an observer of the calls alone knows   *)
(* of each customer's current conversation.                                *)
(***************************************************************************)
EXTENDS Naturals, Sequences

CONSTANTS
    Customers,      \* verified identities
    Classes,        \* classifications of turns
    NoClass,        \* what get_session's reader sees when there is no turn
    PendingClasses, \* _PENDING_CLARIFICATION_TYPES
    IdleTimeout,    \* SESSION_IDLE_TIMEOUT, in ticks
    MaxTurns,       \* MAX_TURNS_PER_SESSION
    MaxUiNotes,     \* MAX_UI_NOTES
    Horizon,        \* bound: the clock stops here
    MaxSaid         \* bound: turns recorded in one conversation

ASSUME SessionAssumption ==
    /\ NoClass \notin Classes
    /\ PendingClasses \subseteq Classes
    /\ IdleTimeout \in Nat
    /\ MaxTurns \in Nat \ {0}
    /\ MaxUiNotes \in Nat \ {0}
    /\ Horizon \in Nat
    /\ MaxSaid \in Nat

VARIABLES
    now,            \* the wall clock
    sessions,       \* _sessions
    talk            \* history: the conversation as seen from outside

vars == <<now, sessions, talk>>

ChatTurn == [timestamp : Nat, classification : Classes]
Entry == [exists : BOOLEAN, last_active_at : Nat,
          turns : Seq(ChatTurn), ui_notes : Seq(Nat)]

NoEntry == [exists |-> FALSE, last_active_at |-> 0,
            turns |-> <<>>, ui_notes |-> <<>>]
NewEntry == [exists |-> TRUE, last_active_at |-> now,
             turns |-> <<>>, ui_notes |-> <<>>]

IsExpired(entry) == now > entry.last_active_at + IdleTimeout
Live(c) == sessions[c].exists /\ ~IsExpired(sessions[c])

\* (A definition that ends in Instead is a way the code could have gone wrong.)
ExtendExpiredInstead(c) == IF sessions[c].exists THEN sessions[c] ELSE NewEntry
ReplaceAlwaysInstead(c) == NewEntry

\* The entry a writer works on: the live one, or a new one in its place.
EntryFor(c) == IF Live(c) THEN sessions[c] ELSE NewEntry

KeepOldestInstead(s, n) == IF Len(s) > n THEN SubSeq(s, 1, n) ELSE s

\* s[-n:]
LastN(s, n) == IF Len(s) > n THEN SubSeq(s, Len(s) - n + 1, Len(s)) ELSE s

GetSession(c) == IF Live(c) THEN sessions[c].turns ELSE <<>>
GetUiNotes(c) == IF Live(c) THEN sessions[c].ui_notes ELSE <<>>

LastClass(c) ==
    LET turns == GetSession(c)
    IN  IF turns = <<>> THEN NoClass ELSE turns[Len(turns)].classification

GetClassificationContext(c) ==
    IF LastClass(c) \in PendingClasses THEN GetSession(c) ELSE <<>>

(***************************************************************************)
(* The observer: any activity more than the timeout after the previous one *)
(* begins a new conversation (FR-IDENT-05), as does the first one after a  *)
(* restart.                                                                *)
(***************************************************************************)
Talk == [seen : BOOLEAN, since : Nat, active : Nat, said : Nat]
Silence == [seen |-> FALSE, since |-> 0, active |-> 0, said |-> 0]
Ongoing(c) == talk[c].seen /\ now <= talk[c].active + IdleTimeout
Heard(c, n) ==
    [seen |-> TRUE, active |-> now,
     since |-> IF Ongoing(c) THEN talk[c].since ELSE now,
     said |-> (IF Ongoing(c) THEN talk[c].said ELSE 0) + n]

-----------------------------------------------------------------------------
Init ==
    /\ now = 0
    /\ sessions = [c \in Customers |-> NoEntry]
    /\ talk = [c \in Customers |-> Silence]

RecordTurn(c, k) ==
    /\ Ongoing(c) => talk[c].said < MaxSaid
    /\ LET entry == EntryFor(c)
           turn == [timestamp |-> now, classification |-> k]
       IN  sessions' = [sessions EXCEPT ![c] =
              [exists |-> TRUE, last_active_at |-> now,
               turns |-> LastN(Append(entry.turns, turn), MaxTurns),
               ui_notes |-> entry.ui_notes]]
    /\ talk' = [talk EXCEPT ![c] = Heard(c, 1)]
    /\ UNCHANGED now

\* n lines arrived with a request; with none, record_ui_notes returns at once.
RecordUiNotes(c, n) ==
    /\ n > 0
    /\ LET entry == EntryFor(c)
           notes == [i \in 1..n |-> now]
       IN  sessions' = [sessions EXCEPT ![c] =
              [exists |-> TRUE, last_active_at |-> now, turns |-> entry.turns,
               ui_notes |-> LastN(entry.ui_notes \o notes, MaxUiNotes)]]
    /\ talk' = [talk EXCEPT ![c] = Heard(c, 0)]
    /\ UNCHANGED now

Tick ==
    /\ now < Horizon
    /\ now' = now + 1
    /\ UNCHANGED <<sessions, talk>>

\* The process restarts: the module-level dict is empty again.
Restart ==
    /\ sessions' = [c \in Customers |-> NoEntry]
    /\ talk' = [c \in Customers |-> Silence]
    /\ UNCHANGED now

Next ==
    \/ \E c \in Customers, k \in Classes : RecordTurn(c, k)
    \/ \E c \in Customers, n \in 1..MaxUiNotes : RecordUiNotes(c, n)
    \/ Tick
    \/ Restart

Spec == Init /\ [][Next]_vars

-----------------------------------------------------------------------------
\* Type invariant; the two caps are part of the type (FR-IDENT-07).
TypeOK ==
    /\ now \in Nat
    /\ sessions \in [Customers -> Entry]
    /\ talk \in [Customers -> Talk]
    /\ \A c \in Customers : /\ Len(sessions[c].turns) <= MaxTurns
                            /\ Len(sessions[c].ui_notes) <= MaxUiNotes

\* Nothing said before an idle gap (or a restart) is ever shown to the handler
\* again, whichever of turns and UI notes wrote to the expired entry first
\* (session.py: both writers replace an expired entry instead of extending it).
FreshAfterIdle ==
    \A c \in Customers :
        /\ \A i \in DOMAIN GetSession(c) :
              GetSession(c)[i].timestamp >= talk[c].since
        /\ \A i \in DOMAIN GetUiNotes(c) : GetUiNotes(c)[i] >= talk[c].since

\* While the conversation goes on nothing is forgotten early: get_session
\* returns exactly as many of its turns as were said, up to the cap.
NothingForgottenEarly ==
    \A c \in Customers :
        Len(GetSession(c)) =
            IF ~Ongoing(c) THEN 0
            ELSE IF talk[c].said <= MaxTurns THEN talk[c].said ELSE MaxTurns

\* The context handed to the classifier never reaches past the question just
\* asked in this conversation: empty unless the last turn is a clarification,
\* and then its last element is that turn, said since the conversation began.
ContextAnswersOpenQuestion ==
    \A c \in Customers :
        LET ctx == GetClassificationContext(c)
        IN  ctx # <<>> => /\ Ongoing(c)
                          /\ ctx[Len(ctx)].classification \in PendingClasses
                          /\ ctx[1].timestamp >= talk[c].since

-----------------------------------------------------------------------------
\* The store implements the one-register view the chat handler relies on, step
\* for step: recording a turn is Record of that very turn, whatever the caps drop
\* and the gap ends, and what the app reports about its forms changes no register.
register == [c \in Customers |-> LastClass(c)]
OQ == INSTANCE OpenQuestion WITH open <- register
WritersImplementRecord ==
    /\ \A c \in Customers, k \in Classes : RecordTurn(c, k) => OQ!Record(c, k)
    /\ \A c \in Customers, n \in 1..MaxUiNotes :
          RecordUiNotes(c, n) => UNCHANGED register
OpenQuestionSpec == OQ!Spec /\ [][WritersImplementRecord]_vars
=============================================================================
