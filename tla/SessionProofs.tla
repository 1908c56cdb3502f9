--------------------------- MODULE SessionProofs ---------------------------
(***************************************************************************)
(* The session store is correct for every number of customers, cap and     *)
(* timeout: the inductive invariant, the three safety properties that      *)
(* follow from it, and the refinement of OpenQuestion.                     *)
(***************************************************************************)
EXTENDS Session, TLAPS

\* One customer's entry agrees with what the observer knows.
InSync(c) ==
    /\ sessions[c].exists = talk[c].seen
    /\ talk[c].since <= talk[c].active
    /\ talk[c].active <= now
    /\ talk[c].seen => sessions[c].last_active_at = talk[c].active
    /\ ~talk[c].seen => sessions[c] = NoEntry
    /\ Len(sessions[c].turns) =
          IF talk[c].said <= MaxTurns THEN talk[c].said ELSE MaxTurns
    /\ ~talk[c].seen => talk[c].said = 0
    /\ \A i \in DOMAIN sessions[c].turns :
          sessions[c].turns[i].timestamp >= talk[c].since
    /\ \A i \in DOMAIN sessions[c].ui_notes :
          sessions[c].ui_notes[i] >= talk[c].since

IInv == TypeOK /\ \A c \in Customers : InSync(c)

-----------------------------------------------------------------------------
\* Trimming keeps the last n elements (session.py:54-55, s[-n:]).
LEMMA LastNFacts ==
    ASSUME NEW S, NEW s \in Seq(S), NEW n \in Nat \ {0}
    PROVE  /\ LastN(s, n) \in Seq(S)
           /\ Len(LastN(s, n)) = IF Len(s) <= n THEN Len(s) ELSE n
           /\ \A i \in DOMAIN LastN(s, n) :
                 \E j \in DOMAIN s : LastN(s, n)[i] = s[j]
           /\ s # <<>> => LastN(s, n)[Len(LastN(s, n))] = s[Len(s)]
<1>1. CASE Len(s) <= n
  BY <1>1 DEF LastN
<1>2. CASE Len(s) > n
  <2>1. LastN(s, n) = SubSeq(s, Len(s) - n + 1, Len(s))
    BY <1>2 DEF LastN
  <2>2. Len(LastN(s, n)) = n
    BY <1>2, <2>1
  <2>3. LastN(s, n) \in Seq(S)
    BY <1>2, <2>1
  <2>4. \A i \in 1..n : LastN(s, n)[i] = s[Len(s) - n + i]
    BY <1>2, <2>1
  <2>5. \A i \in 1..n : Len(s) - n + i \in DOMAIN s
    BY <1>2
  <2>6. DOMAIN LastN(s, n) = 1..n
    BY <2>2, <2>3
  <2> QED BY <1>2, <2>2, <2>3, <2>4, <2>5, <2>6
<1> QED BY <1>1, <1>2

\* A writer and a reader see the same entry as the observer: the live one exactly
\* while the conversation goes on (session.py: _is_expired, record_turn).
LEMMA EntryForFacts ==
    ASSUME IInv, NEW c \in Customers
    PROVE  /\ Live(c) <=> Ongoing(c)
           /\ EntryFor(c) \in Entry
           /\ EntryFor(c).exists = TRUE
           /\ Ongoing(c) => EntryFor(c) = sessions[c]
           /\ ~Ongoing(c) => EntryFor(c).turns = <<>> /\ EntryFor(c).ui_notes = <<>>
<1>1. /\ now \in Nat /\ IdleTimeout \in Nat
      /\ sessions[c] \in Entry /\ talk[c] \in Talk
      /\ InSync(c)
  BY SessionAssumption DEF IInv, TypeOK
<1>2. Live(c) <=> Ongoing(c)
  <2>1. /\ sessions[c].exists = talk[c].seen
        /\ talk[c].seen => sessions[c].last_active_at = talk[c].active
    BY <1>1 DEF InSync
  <2>2. /\ sessions[c].last_active_at \in Nat /\ talk[c].active \in Nat
        /\ talk[c].seen \in BOOLEAN
    BY <1>1 DEF Entry, Talk
  <2> QED BY <1>1, <2>1, <2>2 DEF Live, Ongoing, IsExpired
<1>3. NewEntry \in Entry
  <2>1. <<>> \in Seq(ChatTurn) /\ <<>> \in Seq(Nat)
    OBVIOUS
  <2> QED BY <1>1, <2>1 DEF Entry, NewEntry
<1>4. /\ NewEntry.exists = TRUE
      /\ NewEntry.turns = <<>> /\ NewEntry.ui_notes = <<>>
  BY DEF NewEntry
<1> QED BY <1>1, <1>2, <1>3, <1>4 DEF EntryFor, InSync, Live

\* Recording a turn keeps the invariant.
LEMMA RecordTurnKeepsIInv ==
    ASSUME IInv, NEW c \in Customers, NEW k \in Classes, RecordTurn(c, k)
    PROVE  IInv'
<1> DEFINE e == EntryFor(c)
           turn == [timestamp |-> now, classification |-> k]
           said == IF Ongoing(c) THEN talk[c].said ELSE 0
           since == IF Ongoing(c) THEN talk[c].since ELSE now
           more == Append(e.turns, turn)
           kept == LastN(more, MaxTurns)
<1>1. /\ now \in Nat /\ MaxTurns \in Nat \ {0} /\ MaxUiNotes \in Nat \ {0}
      /\ sessions \in [Customers -> Entry] /\ talk \in [Customers -> Talk]
      /\ sessions[c] \in Entry /\ talk[c] \in Talk
      /\ InSync(c)
  BY SessionAssumption DEF IInv, TypeOK
<1>2. /\ e \in Entry /\ e.exists = TRUE
      /\ Ongoing(c) => e = sessions[c]
      /\ ~Ongoing(c) => e.turns = <<>> /\ e.ui_notes = <<>>
  BY EntryForFacts
<1>3. /\ sessions' = [sessions EXCEPT ![c] =
                         [exists |-> TRUE, last_active_at |-> now,
                          turns |-> kept, ui_notes |-> e.ui_notes]]
      /\ talk' = [talk EXCEPT ![c] = Heard(c, 1)]
      /\ now' = now
  BY DEF RecordTurn
<1>4. /\ e.turns \in Seq(ChatTurn) /\ e.ui_notes \in Seq(Nat)
      /\ turn \in ChatTurn
      /\ more \in Seq(ChatTurn)
  BY <1>1, <1>2 DEF Entry, ChatTurn
<1>5. /\ said \in Nat /\ since \in Nat /\ since <= now
      /\ Len(e.turns) = IF said <= MaxTurns THEN said ELSE MaxTurns
      /\ \A i \in DOMAIN e.turns : e.turns[i].timestamp >= since
      /\ \A i \in DOMAIN e.ui_notes : e.ui_notes[i] >= since
      /\ Len(e.ui_notes) <= MaxUiNotes
  <2>1. CASE Ongoing(c)
    BY <1>1, <1>2, <2>1 DEF InSync, Talk, IInv, TypeOK
  <2>2. CASE ~Ongoing(c)
    BY <1>1, <1>2, <2>2
  <2> QED BY <2>1, <2>2
<1>6. \A i \in DOMAIN more : more[i].timestamp >= since
  <2> SUFFICES ASSUME NEW i \in 1..(Len(e.turns) + 1)
               PROVE  more[i].timestamp >= since
    BY <1>4
  <2>1. CASE i <= Len(e.turns)
    BY <1>4, <1>5, <2>1
  <2>2. CASE i = Len(e.turns) + 1
    BY <1>1, <1>4, <1>5, <2>2
  <2> QED BY <1>4, <2>1, <2>2
<1>7. /\ kept \in Seq(ChatTurn)
      /\ Len(kept) = IF Len(e.turns) + 1 <= MaxTurns THEN Len(e.turns) + 1 ELSE MaxTurns
      /\ \A i \in DOMAIN kept : kept[i].timestamp >= since
  <2>1. Len(more) = Len(e.turns) + 1
    BY <1>4
  <2> HIDE DEF more
  <2>2. /\ kept \in Seq(ChatTurn)
        /\ Len(kept) = IF Len(more) <= MaxTurns THEN Len(more) ELSE MaxTurns
        /\ \A i \in DOMAIN kept : \E j \in DOMAIN more : kept[i] = more[j]
    BY <1>1, <1>4, LastNFacts
  <2> QED BY <1>6, <2>1, <2>2
<1>8. /\ sessions'[c] = [exists |-> TRUE, last_active_at |-> now,
                         turns |-> kept, ui_notes |-> e.ui_notes]
      /\ talk'[c] = [seen |-> TRUE, since |-> since, active |-> now, said |-> said + 1]
      /\ \A d \in Customers \ {c} : sessions'[d] = sessions[d] /\ talk'[d] = talk[d]
  <2>1. Heard(c, 1) = [seen |-> TRUE, since |-> since, active |-> now, said |-> said + 1]
    BY DEF Heard
  <2> QED BY <1>1, <1>3, <2>1
<1> HIDE DEF e, said, since, kept
<1>9. sessions'[c] \in Entry /\ talk'[c] \in Talk
  BY <1>1, <1>4, <1>5, <1>7, <1>8 DEF Entry, Talk
<1>10. TypeOK'
  <2>1. sessions' \in [Customers -> Entry] /\ talk' \in [Customers -> Talk]
    BY <1>1, <1>3, <1>8, <1>9
  <2>2. \A d \in Customers : /\ Len(sessions'[d].turns) <= MaxTurns
                             /\ Len(sessions'[d].ui_notes) <= MaxUiNotes
    <3>1. Len(sessions'[c].turns) <= MaxTurns /\ Len(sessions'[c].ui_notes) <= MaxUiNotes
      <4>1. sessions'[c].turns = kept /\ sessions'[c].ui_notes = e.ui_notes
        BY <1>8
      <4>2. Len(kept) <= MaxTurns /\ Len(e.ui_notes) <= MaxUiNotes
        BY <1>1, <1>4, <1>5, <1>7
      <4> QED BY <4>1, <4>2
    <3>2. ASSUME NEW d \in Customers, d # c
          PROVE  Len(sessions'[d].turns) <= MaxTurns /\ Len(sessions'[d].ui_notes) <= MaxUiNotes
      <4>1. sessions'[d] = sessions[d]
        BY <1>8, <3>2
      <4> QED BY <4>1 DEF IInv, TypeOK
    <3> QED BY <3>1, <3>2
  <2> QED BY <1>1, <1>3, <2>1, <2>2 DEF TypeOK
<1>11. InSync(c)'
  <2>1. /\ sessions'[c].exists = TRUE /\ sessions'[c].last_active_at = now
        /\ sessions'[c].turns = kept /\ sessions'[c].ui_notes = e.ui_notes
        /\ talk'[c].seen = TRUE /\ talk'[c].active = now /\ talk'[c].since = since
    BY <1>8
  <2>2. Len(sessions'[c].turns) = IF talk'[c].said <= MaxTurns THEN talk'[c].said ELSE MaxTurns
    BY <1>1, <1>5, <1>7, <1>8
  <2>3. /\ sessions'[c].exists = talk'[c].seen
        /\ talk'[c].seen => sessions'[c].last_active_at = talk'[c].active
        /\ ~talk'[c].seen => sessions'[c] = NoEntry
        /\ ~talk'[c].seen => talk'[c].said = 0
    BY <2>1, Zenon
  <2>4. /\ talk'[c].since <= talk'[c].active
        /\ talk'[c].active <= now'
        /\ \A i \in DOMAIN sessions'[c].turns :
              sessions'[c].turns[i].timestamp >= talk'[c].since
        /\ \A i \in DOMAIN sessions'[c].ui_notes :
              sessions'[c].ui_notes[i] >= talk'[c].since
    BY <1>1, <1>3, <1>5, <1>7, <2>1
  <2> QED BY <2>2, <2>3, <2>4, Zenon DEF InSync
<1>12. ASSUME NEW d \in Customers, d # c PROVE InSync(d)'
  BY <1>1, <1>3, <1>8, <1>12 DEF InSync, IInv
<1> QED BY <1>10, <1>11, <1>12 DEF IInv

\* Recording UI notes keeps the invariant: the entry is replaced when it has
\* expired, whichever list the writer is for.
LEMMA RecordUiNotesKeepsIInv ==
    ASSUME IInv, NEW c \in Customers, NEW n \in 1..MaxUiNotes, RecordUiNotes(c, n)
    PROVE  IInv'
<1> DEFINE e == EntryFor(c)
           notes == [i \in 1..n |-> now]
           said == IF Ongoing(c) THEN talk[c].said ELSE 0
           since == IF Ongoing(c) THEN talk[c].since ELSE now
           more == e.ui_notes \o notes
           kept == LastN(more, MaxUiNotes)
<1>1. /\ now \in Nat /\ MaxTurns \in Nat \ {0} /\ MaxUiNotes \in Nat \ {0}
      /\ sessions \in [Customers -> Entry] /\ talk \in [Customers -> Talk]
      /\ sessions[c] \in Entry /\ talk[c] \in Talk
      /\ InSync(c)
  BY SessionAssumption DEF IInv, TypeOK
<1>2. /\ e \in Entry /\ e.exists = TRUE
      /\ Ongoing(c) => e = sessions[c]
      /\ ~Ongoing(c) => e.turns = <<>> /\ e.ui_notes = <<>>
  BY EntryForFacts
<1>3. /\ sessions' = [sessions EXCEPT ![c] =
                         [exists |-> TRUE, last_active_at |-> now,
                          turns |-> e.turns, ui_notes |-> kept]]
      /\ talk' = [talk EXCEPT ![c] = Heard(c, 0)]
      /\ now' = now
  BY DEF RecordUiNotes
<1>4. /\ e.turns \in Seq(ChatTurn) /\ e.ui_notes \in Seq(Nat)
      /\ notes \in Seq(Nat)
      /\ more \in Seq(Nat)
  BY <1>1, <1>2 DEF Entry
<1>5. /\ said \in Nat /\ since \in Nat /\ since <= now
      /\ Len(e.turns) = IF said <= MaxTurns THEN said ELSE MaxTurns
      /\ \A i \in DOMAIN e.turns : e.turns[i].timestamp >= since
      /\ \A i \in DOMAIN e.ui_notes : e.ui_notes[i] >= since
  <2>1. CASE Ongoing(c)
    BY <1>1, <1>2, <2>1 DEF InSync, Talk, IInv, TypeOK
  <2>2. CASE ~Ongoing(c)
    BY <1>1, <1>2, <2>2
  <2> QED BY <2>1, <2>2
<1>6. \A i \in DOMAIN more : more[i] >= since
  <2> SUFFICES ASSUME NEW i \in 1..(Len(e.ui_notes) + n)
               PROVE  more[i] >= since
    BY <1>4
  <2>1. CASE i <= Len(e.ui_notes)
    BY <1>4, <1>5, <2>1
  <2>2. CASE i > Len(e.ui_notes)
    BY <1>1, <1>4, <1>5, <2>2
  <2> QED BY <1>4, <2>1, <2>2
<1>7. /\ kept \in Seq(Nat)
      /\ Len(kept) <= MaxUiNotes
      /\ \A i \in DOMAIN kept : kept[i] >= since
  <2> HIDE DEF more
  <2>1. /\ kept \in Seq(Nat)
        /\ Len(kept) = IF Len(more) <= MaxUiNotes THEN Len(more) ELSE MaxUiNotes
        /\ \A i \in DOMAIN kept : \E j \in DOMAIN more : kept[i] = more[j]
    BY <1>1, <1>4, LastNFacts
  <2>2. Len(more) \in Nat
    BY <1>4
  <2>3. Len(kept) <= MaxUiNotes
    BY <1>1, <2>1, <2>2
  <2> QED BY <1>6, <2>1, <2>3
<1>8. /\ sessions'[c] = [exists |-> TRUE, last_active_at |-> now,
                         turns |-> e.turns, ui_notes |-> kept]
      /\ talk'[c] = [seen |-> TRUE, since |-> since, active |-> now, said |-> said]
      /\ \A d \in Customers \ {c} : sessions'[d] = sessions[d] /\ talk'[d] = talk[d]
  <2>1. Heard(c, 0) = [seen |-> TRUE, since |-> since, active |-> now, said |-> said]
    <3>1. said + 0 = said
      BY <1>5
    <3> QED BY <3>1 DEF Heard
  <2> QED BY <1>1, <1>3, <2>1
<1> HIDE DEF e, said, since, kept
<1>9. sessions'[c] \in Entry /\ talk'[c] \in Talk
  BY <1>1, <1>4, <1>5, <1>7, <1>8 DEF Entry, Talk
<1>10. TypeOK'
  <2>1. sessions' \in [Customers -> Entry] /\ talk' \in [Customers -> Talk]
    BY <1>1, <1>3, <1>8, <1>9
  <2>2. \A d \in Customers : /\ Len(sessions'[d].turns) <= MaxTurns
                             /\ Len(sessions'[d].ui_notes) <= MaxUiNotes
    <3>1. Len(sessions'[c].turns) <= MaxTurns /\ Len(sessions'[c].ui_notes) <= MaxUiNotes
      <4>1. sessions'[c].turns = e.turns /\ sessions'[c].ui_notes = kept
        BY <1>8
      <4>2. Len(e.turns) <= MaxTurns /\ Len(kept) <= MaxUiNotes
        BY <1>1, <1>4, <1>5, <1>7
      <4> QED BY <4>1, <4>2
    <3>2. ASSUME NEW d \in Customers, d # c
          PROVE  Len(sessions'[d].turns) <= MaxTurns /\ Len(sessions'[d].ui_notes) <= MaxUiNotes
      <4>1. sessions'[d] = sessions[d]
        BY <1>8, <3>2
      <4> QED BY <4>1 DEF IInv, TypeOK
    <3> QED BY <3>1, <3>2
  <2> QED BY <1>1, <1>3, <2>1, <2>2 DEF TypeOK
<1>11. InSync(c)'
  <2>1. /\ sessions'[c].exists = TRUE /\ sessions'[c].last_active_at = now
        /\ sessions'[c].turns = e.turns /\ sessions'[c].ui_notes = kept
        /\ talk'[c].seen = TRUE /\ talk'[c].active = now /\ talk'[c].since = since
    BY <1>8
  <2>2. Len(sessions'[c].turns) = IF talk'[c].said <= MaxTurns THEN talk'[c].said ELSE MaxTurns
    BY <1>1, <1>5, <1>7, <1>8
  <2>3. /\ sessions'[c].exists = talk'[c].seen
        /\ talk'[c].seen => sessions'[c].last_active_at = talk'[c].active
        /\ ~talk'[c].seen => sessions'[c] = NoEntry
        /\ ~talk'[c].seen => talk'[c].said = 0
    BY <2>1, Zenon
  <2>4. /\ talk'[c].since <= talk'[c].active
        /\ talk'[c].active <= now'
        /\ \A i \in DOMAIN sessions'[c].turns :
              sessions'[c].turns[i].timestamp >= talk'[c].since
        /\ \A i \in DOMAIN sessions'[c].ui_notes :
              sessions'[c].ui_notes[i] >= talk'[c].since
    BY <1>1, <1>3, <1>5, <1>7, <2>1
  <2> QED BY <2>2, <2>3, <2>4, Zenon DEF InSync
<1>12. ASSUME NEW d \in Customers, d # c PROVE InSync(d)'
  BY <1>1, <1>3, <1>8, <1>12 DEF InSync, IInv
<1> QED BY <1>10, <1>11, <1>12 DEF IInv

\* The store starts empty, and the observer has heard nothing (_sessions = {}).
LEMMA InitIInv == Init => IInv
<1> SUFFICES ASSUME Init PROVE IInv
  OBVIOUS
<1>1. <<>> \in Seq(ChatTurn) /\ <<>> \in Seq(Nat)
  OBVIOUS
<1>2. NoEntry \in Entry /\ Silence \in Talk
  BY <1>1 DEF NoEntry, Entry, Silence, Talk
<1>3. TypeOK
  BY <1>2, SessionAssumption DEF Init, TypeOK, NoEntry
<1>4. ASSUME NEW c \in Customers PROVE InSync(c)
  <2>1. /\ sessions[c] = NoEntry /\ talk[c] = Silence /\ now = 0
        /\ NoEntry.exists = FALSE /\ NoEntry.turns = <<>> /\ NoEntry.ui_notes = <<>>
        /\ Silence.seen = FALSE /\ Silence.since = 0 /\ Silence.active = 0 /\ Silence.said = 0
    BY DEF Init, NoEntry, Silence
  <2>2. Len(<<>>) = 0 /\ DOMAIN <<>> = {}
    OBVIOUS
  <2>3. /\ sessions[c].exists = talk[c].seen
        /\ talk[c].seen => sessions[c].last_active_at = talk[c].active
        /\ ~talk[c].seen => sessions[c] = NoEntry
        /\ ~talk[c].seen => talk[c].said = 0
    BY <2>1, Zenon
  <2>4. /\ talk[c].since <= talk[c].active
        /\ talk[c].active <= now
        /\ Len(sessions[c].turns) =
              IF talk[c].said <= MaxTurns THEN talk[c].said ELSE MaxTurns
    BY <2>1, <2>2, SessionAssumption
  <2>5. /\ \A i \in DOMAIN sessions[c].turns :
              sessions[c].turns[i].timestamp >= talk[c].since
        /\ \A i \in DOMAIN sessions[c].ui_notes :
              sessions[c].ui_notes[i] >= talk[c].since
    BY <2>1, <2>2, Zenon
  <2> QED BY <2>3, <2>4, <2>5, Zenon DEF InSync
<1> QED BY <1>3, <1>4 DEF IInv

\* Every write, every tick and a restart keep store and observer in step.
LEMMA NextKeepsIInv == IInv /\ [Next]_vars => IInv'
<1> SUFFICES ASSUME IInv, [Next]_vars PROVE IInv'
  OBVIOUS
<1>1. ASSUME NEW c \in Customers, NEW k \in Classes, RecordTurn(c, k) PROVE IInv'
  BY <1>1, RecordTurnKeepsIInv
<1>2. ASSUME NEW c \in Customers, NEW n \in 1..MaxUiNotes, RecordUiNotes(c, n) PROVE IInv'
  BY <1>2, RecordUiNotesKeepsIInv
<1>3. CASE Tick
  <2>1. now \in Nat /\ now' = now + 1 /\ sessions' = sessions /\ talk' = talk
    BY <1>3 DEF Tick, IInv, TypeOK
  <2>2. \A c \in Customers : talk[c].active \in Nat
    BY DEF IInv, TypeOK, Talk
  <2> QED BY <2>1, <2>2 DEF IInv, TypeOK, InSync
<1>4. CASE Restart
  <2>1. <<>> \in Seq(ChatTurn) /\ <<>> \in Seq(Nat)
    OBVIOUS
  <2>2. NoEntry \in Entry /\ Silence \in Talk
    BY <2>1 DEF NoEntry, Entry, Silence, Talk
  <2>3. TypeOK'
    BY <1>4, <2>2, SessionAssumption DEF Restart, IInv, TypeOK, NoEntry
  <2>4. ASSUME NEW c \in Customers PROVE InSync(c)'
    <3>1. /\ sessions'[c] = NoEntry /\ talk'[c] = Silence /\ now' = now /\ now \in Nat
          /\ NoEntry.exists = FALSE /\ NoEntry.turns = <<>> /\ NoEntry.ui_notes = <<>>
          /\ Silence.seen = FALSE /\ Silence.since = 0 /\ Silence.active = 0 /\ Silence.said = 0
      BY <1>4 DEF Restart, NoEntry, Silence, IInv, TypeOK
    <3>2. Len(<<>>) = 0 /\ DOMAIN <<>> = {}
      OBVIOUS
    <3>3. /\ sessions'[c].exists = talk'[c].seen
          /\ talk'[c].seen => sessions'[c].last_active_at = talk'[c].active
          /\ ~talk'[c].seen => sessions'[c] = NoEntry
          /\ ~talk'[c].seen => talk'[c].said = 0
      BY <3>1, Zenon
    <3>4. /\ talk'[c].since <= talk'[c].active
          /\ talk'[c].active <= now'
          /\ Len(sessions'[c].turns) =
                IF talk'[c].said <= MaxTurns THEN talk'[c].said ELSE MaxTurns
      BY <3>1, <3>2, SessionAssumption
    <3>5. /\ \A i \in DOMAIN sessions'[c].turns :
                sessions'[c].turns[i].timestamp >= talk'[c].since
          /\ \A i \in DOMAIN sessions'[c].ui_notes :
                sessions'[c].ui_notes[i] >= talk'[c].since
      BY <3>1, <3>2, Zenon
    <3> QED BY <3>3, <3>4, <3>5, Zenon DEF InSync
  <2> QED BY <2>3, <2>4 DEF IInv
<1>5. CASE UNCHANGED vars
  BY <1>5 DEF vars, IInv, TypeOK, InSync
<1> QED BY <1>1, <1>2, <1>3, <1>4, <1>5 DEF Next

\* The inductive invariant holds of every reachable state.
LEMMA SpecIInv == Spec => []IInv
BY InitIInv, NextKeepsIInv, PTL DEF Spec

-----------------------------------------------------------------------------
\* The store keeps its types and its two caps (FR-IDENT-07).
THEOREM SessionTypeOK == Spec => []TypeOK
<1>1. IInv => TypeOK
  BY DEF IInv
<1> QED BY <1>1, SpecIInv, PTL

\* Nothing said before an idle gap or a restart reaches the handler again.
THEOREM SessionFreshAfterIdle == Spec => []FreshAfterIdle
<1>1. IInv => FreshAfterIdle
  <2> SUFFICES ASSUME IInv, NEW c \in Customers
               PROVE  /\ \A i \in DOMAIN GetSession(c) :
                            GetSession(c)[i].timestamp >= talk[c].since
                      /\ \A i \in DOMAIN GetUiNotes(c) : GetUiNotes(c)[i] >= talk[c].since
    BY DEF FreshAfterIdle
  <2>1. InSync(c)
    BY DEF IInv
  <2>2. DOMAIN <<>> = {}
    OBVIOUS
  <2>3. /\ GetSession(c) = IF Live(c) THEN sessions[c].turns ELSE <<>>
        /\ GetUiNotes(c) = IF Live(c) THEN sessions[c].ui_notes ELSE <<>>
    BY DEF GetSession, GetUiNotes
  <2> QED BY <2>1, <2>2, <2>3 DEF InSync
<1> QED BY <1>1, SpecIInv, PTL

\* While the conversation goes on the store forgets nothing but what the cap drops.
THEOREM SessionNothingForgottenEarly == Spec => []NothingForgottenEarly
<1>1. IInv => NothingForgottenEarly
  <2> SUFFICES ASSUME IInv, NEW c \in Customers
               PROVE  Len(GetSession(c)) =
                        IF ~Ongoing(c) THEN 0
                        ELSE IF talk[c].said <= MaxTurns THEN talk[c].said ELSE MaxTurns
    BY DEF NothingForgottenEarly
  <2>1. InSync(c) /\ (Live(c) <=> Ongoing(c))
    BY EntryForFacts DEF IInv
  <2>2. Len(<<>>) = 0
    OBVIOUS
  <2> QED BY <2>1, <2>2 DEF InSync, GetSession
<1> QED BY <1>1, SpecIInv, PTL

\* The classifier's context is empty or ends in a question of this conversation.
THEOREM SessionContextAnswersOpenQuestion == Spec => []ContextAnswersOpenQuestion
<1>1. IInv => ContextAnswersOpenQuestion
  <2> SUFFICES ASSUME IInv, NEW c \in Customers, GetClassificationContext(c) # <<>>
               PROVE  LET ctx == GetClassificationContext(c)
                      IN  /\ Ongoing(c)
                          /\ ctx[Len(ctx)].classification \in PendingClasses
                          /\ ctx[1].timestamp >= talk[c].since
    BY DEF ContextAnswersOpenQuestion
  <2>1. InSync(c) /\ (Live(c) <=> Ongoing(c)) /\ sessions[c].turns \in Seq(ChatTurn)
    BY EntryForFacts DEF IInv, TypeOK, Entry
  <2>2. /\ GetClassificationContext(c) = GetSession(c)
        /\ LastClass(c) \in PendingClasses
    BY DEF GetClassificationContext
  <2>3. GetSession(c) = sessions[c].turns /\ Ongoing(c)
    BY <2>1, <2>2 DEF GetSession
  <2>4. LastClass(c) = GetSession(c)[Len(GetSession(c))].classification
    BY <2>2 DEF LastClass
  <2>5. 1 \in DOMAIN sessions[c].turns
    BY <2>1, <2>2, <2>3
  <2> QED BY <2>1, <2>2, <2>3, <2>4, <2>5 DEF InSync
<1> QED BY <1>1, SpecIInv, PTL

-----------------------------------------------------------------------------
\* A recorded turn is at once the last one, whatever the cap drops.
LEMMA RecordTurnRecords ==
    ASSUME IInv, NEW c \in Customers, NEW k \in Classes, RecordTurn(c, k)
    PROVE  OQ!Record(c, k)
<1> DEFINE e == EntryFor(c)
           turn == [timestamp |-> now, classification |-> k]
           more == Append(e.turns, turn)
           kept == LastN(more, MaxTurns)
<1>1. /\ now \in Nat /\ IdleTimeout \in Nat /\ MaxTurns \in Nat \ {0}
      /\ sessions \in [Customers -> Entry]
      /\ e.turns \in Seq(ChatTurn) /\ turn \in ChatTurn
  BY SessionAssumption, EntryForFacts DEF IInv, TypeOK, Entry, ChatTurn
<1>2. /\ sessions'[c] = [exists |-> TRUE, last_active_at |-> now,
                         turns |-> kept, ui_notes |-> e.ui_notes]
      /\ \A d \in Customers \ {c} : sessions'[d] = sessions[d]
      /\ now' = now
  BY <1>1 DEF RecordTurn
<1>3. /\ more \in Seq(ChatTurn) /\ more # <<>>
      /\ Len(more) = Len(e.turns) + 1 /\ more[Len(more)] = turn
  <2> HIDE DEF e, turn
  <2> QED BY <1>1
<1>4. /\ kept \in Seq(ChatTurn) /\ kept # <<>>
      /\ kept[Len(kept)] = turn
  <2> HIDE DEF more
  <2>1. /\ kept \in Seq(ChatTurn)
        /\ Len(kept) = IF Len(more) <= MaxTurns THEN Len(more) ELSE MaxTurns
        /\ more # <<>> => kept[Len(kept)] = more[Len(more)]
    BY <1>1, <1>3, LastNFacts
  <2>2. Len(kept) # 0
    BY <1>1, <1>3, <2>1
  <2> QED BY <1>3, <2>1, <2>2
<1> HIDE DEF kept, e
<1>5. Live(c)'
  <2>1. ~(now > now + IdleTimeout)
    BY <1>1
  <2> QED BY <1>2, <2>1 DEF Live, IsExpired
<1>6. LastClass(c)' = k
  BY <1>2, <1>4, <1>5 DEF LastClass, GetSession
<1>7. ASSUME NEW d \in Customers \ {c} PROVE LastClass(d)' = LastClass(d)
  BY <1>2, <1>7 DEF LastClass, GetSession, Live, IsExpired
<1> QED BY <1>6, <1>7 DEF OQ!Record, register

\* Recording what the app reported changes no last turn, except that it may replace
\* an entry that had expired already (record_ui_notes).
LEMMA RecordUiNotesStutters ==
    ASSUME IInv, NEW c \in Customers, NEW n \in 1..MaxUiNotes, RecordUiNotes(c, n)
    PROVE  \A d \in Customers : LastClass(d)' = LastClass(d)
<1> DEFINE notes == [i \in 1..n |-> now]
           kept == LastN(EntryFor(c).ui_notes \o notes, MaxUiNotes)
<1>1. /\ now \in Nat /\ IdleTimeout \in Nat
      /\ sessions \in [Customers -> Entry]
  BY SessionAssumption DEF IInv, TypeOK
<1>2. /\ sessions'[c] = [exists |-> TRUE, last_active_at |-> now,
                         turns |-> EntryFor(c).turns, ui_notes |-> kept]
      /\ \A d \in Customers \ {c} : sessions'[d] = sessions[d]
      /\ now' = now
  BY <1>1 DEF RecordUiNotes
<1> HIDE DEF kept
<1>3. ASSUME NEW d \in Customers \ {c} PROVE LastClass(d)' = LastClass(d)
  BY <1>2, <1>3 DEF LastClass, GetSession, Live, IsExpired
<1>4. Live(c)'
  <2>1. ~(now > now + IdleTimeout)
    BY <1>1
  <2> QED BY <1>2, <2>1 DEF Live, IsExpired
<1>5. /\ Live(c) => EntryFor(c).turns = sessions[c].turns
      /\ ~Live(c) => EntryFor(c).turns = <<>>
  BY EntryForFacts
<1>6. LastClass(c)' = LastClass(c)
  BY <1>2, <1>4, <1>5 DEF LastClass, GetSession
<1> QED BY <1>3, <1>6

\* Time passing can only make conversations lapse (_is_expired).
LEMMA TickLapses ==
    ASSUME IInv, Tick
    PROVE  \E C \in SUBSET Customers : OQ!Lapse(C)
<1> DEFINE C == {c \in Customers : ~Live(c)'}
<1>1. /\ now \in Nat /\ now' = now + 1 /\ sessions' = sessions /\ IdleTimeout \in Nat
      /\ \A c \in Customers : sessions[c].last_active_at \in Nat
  BY SessionAssumption DEF Tick, IInv, TypeOK, Entry
<1>2. ASSUME NEW c \in Customers, Live(c)' PROVE LastClass(c)' = LastClass(c)
  <2>1. Live(c)
    BY <1>1, <1>2 DEF Live, IsExpired
  <2> QED BY <1>1, <1>2, <2>1 DEF LastClass, GetSession
<1>3. ASSUME NEW c \in Customers, ~Live(c)' PROVE LastClass(c)' = NoClass
  BY <1>3 DEF LastClass, GetSession
<1>4. OQ!Lapse(C)
  BY <1>2, <1>3 DEF OQ!Lapse, register
<1> QED BY <1>4

\* A restart makes every conversation lapse.
LEMMA RestartLapses ==
    ASSUME Restart
    PROVE  OQ!Lapse(Customers)
<1>1. ASSUME NEW c \in Customers PROVE LastClass(c)' = NoClass
  BY <1>1 DEF Restart, LastClass, GetSession, Live, NoEntry
<1> QED BY <1>1 DEF OQ!Lapse, register

\* The handler may take the store for one register per customer.
THEOREM SessionImplementsOpenQuestion == Spec => OpenQuestionSpec
<1>1. Init => OQ!Init
  <2> SUFFICES ASSUME Init, NEW c \in Customers PROVE LastClass(c) = NoClass
    BY DEF OQ!Init, register
  <2> QED BY DEF Init, LastClass, GetSession, Live, NoEntry
<1>2. IInv /\ [Next]_vars => [OQ!Next]_register
  <2> SUFFICES ASSUME IInv, [Next]_vars PROVE OQ!Next \/ UNCHANGED register
    OBVIOUS
  <2>1. ASSUME NEW c \in Customers, NEW k \in Classes, RecordTurn(c, k) PROVE OQ!Next
    BY <2>1, RecordTurnRecords DEF OQ!Next
  <2>2. ASSUME NEW c \in Customers, NEW n \in 1..MaxUiNotes, RecordUiNotes(c, n)
        PROVE UNCHANGED register
    BY <2>2, RecordUiNotesStutters DEF register
  <2>3. CASE Tick
    BY <2>3, TickLapses DEF OQ!Next
  <2>4. CASE Restart
    BY <2>4, RestartLapses DEF OQ!Next
  <2>5. CASE UNCHANGED vars
    BY <2>5 DEF vars, register, LastClass, GetSession, Live, IsExpired
  <2> QED BY <2>1, <2>2, <2>3, <2>4, <2>5 DEF Next
<1>3. IInv /\ [Next]_vars => [WritersImplementRecord]_vars
  <2> SUFFICES ASSUME IInv PROVE WritersImplementRecord
    OBVIOUS
  <2>1. ASSUME NEW c \in Customers, NEW k \in Classes, RecordTurn(c, k)
        PROVE  OQ!Record(c, k)
    BY <2>1, RecordTurnRecords
  <2>2. ASSUME NEW c \in Customers, NEW n \in 1..MaxUiNotes, RecordUiNotes(c, n)
        PROVE  UNCHANGED register
    BY <2>2, RecordUiNotesStutters DEF register
  <2> QED BY <2>1, <2>2 DEF WritersImplementRecord
<1> QED BY <1>1, <1>2, <1>3, SpecIInv, PTL DEF Spec, OpenQuestionSpec, OQ!Spec
=============================================================================
