----------------------------- MODULE FeedsProofs -----------------------------
(***************************************************************************)
(* What is kept in memory, for any number of callers, keys and entries,    *)
(* any time to live and any time a source may take.                        *)
(***************************************************************************)
EXTENDS Feeds, TLAPS, FiniteSetTheorems

-----------------------------------------------------------------------------
(* What a step can do to an entry, to a call and to the last answer.        *)

\* An entry is the empty one, or one read for its own key and a need that can be.
Fitting(k, e) == e.have => e.key = k /\ (feed # "picks" => e.need = AnyNeed)
\* The time an entry carries bounds how long ago its source was read.
Dated(e) == e.read <= e.age + (IF feed \in {"market", "picture"} THEN Timeout ELSE 0)
Sound(k, e) == e \in Entry /\ Fitting(k, e) /\ Dated(e) /\ (feed \notin Timed => e.read = 0)

\* A call asks for a need that can be, and takes time only where time counts.
SoundCall(c, q) ==
    /\ q \in Call
    /\ feed # "picks" => q.need = AnyNeed
    /\ feed \notin Timed => q.ago = 0
    /\ feed = "services" => q.key = NoEntry.key /\ (c # Task => q.pc = "idle")

SoundAnswer ==
    /\ told \in Answer
    /\ AnswersAreRecent
    /\ AnswersFit

\* The services are there once the process serves; the event loop is at the index only
\* where the catalogue is followed.
Quiet ==
    /\ feed \in AllFeeds /\ up \in BOOLEAN /\ changed \in 0..MaxChanges
    /\ loop \in {"quiet", "stored", "deleting"}
    /\ loop # "quiet" => feed = "catalogue"

SoundKept == kept \in [Keys -> Entry] /\ \A k \in Keys : Sound(k, kept[k])
SoundCalls ==
    /\ call \in [Callers \cup {Task} -> Call]
    /\ \A c \in Callers \cup {Task} : SoundCall(c, call[c])

IInv ==
    /\ SoundKept
    /\ SoundCalls
    /\ SoundAnswer
    /\ ServicesAreThere
    /\ Quiet

\* The constants the entries are made of.
LEMMA Constants ==
    /\ Ttl \in Nat /\ Ttl > 0 /\ Timeout \in Nat /\ Timeout > 0
    /\ Grace \in Nat /\ Grace >= Ttl /\ MaxAge = Grace + 2 * Timeout
    /\ AnyNeed \in Needs /\ NoEntry.key \in Keys
BY FeedsAssumption DEF Grace, MaxAge, AnyNeed, NoEntry

LEMMA NoEntryIsSound ==
    ASSUME NEW k \in Keys
    PROVE  Sound(k, NoEntry)
BY Constants DEF Sound, NoEntry, Entry, Ages, Fitting, Dated, AnyNeed

LEMMA NoCallIsSound ==
    ASSUME NEW c
    PROVE  SoundCall(c, NoCall)
BY Constants DEF SoundCall, NoCall, NoEntry, Call

\* The task of the services asks before anything is served.
LEMMA StartedIsSound ==
    /\ Started \in [Callers \cup {Task} -> Call]
    /\ \A c \in Callers \cup {Task} : SoundCall(c, Started[c])
<1>1. ASSUME NEW c \in Callers \cup {Task}
      PROVE  Started[c] \in Call /\ SoundCall(c, Started[c])
  <2>1. Started[c] = IF c = Task /\ feed = "services"
                     THEN [NoCall EXCEPT !.pc = "starting"] ELSE NoCall
    BY DEF Started
  <2>2. CASE c = Task /\ feed = "services"
    <3>1. Started[c] = [pc |-> "starting", key |-> NoEntry.key, need |-> AnyNeed,
                        ago |-> 0, missed |-> FALSE]
      BY <2>1, <2>2 DEF NoCall
    <3>2. QED
      BY <3>1, <2>2, Constants DEF SoundCall, Call
  <2>3. CASE ~(c = Task /\ feed = "services")
    BY <2>1, <2>3, NoCallIsSound DEF SoundCall
  <2>4. QED
    BY <2>2, <2>3
<1>2. Started = [c \in Callers \cup {Task} |-> Started[c]]
  BY DEF Started
<1>3. QED
  BY <1>1, <1>2

\* What an answer says of a sound entry.
LEMMA ToldIsSound ==
    ASSUME Quiet, NEW how \in {"hit", "own", "kept"}, NEW k \in Keys, NEW n \in Needs,
           NEW e \in Entry, Fitting(k, e), feed \notin Timed => e.read = 0,
           NEW ago \in 0..Timeout, how # "own" => Dated(e),
           told' = Told(how, e, ago, k, n),
           feed' = feed,
           e.have => e.need = n,
           e.have /\ how = "hit" => ago = 0 /\ (feed \in Timed => e.age < Ttl),
           e.have /\ how = "own" => e.read <= ago,
           e.have /\ how = "kept" /\ feed = "official" => e.age < Grace + ago
    PROVE  SoundAnswer'
<1> USE Constants
<1>1. told' \in Answer
  BY DEF Told, Entry, Answer, Ages
<1>2. AnswersFit'
  BY DEF Told, AnswersFit, Fitting
<1>3. AnswersAreRecent'
  <2>1. e.read \in Nat /\ e.age \in Nat /\ ago \in Nat
    BY DEF Entry, Ages
  <2>2. told'.how = (IF e.have THEN how ELSE "nothing")
    BY DEF Told
  <2>3. told'.stale = IF e.have /\ e.read > ago THEN e.read - ago ELSE 0
    BY DEF Told
  <2>4. CASE ~e.have
    BY <2>2, <2>3, <2>4 DEF AnswersAreRecent
  <2>5. CASE e.have /\ how = "hit"
    BY <2>1, <2>2, <2>3, <2>5 DEF AnswersAreRecent, Dated, Quiet, AllFeeds, Timed
  <2>6. CASE e.have /\ how = "own"
    BY <2>1, <2>2, <2>3, <2>6 DEF AnswersAreRecent
  <2>7. CASE e.have /\ how = "kept"
    BY <2>1, <2>2, <2>3, <2>7 DEF AnswersAreRecent, Dated
  <2>8. QED
    BY <2>4, <2>5, <2>6, <2>7
<1>4. QED
  BY <1>1, <1>2, <1>3 DEF SoundAnswer

-----------------------------------------------------------------------------
(* What a step leaves as it should be. *)

\* Emptying keeps every entry sound.
LEMMA EmptiedIsSound ==
    ASSUME SoundKept, feed' = feed,
           \A k \in Keys : kept'[k] \in {kept[k], NoEntry},
           kept' = [k \in Keys |-> kept'[k]]
    PROVE  SoundKept'
<1>1. ASSUME NEW k \in Keys PROVE kept'[k] \in Entry /\ Sound(k, kept'[k])
  BY NoEntryIsSound DEF SoundKept, Sound
<1>2. QED
  BY <1>1 DEF SoundKept, Sound, Fitting, Dated

\* A new call asks for what can be asked.
LEMMA AskingIsSound ==
    ASSUME SoundCalls, feed' = feed, NEW c \in Callers \cup {Task}, NEW k \in Keys, NEW n \in Needs,
           feed # "picks" => n = AnyNeed,
           feed = "services" => k = NoEntry.key /\ c = Task,
           call' = [call EXCEPT ![c] = Asking(k, n)]
    PROVE  SoundCalls' /\ call'[Task].pc \in {call[Task].pc, "asking"}
<1>1. Asking(k, n) = [pc |-> "asking", key |-> k, need |-> n, ago |-> 0, missed |-> FALSE]
  BY DEF Asking
<1>2. Asking(k, n) \in Call
  BY <1>1, Constants DEF Call
<1>3. SoundCall(c, Asking(k, n))
  BY <1>1, <1>2 DEF SoundCall
<1>4. SoundCalls'
  BY <1>3 DEF SoundCalls, SoundCall
<1>5. call'[Task] \in {call[Task], Asking(k, n)}
  BY DEF SoundCalls
<1>6. QED
  BY <1>1, <1>4, <1>5

\* A call that ends asks nothing.
LEMMA EndedIsSound ==
    ASSUME SoundCalls, feed' = feed, NEW c \in Callers \cup {Task},
           call' = [call EXCEPT ![c] = NoCall]
    PROVE  SoundCalls'
<1>1. SoundCall(c, NoCall)
  BY NoCallIsSound
<1>2. QED
  BY <1>1 DEF SoundCalls, SoundCall

-----------------------------------------------------------------------------
(* One lemma for each action: IInv is kept. *)

\* Changing the source marks entries and calls; what is read is not touched.
LEMMA ChangesKeepsSound ==
    ASSUME SoundKept, SoundCalls, feed' = feed, Changes(kept)
    PROVE  /\ SoundKept' /\ SoundCalls'
           /\ \A k \in Keys : kept'[k].have = kept[k].have
           /\ call'[Task].pc = call[Task].pc
<1>1. ASSUME NEW k \in Keys
      PROVE  /\ kept'[k] = [kept[k] EXCEPT !.late = kept[k].have]
             /\ kept'[k] \in Entry /\ Sound(k, kept'[k]) /\ kept'[k].have = kept[k].have
  <2>1. kept[k] \in Entry /\ Sound(k, kept[k])
    BY DEF SoundKept
  <2>2. kept'[k] = [kept[k] EXCEPT !.late = kept[k].have]
    BY DEF Changes
  <2>3. kept'[k] \in Entry /\ Sound(k, kept'[k]) /\ kept'[k].have = kept[k].have
    BY <2>1, <2>2 DEF Sound, Entry, Fitting, Dated
  <2>4. QED
    BY <2>2, <2>3
<1>2. ASSUME NEW c \in Callers \cup {Task}
      PROVE  call'[c] \in Call /\ SoundCall(c, call'[c]) /\ call'[c].pc = call[c].pc
  <2>1. call[c] \in Call /\ SoundCall(c, call[c])
    BY DEF SoundCalls
  <2>2. call'[c] = [call[c] EXCEPT !.missed = call[c].pc # "idle"]
    BY DEF Changes, SoundCalls
  <2>3. QED
    BY <2>1, <2>2 DEF SoundCall, Call
<1>3. kept' \in [Keys -> Entry]
  <2>1. kept' = [k \in Keys |-> kept'[k]]
    BY DEF Changes
  <2>2. QED
    BY <1>1, <2>1
<1>4. call' \in [Callers \cup {Task} -> Call]
  <2>1. call' = [c \in Callers \cup {Task} |-> call'[c]]
    BY DEF Changes, SoundCalls
  <2>2. QED
    BY <1>2, <2>1
<1>5. SoundKept'
  BY <1>1, <1>3 DEF SoundKept, Sound, Fitting, Dated
<1>6. SoundCalls'
  BY <1>2, <1>4 DEF SoundCalls, SoundCall
<1>7. QED
  BY <1>1, <1>2, <1>5, <1>6

\* A hit is the entry the customer asked for, still good.
LEMMA AskHitKeeps ==
    ASSUME IInv, NEW c \in Callers, NEW k \in TheKeys, NEW n \in TheNeeds, AskHit(c, k, n)
    PROVE  IInv'
<1>1. k \in Keys /\ n \in Needs
  BY Constants DEF TheKeys, TheNeeds
<1>2. kept[k] \in Entry /\ Sound(k, kept[k]) /\ Quiet
  BY <1>1 DEF IInv, SoundKept
<1>3. kept[k].have => kept[k].need = n /\ (feed \in Timed => kept[k].age < Ttl)
  <2>1. CASE feed = "picks"
    BY <2>1 DEF AskHit, Good
  <2>2. CASE feed # "picks"
    BY <1>2, <2>2 DEF AskHit, Good, TheNeeds, Sound, Fitting, Timed
  <2>3. QED
    BY <2>1, <2>2
<1>4. told' = Told("hit", kept[k], 0, k, n) /\ feed' = feed
  BY DEF AskHit
<1>5. 0 \in 0..Timeout
  BY Constants
<1>6. SoundAnswer'
  BY <1>1, <1>2, <1>3, <1>4, <1>5, ToldIsSound DEF Sound
<1>7. SoundKept' /\ SoundCalls' /\ ServicesAreThere' /\ Quiet'
  BY DEF AskHit, IInv, SoundKept, SoundCalls, Sound, SoundCall, Fitting, Dated,
         ServicesAreThere, Serving, Quiet
<1>8. QED
  BY <1>6, <1>7 DEF IInv

\* A visitor is told the last card list, whose age nothing bounds.
LEMMA AskVisitorKeeps ==
    ASSUME IInv, NEW c \in Callers, NEW k \in TheKeys, AskVisitor(c, k)
    PROVE  IInv'
<1>1. k \in Keys /\ AnyNeed \in Needs /\ feed = "cards" /\ 0 \in 0..Timeout
  BY Constants DEF TheKeys, AskVisitor
<1>2. kept[k] \in Entry /\ Sound(k, kept[k]) /\ Quiet
  BY <1>1 DEF IInv, SoundKept
<1>3. told' = Told("kept", kept[k], 0, k, AnyNeed) /\ feed' = feed
  BY DEF AskVisitor
<1>4. SoundAnswer'
  BY <1>1, <1>2, <1>3, ToldIsSound DEF Sound, Fitting
<1>5. SoundKept' /\ SoundCalls' /\ ServicesAreThere' /\ Quiet'
  BY DEF AskVisitor, IInv, SoundKept, SoundCalls, Sound, SoundCall, Fitting, Dated,
         ServicesAreThere, Serving, Quiet
<1>6. QED
  BY <1>4, <1>5 DEF IInv

\* A miss asks the source, and a ranking that does not fit goes at once.
LEMMA AskMissKeeps ==
    ASSUME IInv, NEW c \in Callers, NEW k \in TheKeys, NEW n \in TheNeeds, AskMiss(c, k, n)
    PROVE  IInv'
<1>1. k \in Keys /\ n \in Needs /\ (feed # "picks" => n = AnyNeed) /\ feed # "services"
  BY Constants DEF TheKeys, TheNeeds, AskMiss
<1>2. SoundKept /\ SoundCalls /\ SoundAnswer /\ Quiet
  BY DEF IInv
<1>3. SoundCalls'
  BY <1>1, <1>2, AskingIsSound DEF AskMiss
<1>4. SoundKept'
  <2>1. /\ kept' = [j \in Keys |-> kept'[j]]
        /\ \A j \in Keys : kept'[j] \in {kept[j], NoEntry}
    BY <1>2 DEF AskMiss, Emptied, SoundKept
  <2>2. QED
    BY <1>2, <2>1, EmptiedIsSound DEF AskMiss
<1>5. SoundAnswer' /\ Quiet' /\ ServicesAreThere'
  BY <1>1, <1>2 DEF AskMiss, SoundAnswer, AnswersAreRecent, AnswersFit, Quiet, ServicesAreThere
<1>6. QED
  BY <1>3, <1>4, <1>5 DEF IInv

\* What the source says is kept under the time the feed stamps, and whoever asked
\* for it is told it.
LEMMA ArrivesKeeps ==
    ASSUME IInv, NEW c \in Callers \cup {Task}, Arrives(c)
    PROVE  IInv'
<1>1. SoundKept /\ SoundCalls /\ SoundAnswer /\ Quiet /\ ServicesAreThere
  BY DEF IInv
<1>2. PICK e \in Reads(c), gone \in Room :
          /\ kept' = Filled(call[c].key, [e EXCEPT !.age = Stamp(c)], gone)
          /\ told' = IF c = Task THEN told
                     ELSE Told("own", e, call[c].ago, call[c].key, call[c].need)
  BY DEF Arrives
<1> DEFINE k == call[c].key
           n == call[c].need
           a == call[c].ago
           f == [e EXCEPT !.age = Stamp(c)]
<1>3. /\ k \in Keys /\ n \in Needs /\ a \in 0..Timeout /\ SoundCall(c, call[c])
      /\ call[c].missed \in BOOLEAN
  BY <1>1 DEF SoundCalls, SoundCall, Call
<1>4. /\ e.have = TRUE /\ e.age = 0 /\ e.read \in 0..a /\ e.late \in BOOLEAN
      /\ e.key = k /\ e.need = n
      /\ e = [have |-> e.have, age |-> e.age, read |-> e.read, late |-> e.late,
              key |-> e.key, need |-> e.need]
  BY <1>3 DEF Reads
<1>5. a \in Nat /\ a <= Timeout /\ e.read \in Nat /\ e.read <= a /\ e.read \in Ages /\ 0 \in Ages
  BY <1>3, <1>4, Constants DEF Ages
<1>6. e \in Entry
  <2>1. [have |-> e.have, age |-> e.age, read |-> e.read, late |-> e.late,
         key |-> e.key, need |-> e.need] \in Entry
    BY <1>3, <1>4, <1>5 DEF Entry
  <2>2. QED
    BY <1>4, <2>1
<1>7. (feed \notin Timed => a = 0) /\ (feed # "picks" => n = AnyNeed)
  BY <1>3 DEF SoundCall
<1>8. Stamp(c) \in Ages /\ (feed \notin {"market", "picture"} => Stamp(c) = a)
      /\ (feed \in {"market", "picture"} => Stamp(c) = 0)
  BY <1>5, Constants DEF Stamp, Ages
<1>9. f \in Entry /\ f.have = TRUE /\ f.read = e.read /\ f.age = Stamp(c) /\ f.key = k /\ f.need = n
  BY <1>4, <1>6, <1>8 DEF Entry
<1>10. Dated(f)
  <2>1. CASE feed \in {"market", "picture"}
    BY <2>1, <1>5, <1>8, <1>9, Constants DEF Dated
  <2>2. CASE feed \notin {"market", "picture"}
    BY <2>2, <1>5, <1>8, <1>9, Constants DEF Dated
  <2>3. QED
    BY <2>1, <2>2
<1>11. Sound(k, f)
  BY <1>5, <1>7, <1>9, <1>10 DEF Sound, Fitting
<1>12. SoundKept'
  <2>1. ASSUME NEW j \in Keys
        PROVE  kept'[j] \in Entry /\ Sound(j, kept'[j])
    <3>1. kept'[j] = IF j = k THEN f ELSE IF j \in gone THEN NoEntry ELSE kept[j]
      BY <1>2 DEF Filled
    <3>2. kept[j] \in Entry /\ Sound(j, kept[j])
      BY <1>1 DEF SoundKept
    <3>3. NoEntry \in Entry /\ Sound(j, NoEntry)
      BY NoEntryIsSound DEF Sound
    <3>4. QED
      BY <3>1, <3>2, <3>3, <1>9, <1>11
  <2>2. kept' = [j \in Keys |-> kept'[j]]
    BY <1>2 DEF Filled
  <2>3. kept' \in [Keys -> Entry]
    BY <2>1, <2>2
  <2>4. QED
    BY <2>1, <2>3 DEF SoundKept, Sound, Fitting, Dated, Arrives
<1>13. SoundCalls'
  BY <1>1, EndedIsSound DEF Arrives
<1>14. SoundAnswer'
  <2>1. CASE c = Task
    <3>1. told' = told /\ feed' = feed
      BY <2>1, <1>2 DEF Arrives
    <3>2. QED
      BY <3>1, <1>1 DEF SoundAnswer, AnswersAreRecent, AnswersFit
  <2>2. CASE c # Task
    <3>1. told' = Told("own", e, a, k, n) /\ feed' = feed
      BY <2>2, <1>2 DEF Arrives
    <3>2. Fitting(k, e) /\ (feed \notin Timed => e.read = 0)
      BY <1>4, <1>5, <1>7 DEF Fitting
    <3>3. QED
      BY <3>1, <3>2, <1>1, <1>3, <1>4, <1>5, <1>6, ToldIsSound
  <2>3. QED
    BY <2>1, <2>2
<1>15. ServicesAreThere'
  <2>1. CASE feed = "services"
    <3>1. c = Task /\ k = NoEntry.key
      BY <2>1, <1>3 DEF SoundCall, Arrives
    <3>2. kept'[NoEntry.key] = f
      BY <3>1, <1>2, Constants DEF Filled
    <3>3. QED
      BY <3>2, <1>9 DEF ServicesAreThere
  <2>2. CASE feed # "services"
    BY <2>2 DEF ServicesAreThere, Arrives
  <2>3. QED
    BY <2>1, <2>2
<1>16. Quiet'
  BY <1>1 DEF Quiet, Arrives
<1>17. QED
  BY <1>12, <1>13, <1>14, <1>15, <1>16 DEF IInv

\* An answer with nothing in it is kept nowhere.
LEMMA ArrivesEmptyKeeps ==
    ASSUME IInv, NEW c \in Callers \cup {Task}, ArrivesEmpty(c)
    PROVE  IInv'
<1>1. SoundKept /\ SoundCalls /\ SoundAnswer /\ Quiet /\ feed # "services"
  BY DEF IInv, ArrivesEmpty
<1>2. call[c].key \in Keys /\ call[c].need \in Needs
  BY <1>1 DEF SoundCalls, Call
<1>3. NoEntry \in Entry /\ Fitting(call[c].key, NoEntry) /\ NoEntry.read = 0 /\ NoEntry.have = FALSE
  BY <1>2, NoEntryIsSound DEF Sound, NoEntry
<1>4. told' = Told("own", NoEntry, 0, call[c].key, call[c].need) /\ feed' = feed /\ 0 \in 0..Timeout
  BY Constants DEF ArrivesEmpty
<1>5. SoundAnswer'
  BY <1>1, <1>2, <1>3, <1>4, ToldIsSound
<1>6. SoundCalls'
  BY <1>1, EndedIsSound DEF ArrivesEmpty
<1>7. SoundKept' /\ Quiet' /\ ServicesAreThere'
  BY <1>1 DEF ArrivesEmpty, SoundKept, Sound, Fitting, Dated, Quiet, ServicesAreThere
<1>8. QED
  BY <1>5, <1>6, <1>7 DEF IInv

\* When the source fails the last answer is told if the feed still serves it.
LEMMA FailsKeeps ==
    ASSUME IInv, NEW c \in Callers \cup {Task}, Fails(c)
    PROVE  IInv'
<1>1. SoundKept /\ SoundCalls /\ SoundAnswer /\ Quiet /\ ServicesAreThere /\ feed' = feed
  BY DEF IInv, Fails
<1> DEFINE k == call[c].key
           n == call[c].need
           a == call[c].ago
           e == Fallback(c)
<1>2. k \in Keys /\ n \in Needs /\ a \in 0..Timeout /\ (feed # "picks" => n = AnyNeed)
  BY <1>1 DEF SoundCalls, SoundCall, Call
<1>3. e \in {kept[k], NoEntry} /\ (e.have => feed \in {"cards", "official"})
      /\ (e.have /\ feed = "official" => e.age < Grace + a)
  BY DEF Fallback, NoEntry
<1>4. e \in Entry /\ Sound(k, e)
  BY <1>1, <1>2, <1>3, NoEntryIsSound DEF SoundKept, Sound
<1>5. SoundAnswer'
  <2>1. CASE c = Task
    <3>1. told' = told
      BY <2>1 DEF Fails
    <3>2. QED
      BY <3>1, <1>1 DEF SoundAnswer, AnswersAreRecent, AnswersFit
  <2>2. CASE c # Task
    <3>1. told' = Told("kept", e, a, k, n)
      BY <2>2 DEF Fails
    <3>2. e.have => e.need = n
      BY <1>2, <1>3, <1>4 DEF Sound, Fitting
    <3>3. QED
      BY <3>1, <3>2, <1>1, <1>2, <1>3, <1>4, ToldIsSound DEF Sound
  <2>3. QED
    BY <2>1, <2>2
<1>6. kept' = kept
  BY DEF Fails, RefreshFailed
<1>7. SoundCalls'
  BY <1>1, EndedIsSound DEF Fails
<1>8. SoundKept' /\ Quiet'
  BY <1>1, <1>6 DEF Fails, SoundKept, Sound, Fitting, Dated, Quiet
<1>9. ServicesAreThere'
  <2>1. call[Task].pc = "starting" => call'[Task].pc = "starting"
    BY DEF Fails
  <2>2. QED
    BY <2>1, <1>1, <1>6 DEF ServicesAreThere, Serving
<1>10. QED
  BY <1>5, <1>7, <1>8, <1>9 DEF IInv

\* A task that warms a feed empties its entry and asks.
LEMMA WarmKeeps ==
    ASSUME IInv, WarmOfficial \/ WarmTrend(NoEntry.key)
    PROVE  IInv'
<1>1. SoundKept /\ SoundCalls /\ SoundAnswer /\ Quiet
  BY DEF IInv
<1>2. /\ kept' = Emptied(NoEntry.key)
      /\ call' = [call EXCEPT ![Task] = Asking(NoEntry.key, AnyNeed)]
      /\ feed # "services" /\ UNCHANGED <<feed, told, up, changed, loop>>
  BY DEF WarmOfficial, WarmTrend
<1>3. SoundCalls'
  BY <1>1, <1>2, Constants, AskingIsSound
<1>4. SoundKept'
  <2>1. /\ kept' = [j \in Keys |-> kept'[j]]
        /\ \A j \in Keys : kept'[j] \in {kept[j], NoEntry}
    BY <1>1, <1>2 DEF Emptied, SoundKept
  <2>2. QED
    BY <1>1, <1>2, <2>1, EmptiedIsSound
<1>5. SoundAnswer' /\ Quiet' /\ ServicesAreThere'
  BY <1>1, <1>2 DEF SoundAnswer, AnswersAreRecent, AnswersFit, Quiet, ServicesAreThere
<1>6. QED
  BY <1>3, <1>4, <1>5 DEF IInv

\* A refresh of the services asks and leaves what is there.
LEMMA RefreshKeeps ==
    ASSUME IInv, Refresh
    PROVE  IInv'
<1>1. SoundKept /\ SoundCalls /\ SoundAnswer /\ Quiet /\ ServicesAreThere
  BY DEF IInv
<1>2. SoundCalls'
  BY <1>1, Constants, AskingIsSound DEF Refresh
<1>3. SoundKept' /\ SoundAnswer' /\ Quiet'
  BY <1>1 DEF Refresh, SoundKept, Sound, Fitting, Dated, SoundAnswer, AnswersAreRecent,
              AnswersFit, Quiet
<1>4. ServicesAreThere'
  BY <1>1 DEF Refresh, ServicesAreThere, Serving, Idle
<1>5. QED
  BY <1>2, <1>3, <1>4 DEF IInv

\* An older entry is still dated: its two ages grow together, and stop where nothing
\* can tell them apart.
LEMMA OlderIsSound ==
    ASSUME NEW k \in Keys, NEW e, Sound(k, e), feed \in Timed
    PROVE  Sound(k, Older(e))
<1>1. e \in Entry /\ Fitting(k, e) /\ Dated(e)
  BY DEF Sound
<1>2. e.age \in Nat /\ e.read \in Nat /\ e.age <= MaxAge /\ e.read <= MaxAge
  BY <1>1, Constants DEF Entry, Ages
<1>3. Oldest \in Nat /\ Oldest <= MaxAge
  BY Constants DEF Oldest
<1>4. CASE ~e.have
  BY <1>4 DEF Older
<1>5. CASE e.have
  <2> DEFINE x == IF e.age < Oldest THEN e.age + 1 ELSE Oldest
             y == IF e.read < Oldest THEN e.read + 1 ELSE Oldest
  <2>1. x \in Nat /\ y \in Nat /\ x <= MaxAge /\ y <= MaxAge
    BY <1>2, <1>3, Constants
  <2>2. x \in Ages /\ y \in Ages
    BY <2>1, Constants DEF Ages
  <2>3. y <= x + (IF feed \in {"market", "picture"} THEN Timeout ELSE 0)
    BY <1>1, <1>2, <1>3, Constants DEF Dated
  <2>4. Older(e) = [e EXCEPT !.age = x, !.read = y]
    BY <1>5 DEF Older
  <2> HIDE DEF x, y
  <2>5. [e EXCEPT !.age = x, !.read = y] \in Entry
    BY <1>1, <2>2 DEF Entry
  <2>6. /\ Older(e).age = x /\ Older(e).read = y /\ Older(e).have = e.have
        /\ Older(e).key = e.key /\ Older(e).need = e.need
    BY <1>1, <2>4 DEF Entry
  <2>7. QED
    BY <1>1, <2>3, <2>4, <2>5, <2>6 DEF Sound, Fitting, Dated
<1>6. QED
  BY <1>4, <1>5

\* A tick makes entries older and brings calls nearer their timeout.
LEMMA TickKeeps ==
    ASSUME IInv, Tick
    PROVE  IInv'
<1>1. SoundKept /\ SoundCalls /\ SoundAnswer /\ Quiet /\ feed' = feed /\ feed \in Timed
  BY DEF IInv, Tick
<1>2. SoundKept'
  <2>1. ASSUME NEW k \in Keys PROVE kept'[k] \in Entry /\ Sound(k, kept'[k])
    <3>1. kept'[k] = Older(kept[k])
      BY DEF Tick
    <3>2. QED
      BY <3>1, <1>1, OlderIsSound DEF SoundKept, Sound
  <2>2. kept' = [k \in Keys |-> kept'[k]]
    BY DEF Tick
  <2>3. kept' \in [Keys -> Entry]
    BY <2>1, <2>2
  <2>4. QED
    BY <1>1, <2>1, <2>3 DEF SoundKept, Sound, Fitting, Dated
<1>3. SoundCalls'
  <2>1. ASSUME NEW c \in Callers \cup {Task}
        PROVE  call'[c] \in Call /\ SoundCall(c, call'[c])
    <3>1. call[c] \in Call /\ SoundCall(c, call[c]) /\ call[c].ago < Timeout
      BY <1>1 DEF SoundCalls, Tick
    <3>2. call'[c] = IF call[c].pc = "asking" THEN [call[c] EXCEPT !.ago = call[c].ago + 1] ELSE call[c]
      BY <1>1 DEF SoundCalls, Tick
    <3>3. call[c].ago + 1 \in 0..Timeout
      BY <3>1, Constants DEF Call
    <3>4. QED
      BY <3>1, <3>2, <3>3, <1>1 DEF SoundCall, Call, Timed
  <2>2. call' = [c \in Callers \cup {Task} |-> call'[c]]
    BY <1>1 DEF Tick, SoundCalls
  <2>3. call' \in [Callers \cup {Task} -> Call]
    BY <2>1, <2>2
  <2>4. QED
    BY <1>1, <2>1, <2>3 DEF SoundCalls, SoundCall
<1>4. SoundAnswer' /\ Quiet' /\ ServicesAreThere'
  BY <1>1 DEF Tick, SoundAnswer, AnswersAreRecent, AnswersFit, Quiet, ServicesAreThere, Timed
<1>5. QED
  BY <1>2, <1>3, <1>4 DEF IInv

\* What the source and the index do changes no answer already given.
LEMMA SourceKeeps ==
    ASSUME IInv,
           Outage \/ ServicesChange \/ CopyStored \/ Invalidated \/ DeleteAsked \/ ChunksDeleted
    PROVE  IInv'
<1>1. SoundKept /\ SoundCalls /\ SoundAnswer /\ Quiet /\ ServicesAreThere
  BY DEF IInv
<1>2. feed' = feed /\ told' = told
  BY DEF Outage, ServicesChange, CopyStored, Invalidated, DeleteAsked, ChunksDeleted
<1>3. SoundAnswer'
  BY <1>1, <1>2 DEF SoundAnswer, AnswersAreRecent, AnswersFit
<1>4. CASE Outage
  BY <1>1, <1>3, <1>4 DEF IInv, Outage, SoundKept, Sound, Fitting, Dated, SoundCalls, SoundCall,
                          ServicesAreThere, Serving, Quiet
<1>5. CASE ServicesChange
  <2>1. Changes(kept)
    BY <1>5 DEF ServicesChange
  <2>2. SoundKept' /\ SoundCalls' /\ ServicesAreThere'
    BY <2>1, <1>1, <1>2, ChangesKeepsSound, Constants DEF ServicesAreThere, Serving
  <2>3. Quiet'
    BY <1>1, <1>5, <2>1, FeedsAssumption DEF Quiet, ServicesChange, Changes
  <2>4. QED
    BY <1>3, <2>2, <2>3 DEF IInv
<1>6. CASE CopyStored
  <2>1. Changes(kept) /\ feed = "catalogue"
    BY <1>6 DEF CopyStored
  <2>2. SoundKept' /\ SoundCalls' /\ ServicesAreThere'
    BY <2>1, <1>1, <1>2, ChangesKeepsSound DEF ServicesAreThere
  <2>3. Quiet'
    BY <1>1, <1>6, <2>1, FeedsAssumption DEF Quiet, CopyStored, Changes
  <2>4. QED
    BY <1>3, <2>2, <2>3 DEF IInv
<1>7. CASE Invalidated \/ DeleteAsked
  <2>1. feed = "catalogue" /\ kept' = [k \in Keys |-> NoEntry] /\ call' = call
    BY <1>1, <1>7 DEF Invalidated, DeleteAsked, Quiet
  <2>2. SoundKept'
    <3>1. \A k \in Keys : kept'[k] = NoEntry
      BY <2>1
    <3>2. QED
      BY <3>1, <2>1, <1>1, <1>2, EmptiedIsSound
  <2>3. SoundCalls' /\ Quiet' /\ ServicesAreThere'
    BY <1>1, <1>2, <1>7, <2>1 DEF SoundCalls, SoundCall, Quiet, ServicesAreThere,
                                  Invalidated, DeleteAsked
  <2>4. QED
    BY <1>3, <2>2, <2>3 DEF IInv
<1>8. CASE ChunksDeleted
  <2>1. feed = "catalogue"
    BY <1>1, <1>8 DEF ChunksDeleted, Quiet
  <2>2. CASE Changes(kept)
    <3>1. SoundKept' /\ SoundCalls' /\ ServicesAreThere'
      BY <2>1, <2>2, <1>1, <1>2, ChangesKeepsSound DEF ServicesAreThere
    <3>2. Quiet'
      BY <1>1, <1>8, <2>1, <2>2, FeedsAssumption DEF Quiet, ChunksDeleted, Changes
    <3>3. QED
      BY <1>3, <3>1, <3>2 DEF IInv
  <2>3. CASE UNCHANGED <<kept, call, changed>>
    BY <1>1, <1>2, <1>3, <1>8, <2>1, <2>3
    DEF IInv, ChunksDeleted, SoundKept, Sound, Fitting, Dated, SoundCalls, SoundCall,
        ServicesAreThere, Quiet
  <2>4. QED
    BY <1>8, <2>2, <2>3 DEF ChunksDeleted
<1>9. QED
  BY <1>4, <1>5, <1>6, <1>7, <1>8

\* A process that has just started, with the feed it follows, is sound.
Fresh ==
    /\ feed \in AllFeeds /\ kept = [k \in Keys |-> NoEntry] /\ call = Started
    /\ told = NoAnswer /\ up \in BOOLEAN /\ changed \in 0..MaxChanges /\ loop = "quiet"

LEMMA FreshIsSound == Fresh => IInv
<1> SUFFICES ASSUME Fresh PROVE IInv
  OBVIOUS
<1> USE DEF Fresh
<1>1. SoundKept
  BY NoEntryIsSound DEF SoundKept, Sound
<1>2. SoundCalls
  BY StartedIsSound DEF SoundCalls
<1>3. SoundAnswer
  BY Constants DEF SoundAnswer, NoAnswer, Answer, Ages, AnswersAreRecent, AnswersFit
<1>4. ServicesAreThere
  BY DEF ServicesAreThere, Serving, Started, NoCall
<1>5. QED
  BY <1>1, <1>2, <1>3, <1>4 DEF IInv, Quiet

\* Whatever happens, what is kept, asked and told stays sound.
LEMMA InitIsSound == Init => IInv
BY FreshIsSound, FeedsAssumption DEF Init, Fresh

LEMMA NextKeepsSound == IInv /\ [Next]_vars => IInv'
<1> SUFFICES ASSUME IInv, [Next]_vars PROVE IInv'
  OBVIOUS
<1>1. ASSUME NEW c \in Callers, Asks(c) PROVE IInv'
  <2>1. PICK k \in TheKeys : \/ AskVisitor(c, k)
                             \/ \E n \in TheNeeds : AskHit(c, k, n) \/ AskMiss(c, k, n)
    BY <1>1 DEF Asks
  <2>2. CASE AskVisitor(c, k)
    BY <2>2, AskVisitorKeeps
  <2>3. CASE \E n \in TheNeeds : AskHit(c, k, n) \/ AskMiss(c, k, n)
    BY <2>3, AskHitKeeps, AskMissKeeps
  <2>4. QED
    BY <2>1, <2>2, <2>3
<1>2. ASSUME NEW c \in Callers \cup {Task}, Arrives(c) \/ ArrivesEmpty(c) \/ Fails(c) PROVE IInv'
  BY <1>2, ArrivesKeeps, ArrivesEmptyKeeps, FailsKeeps
<1>3. CASE WarmOfficial \/ WarmTrend(NoEntry.key)
  BY <1>3, WarmKeeps
<1>4. CASE Refresh
  BY <1>4, RefreshKeeps
<1>5. CASE Tick
  BY <1>5, TickKeeps
<1>6. CASE Outage \/ ServicesChange \/ CopyStored \/ Invalidated \/ DeleteAsked \/ ChunksDeleted
  BY <1>6, SourceKeeps
<1>7. CASE Restart
  <2>1. Fresh'
    <3>1. Quiet /\ changed < MaxChanges
      BY <1>7 DEF Restart, IInv
    <3>2. Started' = Started
      BY <1>7 DEF Restart, Started
    <3>3. changed' \in 0..MaxChanges
      BY <3>1, <1>7, FeedsAssumption DEF Quiet, Restart
    <3>4. QED
      BY <3>1, <3>2, <3>3, <1>7 DEF Restart, Fresh, Quiet
  <2>2. Fresh' => IInv'
    BY FreshIsSound, PTL
  <2>3. QED
    BY <2>1, <2>2
<1>8. CASE UNCHANGED vars
  BY <1>8 DEF vars, IInv, SoundKept, Sound, Fitting, Dated, SoundCalls, SoundCall,
              SoundAnswer, AnswersAreRecent, AnswersFit, ServicesAreThere, Serving, Quiet
<1>9. QED
  BY <1>1, <1>2, <1>3, <1>4, <1>5, <1>6, <1>7, <1>8 DEF Next

LEMMA FeedsIInv == Spec => []IInv
<1>1. Init => IInv
  BY InitIsSound
<1>2. IInv /\ [Next]_vars => IInv'
  BY NextKeepsSound
<1>3. QED
  BY <1>1, <1>2, PTL DEF Spec

-----------------------------------------------------------------------------
(* The properties. *)

\* However many turns ask at once, however long a source takes and whatever is dropped
\* or warmed in between, nobody is told anything older than the feed says it keeps.
THEOREM FeedsAnswersAreRecent == Spec => []AnswersAreRecent
<1>1. IInv => AnswersAreRecent
  BY DEF IInv, SoundAnswer
<1>2. QED
  BY <1>1, FeedsIInv, PTL

\* Nobody is told what was read for another customer or currency, nor products ranked
\* for a situation they are no longer in.
THEOREM FeedsAnswersFit == Spec => []AnswersFit
<1>1. IInv => AnswersFit
  BY DEF IInv, SoundAnswer
<1>2. QED
  BY <1>1, FeedsIInv, PTL

\* Once the process serves, no refresh that fails leaves it without services.
THEOREM FeedsServicesAreThere == Spec => []ServicesAreThere
<1>1. IInv => ServicesAreThere
  BY DEF IInv
<1>2. QED
  BY <1>1, FeedsIInv, PTL

\* Every variable keeps to its type.
THEOREM FeedsTypeOK == Spec => []TypeOK
<1>1. IInv => TypeOK
  BY DEF IInv, SoundKept, SoundCalls, SoundAnswer, Quiet, TypeOK
<1>2. QED
  BY <1>1, FeedsIInv, PTL

\* Only an answer of the source adds an entry.
LEMMA OnlyArrivesFills ==
    ASSUME IInv, Next, \A c \in Callers \cup {Task} : ~Arrives(c)
    PROVE  \A k \in Keys : kept'[k].have => kept[k].have
<1>1. NoEntry.have = FALSE
  BY DEF NoEntry
<1>2. \A k \in Keys : kept[k] \in Entry
  BY DEF IInv, SoundKept
<1>3. ASSUME NEW c \in Callers, Asks(c)
      PROVE  \A k \in Keys : kept'[k].have => kept[k].have
  <2>1. kept' = kept \/ \E k \in Keys : kept' = Emptied(k)
    BY <1>3, Constants DEF Asks, AskVisitor, AskHit, AskMiss, TheKeys
  <2>2. QED
    BY <2>1, <1>1 DEF Emptied, IInv, SoundKept
<1>4. ASSUME NEW c \in Callers \cup {Task}, ArrivesEmpty(c) \/ Fails(c) PROVE kept' = kept
  BY <1>4 DEF ArrivesEmpty, Fails, RefreshFailed
<1>5. CASE WarmOfficial \/ WarmTrend(NoEntry.key)
  BY <1>5, <1>1 DEF WarmOfficial, WarmTrend, Emptied, IInv, SoundKept
<1>6. CASE Refresh \/ Outage
  BY <1>6 DEF Refresh, Outage
<1>7. CASE Tick
  <2>1. ASSUME NEW k \in Keys PROVE kept'[k].have => kept[k].have
    <3>1. kept'[k] = Older(kept[k])
      BY <1>7 DEF Tick
    <3>2. QED
      BY <3>1, <1>2 DEF Older
  <2>2. QED
    BY <2>1
<1>8. ASSUME Changes(kept) PROVE \A k \in Keys : kept'[k].have => kept[k].have
  <2>1. ASSUME NEW k \in Keys PROVE kept'[k].have => kept[k].have
    <3>1. kept'[k] = [kept[k] EXCEPT !.late = kept[k].have]
      BY <1>8 DEF Changes
    <3>2. QED
      BY <3>1, <1>2 DEF Entry
  <2>2. QED
    BY <2>1
<1>9. CASE ServicesChange \/ CopyStored \/ ChunksDeleted
  BY <1>8, <1>9 DEF ServicesChange, CopyStored, ChunksDeleted
<1>10. CASE Invalidated \/ DeleteAsked \/ Restart
  BY <1>10, <1>1 DEF Invalidated, DeleteAsked, Restart
<1>11. QED
  BY <1>3, <1>4, <1>5, <1>6, <1>7, <1>9, <1>10 DEF Next

\* An answer that finds the cache full drops an entry before it adds its own, so
\* however many are on their way at once the cache does not grow past its limit.
THEOREM FeedsCachesAreBounded == Spec => []CachesAreBounded
<1>1. IsFiniteSet(TheKeys) /\ IsFiniteSet(Held)
  <2>1. TheKeys \subseteq Keys
    BY Constants DEF TheKeys
  <2>2. QED
    BY <2>1, FeedsAssumption, FS_Subset DEF Held
<1>2. Init => CachesAreBounded
  <2>1. Init => Held = {}
    BY Constants DEF Init, Held, TheKeys, NoEntry
  <2>2. QED
    BY <2>1, FS_EmptySet, FeedsAssumption DEF CachesAreBounded
<1>3. IInv /\ CachesAreBounded /\ [Next]_vars => CachesAreBounded'
  <2> SUFFICES ASSUME IInv, CachesAreBounded, [Next]_vars, feed' \in {"market", "picks"}
               PROVE  Cardinality(Held') <= MaxKept
    BY DEF CachesAreBounded
  <2>1. feed' = feed /\ TheKeys' = TheKeys /\ TheKeys \subseteq Keys
    <3>1. feed' = feed
      BY DEF Next, vars, Asks, AskVisitor, AskHit, AskMiss, Arrives, ArrivesEmpty, Fails,
             WarmOfficial, WarmTrend, Refresh, Tick, Outage, ServicesChange, CopyStored,
             Invalidated, DeleteAsked, ChunksDeleted, Restart
    <3>2. QED
      BY <3>1, Constants DEF TheKeys
  <2>2. Cardinality(Held) <= MaxKept /\ Cardinality(Held) \in Nat /\ MaxKept \in Nat \ {0}
    BY <1>1, <2>1, FS_CardinalityType, FeedsAssumption DEF CachesAreBounded
  <2>3. ASSUME \A k \in Keys : kept'[k].have => kept[k].have
        PROVE  Cardinality(Held') <= MaxKept
    <3>1. Held' \subseteq Held
      BY <2>1, <2>3 DEF Held
    <3>2. Cardinality(Held') <= Cardinality(Held) /\ Cardinality(Held') \in Nat
      BY <3>1, <1>1, FS_Subset, FS_CardinalityType
    <3>3. QED
      BY <3>2, <2>2
  <2>4. ASSUME NEW c \in Callers \cup {Task}, Arrives(c)
        PROVE  Cardinality(Held') <= MaxKept
    <3>1. PICK gone \in Room :
            \E e \in Reads(c) : kept' = Filled(call[c].key, [e EXCEPT !.age = Stamp(c)], gone)
      BY <2>4 DEF Arrives
    <3>2. Held' \subseteq (Held \ gone) \cup {call[c].key}
      <4>1. \A j \in Keys : kept'[j].have /\ j # call[c].key => j \notin gone /\ kept[j].have
        BY <3>1 DEF Filled, NoEntry
      <4>2. QED
        BY <4>1, <2>1 DEF Held
    <3>3. IsFiniteSet(Held \ gone) /\ Cardinality(Held \ gone) + 1 <= MaxKept
      <4>1. CASE Cardinality(Held) >= MaxKept
        <5>1. PICK o \in Held : gone = {o}
          BY <4>1, <2>1, <3>1 DEF Room
        <5>2. Cardinality(Held \ {o}) = Cardinality(Held) - 1 /\ IsFiniteSet(Held \ {o})
          BY <1>1, FS_RemoveElement
        <5>3. QED
          BY <5>1, <5>2, <2>2
      <4>2. CASE ~(Cardinality(Held) >= MaxKept)
        <5>1. gone = {}
          BY <4>2, <3>1 DEF Room
        <5>2. Held \ gone = Held
          BY <5>1
        <5>3. QED
          BY <5>2, <4>2, <2>2, <1>1
      <4>3. QED
        BY <4>1, <4>2
    <3>4. /\ IsFiniteSet((Held \ gone) \cup {call[c].key})
          /\ Cardinality((Held \ gone) \cup {call[c].key}) <= MaxKept
      <4>1. Cardinality(Held \ gone) \in Nat
        BY <3>3, FS_CardinalityType
      <4>2. /\ IsFiniteSet((Held \ gone) \cup {call[c].key})
            /\ \/ Cardinality((Held \ gone) \cup {call[c].key}) = Cardinality(Held \ gone)
               \/ Cardinality((Held \ gone) \cup {call[c].key}) = Cardinality(Held \ gone) + 1
        BY <3>3, FS_AddElement
      <4>3. QED
        BY <4>1, <4>2, <3>3, <2>2
    <3>5. /\ Cardinality(Held') <= Cardinality((Held \ gone) \cup {call[c].key})
          /\ Cardinality(Held') \in Nat
          /\ Cardinality((Held \ gone) \cup {call[c].key}) \in Nat
      BY <3>2, <3>4, FS_Subset, FS_CardinalityType
    <3>6. QED
      BY <3>4, <3>5, <2>2
  <2>5. CASE Next
    BY <2>3, <2>4, <2>5, OnlyArrivesFills
  <2>6. CASE UNCHANGED vars
    BY <2>3, <2>6 DEF vars
  <2>7. QED
    BY <2>5, <2>6
<1>4. QED
  BY <1>2, <1>3, FeedsIInv, PTL DEF Spec

=============================================================================
