-------------------------------- MODULE Feeds --------------------------------
(***************************************************************************)
(* What the assistant keeps in memory of things that live elsewhere: the   *)
(* official exchange rates and the market points (knowledge/live_rates.py) *)
(* the bank's card list (live_cards.py), a customer's money picture        *)
(* (advisor/snapshot.py) and the products that suit them (advise.py), the  *)
(* services (banking/taxonomy.py) and the products the index covers        *)
(* (knowledge/catalogue.py).                                               *)
(*                                                                         *)
(* They share no state, so a behaviour follows one of them, `feed`.  Each  *)
(* is looked at and filled by many turns at once; between the question     *)
(* to the source and its answer anything else may run.  Times are kept as  *)
(* ages, which grow together and stop growing where nothing can tell them  *)
(* apart.                                                                  *)
(***************************************************************************)
EXTENDS Naturals, FiniteSets

CONSTANTS
    Callers,        \* turns in flight
    Keys,           \* currencies, or customers: what an entry is kept under
    Needs,          \* what the customer's situation comes to (_cache_key)
    Ttl,            \* how long an entry is good, in ticks
    Timeout,        \* bound: how long a source may take, in ticks
    MaxKept,        \* _MAX_CACHE, _CACHE_CUSTOMERS
    MaxChanges      \* bound: changes of the platform's services or of the index

ASSUME FeedsAssumption ==
    /\ Keys # {} /\ IsFiniteSet(Keys) /\ Needs # {}
    /\ Ttl \in Nat \ {0} /\ Timeout \in Nat \ {0}
    /\ MaxKept \in Nat \ {0} /\ MaxChanges \in Nat

AllFeeds == {"official", "market", "cards", "picture", "picks", "services", "catalogue"}
OneEntry == {"official", "cards", "services", "catalogue"}
Timed == AllFeeds \ {"services", "catalogue"}
Grace == 4 * Ttl
MaxAge == Grace + 2 * Timeout
Ages == 0..MaxAge
Task == "task"                      \* keep_warm, or the refresh loop of the services
AnyNeed == CHOOSE n \in Needs : TRUE

VARIABLES
    feed,           \* the feed this behaviour follows
    kept,           \* kept[k]: what is in memory
    call,           \* call[c]: what a turn, or the task, is asking the source
    told,           \* history: the last answer anyone got
    up,             \* the source answers in time
    changed,        \* bound: changes of the source so far
    loop            \* the knowledge base: what the event loop is doing to the index

vars == <<feed, kept, call, told, up, changed, loop>>

TheKeys == IF feed \in OneEntry THEN {CHOOSE k \in Keys : TRUE} ELSE Keys
TheNeeds == IF feed = "picks" THEN Needs ELSE {AnyNeed}
\* age: since the time the entry carries.  read: since the source was read.
\* late: the source has changed since it was read.
Entry == [have : BOOLEAN, age : Ages, read : Ages, late : BOOLEAN, key : Keys, need : Needs]
Call == [pc : {"idle", "asking", "starting"}, key : Keys, need : Needs,
         ago : 0..Timeout, missed : BOOLEAN]
Answer == [how : {"hit", "own", "kept", "nothing"}, stale : Ages, fits : BOOLEAN]
NoEntry == [have |-> FALSE, age |-> 0, read |-> 0, late |-> FALSE,
            key |-> CHOOSE k \in Keys : TRUE, need |-> AnyNeed]
NoCall == [pc |-> "idle", key |-> NoEntry.key, need |-> AnyNeed, ago |-> 0, missed |-> FALSE]
NoAnswer == [how |-> "own", stale |-> 0, fits |-> TRUE]
Asking(k, n) == [pc |-> "asking", key |-> k, need |-> n, ago |-> 0, missed |-> FALSE]
Idle(c) == call[c].pc = "idle"

\* A process that has just started: initialize_taxonomy comes before anything
\* is served.
Started == [c \in Callers \cup {Task} |->
              IF c = Task /\ feed = "services" THEN [NoCall EXCEPT !.pc = "starting"] ELSE NoCall]
Serving == call[Task].pc # "starting"

Init ==
    /\ feed \in AllFeeds
    /\ kept = [k \in Keys |-> NoEntry]
    /\ call = Started
    /\ told = NoAnswer
    /\ up \in BOOLEAN
    /\ changed = 0
    /\ loop = "quiet"

-----------------------------------------------------------------------------
(* What an answer is made of.  (A definition that ends in Instead is a way  *)
(* the code could have gone wrong.)                                         *)

\* The entry is still good for what is asked.
GoodInAnySituationInstead(e, n) == e.have /\ (feed \in Timed => e.age < Ttl)
Good(e, n) == /\ e.have
              /\ feed \in Timed => e.age < Ttl
              /\ feed = "picks" => e.need = n

\* What the source can be read to say while it is asked.
Reads(c) == [have : {TRUE}, age : {0}, read : 0..call[c].ago, late : {call[c].missed, FALSE},
             key : {call[c].key}, need : {call[c].need}]

\* The time an entry carries: when the source was asked, or when it answered
\* (_remember, and the money picture).
StampAtAnswerInstead(c) == 0
Stamp(c) == IF feed \in {"market", "picture"} THEN 0 ELSE call[c].ago

\* What is dropped to make room (_remember, rank_products); nothing else is bounded.
Held == {k \in TheKeys : kept[k].have}
Room == IF feed \in {"market", "picks"} /\ Cardinality(Held) >= MaxKept
        THEN {{k} : k \in {o \in Held : \A j \in Held : kept[j].age <= kept[o].age}}
        ELSE {{}}
Filled(k, e, gone) == [j \in Keys |-> IF j = k THEN e ELSE IF j \in gone THEN NoEntry ELSE kept[j]]
Emptied(k) == [kept EXCEPT ![k] = NoEntry]

\* What is left to serve when the source does not answer.
Fallback(c) ==
    LET e == kept[call[c].key] IN
    IF feed = "cards" \/ (feed = "official" /\ e.age < Grace + call[c].ago) THEN e ELSE NoEntry

\* What is kept after a refresh of the services that failed: the last good ones.
RefreshFailedEmptiesInstead(k) == Emptied(k)
RefreshFailed(k) == kept

\* How old an answer was when it was asked for, `ago` ticks ago.
Told(how, e, ago, k, n) ==
    [how |-> IF e.have THEN how ELSE "nothing",
     stale |-> IF e.have /\ e.read > ago THEN e.read - ago ELSE 0,
     fits |-> e.have => e.key = k /\ e.need = n]

-----------------------------------------------------------------------------
(* A turn asks: official, market_latest and trend, current, get,            *)
(* rank_products, get_taxonomy, load.                                       *)

\* The services are only read, and an empty list stands for none.
AskHit(c, k, n) ==
    /\ Serving /\ Idle(c) /\ (feed = "services" \/ Good(kept[k], n))
    /\ told' = Told("hit", kept[k], 0, k, n)
    /\ UNCHANGED <<feed, kept, call, up, changed, loop>>

\* A visitor cannot ask the bank for its cards: the last list is served.
AskVisitor(c, k) ==
    /\ feed = "cards" /\ Idle(c) /\ ~Good(kept[k], AnyNeed)
    /\ told' = Told("kept", kept[k], 0, k, AnyNeed)
    /\ UNCHANGED <<feed, kept, call, up, changed, loop>>

\* An entry that is old, or for another situation, is dropped first by
\* rank_products; the others leave it until there is a new one.
AskMiss(c, k, n) ==
    /\ Idle(c) /\ ~Good(kept[k], n) /\ feed # "services"
    /\ call' = [call EXCEPT ![c] = Asking(k, n)]
    /\ kept' = IF feed = "picks" THEN Emptied(k) ELSE kept
    /\ UNCHANGED <<feed, told, up, changed, loop>>

-----------------------------------------------------------------------------
(* The source answers, or does not. *)

Arrives(c) ==
    /\ call[c].pc \in {"asking", "starting"} /\ up
    /\ \E e \in Reads(c), gone \in Room :
        /\ kept' = Filled(call[c].key, [e EXCEPT !.age = Stamp(c)], gone)
        /\ told' = IF c = Task THEN told
                   ELSE Told("own", e, call[c].ago, call[c].key, call[c].need)
    /\ call' = [call EXCEPT ![c] = NoCall]
    /\ UNCHANGED <<feed, up, changed, loop>>

\* It answers with nothing to keep: no cards, or no product that suits.
ArrivesEmpty(c) ==
    /\ feed \in {"cards", "picks"} /\ call[c].pc = "asking" /\ up
    /\ told' = Told("own", NoEntry, 0, call[c].key, call[c].need)
    /\ call' = [call EXCEPT ![c] = NoCall]
    /\ UNCHANGED <<feed, kept, up, changed, loop>>

\* A start without the services fails, and is tried again.
Fails(c) ==
    /\ call[c].pc = "asking" /\ ~up
    /\ told' = IF c = Task THEN told
               ELSE Told("kept", Fallback(c), call[c].ago, call[c].key, call[c].need)
    /\ call' = [call EXCEPT ![c] = NoCall]
    /\ kept' = IF feed = "services" THEN RefreshFailed(call[c].key) ELSE kept
    /\ UNCHANGED <<feed, up, changed, loop>>

-----------------------------------------------------------------------------
(* The tasks of the process: keep_warm and _refresh_loop. *)

WarmOfficial ==
    /\ feed = "official" /\ Idle(Task)
    /\ kept' = Emptied(NoEntry.key)
    /\ call' = [call EXCEPT ![Task] = Asking(NoEntry.key, AnyNeed)]
    /\ UNCHANGED <<feed, told, up, changed, loop>>

\* Only the dollar's trend, and only when it is missing or nearly stale.
WarmTrend(k) ==
    /\ feed = "market" /\ Idle(Task)
    /\ ~kept[k].have \/ 10 * kept[k].age > 8 * Ttl
    /\ kept' = Emptied(k)
    /\ call' = [call EXCEPT ![Task] = Asking(k, AnyNeed)]
    /\ UNCHANGED <<feed, told, up, changed, loop>>

RefreshOnlyWhenMissingInstead ==
    /\ feed = "services" /\ Idle(Task) /\ ~kept[NoEntry.key].have
    /\ call' = [call EXCEPT ![Task] = Asking(NoEntry.key, AnyNeed)]
    /\ UNCHANGED <<feed, kept, told, up, changed, loop>>
Refresh ==
    /\ feed = "services" /\ Idle(Task)
    /\ call' = [call EXCEPT ![Task] = Asking(NoEntry.key, AnyNeed)]
    /\ UNCHANGED <<feed, kept, told, up, changed, loop>>

-----------------------------------------------------------------------------
(* The sources: time, outages, and what they say. *)

\* Ages are not told apart beyond what anything compares them with.
Oldest == (IF feed \in {"official", "cards"} THEN Grace ELSE Ttl) + 2 * Timeout
Older(e) == IF e.have
            THEN [e EXCEPT !.age = IF e.age < Oldest THEN e.age + 1 ELSE Oldest,
                           !.read = IF e.read < Oldest THEN e.read + 1 ELSE Oldest]
            ELSE e
Tick ==
    /\ feed \in Timed
    /\ \A c \in DOMAIN call : call[c].ago < Timeout
    /\ kept' = [k \in Keys |-> Older(kept[k])]
    /\ call' = [c \in DOMAIN call |->
                  IF call[c].pc = "asking" THEN [call[c] EXCEPT !.ago = @ + 1] ELSE call[c]]
    /\ UNCHANGED <<feed, told, up, changed, loop>>

Outage == /\ up' = ~up
          /\ UNCHANGED <<feed, kept, call, told, changed, loop>>

\* The source says something else from now on; `after` is what is kept then.
Changes(after) ==
    /\ changed < MaxChanges /\ changed' = changed + 1
    /\ kept' = [k \in Keys |-> [after[k] EXCEPT !.late = after[k].have]]
    /\ call' = [c \in DOMAIN call |-> [call[c] EXCEPT !.missed = call[c].pc # "idle"]]

ServicesChange == feed = "services" /\ Changes(kept) /\ UNCHANGED <<feed, told, up, loop>>

\* _publish stores the new copy, invalidates, then deletes the old copies.
CopyStored ==
    /\ feed = "catalogue" /\ loop = "quiet"
    /\ Changes(kept) /\ loop' = "stored"
    /\ UNCHANGED <<feed, told, up>>
Invalidated ==
    /\ loop = "stored"
    /\ kept' = [k \in Keys |-> NoEntry]
    /\ loop' \in {"quiet", "deleting"}
    /\ UNCHANGED <<feed, call, told, up, changed>>
\* delete_document invalidates, then deletes the chunks.
DeleteAsked ==
    /\ feed = "catalogue" /\ loop = "quiet" /\ changed < MaxChanges
    /\ kept' = [k \in Keys |-> NoEntry]
    /\ loop' = "deleting"
    /\ UNCHANGED <<feed, call, told, up, changed>>
ChunksDeleted ==
    /\ loop = "deleting" /\ loop' = "quiet"
    /\ \/ Changes(kept)
       \/ UNCHANGED <<kept, call, changed>>
    /\ UNCHANGED <<feed, told, up>>

\* Everything is in memory only.
Restart ==
    /\ changed < MaxChanges /\ changed' = changed + 1
    /\ kept' = [k \in Keys |-> NoEntry]
    /\ call' = Started
    /\ told' = NoAnswer
    /\ loop' = "quiet"
    /\ UNCHANGED <<feed, up>>

Asks(c) == \E k \in TheKeys : \/ AskVisitor(c, k)
                              \/ \E n \in TheNeeds : AskHit(c, k, n) \/ AskMiss(c, k, n)

Next ==
    \/ \E c \in Callers : Asks(c)
    \/ \E c \in Callers \cup {Task} : Arrives(c) \/ ArrivesEmpty(c) \/ Fails(c)
    \/ WarmOfficial \/ WarmTrend(NoEntry.key) \/ Refresh
    \/ Tick \/ Outage \/ ServicesChange
    \/ CopyStored \/ Invalidated \/ DeleteAsked \/ ChunksDeleted
    \/ Restart

Spec == Init /\ [][Next]_vars
\* The tasks run as long as the process does, and a call has a timeout.
FairSpec == Spec /\ WF_vars(Refresh) /\ WF_vars(Arrives(Task) \/ Fails(Task))

-----------------------------------------------------------------------------
(* Properties. *)

TypeOK ==
    /\ feed \in AllFeeds
    /\ kept \in [Keys -> Entry]
    /\ call \in [Callers \cup {Task} -> Call]
    /\ told \in Answer
    /\ up \in BOOLEAN /\ changed \in 0..MaxChanges
    /\ loop \in {"quiet", "stored", "deleting"}

\* However the calls overlap, nobody is told anything older than the feed says it
\* keeps: the time to live, the time the source took where the entry carries the
\* time of the answer, and four times it for official rates in an outage.  The
\* card list has no limit when the bank cannot be asked for it.
AnswersAreRecent ==
    told.how \in {"hit", "own"} \/ feed = "official" =>
        told.stale < CASE feed = "official" /\ told.how = "kept" -> Grace
                       [] feed \in {"market", "picture"} -> Ttl + Timeout
                       [] OTHER -> Ttl

\* The market points and the rankings are bounded, however many calls that found
\* no room are on their way at once.
CachesAreBounded == feed \in {"market", "picks"} => Cardinality(Held) <= MaxKept

\* Nobody is told what was read for another customer or currency, or products
\* ranked for a situation they are no longer in.
AnswersFit == told.fits

\* Once the process serves, the services are never missing, whatever refresh fails.
ServicesAreThere == feed = "services" /\ Serving => kept[NoEntry.key].have

\* A platform that answers again is caught up with, whatever failed before.
ServicesCatchUp ==
    <>[](feed = "services" /\ up) => []<>(kept[NoEntry.key].have /\ ~kept[NoEntry.key].late)

\* (What catalogue.py says: a new product in a re-uploaded file shows up on its
\* own.)  When nothing is being done to the index, the list kept is what it holds.
CatalogueIsCurrent ==
    feed = "catalogue" /\ loop = "quiet" => \A k \in Keys : ~kept[k].late
=============================================================================
