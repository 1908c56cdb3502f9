# A model of the Polygon Bank chatbot

TLA+ modules for the stateful part of this repository's service (`src/app`): the
chat turn that asks for consent and carries changes out at the bank, how a request
gets its details and an offer is taken up over several turns, the session store
behind both, the composer that streams every message, the document index that
answers questions, what is kept in memory of slow sources, and the reading of a
customer's money picture. TLC checks them on small instances; TLAPS proves much of
what it checks for every value of the constants.

    tlc -workers 2 -config OneTab.cfg MCChatTurn     # any cfg of section 4
    tlapm SessionProofs.tla                          # any ...Proofs module

## 1. The system and its parts

The service is one asyncio process (FastAPI, uvicorn). Handlers interleave at
their awaits and nowhere else; a few searches run in worker threads. Nothing but
the document registry, the product cards and the vector store survives a restart.

| Component | State it keeps | Operations | Talks to |
|---|---|---|---|
| chat handler (`routes/chat.py`) | none of its own: one generator per request | `_chat_stream` with the gates, `_emit_outcome`, the freeze and contact code steps | session, bank adapters, model, composer, audit, taxonomy |
| session store (`banking/session.py`) | `_sessions`: recent turns, UI notes, last activity | `get_session`, `record_turn`, `record_ui_notes`, `get_ui_notes`, `get_classification_context` | called by the chat handler |
| bank adapters (`banking/adapters`) | none; the bank keeps codes, tokens, records | `send_otp`, `verify_otp`, the changes, the reads | the bank over HTTP, 30 s timeouts |
| audit (`banking/audit.py`) | a log | one line per banking turn | called by the chat handler |
| composer (`conversation/composer.py`) | one reply in the making | `compose_stream`, `compose`, `check_reply` | the model (`llm_backend.py`), 30 s timeouts |
| document index (`routes/documents.py`, `catalog.py`, `vectorstore.py`) | registry file, chunks, upload tasks | upload, batches, publish and replace, delete, rebuild cards, startup | embedding model, vector store |
| product cards (`knowledge/product_cards.py`) | cards file, build tasks | build in the background, save, carry over, remove | documents, model |
| caches (`knowledge/catalogue.py`, `live_cards.py`, `live_rates.py`, `banking/taxonomy.py`) | a last answer, mostly with its time | load, refresh, keep warm, invalidate | the index, public sources, the bank |
| advisor (`advisor/`) | pictures and rankings kept for a time, per customer | `build_snapshot`, ledger arithmetic, `rank_products`, `explanation` | read-only adapters, model |
| classification (`banking/routing.py`, `llm.py`) | none: reads and leaves the session's last classification | `classify`, corrections, one retry | the model |
| retrieval (`knowledge/retrieve.py`, ...) | none | scoring, merging | the index |

What is hard in it, and what makes it correct:

* **Consent.** A change needs a question the customer saw, a yes (or a code, or
  both) given to *that* question, and happens once. The pending step is the last
  recorded turn; it is read once at the start of a request and used after many
  awaits, while other requests of the customer, restarts and idle gaps change it.
* **Telling the truth.** The bank may have carried out what it answered with an
  error. The result event, the audit line and the session follow at different
  moments, with a disconnect possible at each.
* **Codes and tokens.** The bank ties a code to a phone and not to a request.
* **A message that cannot be taken back.** Pieces go out before the text is
  whole, chunks end inside numbers, the call may break at any moment.
* **Three stores that are not one transaction.** Uploads take minutes, run
  beside each other, are deleted midway, replace each other, and are killed.

* **Answers over several turns.** What one turn gathered, offered or judged is read
  by the next from a single register, after the model made anything at all of the
  message between them, and after the bank switched something off.
* **What is kept is older than it looks.** Several turns ask a slow source at once;
  each stores what it got, when it gets it, under a time of its own.
* **Many calls, one picture.** Each source may fail, answer rubbish, or find the
  login gone while the others are under way.

`PROJECT.json` lists every hazard with its line and the properties it is for.

## 2. The modules

| Module | Models | Variables and the code |
|---|---|---|
| `Session` | the session store | `sessions` is `_sessions`; `talk` (history) is what an observer knows of each conversation |
| `OpenQuestion` | abstract: one register per customer, the classification of the last turn | what the gates of the handler read |
| `Bank` | the bank as the adapters see it (external) | codes on record, texted and minted counts, usable tokens, changes made |
| `ChatTurn` | `_chat_stream` and its helpers | `turn[t]` is a request with its program counter; `open` the session seen through `OpenQuestion`; `ask` (history) what became of each question |
| `AuthorisedChange` | abstract: shown, then authorised, then carried out; a permit is spent once | implemented by `ChatTurn` |
| `ReplyStream` | composer | `full`, `sent` as in `compose_stream`; `shown` (history) the screen |
| `DocumentIndex` | documents, registry, cards, vector store | `catalog` is documents.json, `chunks` the vector store, `job[d]` an upload's coroutine, `loop` the stretch the event loop is in |
| `Details` | how a request is classified, carried on, filled, asked about and answered (`routing.classify`, `_continue_turn`, the pickers and checks of `chat.py`) | `last` is the classification in the session; `message` what the customer wrote; `wrote` (history) what they wrote about this request; `invented` (history) that the classifier made a number up |
| `Offers` | recommending, explaining, applying, choosing people, saving a person (`advise.py`, `ui_actions.py`, the offers of `chat.py`) | `offer`, `ranking`: what the last turn's classification keeps of them; `did` what the turn did; `figure` (history) the income judged by |
| `Conversation` | the two over one session, and restarts | both write the one last classification |
| `Feeds` | every answer kept in memory: official rates, market points, bank cards, pictures, rankings, services, catalogue | `kept` the entries, `call` who is asking the source, `loop` what the event loop does to the index; `told` (history) the last answer |
| `MoneyPicture` | `snapshot.py` and `sources.py` | `lists`, `rows`, `pages`, `lost`, `months`, `cards`, `credit`, `single`: what has been read, and which list or page came in a body nobody can read; `book`, `owned` what the bank has |
| `MC...` | instances for TLC | |
| `...Proofs` | theorems | |

`ChatTurn` extends `Bank` and instantiates `OpenQuestion` (which `Session` is
shown to implement, in TLC and by proof) and `AuthorisedChange` (as a property).

**One action is the code between two awaits (or yields).** `Enter` is everything
from the answer of `verify_jwt` to the next await, with the session read in it;
`Requested` is what is asked of a service before anything is gathered; `CodeStep`,
`VerifyOtp`, `Fulfil`, `Refused`, `Replied` are the freeze and contact steps;
`Compose`, `Result`, `Done`, `Record` are the tail every branch shares, in the
order of that branch (`Outcome.audit` and `Outcome.record` say when the line is
written and the turn recorded). `Fulfil` and `Replied` are apart because the bank
acts before its answer arrives, and the answer may not.

Services are represented by their gate: `confirm` (nickname, address, ... behind
a yes), `add` (beneficiary, through the recipient lookup), `freeze` (yes, code and
PIN), `contact` (code only), `read`, `summary` (transfer), `catalogue` (public).

`DocumentIndex` splits what runs without an await into one step per effect outside
the process, because a kill can fall between and a search in a worker thread can
look in. `LoopIsFree` says that no such stretch is being run.

`ReplyStream` writes texts over digits, a separator, a space, the label of the
amount and a word that labels something else. A text of these tells every check
apart: what a number is, whether it is supported, whether the amount is there and
attached, and where a piece may end.

`Details` and `Offers` take a turn as one step: a customer's turns come one at a time
there, and what overlapping turns do to the register is `ChatTurn` and `OpenQuestion`.
A service stands for each way of gathering: `fee`, `bank` and `wallet` (transfers),
`dispute` (answered from the bank's own list), `nick`, `freeze` (free text) and `read`.
`Conversation` joins them in the register they share: a turn of one kind drops what
the other had left.

The caches share no state, so a behaviour of `Feeds` follows one of them (`feed`) and
each operation's guard names those it is for. Times are kept as ages; an entry has
both the age the code computes (`age`) and the time since the source was really read
(`read`), and the properties are about the second. `MoneyPicture` counts months back
from the current one and money in rows (a page holds one), so that a total tells
whether the detail was whole.

A definition ending in `Instead` is a way the code could have gone wrong. None is
used by a specification: they are there to show that each property would notice.

## 3. What is taken for granted

* What the model says of a message, what slot filling finds and which cards or
  beneficiaries are picked is any answer the code accepts (a branch each).
* A button, or a secret in the message, is read without the model (the code does).
* `BENEFICIARY_ADD_OPENS_FORM` is true by default, and then adding never reaches a
  question; `two_tabs` sets it false to have that gate checked too.
* A contact change the bank refuses in words was not made; a request in flight
  when the client went away may have been carried out.
* In `one_tab` and `two_tabs` the composer reaches its model; what happens to a
  question when it does not is in section 5.
* A voice message heard two ways is a question of its own and drops nothing.
* A restart empties the session store; a disconnect cancels the generator where it
  waits (Starlette's streaming response).
* The session store never evicts; the handler sees expiry as a lapse at any time.
* Two tabs share a session by design (ADR-0005): with two requests of one customer
  at once a yes can count twice and a code texted for one request can verify
  another. Properties that need one tab are checked for one tab and say so.
* The registry file is written whole. Deletion's two writes (registry, cards) are
  one step, and replaced copies are removed in any order.
* A number of the reply that is part of a number of the facts is supported, as
  `unsupported_numbers` has it (a substring test); the instance's amount has as
  many digits as the shortest checked number, so this does not arise in it.
* Length, Markdown and bare long numbers may make `check_reply` refuse any draft.
* `Details`: the model's reading of a message is anything the code's checks let
  through. As an amount that is any number in the message, a phone number too, times
  10^0 to 10^8 (`AmountsIn`; an amount within a millionth of another is the same); as an
  account or phone number it is any piece of the message's digits joined together
  (`NumbersIn`). What no check of digits holds back, that is words, a JSON number, or
  whatever `_fill_fields` takes for a number, is `Made`. A mobile number is its eleven
  digits, a country code before it dropped; dates and time limits are left out.
* `Offers`: any application screen switched off drops the whole offer of a
  recommendation, as the code does; a family of cards is of one kind; a customer who
  is not signed in leaves no classification; amounts carried with a person are left out.
* `Feeds`: ages stop growing where no comparison can tell them apart (`MaxAge`). A
  source is up or down; while it is up an answer takes up to `Timeout`.
* `MoneyPicture`: the accounts, cards and rows do not change while they are read.
  Each call can answer, fail, find the login gone, or answer with a body nobody can
  read; a list in such a body is taken for the rows that can be read, and nothing tells
  it from a short list. `EveryMonthIsTold` is about a customer who is never quiet for as
  long as a batch of months (`NeverDormant`, by design: the code stops asking there) and
  about months whose total came in a body that can be read; `HeldCardsAreKnown` about a
  card list that does (section 5).

**Fairness.** Only liveness runs assume it: weak fairness of each turn's steps
(`ChatTurn!FairSpec`), of each upload's code and the restart
(`DocumentIndex!FairSpec`), and of the hourly task that refreshes the services and
the answer or failure of its call (`Feeds!FairSpec`). Every await in that code has a
timeout (30 s at the bank, 20 to 30 s at the model, 60 s for embeddings), asyncio
runs ready tasks in turn, the refresh loop catches what it meets and goes on, and a
supervisor restarts the process. Customers, disconnects, expiries, outages and kills
are never assumed to happen, or to end. The handlers do not depend on card builds
ending, so these have no fairness.

## 4. The runs

Passing runs:

| Run | Instance | Shows |
|---|---|---|
| `session` (MCSession) | two customers, gap 1, 2 turns and 1 note kept, clock to 3 | what is read again after an idle gap, a restart, mixed writers; implements `OpenQuestion` |
| `one_tab` (OneTab) | one customer, one request at a time, all seven gates, 2 questions, 2 codes each, 2 values, switches, forms with right, wrong, both secrets | the whole change flow: consent, refusals, own code, stored token, audit, one change per question |
| `two_tabs` (TwoTabs) | two requests at once, two customers, freeze and add by chat, disconnects, restarts, expiries | the pending step is backed, what reaches the bank is what was shown, results are true; implements `AuthorisedChange` |
| `stream_ends` (StreamEnds) | one tab, all gates, lapses, expiries, model failures, fairness | every stream ends; a change carried out is reported, audited and recorded |
| `documents_calm` (DocumentsCalm) | three documents, two file names, nothing failing | search is exactly the ready documents, one copy per file, uploads leave each other alone |
| `documents_fail` (DocumentsFail) | two documents, failing store and model, a kill, rebuilds, fairness | ready is searchable, the old copy stays, deleted stays deleted, uploads settle |
| `reply_stream` (ReplyStream) | every text up to six symbols in every chunking, breaks anywhere, two failed drafts | only supported and whole numbers on the screen, the amount gets there, nothing said twice |
| `feeds` (Feeds) | each of the seven feeds, two turns and the task, two keys, two situations, `Ttl` 2, `Timeout` 1, room for one entry, two changes, a restart, fairness | nothing told is older than promised or meant for another; the services are never missing and catch up |
| `money` (MoneyPicture) | two accounts, five months (two in detail, two to a batch), one page, two cards with one summary, one other source, two calls going wrong | every month is told or named as unread, a lost login escapes, held cards are known or named as unread (but for the cases of section 3) |
| `conversation` (Conversation) | seven messages (one writes an amount and a number) and five requests in any order without end, numbers with their digits, one a piece of another, seven services, four products with three screens, three saved people, two suggestions at most | details stay with their request, the newest number wins, nothing gathered is lost, no switched-off screen opens, suggestions meet the figures they were judged by |

Why these bounds: a stale pending step needs two questions and a third message; a
wrong code needs a second code; a code taken for another request needs two
questions and two codes; a turn under another's name needs two customers; a
double change needs `MaxChanges = 2`, the first forbidden count. Replacing the
wrong copy needs three documents under two names; deletion midway needs two
batches. A number cut by a chunk, released, refuted and followed by another needs
six symbols. An entry overwritten by an older answer needs two callers and an answer
slower than a tick; an answer for another situation, or another's, needs two of each.
A quiet batch before, inside and after the customer's time needs more months than two
batches of which the first is in detail. A suggestion cut off needs more products
than `MaxPicks` (three in the code), an ambiguous name two people whose names share a
part. A number taken for an amount needs a message that writes both; a mangled number
needs one that is a piece of another; a scaled amount two amounts that are 10^2 apart.
`CHECK_DEADLOCK` is off where the instances end: questions, codes, the clock and
one-shot uploads run out. Conversations do not end and have no such bound.

Runs that end in a violation, each a statement of the repository's own that the
code does not keep:

| Run | What is said | What happens |
|---|---|---|
| `moved_on` (MovedOn) | "the pending change is dropped -- never executed" (chat.py:3757) | moving on to a switched-off catalogue records no turn (chat.py:4184-4190), so a later yes executes the dropped change. The same when the classifier cannot be reached (4043-4049) |
| `own_screen` (OwnScreen) | each suggested product "keeps its own screen" (chat.py:3159-3160), "an unclear reply asked again keeps it" (3468) | asking again stores the offer without its screens (3973), and the pick that follows opens the generic one (3480) |

## 5. Further disagreements

Stated in a module and violated: name the property as the only one of a copy of the
run's cfg to see the trace.

| Property | Run's cfg | What is said, and what happens |
|---|---|---|
| `ChatTurn!ConsentBeforeChange` | MovedOn with `Faults <- ModelFaults` | "the exact values that will be saved are validated in it" (chat.py:4551): with the model down the question the customer sees is `LLM_DOWN_MESSAGE` (composer.py:279), and the step is pending all the same |
| `ReplyStream!ValuesStayAttached` | ReplyStream | "still attached to its label" (composer.py:6-7): the streamed path looks only whether the value is there (346) |
| `DocumentIndex!NewestCopyWins` | DocumentsCalm | re-uploading "replaces the old copy" (INTEGRATION.md:34): a slow older upload that finishes last removes the newer one (documents.py:96) |
| `DocumentIndex!CardsAreListed` | DocumentsCalm | one list of cards per uploaded document (product_cards.py:10): a build that ends after the deletion saves cards nothing will ever remove (documents.py:29) |
| `Feeds!CatalogueIsCurrent` | Feeds | a new product "shows up on its own" (catalogue.py): `load` in a worker thread stores its old list after `invalidate` (25), and it stays until the next upload |
| `MoneyPicture!EveryLossIsNamed` | MoneyPicture | a failure "only loses that part" and is listed (snapshot.py:3): one account of several that fails is left out and not named (111-116). The same of a list in a body nobody can read: `credit_cards` and `accounts` make `[]` of it (sources.py:34-39, 111-113), so the cards are neither known nor missing, although "owning one is known even when its summary is not" (snapshot.py:58) |
| `Details!OwnTransfersStayOwn`, `Details!DestinationIsKnown` | Conversation | an own-account destination comes from the customer's accounts, and without words about it the bot asks: what the model read, or an earlier turn left, can stand instead |
| `Offers!GuessIsAChoice` | Conversation (through `O!`) | the saved person the model found is a guess "always shown as a choice" (chat.py:4729-4731): by another way in it is used outright (3267-3314) |

Read from the code:

* One application switched off drops the whole offer of a recommendation
  (chat.py:3155), where the comment has each product judged on its own (3157-3160);
  saving a person who was offered does not look at the switch again (3946).
* `_amount_supported` says that it "Catches an invented or mis-scaled amount"
  (chat.py:1227): a phone number in the message passes for an amount, and so does 500
  read as 50000 (1221-1243).
* `_check_numbers` says that the classifier "cannot be allowed to make up or complete"
  a number (chat.py:1257-1258): any piece of the message's digits joined together passes
  (1270), and so does a value without digits or one that is not a string (1267). What
  passes overrides the number gathered before (1478); one that cannot be real is then
  dropped (893-907) and asked for again, the other stays until the customer sees it.
* `keep_warm` empties `_official_cache` before it fetches (live_rates.py:157): while
  the source is down the good answer that could have been kept is gone.
* Pictures (snapshot.py:122) and sessions (session.py:24) of customers who never come
  back are never dropped; market points and rankings are bounded (`CachesAreBounded`).
* `catalog._save` writes in place (catalog.py:19-21): killed inside, the registry
  does not parse and `fail_interrupted` stops the startup that INTEGRATION.md:35
  says marks unfinished indexing.
* A kill or a lost answer between storing chunks and marking the document leaves
  chunks that answer questions although the document is not ready
  (INTEGRATION.md:33).
* A disconnect before the audit line leaves a change unaudited (FR-SEC-03);
  `ChangesAreAudited` is for a connection that stays.
* The clarification of a voice message heard two ways writes no audit line,
  against audit.py:4-7.
* With the add form off, a refused login in the recipient lookup hands
  `_emit_outcome` a plain string (chat.py:4366) and the stream breaks off with
  neither done nor error (INTEGRATION.md:323).
* composer.py:307-308 says that after a bad number the rest comes from `compose()`;
  it does only when nothing had been sent (`SaidOnce`).

## 6. What is proved

For every value of the constants, under the named assumptions of the modules:

* **Session** (`SessionProofs`): `TypeOK`, `FreshAfterIdle`, `NothingForgottenEarly`,
  `ContextAnswersOpenQuestion` and the refinement `OpenQuestionSpec`. The invariant
  `IInv` ties each entry to the observer's conversation: an entry's last activity is
  the conversation's, its turns are the last of those said since it began, nothing
  in it is older. Without it a step cannot tell that an expired entry and a new
  conversation are the same event. The refinement maps a recorded turn to `Record`,
  a UI note to a stutter (it revives no turn: an expired entry is replaced), a tick
  to the lapse of the customers whose gap ends with it, a restart to everyone's.
* **DocumentIndex** (`DocumentIndexProofs`): `TypeOK`, `ReadyIsSearchable`,
  `OldCopyKept`, `IndexingIsLeftAlone`, `DeletedStaysDeleted` with any faults;
  `OneCopyPerFile` if nothing is killed; `SearchIsTheList` if moreover the store
  answers. `IInv` adds `LoopInv` to the first two: in the middle of publishing the
  document's chunks are stored, and what is being purged is already unlisted. The
  last two theorems add what a stretch still owes (`CopyInv`: the only second
  copies are those it has yet to replace; `ChunkInv`: the only unlisted chunks are
  those it has yet to purge).
* **ReplyStream** (`ReplyStreamProofs`): `TypeOK`, `SaidOnce`, `OnlySupported`,
  `ValuesReachTheCustomer` and `NumbersAreWhole`, for any alphabet, amount, drafts,
  chunking and length. `StreamInv` ties what is on the screen to what was released:
  the screen shows the released prefix without its leading white space (`Says`), the
  prefix ends where a piece may end (`WholePieces`), and no number of it is
  unsupported. That a later chunk changes none of this is about prefixes: a number
  lies between characters that are in no number, a piece ends at a separator with
  white space after it, so every number of the released prefix is a number of the
  longer text and the other way round. That a text without separators is its own plain
  form (`PlainOfDigits`) is proved by least counterexample, the induction the provers do
  accept; for this `Plain` is a recursive function.
* **MoneyPicture** (`MoneyPictureProofs`): `LostLoginEscapes`, `HeldCardsAreKnown`,
  `EveryMonthIsTold`. Each has an invariant of its own. `LoginInv`: once a call found
  the login gone, either the reading has ended in "login" or an account is still marked
  refused. `CardsInv`: once the list is read the cards are the owned ones, whatever
  becomes of summaries; a list that failed stays marked, one in an unreadable body gives
  owned cards only. `MonthsInv`: the months asked for are the latest ones, activity
  was seen within them, and when the asking ends nothing that moved is left unasked;
  the lemma `StopsBeforeTheirHistory` shows the last for any number of months and any
  batch.
* **Feeds** (`FeedsProofs`): `TypeOK`, `AnswersAreRecent`, `AnswersFit`,
  `ServicesAreThere`, `CachesAreBounded`, for any number of callers, keys and ages. An
  entry's own age says little; `IInv` says that the source was read no longer before
  it than a call may take, that it was made for the key and the situation it is kept
  under, and the same of each call still under way.
* **ChatTurn** (`ChatTurnProofs`): `TypeOK`, `TruthfulResult`, `StreamShape` with any
  faults; `ChangesAreAudited` if nothing disconnects or restarts;
  `ConsentBeforeChange`, `PendingIsBacked`, `ChangedAsShown` and the refinement
  `AuthorisedChangeSpec` if the composer reaches its model (`"model" \notin Faults`;
  section 5 says why). `IInv` gives each program counter what a turn there has done
  (`TurnGood`: what its report can say, whether its question has been shown, what its
  work is the consent to), and ties the pending step of the session to the question
  it came from (`Prompt`). All of it is about what has become of a question so far,
  and that only ever grows (`Grows`), so a step of one turn cannot spoil what another
  knows: the lemmas per action need only their own turn. The refinement maps
  composing a question to `Put` and `Show`, a yes or a code to `Agree` and `Permit`,
  the bank's act to `Change`, a restart or an end to `Lose`, the rest to stutters.

  Five more are of conversations in which each customer waits for a reply before
  writing again (`[]OneTabEach`; any number of customers at once), and nobody
  disconnects: `OneChangePerQuestion`, `CodeForItsOwnQuestion`, `StoredTokenIsGood` (if
  no token expires), `PromptStaysOpen` (without restarts and lapses, which close the
  step on purpose) and `NothingAfterRefusal`. The code needs each hypothesis: two tabs
  share a session by design (section 3), a disconnect between the bank's answer and
  the recording leaves the question open, and a turn that moved on is not recorded
  where the model is out of reach, the catalogue is off or a lookup is refused
  (`moved_on`; `CatalogueStaysOn`, `NoLookups`). The other faults stay allowed.
  `TabInv` says that the step a session waits for is live (its question was not
  carried out, and no other question's code went to that phone since) unless the
  customer's own turn is settling it, and the same of the step a turn works on;
  `LeftInv` that neither is one its customer refused or left. A step of another
  customer leaves both alone (`Aside`), a step of the same customer is the turn's own.
* **Conversation** (`ConversationProofs`, on the lemmas of `DetailsProofs`):
  `SuggestionsMeetTheirFigures`, `ApplyRespectsSwitch`, `DetailsAreTheirs`,
  `NewNumberWins`, `GatheredIsKept` and `TypeOK`, for any messages, services, people,
  products and whatever the model reads. `TypeOK` is inductive as it stands; its proof
  follows what a request holds through the same steps as the others (`PreferredTyped`,
  `GroundedTyped`, `OutcomesTyped`), and an offer through advice and the finding of a
  person (`AdviceIsTyped`, `FindIsTyped`). `OfferInv` says of the ranking behind "why
  these?" what the property says of the offer, since the one is made from the other
  turns later. The two about details follow a request through every step of a turn
  (`classify`, carrying over, the message's own words, the pickers, the checks, the
  question): each keeps `Theirs` (what the request holds is what the checks can read
  in the message, or was written about the same request) and `Newest` (a number the
  message gives of its own beats one carried over), and `DetailsInv` is what that
  leaves for the next turn. In the same way `Keeps` and `GatherInv` carry what was
  gathered: the amount stays or is one this message can be read as, the number stays
  when the message has no digits; for only missing details are asked for, and a number
  gathered has passed the checks that could drop it (`Stands`). Assumed, for the two
  about whose number it is: a stranger's number is not also that of an own account;
  and for the offers: the form that adds a person is not an application screen. Both
  hold of the bank's data.

Left to TLC: liveness (`EveryStreamEnds`, `ChangeIsReported`, `UploadsSettle`,
`ServicesCatchUp`), which is out of the prover's reach. Every other property of a
passing run is a theorem, under the hypotheses named above; the two runs that end in
a violation show where the code falls short of what it says.

## 7. Not modelled

The text side (prompts, wording, scoring, languages, dates, masking of numbers), the
building of URLs and bodies for the bank, the arithmetic of the ledger and of
statistics (pure functions of one picture), document chunking and search, speech and
vision, the frontend and the speech service: functions without state, input and
output, or external. `PROJECT.json` gives the reason for each.

## 8. Plan

1. Done: sessions, the chat turn, the document index, the composer, details and
   offers, the caches, the money picture, with proofs for each.
2. Done: theorems for every safety property of the runs.
3. `ChatTurn` with several tabs: how far a second tab can spoil a question (at most one
   change for each yes or code), as an invariant that needs no hypothesis on tabs.
4. Dates, the ledger and the merging of chunks as pure definitions against a
   reference over bounded inputs.
