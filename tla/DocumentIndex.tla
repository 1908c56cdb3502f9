--------------------------- MODULE DocumentIndex ---------------------------
(***************************************************************************)
(* The knowledge base: app/routes/documents.py with the registry           *)
(* (catalog.py), the product cards (knowledge/product_cards.py) and what   *)
(* they ask of the vector store.                                           *)
(*                                                                         *)
(* Every handler runs on one event loop, so what lies between two awaits   *)
(* is not interrupted by another handler.  It can be cut by a kill of the  *)
(* process, and a search in a worker thread (retrieve.py) can look in      *)
(* between: `loop` is the stretch being run, one step of it per effect     *)
(* outside the process.                                                    *)
(***************************************************************************)
EXTENDS Naturals

CONSTANTS
    Docs,           \* document ids, each given to one upload
    Files,          \* file names
    MaxBatches,     \* embedding batches a document needs, at most
    MaxKills,       \* bound: kills of the process
    Rebuilds,       \* an administrator also asks for cards to be built again
    Faults          \* of "store", "model", "kill"

None == "none"
Nothing == "nothing"    \* not a document, where a step is about no document

ASSUME DocumentIndexAssumption ==
    /\ MaxBatches \in Nat \ {0}
    /\ MaxKills \in Nat
    /\ Rebuilds \in BOOLEAN
    /\ Nothing \notin Docs
    /\ Faults \subseteq {"store", "model", "kill"}

VARIABLES
    catalog,        \* documents.json: the status of each listed document
    chunks,         \* the documents whose chunks the vector store holds
    cards,          \* product_cards.json
    job,            \* one upload: its coroutine
    building,       \* product-card tasks: <<document, what they will save>>
    loop,           \* the uninterrupted stretch the event loop is in
    up,             \* the process is running
    uploads,        \* history: uploads so far
    kills           \* bound: kills so far

vars == <<catalog, chunks, cards, job, building, loop,
          up, uploads, kills>>

Statuses == {"unlisted", "indexing", "ready", "failed"}
\* The cards of a document that had no chunks to build them from are "empty".
CardLists == {None, "empty", "built"}
Job == [pc : {"new", "embedding", "storing", "over"}, file : Files,
        background : BOOLEAN, keep : BOOLEAN, left : 0..MaxBatches,
        seq : Nat]
Loop == [doing : {"idle", "publish", "replace", "purge"}, doc : Docs \cup {Nothing},
         old : Docs \cup {Nothing}, left : SUBSET Docs]
Stretch(doing, doc, old, left) == [doing |-> doing, doc |-> doc, old |-> old, left |-> left]
Idle == Stretch("idle", Nothing, Nothing, {})

Init ==
    /\ catalog = [d \in Docs |-> "unlisted"]
    /\ chunks = {}
    /\ cards = [d \in Docs |-> None]
    /\ job \in [Docs -> {[pc |-> "new", file |-> f, background |-> FALSE, keep |-> FALSE,
                          left |-> 0, seq |-> 0] : f \in Files}]
    /\ building = {}
    /\ loop = Idle
    /\ up = TRUE
    /\ uploads = 0
    /\ kills = 0

-----------------------------------------------------------------------------
(* What the handlers ask of the registry and the cards.  (A definition that *)
(* ends in Instead is a way the code could have gone wrong.)                *)

Listed(d) == catalog[d] # "unlisted"
Ready(d) == catalog[d] = "ready"
LoopIsFree == up /\ loop.doing = "idle"
At(d, pc) == job[d].pc = pc
Goes(d, pc) == job' = [job EXCEPT ![d].pc = pc]

\* _index asks this before every batch and before storing; an upload that
\* answers when it is done is never called off.
WantedOnceInstead(d) == TRUE
Wanted(d) == job[d].background => Listed(d)

\* update_document, which leaves a removed document alone; an upload that answers
\* when it is done has no status yet, and is added when it is published.
Updated(d, status) == IF Listed(d) THEN [catalog EXCEPT ![d] = status] ELSE catalog
FailedUnlistedInstead(d) == [catalog EXCEPT ![d] = "failed"]
Failed(d) == Updated(d, "failed")
Published(d) == IF job[d].background THEN Updated(d, "ready")
                                     ELSE [catalog EXCEPT ![d] = "ready"]

\* The copies a document replaces when it is published.
ReplacesIndexingInstead(d) == {e \in Docs \ {d} : Listed(e) /\ job[e].file = job[d].file}
ReplacesNothingInstead(d) == {}
Replaced(d) == {e \in Docs \ {d} : /\ Listed(e)
                                   /\ job[e].file = job[d].file
                                   /\ catalog[e] # "indexing"}

\* product_cards.carry_over when the upload keeps the cards, remove otherwise.
CardsReplaced(old, d) ==
    IF job[d].keep /\ cards[old] # None
    THEN [cards EXCEPT ![old] = None, ![d] = cards[old]]
    ELSE [cards EXCEPT ![old] = None]

\* delete_by_doc_id; when the store fails the caller goes on without it.
Purged(d) == {chunks \ {d}} \cup (IF "store" \in Faults THEN {chunks} ELSE {})

-----------------------------------------------------------------------------
(* Uploads: upload_document, _index, _index_in_background, _publish. *)

Upload(d) ==
    /\ LoopIsFree /\ At(d, "new")
    /\ uploads' = uploads + 1
    /\ \E n \in 1..MaxBatches, background \in BOOLEAN, keep \in BOOLEAN :
        /\ job' = [job EXCEPT ![d] = [pc |-> "embedding", file |-> job[d].file,
                                      background |-> background, keep |-> keep,
                                      left |-> n, seq |-> uploads']]
        /\ catalog' = IF background THEN [catalog EXCEPT ![d] = "indexing"] ELSE catalog
    /\ UNCHANGED <<chunks, cards, building, loop, up, kills>>

\* The embeddings of a batch arrive and another batch is to be sent.
EmbedBatch(d) ==
    /\ LoopIsFree /\ At(d, "embedding") /\ job[d].left > 1 /\ Wanted(d)
    /\ job' = [job EXCEPT ![d].left = @ - 1]
    /\ UNCHANGED <<catalog, chunks, cards, building, loop,
                   up, uploads, kills>>

\* _Cancelled: the document was deleted since the last look.
Cancel(d) ==
    /\ LoopIsFree /\ At(d, "embedding") /\ ~Wanted(d)
    /\ Goes(d, "over")
    /\ UNCHANGED <<catalog, chunks, cards, building, loop,
                   up, uploads, kills>>

EmbedFails(d) ==
    /\ "model" \in Faults
    /\ LoopIsFree /\ At(d, "embedding")
    /\ catalog' = Failed(d)
    /\ Goes(d, "over")
    /\ UNCHANGED <<chunks, cards, building, loop, up,
                   uploads, kills>>

\* The last embeddings arrive: upsert_chunks, then _publish, with no await between.
Store(d) ==
    /\ LoopIsFree /\ At(d, "embedding") /\ job[d].left = 1 /\ Wanted(d)
    /\ chunks' = chunks \cup {d}
    /\ Goes(d, "storing")
    /\ loop' = Stretch("publish", d, Nothing, {})
    /\ UNCHANGED <<catalog, cards, building, up, uploads, kills>>

\* The store does not answer; it may have done what was asked.
StoreFails(d) ==
    /\ "store" \in Faults
    /\ LoopIsFree /\ At(d, "embedding") /\ job[d].left = 1 /\ Wanted(d)
    /\ chunks' \in {chunks, chunks \cup {d}}
    /\ catalog' = Failed(d)
    /\ Goes(d, "over")
    /\ UNCHANGED <<cards, building, loop, up, uploads, kills>>

\* _publish looks once more whether the document is listed; nothing can have
\* deleted it since Store, so it always is.
Publish(d) ==
    /\ up /\ loop.doing = "publish" /\ loop.doc = d
    /\ Wanted(d)
    /\ catalog' = Published(d)
    /\ building' = IF job[d].keep THEN building ELSE building \cup {<<d, "built">>}
    /\ loop' = IF Replaced(d) = {} THEN Idle
               ELSE Stretch("replace", d, Nothing, Replaced(d))
    /\ Goes(d, "over")
    /\ UNCHANGED <<chunks, cards, up, uploads, kills>>

Replace(d, old) ==
    /\ up /\ loop.doing = "replace" /\ loop.doc = d /\ old \in loop.left
    /\ catalog' = [catalog EXCEPT ![old] = "unlisted"]
    /\ cards' = CardsReplaced(old, d)
    /\ loop' = Stretch("purge", d, old, loop.left \ {old})
    /\ UNCHANGED <<chunks, job, building, up, uploads, kills>>

Purge(old) ==
    /\ up /\ loop.doing = "purge" /\ loop.old = old
    /\ chunks' \in Purged(old)
    /\ loop' = IF loop.left = {} THEN Idle
               ELSE Stretch("replace", loop.doc, Nothing, loop.left)
    /\ UNCHANGED <<catalog, cards, job, building, up,
                   uploads, kills>>

-----------------------------------------------------------------------------
(* Deleting a document, and its product cards. *)

Delete(d) ==
    /\ LoopIsFree /\ Listed(d)
    /\ catalog' = [catalog EXCEPT ![d] = "unlisted"]
    /\ cards' = [cards EXCEPT ![d] = None]
    /\ loop' = Stretch("purge", Nothing, d, {})
    /\ UNCHANGED <<chunks, job, building, up, uploads, kills>>

RebuildCards(d) ==
    /\ Rebuilds
    /\ LoopIsFree /\ Listed(d)
    /\ building' = building \cup {<<d, IF d \in chunks THEN "built" ELSE "empty">>}
    /\ UNCHANGED <<catalog, chunks, cards, job, loop, up,
                   uploads, kills>>

\* product_cards.save, when the model has read every product page.
SaveCards(d, list) ==
    /\ LoopIsFree /\ <<d, list>> \in building
    /\ cards' = [cards EXCEPT ![d] = list]
    /\ building' = building \ {<<d, list>>}
    /\ UNCHANGED <<catalog, chunks, job, loop, up, uploads, kills>>

-----------------------------------------------------------------------------
(* The process. *)

\* The registry is taken to be written whole or not at all (_save is an open and a
\* dump: a kill inside it is left out).
Kill ==
    /\ "kill" \in Faults /\ up /\ kills < MaxKills
    /\ kills' = kills + 1
    /\ up' = FALSE
    /\ job' = [d \in Docs |-> [job[d] EXCEPT !.pc = IF @ = "new" THEN "new" ELSE "over"]]
    /\ building' = {}
    /\ loop' = Idle
    /\ UNCHANGED <<catalog, chunks, cards, uploads>>

\* fail_interrupted, at startup.
InterruptedStaysInstead == catalog
InterruptedAllInstead == [d \in Docs |-> IF Listed(d) THEN "failed" ELSE "unlisted"]
InterruptedReadyInstead == [d \in Docs |-> IF Listed(d) THEN "ready" ELSE "unlisted"]
Interrupted == [d \in Docs |-> IF catalog[d] = "indexing" THEN "failed" ELSE catalog[d]]

Start ==
    /\ ~up
    /\ up' = TRUE
    /\ catalog' = Interrupted
    /\ UNCHANGED <<chunks, cards, job, building, loop,
                   uploads, kills>>

\* The code's own steps: it runs on, and everything it waits for has a timeout.
CodeOf(d) ==
    \/ EmbedBatch(d) \/ Cancel(d) \/ EmbedFails(d) \/ Store(d) \/ StoreFails(d)
    \/ Publish(d) \/ Purge(d)
    \/ \E old \in Docs : Replace(d, old)

Next ==
    \/ \E d \in Docs : Upload(d) \/ CodeOf(d) \/ Delete(d) \/ RebuildCards(d)
    \/ \E d \in Docs, list \in {"empty", "built"} : SaveCards(d, list)
    \/ Kill \/ Start

Spec == Init /\ [][Next]_vars
FairSpec == Spec /\ WF_vars(Start) /\ \A d \in Docs : WF_vars(CodeOf(d))

-----------------------------------------------------------------------------
(* What must hold. *)

\* The variables keep their types.
TypeOK ==
    /\ catalog \in [Docs -> Statuses]
    /\ chunks \subseteq Docs
    /\ cards \in [Docs -> CardLists]
    /\ job \in [Docs -> Job]
    /\ building \subseteq Docs \X {"empty", "built"}
    /\ loop \in Loop
    /\ up \in BOOLEAN
    /\ uploads \in Nat
    /\ kills \in 0..MaxKills

\* A document listed as ready can be found by a search, whatever failed or was
\* killed on the way (_publish marks it after upsert_chunks, and every removal
\* takes the listing first).
ReadyIsSearchable == \A d \in Docs : Ready(d) => d \in chunks

\* Where neither the store nor the process fails, the event loop never lets go
\* while a search could answer from anything but the ready documents: an upload
\* deleted midway, replaced or called off leaves nothing behind.
SearchIsTheList == LoopIsFree => chunks = {d \in Docs : Ready(d)}

\* Nor while two ready copies of one file would answer everything twice.
OneCopyPerFile ==
    LoopIsFree => \A d, e \in Docs :
        Ready(d) /\ Ready(e) /\ job[d].file = job[e].file => d = e

\* A ready document goes only because it is deleted, or because another copy of
\* the same file is ready and searchable: a failed upload, a kill or a deletion
\* of the upload never leaves the knowledge base without it.
OldCopyKept == [][\A d \in Docs : Ready(d) /\ ~Ready(d)' =>
                      \/ Delete(d)
                      \/ \E e \in Docs : job[e].file = job[d].file /\ Ready(e)' /\ e \in chunks']_vars

\* A document still being indexed loses its listing only when it is deleted:
\* publishing another copy of the file leaves it alone.
IndexingIsLeftAlone == [][\A d \in Docs : catalog[d] = "indexing" /\ ~Listed(d)' => Delete(d)]_vars

\* A document deleted while it was being indexed does not come back, ready or
\* failed, when its upload ends.
DeletedStaysDeleted ==
    [][\A d \in Docs : ~At(d, "new") /\ job[d].background /\ ~Listed(d) => ~Listed(d)']_vars

\* An upload answered "indexing" ends ready or failed (or deleted), also when
\* the process is killed under it.
UploadsSettle == \A d \in Docs : (catalog[d] = "indexing") ~> (catalog[d] # "indexing")

-----------------------------------------------------------------------------
(* What a document or a docstring says, and the code does not do. *)

\* INTEGRATION.md: re-uploading a file replaces the old copy.
NewestCopyWins == [][\A d, e \in Docs : Replace(d, e) => job[e].seq < job[d].seq]_vars

\* product_cards.py: one list of cards per uploaded document.
CardsAreListed == LoopIsFree => \A d \in Docs : cards[d] # None => Listed(d)
=============================================================================
