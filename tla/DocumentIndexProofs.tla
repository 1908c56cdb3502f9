------------------------ MODULE DocumentIndexProofs ------------------------
(***************************************************************************)
(* The knowledge base, for any documents, files, faults and number of      *)
(* kills: a ready document can be found, an old copy goes only when a new  *)
(* one is there, and a deleted one stays deleted; while the process is not *)
(* killed, one copy of a file is ready, and while the store answers too,   *)
(* a search finds the ready documents and nothing else.                    *)
(***************************************************************************)
EXTENDS DocumentIndex, TLAPS

\* What the stretch being run by the event loop has established so far.
LoopInv ==
    /\ loop.doing = "publish" => loop.doc \in chunks /\ loop.left = {}
    /\ loop.doing = "purge" => loop.old \in Docs /\ catalog[loop.old] # "ready"
    /\ loop.doing = "idle" => loop.left = {}
    /\ loop.left # {} => loop.doc \in Docs /\ Ready(loop.doc)
    /\ \A o \in loop.left : /\ o # loop.doc
                            /\ job[o].file = job[loop.doc].file
                            /\ catalog[o] \in {"ready", "failed"}
    /\ \A d \in Docs : Ready(d) => At(d, "over")

IInv == TypeOK /\ ReadyIsSearchable /\ LoopInv

-----------------------------------------------------------------------------
\* The initial states have no ready document and an idle loop.
LEMMA InitIInv == Init => IInv
<1> SUFFICES ASSUME Init PROVE IInv
  OBVIOUS
<1> USE DocumentIndexAssumption
<1>1. TypeOK
  <2>1. job \in [Docs -> Job]
    <3>1. 0 \in 0..MaxBatches /\ 0 \in Nat
      OBVIOUS
    <3>2. ASSUME NEW f \in Files
          PROVE  [pc |-> "new", file |-> f, background |-> FALSE, keep |-> FALSE,
                  left |-> 0, seq |-> 0] \in Job
      BY <3>1, Zenon DEF Job
    <3> DEFINE New == {[pc |-> "new", file |-> f, background |-> FALSE, keep |-> FALSE,
                        left |-> 0, seq |-> 0] : f \in Files}
    <3>3. New \subseteq Job
      BY <3>2, Zenon
    <3>4. job \in [Docs -> New]
      BY Zenon DEF Init
    <3> HIDE DEF New
    <3> QED BY <3>3, <3>4
  <2>2. loop \in Loop
    BY DEF Init, Loop, Idle, Stretch
  <2>3. up \in BOOLEAN
    BY DEF Init
  <2> QED BY <2>1, <2>2, <2>3 DEF Init, TypeOK, Statuses, CardLists
<1>2. ReadyIsSearchable /\ LoopInv
  BY DEF Init, ReadyIsSearchable, LoopInv, Ready, Idle, Stretch
<1> QED BY <1>1, <1>2 DEF IInv

\* Every step keeps the types of the variables.
LEMMA NextKeepsTypes == TypeOK /\ [Next]_vars => TypeOK'
<1> SUFFICES ASSUME TypeOK, [Next]_vars PROVE TypeOK'
  OBVIOUS
<1> USE DocumentIndexAssumption
<1> USE DEF TypeOK
<1>1. ASSUME NEW d \in Docs, Upload(d) PROVE TypeOK'
  BY <1>1 DEF Upload, Statuses, Job, At
<1>2. ASSUME NEW d \in Docs, EmbedBatch(d) PROVE TypeOK'
  BY <1>2 DEF EmbedBatch, Job
<1>3. ASSUME NEW d \in Docs, Cancel(d) \/ EmbedFails(d) PROVE TypeOK'
  BY <1>3 DEF Cancel, EmbedFails, Failed, Updated, Goes, Job, Statuses
<1>4. ASSUME NEW d \in Docs, Store(d) PROVE TypeOK'
  BY <1>4 DEF Store, Goes, Job, Loop, Stretch
<1>5. ASSUME NEW d \in Docs, StoreFails(d) PROVE TypeOK'
  BY <1>5 DEF StoreFails, Failed, Updated, Goes, Job, Statuses
<1>6. ASSUME NEW d \in Docs, Publish(d) PROVE TypeOK'
  <2>1. Replaced(d) \subseteq Docs
    BY DEF Replaced
  <2>2. loop' \in Loop
    BY <1>6, <2>1 DEF Publish, Loop, Idle, Stretch
  <2>3. catalog' \in [Docs -> Statuses]
    BY <1>6 DEF Publish, Published, Updated, Statuses
  <2>4. job' \in [Docs -> Job]
    BY <1>6 DEF Publish, Goes, Job
  <2> QED BY <1>6, <2>2, <2>3, <2>4 DEF Publish
<1>7. ASSUME NEW d \in Docs, NEW old \in Docs, Replace(d, old) PROVE TypeOK'
  <2>1. loop' \in Loop
    BY <1>7 DEF Replace, Loop, Stretch
  <2>2. cards' \in [Docs -> CardLists]
    BY <1>7 DEF Replace, CardsReplaced, CardLists
  <2> QED BY <1>7, <2>1, <2>2 DEF Replace, Statuses
<1>8. ASSUME NEW d \in Docs, Purge(d) PROVE TypeOK'
  <2>1. loop' \in Loop
    BY <1>8 DEF Purge, Loop, Idle, Stretch
  <2> QED BY <1>8, <2>1 DEF Purge, Purged
<1>9. ASSUME NEW d \in Docs, Delete(d) PROVE TypeOK'
  BY <1>9 DEF Delete, Statuses, CardLists, Loop, Stretch
<1>10. ASSUME NEW d \in Docs, RebuildCards(d) PROVE TypeOK'
  BY <1>10 DEF RebuildCards
<1>11. ASSUME NEW d \in Docs, NEW list \in {"empty", "built"}, SaveCards(d, list)
       PROVE TypeOK'
  BY <1>11 DEF SaveCards, CardLists
<1>12. ASSUME Kill PROVE TypeOK'
  <2>1. job' \in [Docs -> Job]
    BY <1>12 DEF Kill, Job
  <2>2. loop' \in Loop
    BY <1>12 DEF Kill, Loop, Idle, Stretch
  <2>3. up' \in BOOLEAN
    BY <1>12, Zenon DEF Kill
  <2>4. kills' \in 0..MaxKills
    BY <1>12 DEF Kill
  <2> QED BY <1>12, <2>1, <2>2, <2>3, <2>4 DEF Kill
<1>13. ASSUME Start PROVE TypeOK'
  BY <1>13 DEF Start, Interrupted, Statuses
<1>14. CASE UNCHANGED vars
  BY <1>14 DEF vars
<1> QED
  BY <1>1, <1>2, <1>3, <1>4, <1>5, <1>6, <1>7, <1>8, <1>9, <1>10, <1>11,
     <1>12, <1>13, <1>14 DEF Next, CodeOf

\* Every step keeps what the stretch relies on: a document is stored before it is
\* published, and marked ready before the first old copy goes.
LEMMA NextKeepsIInv == IInv /\ [Next]_vars => IInv'
<1> SUFFICES ASSUME IInv, [Next]_vars PROVE (ReadyIsSearchable /\ LoopInv)'
  BY NextKeepsTypes DEF IInv
<1> USE DocumentIndexAssumption
<1> USE DEF IInv, ReadyIsSearchable, LoopInv, Ready, At
<1>t. catalog \in [Docs -> Statuses] /\ job \in [Docs -> Job] /\ loop \in Loop
  BY DEF TypeOK
<1>1. ASSUME NEW d \in Docs, Upload(d) PROVE (ReadyIsSearchable /\ LoopInv)'
  BY <1>1, <1>t DEF Upload, LoopIsFree, Job
<1>2. ASSUME NEW d \in Docs, EmbedBatch(d) PROVE (ReadyIsSearchable /\ LoopInv)'
  BY <1>2, <1>t DEF EmbedBatch, LoopIsFree, Job
<1>3. ASSUME NEW d \in Docs, Cancel(d) \/ EmbedFails(d)
      PROVE (ReadyIsSearchable /\ LoopInv)'
  BY <1>3, <1>t DEF Cancel, EmbedFails, Failed, Updated, LoopIsFree, Goes, Job
<1>4. ASSUME NEW d \in Docs, Store(d) PROVE (ReadyIsSearchable /\ LoopInv)'
  BY <1>4, <1>t DEF Store, Stretch, Goes, Job
<1>5. ASSUME NEW d \in Docs, StoreFails(d) PROVE (ReadyIsSearchable /\ LoopInv)'
  BY <1>5, <1>t DEF StoreFails, Failed, Updated, LoopIsFree, Goes, Job
<1>6. ASSUME NEW d \in Docs, Publish(d) PROVE (ReadyIsSearchable /\ LoopInv)'
  <2>1. /\ \A o \in Docs : catalog'[o] = IF o = d THEN "ready" ELSE catalog[o]
        /\ \A o \in Docs : /\ job'[o].file = job[o].file
                           /\ job'[o].pc = IF o = d THEN "over" ELSE job[o].pc
    BY <1>6, <1>t DEF Publish, Published, Updated, Wanted, Goes, Job
  <2>2. \A o \in Replaced(d) : /\ o \in Docs /\ o # d
                               /\ job[o].file = job[d].file
                               /\ catalog[o] \in {"ready", "failed"}
    BY <1>t DEF Replaced, Listed, Statuses
  <2>3. ReadyIsSearchable'
    BY <1>6, <2>1 DEF Publish
  <2>4. CASE Replaced(d) = {}
    BY <1>6, <2>1, <2>4 DEF Publish, Idle, Stretch
  <2>5. CASE Replaced(d) # {}
    <3>1. loop' = [doing |-> "replace", doc |-> d, old |-> Nothing, left |-> Replaced(d)]
      BY <1>6, <2>5 DEF Publish, Stretch
    <3> QED BY <3>1, <2>1, <2>2, <2>3
  <2> QED BY <2>3, <2>4, <2>5
<1>7. ASSUME NEW d \in Docs, NEW old \in Docs, Replace(d, old)
      PROVE (ReadyIsSearchable /\ LoopInv)'
  <2>1. loop' = [doing |-> "purge", doc |-> d, old |-> old, left |-> loop.left \ {old}]
    BY <1>7 DEF Replace, Stretch
  <2>2. \A o \in Docs : catalog'[o] = IF o = old THEN "unlisted" ELSE catalog[o]
    BY <1>7, <1>t DEF Replace
  <2>3. /\ old # d /\ loop.doc = d /\ loop.left # {} /\ loop.left \subseteq Docs
        /\ chunks' = chunks /\ job' = job
    BY <1>7, <1>t DEF Replace, Loop
  <2> QED BY <2>1, <2>2, <2>3
<1>8. ASSUME NEW d \in Docs, Purge(d) PROVE (ReadyIsSearchable /\ LoopInv)'
  <2>1. catalog[d] # "ready" /\ catalog' = catalog /\ job' = job
    BY <1>8 DEF Purge
  <2>2. chunks \ {d} \subseteq chunks'
    BY <1>8 DEF Purge, Purged
  <2>3. loop' = Idle \/ loop' = Stretch("replace", loop.doc, Nothing, loop.left)
    BY <1>8 DEF Purge
  <2> QED BY <2>1, <2>2, <2>3 DEF Idle, Stretch
<1>9. ASSUME NEW d \in Docs, Delete(d) PROVE (ReadyIsSearchable /\ LoopInv)'
  BY <1>9, <1>t DEF Delete, Stretch
<1>10. ASSUME NEW d \in Docs, RebuildCards(d) PROVE (ReadyIsSearchable /\ LoopInv)'
  BY <1>10 DEF RebuildCards
<1>11. ASSUME NEW d \in Docs, NEW list \in {"empty", "built"}, SaveCards(d, list)
       PROVE (ReadyIsSearchable /\ LoopInv)'
  BY <1>11 DEF SaveCards
<1>12. ASSUME Kill PROVE (ReadyIsSearchable /\ LoopInv)'
  BY <1>12, <1>t DEF Kill, Idle, Stretch, Job
<1>13. ASSUME Start PROVE (ReadyIsSearchable /\ LoopInv)'
  <2>1. \A o \in Docs : catalog'[o] = IF catalog[o] = "indexing" THEN "failed" ELSE catalog[o]
    BY <1>13, <1>t DEF Start, Interrupted
  <2>2. chunks' = chunks /\ job' = job /\ loop' = loop /\ loop.left \subseteq Docs
    BY <1>13, <1>t DEF Start, Loop
  <2> QED BY <2>1, <2>2
<1>14. CASE UNCHANGED vars
  BY <1>14 DEF vars
<1> QED
  BY <1>1, <1>2, <1>3, <1>4, <1>5, <1>6, <1>7, <1>8, <1>9, <1>10, <1>11,
     <1>12, <1>13, <1>14 DEF Next, CodeOf

\* The inductive invariant holds of every reachable state.
LEMMA SpecIInv == Spec => []IInv
BY InitIInv, NextKeepsIInv, PTL DEF Spec

\* The variables keep their types, for any set of documents.
THEOREM DocumentIndexTypeOK == Spec => []TypeOK
<1>1. IInv => TypeOK
  BY DEF IInv
<1> QED BY <1>1, SpecIInv, PTL

\* What is listed as ready can be found, whatever fails or is killed on the way.
THEOREM DocumentIndexReadyIsSearchable == Spec => []ReadyIsSearchable
<1>1. IInv => ReadyIsSearchable
  BY DEF IInv
<1> QED BY <1>1, SpecIInv, PTL

-----------------------------------------------------------------------------
\* A document's status changes only by its own upload, its deletion, another
\* copy being published, or a restart.
LEMMA StatusSteps ==
    ASSUME IInv, [Next]_vars, NEW d \in Docs
    PROVE  \/ catalog'[d] = catalog[d]
           \/ Listed(d) /\ ~Ready(d) /\ catalog'[d] = "failed"
           \/ Upload(d) \/ Publish(d) \/ Delete(d)
           \/ \E e \in Docs : Replace(e, d)
<1>t. catalog \in [Docs -> Statuses]
  BY DEF IInv, TypeOK
<1>1. ASSUME NEW e \in Docs, catalog' = Failed(e), At(e, "embedding")
      PROVE  catalog'[d] = catalog[d] \/ (Listed(d) /\ ~Ready(d) /\ catalog'[d] = "failed")
  BY <1>1, <1>t DEF Failed, Updated, IInv, LoopInv, At, Listed
<1>2. ASSUME NEW e \in Docs, EmbedFails(e) \/ StoreFails(e)
      PROVE  catalog'[d] = catalog[d] \/ (Listed(d) /\ ~Ready(d) /\ catalog'[d] = "failed")
  BY <1>1, <1>2 DEF EmbedFails, StoreFails
<1>3. ASSUME NEW e \in Docs, e # d, Upload(e) \/ Publish(e) \/ Delete(e)
      PROVE  catalog'[d] = catalog[d]
  BY <1>3, <1>t DEF Upload, Publish, Published, Updated, Delete
<1>4. ASSUME NEW e \in Docs, NEW old \in Docs, old # d, Replace(e, old)
      PROVE  catalog'[d] = catalog[d]
  BY <1>4, <1>t DEF Replace
<1>5. ASSUME NEW e \in Docs, EmbedBatch(e) \/ Cancel(e) \/ Store(e) \/ Purge(e) \/ RebuildCards(e)
      PROVE  catalog' = catalog
  BY <1>5 DEF EmbedBatch, Cancel, Store, Purge, RebuildCards
<1>6. ASSUME NEW e \in Docs, NEW list \in {"empty", "built"}, SaveCards(e, list)
      PROVE  catalog' = catalog
  BY <1>6 DEF SaveCards
<1>7. ASSUME Kill \/ UNCHANGED vars PROVE catalog' = catalog
  BY <1>7 DEF Kill, vars
<1>8. ASSUME Start
      PROVE  catalog'[d] = catalog[d] \/ (Listed(d) /\ ~Ready(d) /\ catalog'[d] = "failed")
  BY <1>8, <1>t DEF Start, Interrupted, Listed, Ready
<1> QED
  BY <1>2, <1>3, <1>4, <1>5, <1>6, <1>7, <1>8, Zenon DEF Next, CodeOf

\* A ready document goes only when it is deleted or another copy of its file is
\* ready and searchable (_publish replaces after it has stored).
THEOREM DocumentIndexOldCopyKept == Spec => OldCopyKept
<1>1. ASSUME IInv, [Next]_vars, NEW d \in Docs, Ready(d), ~Ready(d)'
      PROVE  \/ Delete(d)
             \/ \E e \in Docs : job[e].file = job[d].file /\ Ready(e)' /\ e \in chunks'
  <2>1. Delete(d) \/ \E e \in Docs : Replace(e, d)
    <3>1. ~Upload(d) /\ ~Publish(d)
      <4>1. ~Upload(d)
        BY <1>1 DEF IInv, LoopInv, At, Upload
      <4>2. ASSUME Publish(d) PROVE Ready(d)'
        BY <1>1, <4>2 DEF Publish, Published, Updated, Ready, IInv, TypeOK
      <4> QED BY <1>1, <4>1, <4>2
    <3> QED BY <1>1, <3>1, StatusSteps DEF Ready
  <2>2. ASSUME NEW e \in Docs, Replace(e, d)
        PROVE  job[e].file = job[d].file /\ Ready(e)' /\ e \in chunks'
    <3>1. /\ e = loop.doc /\ d \in loop.left /\ chunks' = chunks
          /\ catalog' = [catalog EXCEPT ![d] = "unlisted"]
      BY <2>2 DEF Replace
    <3>2. e # d /\ Ready(e) /\ e \in chunks /\ job[e].file = job[d].file
      BY <1>1, <3>1 DEF IInv, LoopInv, ReadyIsSearchable
    <3> QED BY <1>1, <3>1, <3>2 DEF Ready, IInv, TypeOK
  <2> QED BY <2>1, <2>2
<1>2. IInv /\ [Next]_vars => [\A d \in Docs : Ready(d) /\ ~Ready(d)' =>
         \/ Delete(d)
         \/ \E e \in Docs : job[e].file = job[d].file /\ Ready(e)' /\ e \in chunks']_vars
  BY <1>1
<1> QED BY <1>2, SpecIInv, PTL DEF Spec, OldCopyKept

\* Publishing a copy leaves those still being indexed alone (_publish's
\* "A copy still being indexed is never replaced").
THEOREM DocumentIndexIndexingIsLeftAlone == Spec => IndexingIsLeftAlone
<1>1. ASSUME IInv, [Next]_vars, NEW d \in Docs, catalog[d] = "indexing", ~Listed(d)'
      PROVE  Delete(d)
  <2>1. ~Upload(d) /\ ~Publish(d)
    <3>1. ASSUME Upload(d) PROVE Listed(d)'
      BY <1>1, <3>1 DEF Upload, Listed, IInv, TypeOK
    <3>2. ASSUME Publish(d) PROVE Listed(d)'
      BY <1>1, <3>2 DEF Publish, Published, Updated, Listed, IInv, TypeOK
    <3> QED BY <1>1, <3>1, <3>2
  <2>2. ASSUME NEW e \in Docs, Replace(e, d) PROVE FALSE
    BY <1>1, <2>2 DEF Replace, IInv, LoopInv
  <2> QED BY <1>1, <2>1, <2>2, StatusSteps DEF Listed
<1>2. IInv /\ [Next]_vars =>
        [\A d \in Docs : catalog[d] = "indexing" /\ ~Listed(d)' => Delete(d)]_vars
  BY <1>1
<1> QED BY <1>2, SpecIInv, PTL DEF Spec, IndexingIsLeftAlone

\* A document deleted while it was being indexed does not come back
\* (update_document and the look _index and _publish take first).
THEOREM DocumentIndexDeletedStaysDeleted == Spec => DeletedStaysDeleted
<1>1. ASSUME IInv, [Next]_vars, NEW d \in Docs,
             ~At(d, "new"), job[d].background, ~Listed(d)
      PROVE  ~Listed(d)'
  <2>1. ~Upload(d) /\ ~Publish(d) /\ ~Delete(d)
    BY <1>1 DEF Upload, Publish, Wanted, Delete
  <2>2. ASSUME NEW e \in Docs, Replace(e, d) PROVE ~Listed(d)'
    BY <1>1, <2>2 DEF Replace, Listed, IInv, TypeOK
  <2> QED BY <1>1, <2>1, <2>2, StatusSteps DEF Listed
<1>2. IInv /\ [Next]_vars =>
        [\A d \in Docs : ~At(d, "new") /\ job[d].background /\ ~Listed(d) => ~Listed(d)']_vars
  BY <1>1
<1> QED BY <1>2, SpecIInv, PTL DEF Spec, DeletedStaysDeleted

-----------------------------------------------------------------------------
(* Without a kill in the middle of a stretch. *)

\* Two ready copies of a file are never there but while one replaces the other.
CopyInv ==
    \A d, e \in Docs : Ready(d) /\ Ready(e) /\ job[d].file = job[e].file /\ d # e =>
        /\ loop.doing \in {"replace", "purge"}
        /\ (d = loop.doc /\ e \in loop.left) \/ (e = loop.doc /\ d \in loop.left)

\* A document keeps the file name it was uploaded with.
LEMMA FilesStay ==
    ASSUME TypeOK, [Next]_vars, NEW d \in Docs
    PROVE  job'[d].file = job[d].file
<1>t. job \in [Docs -> Job]
  BY DEF TypeOK
<1>1. ASSUME NEW e \in Docs, Upload(e) PROVE job'[d].file = job[d].file
  BY <1>1, <1>t DEF Upload, Job
<1>2. ASSUME NEW e \in Docs, NEW pc, Goes(e, pc) PROVE job'[d].file = job[d].file
  BY <1>2, <1>t DEF Goes, Job
<1>3. ASSUME NEW e \in Docs, Cancel(e) \/ EmbedFails(e) \/ Store(e) \/ StoreFails(e) \/ Publish(e)
      PROVE  job'[d].file = job[d].file
  BY <1>2, <1>3 DEF Cancel, EmbedFails, Store, StoreFails, Publish
<1>4. ASSUME NEW e \in Docs, EmbedBatch(e) PROVE job'[d].file = job[d].file
  BY <1>4, <1>t DEF EmbedBatch, Job
<1>5. ASSUME NEW e \in Docs, NEW old \in Docs, Replace(e, old) PROVE job'[d].file = job[d].file
  BY <1>5 DEF Replace
<1>6. ASSUME NEW e \in Docs, Purge(e) \/ Delete(e) \/ RebuildCards(e)
      PROVE  job'[d].file = job[d].file
  BY <1>6 DEF Purge, Delete, RebuildCards
<1>7. ASSUME NEW e \in Docs, NEW list \in {"empty", "built"}, SaveCards(e, list)
      PROVE  job'[d].file = job[d].file
  BY <1>7 DEF SaveCards
<1>8. ASSUME Start \/ UNCHANGED vars
      PROVE  job'[d].file = job[d].file
  BY <1>8 DEF Start, vars
<1>9. ASSUME Kill PROVE job'[d].file = job[d].file
  BY <1>9, <1>t DEF Kill, Job
<1> QED
  BY <1>1, <1>3, <1>4, <1>5, <1>6, <1>7, <1>8, <1>9, Zenon DEF Next, CodeOf

\* Which steps move the event loop, when the process is not killed.
LEMMA LoopSteps ==
    ASSUME "kill" \notin Faults, [Next]_vars
    PROVE  \/ loop' = loop
           \/ \E d \in Docs : Store(d) \/ Publish(d) \/ Purge(d) \/ Delete(d)
           \/ \E d, old \in Docs : Replace(d, old)
<1>1. ASSUME NEW d \in Docs, \/ Upload(d) \/ EmbedBatch(d) \/ Cancel(d) \/ EmbedFails(d)
                             \/ StoreFails(d) \/ RebuildCards(d)
      PROVE  loop' = loop
  BY <1>1 DEF Upload, EmbedBatch, Cancel, EmbedFails, StoreFails, RebuildCards
<1>2. ASSUME NEW d \in Docs, NEW list \in {"empty", "built"}, SaveCards(d, list)
      PROVE  loop' = loop
  BY <1>2 DEF SaveCards
<1>3. ASSUME Start \/ UNCHANGED vars PROVE loop' = loop
  BY <1>3 DEF Start, vars
<1>4. ~Kill
  BY DEF Kill
<1> QED BY <1>1, <1>2, <1>3, <1>4, Zenon DEF Next, CodeOf

\* Only publishing makes a document ready.
LEMMA OnlyPublishMakesReady ==
    ASSUME IInv, [Next]_vars, NEW d \in Docs, Ready(d)'
    PROVE  Ready(d) \/ Publish(d)
<1>1. ASSUME Upload(d) PROVE ~Ready(d)' \/ Ready(d)
  BY <1>1 DEF Upload, Ready, IInv, TypeOK
<1>2. ASSUME Delete(d) \/ \E e \in Docs : Replace(e, d) PROVE ~Ready(d)'
  BY <1>2 DEF Delete, Replace, Ready, IInv, TypeOK
<1> QED BY <1>1, <1>2, StatusSteps DEF Ready

\* Without a kill no step leaves two ready copies but those being sorted out.
LEMMA NextKeepsCopyInv ==
    ASSUME "kill" \notin Faults, IInv, CopyInv, [Next]_vars
    PROVE  CopyInv'
<1> SUFFICES ASSUME NEW d \in Docs, NEW e \in Docs, d # e,
                    Ready(d)', Ready(e)', job'[d].file = job'[e].file
             PROVE  /\ loop'.doing \in {"replace", "purge"}
                    /\ (d = loop'.doc /\ e \in loop'.left) \/ (e = loop'.doc /\ d \in loop'.left)
  BY DEF CopyInv
<1>f. job[d].file = job[e].file
  BY FilesStay DEF IInv
<1>1. ASSUME NEW f \in Docs, NEW g \in Docs, f # g, Publish(f), Ready(g)',
             job[f].file = job[g].file
      PROVE  loop'.doing = "replace" /\ loop'.doc = f /\ g \in loop'.left
  <2>1. Ready(g)
    <3>1. ~Publish(g)
      BY <1>1 DEF Publish
    <3> QED BY <1>1, <3>1, OnlyPublishMakesReady
  <2>2. g \in Replaced(f)
    BY <1>1, <2>1 DEF Replaced, Ready, Listed
  <2>3. loop' = Stretch("replace", f, Nothing, Replaced(f))
    BY <1>1, <2>2 DEF Publish
  <2> QED BY <2>2, <2>3 DEF Stretch
<1>2. CASE \E f \in Docs : Publish(f)
  <2>1. PICK f \in Docs : Publish(f)
    BY <1>2
  <2>2. CASE d = f
    BY <1>1, <1>f, <2>1, <2>2
  <2>3. CASE e = f
    BY <1>1, <1>f, <2>1, <2>3
  <2>4. CASE d # f /\ e # f
    <3>1. ~Publish(d) /\ ~Publish(e) /\ loop.doing = "publish"
      BY <2>1, <2>4 DEF Publish
    <3>2. Ready(d) /\ Ready(e)
      BY <3>1, OnlyPublishMakesReady
    <3> QED BY <1>f, <3>1, <3>2 DEF CopyInv
  <2> QED BY <2>2, <2>3, <2>4
<1>3. CASE ~ \E f \in Docs : Publish(f)
  <2>1. Ready(d) /\ Ready(e)
    BY <1>3, OnlyPublishMakesReady
  <2>2. /\ loop.doing \in {"replace", "purge"}
        /\ (d = loop.doc /\ e \in loop.left) \/ (e = loop.doc /\ d \in loop.left)
    BY <1>f, <2>1 DEF CopyInv
  <2>3. ASSUME NEW f \in Docs PROVE ~Store(f) /\ ~Delete(f)
    BY <2>2 DEF Store, Delete, LoopIsFree
  <2>4. ASSUME NEW f \in Docs, Purge(f)
        PROVE  loop' = Stretch("replace", loop.doc, Nothing, loop.left)
    BY <2>2, <2>4 DEF Purge
  <2>5. ASSUME NEW f \in Docs, NEW old \in Docs, Replace(f, old)
        PROVE  /\ loop' = Stretch("purge", loop.doc, old, loop.left \ {old})
               /\ d # old /\ e # old
    BY <2>5 DEF Replace, Ready, IInv, TypeOK
  <2>6. CASE loop' = loop
    BY <2>2, <2>6
  <2>7. CASE \E f \in Docs : Purge(f)
    BY <2>2, <2>4, <2>7 DEF Stretch
  <2>8. CASE \E f, old \in Docs : Replace(f, old)
    BY <2>2, <2>5, <2>8 DEF Stretch
  <2> QED BY <1>3, <2>3, <2>6, <2>7, <2>8, LoopSteps
<1> QED BY <1>2, <1>3

\* One ready copy of a file whenever the event loop is free, as long as the
\* process is not killed between publishing a copy and removing the old one.
THEOREM DocumentIndexOneCopyPerFile ==
    ASSUME "kill" \notin Faults PROVE Spec => []OneCopyPerFile
<1>1. Init => CopyInv
  BY DEF Init, CopyInv, Ready
<1>2. IInv /\ CopyInv /\ [Next]_vars => CopyInv'
  BY NextKeepsCopyInv
<1>3. CopyInv => OneCopyPerFile
  BY DEF CopyInv, OneCopyPerFile, LoopIsFree
<1> QED BY <1>1, <1>2, <1>3, SpecIInv, PTL DEF Spec

\* What the store holds is ready, or the document the loop is busy with.
ChunkInv ==
    \A d \in chunks : \/ Ready(d)
                      \/ loop.doing = "publish" /\ loop.doc = d
                      \/ loop.doing = "purge" /\ loop.old = d

\* Which steps change what the store holds, while it answers.
LEMMA ChunkSteps ==
    ASSUME "store" \notin Faults, [Next]_vars
    PROVE  chunks' = chunks \/ \E d \in Docs : Store(d) \/ Purge(d)
<1>1. ASSUME NEW d \in Docs, \/ Upload(d) \/ EmbedBatch(d) \/ Cancel(d) \/ EmbedFails(d)
                             \/ Publish(d) \/ Delete(d) \/ RebuildCards(d)
      PROVE  chunks' = chunks
  BY <1>1 DEF Upload, EmbedBatch, Cancel, EmbedFails, Publish, Delete, RebuildCards
<1>2. ASSUME NEW d \in Docs, NEW list \in {"empty", "built"}, SaveCards(d, list)
      PROVE  chunks' = chunks
  BY <1>2 DEF SaveCards
<1>3. ASSUME NEW d \in Docs, NEW old \in Docs, Replace(d, old) PROVE chunks' = chunks
  BY <1>3 DEF Replace
<1>4. ASSUME Start \/ Kill \/ UNCHANGED vars PROVE chunks' = chunks
  BY <1>4 DEF Start, Kill, vars
<1>5. ASSUME NEW d \in Docs PROVE ~StoreFails(d)
  BY DEF StoreFails
<1> QED BY <1>1, <1>2, <1>3, <1>4, <1>5, Zenon DEF Next, CodeOf

\* While the store answers and the process lives, nothing else is left behind.
LEMMA NextKeepsChunkInv ==
    ASSUME "kill" \notin Faults, "store" \notin Faults, IInv, ChunkInv, [Next]_vars
    PROVE  ChunkInv'
<1>1. CASE \E d \in Docs : Store(d)
  BY <1>1 DEF Store, LoopIsFree, ChunkInv, Ready, Stretch
<1>2. CASE \E d \in Docs : Purge(d)
  BY <1>2 DEF Purge, Purged, ChunkInv, Ready
<1>3. CASE chunks' = chunks /\ ~ \E d \in Docs : Store(d) \/ Purge(d)
  <2> SUFFICES ASSUME NEW d \in chunks
               PROVE  \/ Ready(d)'
                      \/ loop'.doing = "publish" /\ loop'.doc = d
                      \/ loop'.doing = "purge" /\ loop'.old = d
    BY <1>3 DEF ChunkInv
  <2>t. d \in Docs /\ catalog \in [Docs -> Statuses]
    BY DEF IInv, TypeOK
  <2>1. CASE Ready(d)
    <3>1. ~Upload(d)
      BY <2>1, <2>t DEF Upload, IInv, LoopInv, At
    <3>2. Publish(d) => Ready(d)'
      BY <2>t DEF Publish, Published, Updated, Wanted, Ready
    <3>3. Delete(d) => loop'.doing = "purge" /\ loop'.old = d
      BY DEF Delete, Stretch
    <3>4. ASSUME NEW e \in Docs, Replace(e, d) PROVE loop'.doing = "purge" /\ loop'.old = d
      BY <3>4 DEF Replace, Stretch
    <3> QED BY <2>1, <2>t, <3>1, <3>2, <3>3, <3>4, StatusSteps DEF Ready
  <2>2. CASE ~Ready(d)
    <3>1. \/ loop.doing = "publish" /\ loop.doc = d
          \/ loop.doing = "purge" /\ loop.old = d
      BY <2>2 DEF ChunkInv
    <3>2. CASE loop' = loop
      BY <3>1, <3>2
    <3>3. ASSUME NEW e \in Docs, Publish(e) PROVE Ready(d)'
      <4>1. e = d
        BY <3>1, <3>3 DEF Publish
      <4> QED BY <2>t, <3>3, <4>1 DEF Publish, Published, Updated, Wanted, Ready
    <3>4. ASSUME NEW e \in Docs PROVE ~Delete(e) /\ \A old \in Docs : ~Replace(e, old)
      BY <3>1 DEF Delete, LoopIsFree, Replace
    <3> QED BY <1>3, <3>2, <3>3, <3>4, LoopSteps
  <2> QED BY <2>1, <2>2
<1> QED BY <1>1, <1>2, <1>3, ChunkSteps

\* While the store answers and the process lives, a search answers from the ready
\* documents and from nothing else whenever the event loop is free.
THEOREM DocumentIndexSearchIsTheList ==
    ASSUME "kill" \notin Faults, "store" \notin Faults PROVE Spec => []SearchIsTheList
<1>1. Init => ChunkInv
  BY DEF Init, ChunkInv
<1>2. IInv /\ ChunkInv /\ [Next]_vars => ChunkInv'
  BY NextKeepsChunkInv
<1>3. IInv /\ ChunkInv => SearchIsTheList
  BY DEF IInv, TypeOK, ReadyIsSearchable, ChunkInv, SearchIsTheList, LoopIsFree
<1> QED BY <1>1, <1>2, <1>3, SpecIInv, PTL DEF Spec
=============================================================================
