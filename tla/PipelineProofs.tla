--------------------------- MODULE PipelineProofs ---------------------------
(***************************************************************************)
(* What the pipeline keeps whatever the number of workers, articles,       *)
(* chunks, requests and restarts; and, in the second half, what a pool of  *)
(* one worker keeps.                                                       *)
(*                                                                         *)
(* The theorems of the first half come from one inductive invariant, the   *)
(* conjunction of TypeOK, RowsConsistent and NoLostWakeup with JobHeld:    *)
(* without it a worker that takes a new snapshot might forget an article   *)
(* it was still responsible for, and NoLostWakeup would not be inductive.  *)
(***************************************************************************)
EXTENDS Pipeline, FiniteSetTheorems, TLAPS

\* A worker between jobs holds none.
JobHeld == \A w \in Workers : pc[w] \in {"idle", "list", "next"} => job[w] = NoJob

-----------------------------------------------------------------------------
(* The store's writes keep a row a row *)

\* The chunks of a text are chunks.
LEMMA ChunksType ==
  ASSUME NEW content \in Contents
  PROVE  ChunksOf(content) \in SUBSET Chunks
<1>1. CASE content = 0
  BY <1>1 DEF ChunksOf
<1>2. CASE content \in Texts
  <2>1. Length[content] \in 1 .. NChunks
    BY <1>2, PipelineAssumption DEF Texts
  <2> QED BY <2>1, PipelineAssumption DEF ChunksOf, Chunks
<1> QED BY <1>1, <1>2 DEF Contents

\* What an enrichment covers of a text is a coverage, and no more than it covers.
LEMMA CoverageType ==
  ASSUME NEW b \in SUBSET Mark, NEW content \in Contents
  PROVE  /\ sentenceCoverage(b, content) \in Coverage
         /\ sentenceCoverage(b, content).part \subseteq Covered(b)
BY ChunksType DEF sentenceCoverage, Coverage, NoCoverage

\* Merging keeps an enrichment one, and covers what either side covers.
LEMMA MergeCovers ==
  ASSUME NEW b \in SUBSET Mark, NEW c \in SUBSET Mark
  PROVE  /\ mergeEnrichment(b, c) \in SUBSET Mark
         /\ Covered(mergeEnrichment(b, c)) = Covered(b) \union Covered(c)
<1>1. mergeEnrichment(b, c) \in SUBSET Mark
  BY DEF mergeEnrichment
<1>2. Covered(mergeEnrichment(b, c)) \subseteq Covered(b) \union Covered(c)
  BY DEF mergeEnrichment, Covered
<1>3. ASSUME NEW x \in Covered(b) \union Covered(c)
      PROVE  x \in Covered(mergeEnrichment(b, c))
  BY <1>3 DEF mergeEnrichment, Covered
<1> QED BY <1>1, <1>2, <1>3

\* Without an enrichment nothing is covered.
LEMMA NothingCovered == \A content : sentenceCoverage({}, content) = NoCoverage
BY DEF sentenceCoverage, Covered

\* Each write of a status, a text or an enrichment leaves a row.
LEMMA RowWrites ==
  ASSUME NEW r \in Row
  PROVE  /\ \A s \in Statuses : SetStatus(r, s) \in Row /\ SetFailed(r, s) \in Row
         /\ \A content \in Contents : SaveContent(r, content) \in Row
         /\ \A b \in SUBSET Mark : /\ SaveEnrichment(r, b) \in Row
                                   /\ SaveEnrichmentProgress(r, b) \in Row
         /\ RetryArticle(r) \in Row
         /\ \A v \in Nat : RequeueForVersion(r, v) \in Row
         /\ ReEnrichFull(r) \in Row
         /\ ReEnrichTopup(r) \in Row
<1>1. "queued" \in Statuses /\ "fetched" \in Statuses
      /\ "enriched" \in Statuses /\ "topup_queued" \in Statuses
  BY DEF Statuses, LiveStatuses, WorkStatuses, RestStatuses
<1>2. QueueByContent(r) \in Statuses
  BY <1>1 DEF QueueByContent
<1>3. \A s \in Statuses : SetStatus(r, s) \in Row /\ SetFailed(r, s) \in Row
  BY DEF SetStatus, SetFailed, Row
<1>4. \A content \in Contents : SaveContent(r, content) \in Row
  BY <1>1 DEF SaveContent, Row
<1>5. ASSUME NEW b \in SUBSET Mark
      PROVE  SaveEnrichment(r, b) \in Row /\ SaveEnrichmentProgress(r, b) \in Row
  <2>1. sentenceCoverage(b, r.content) \in Coverage
    BY CoverageType DEF Row
  <2> QED BY <1>1, <2>1 DEF SaveEnrichment, SaveEnrichmentProgress, Row
<1>6. RetryArticle(r) \in Row
  BY <1>2 DEF RetryArticle, Row
<1>7. \A v \in Nat : RequeueForVersion(r, v) \in Row
  BY <1>2 DEF RequeueForVersion, Row, NoCoverage, Coverage
<1>8. ReEnrichFull(r) \in Row /\ ReEnrichTopup(r) \in Row
  BY <1>1 DEF ReEnrichFull, ReEnrichTopup, Row, NoCoverage, Coverage
<1> QED BY <1>3, <1>4, <1>5, <1>6, <1>7, <1>8

\* An empty row is a row.
LEMMA NoRowType ==
  ASSUME NEW s \in Statuses, NEW born \in Nat
  PROVE  NoRow(s, born) \in Row
BY DEF NoRow, Row, NoCoverage, Coverage, Contents

\* A write reaches one article, and only while it lives.
LEMMA StoreWrites ==
  ASSUME row \in [Articles -> Row], NEW a \in Articles, NEW r \in Row, Store(a, r)
  PROVE  /\ row' \in [Articles -> Row]
         /\ Live(a) => row'[a] = r
         /\ ~Live(a) => row' = row
         /\ \A b \in Articles \ {a} : row'[b] = row[b]
BY DEF Store

-----------------------------------------------------------------------------
(* Type correctness *)

\* The part of TypeOK about what a worker holds in memory.
LocalsOK ==
  /\ pc \in [Workers -> Labels]
  /\ batch \in [Workers -> SUBSET Snapshot]
  /\ full \in [Workers -> BOOLEAN]
  /\ job \in [Workers -> Job \union {NoJob}]
  /\ \A w \in Workers :
       pc[w] \notin {"idle", "list", "next"} => job[w] \in Job
  /\ running \in [Workers -> SUBSET Mark]
  /\ at \in [Workers -> Nat]
  /\ failed \in [Workers -> BOOLEAN]

\* What an answer holds are marks.
LEMMA TranslationsType ==
  ASSUME TypeOK, NEW w \in Workers, job[w] \in Job,
         NEW clean \in SUBSET Translations(w)
  PROVE  clean \in SUBSET Mark
BY ChunksType DEF TypeOK, Translations, Translated, Mark, Job

\* Returning from processArticle leaves the locals in order.
LEMMA EndJobType ==
  ASSUME LocalsOK, NEW w \in Workers, EndJob(w)
  PROVE  LocalsOK'
BY DEF LocalsOK, EndJob, Goto, Labels

\* Going on to another label with a job in hand does too.
LEMMA GotoType ==
  ASSUME LocalsOK, NEW w \in Workers, job[w] \in Job, NEW label \in Labels,
         Goto(w, label), UNCHANGED local
  PROVE  LocalsOK'
BY DEF LocalsOK, Goto, local

\* Rows stay rows, and what a worker holds keeps its type, when it drains.
LEMMA DrainType ==
  ASSUME TypeOK, NEW w \in Workers, Drain(w)
  PROVE  TypeOK'
<1> USE PipelineAssumption DEF TypeOK, outside
<1>1. CASE Wake(w)
  BY <1>1 DEF Wake, Goto, Labels, local
<1>2. CASE List(w)
  <2>1. PICK ids \in SUBSET Articles :
          /\ IsBatch(ids)
          /\ batch' = [batch EXCEPT ![w] = {SnapshotOf(a) : a \in ids}]
          /\ full' = [full EXCEPT ![w] = Cardinality(ids) = BatchSize]
          /\ Goto(w, IF ids = {} THEN "idle" ELSE "next")
          /\ deferred' = deferred \ ids
    BY <1>2 DEF List
  <2>2. \A a \in ids : SnapshotOf(a) \in Snapshot
    <3>1. \A a \in ids : row[a] \in Row /\ row[a].status \in WorkStatuses
      BY <2>1 DEF IsBatch, ListedStatuses, WorkStatuses
    <3> QED BY <3>1 DEF SnapshotOf, Snapshot, Row
  <2>3. batch' \in [Workers -> SUBSET Snapshot]
    BY <2>1, <2>2
  <2>4. full' \in [Workers -> BOOLEAN]
    BY <2>1
  <2>5. pc' \in [Workers -> Labels] /\ pc'[w] \in {"idle", "next"}
    BY <2>1 DEF Goto, Labels
  <2>6. \A v \in Workers : pc'[v] \notin {"idle", "list", "next"} => job'[v] \in Job
    BY <1>2, <2>1, <2>5 DEF List, Goto
  <2> QED BY <1>2, <2>1, <2>3, <2>4, <2>5, <2>6 DEF List
<1>3. CASE Take(w)
  <2>1. PICK s \in batch[w] :
          /\ batch' = [batch EXCEPT ![w] = @ \ {s}]
          /\ job' = [job EXCEPT ![w] = [id |-> s.id, content |-> s.content]]
          /\ Goto(w, Stage(s.status))
    BY <1>3 DEF Take
  <2>2. [id |-> s.id, content |-> s.content] \in Job
    BY DEF Snapshot, Job
  <2>3. Stage(s.status) \in Labels
    BY DEF Stage, Labels
  <2>4. job' \in [Workers -> Job \union {NoJob}] /\ job'[w] \in Job
    BY <2>1, <2>2
  <2>5. pc' \in [Workers -> Labels]
    BY <2>1, <2>3 DEF Goto
  <2>6. \A v \in Workers : pc'[v] \notin {"idle", "list", "next"} => job'[v] \in Job
    BY <2>1, <2>4 DEF Goto
  <2>7. batch' \in [Workers -> SUBSET Snapshot]
    BY <2>1
  <2> QED BY <1>3, <2>4, <2>5, <2>6, <2>7 DEF Take
<1>4. CASE EndBatch(w)
  BY <1>4 DEF EndBatch, Goto, Labels
<1> QED BY <1>1, <1>2, <1>3, <1>4 DEF Drain

\* And when it fetches.
LEMMA FetchType ==
  ASSUME TypeOK, NEW w \in Workers, Fetch(w)
  PROVE  TypeOK'
<1> USE DEF outside
<1>1. LocalsOK
  BY DEF TypeOK, LocalsOK
<1>2. job[w] \in Job /\ job[w].id \in Articles
  BY DEF TypeOK, Fetch, BeginFetch, AnswerFetch, SaveFetched, FailFetch, TimeOutFetch, Job
<1>3. row[job[w].id] \in Row
  BY <1>2 DEF TypeOK
<1>4. CASE BeginFetch(w)
  <2>1. "fetching" \in Statuses /\ "extract" \in Labels
    BY DEF Statuses, LiveStatuses, WorkStatuses, Labels
  <2>2. row' \in [Articles -> Row]
    BY <1>2, <1>3, <1>4, <2>1, RowWrites, StoreWrites DEF BeginFetch, TypeOK
  <2>3. LocalsOK'
    BY <1>1, <1>2, <1>4, <2>1, GotoType DEF BeginFetch
  <2> QED BY <1>4, <2>2, <2>3 DEF BeginFetch, TypeOK, LocalsOK
<1>5. CASE SaveFetched(w)
  <2>1. PICK text \in Texts :
          /\ Store(job[w].id, SaveContent(row[job[w].id], text))
          /\ IF Live(job[w].id)
             THEN /\ Goto(w, "enrich")
                  /\ job' = [job EXCEPT ![w].content = text]
                  /\ UNCHANGED <<batch, full, running, at, failed>>
             ELSE EndJob(w)
    BY <1>5 DEF SaveFetched
  <2>2. text \in Contents
    BY DEF Contents
  <2>3. row' \in [Articles -> Row]
    BY <1>2, <1>3, <2>1, <2>2, RowWrites, StoreWrites DEF TypeOK
  <2>4. LocalsOK'
    <3>1. CASE Live(job[w].id)
      <4>1. job' \in [Workers -> Job \union {NoJob}] /\ job'[w] \in Job
        BY <1>1, <1>2, <2>1, <2>2, <3>1 DEF LocalsOK, Job
      <4> QED BY <1>1, <2>1, <3>1, <4>1 DEF LocalsOK, Goto, Labels
    <3>2. CASE ~Live(job[w].id)
      BY <1>1, <2>1, <3>2, EndJobType
    <3> QED BY <3>1, <3>2
  <2> QED BY <1>5, <2>3, <2>4 DEF SaveFetched, TypeOK, LocalsOK
<1>6. CASE FailFetch(w)
  <2>1. {"fetch_failed", "blocked"} \subseteq Statuses
    BY DEF Statuses, LiveStatuses, RestStatuses
  <2>2. row' \in [Articles -> Row]
    BY <1>2, <1>3, <1>6, <2>1, RowWrites, StoreWrites DEF FailFetch, TypeOK
  <2>3. LocalsOK'
    BY <1>1, <1>6, EndJobType DEF FailFetch
  <2> QED BY <1>6, <2>2, <2>3 DEF FailFetch, TypeOK, LocalsOK
<1>7. CASE TimeOutFetch(w)
  <2>1. LocalsOK'
    BY <1>1, <1>7, EndJobType DEF TimeOutFetch
  <2> QED BY <1>2, <1>7, <2>1 DEF TimeOutFetch, TypeOK, LocalsOK
<1> QED BY <1>4, <1>5, <1>6, <1>7 DEF Fetch, AnswerFetch

\* And when it enriches.
LEMMA EnrichType ==
  ASSUME TypeOK, NEW w \in Workers, Enrich(w)
  PROVE  TypeOK'
<1> USE DEF outside
<1>1. LocalsOK
  BY DEF TypeOK, LocalsOK
<1>2. /\ job[w] \in Job /\ job[w].id \in Articles /\ job[w].content \in Contents
      /\ running[w] \in SUBSET Mark
  BY DEF TypeOK, Enrich, BeginEnrich, LoadExisting, SaveChunk, FailChunk, FinishEnrich, Job
<1>3. row[job[w].id] \in Row
  BY <1>2 DEF TypeOK
<1>4. CASE BeginEnrich(w)
  <2>1. "enriching" \in Statuses /\ "load" \in Labels
    BY DEF Statuses, LiveStatuses, WorkStatuses, Labels
  <2>2. row' \in [Articles -> Row]
    BY <1>2, <1>3, <1>4, <2>1, RowWrites, StoreWrites DEF BeginEnrich, TypeOK
  <2>3. LocalsOK'
    BY <1>1, <1>2, <1>4, <2>1, GotoType DEF BeginEnrich
  <2> QED BY <1>4, <2>2, <2>3 DEF BeginEnrich, TypeOK, LocalsOK
<1>5. CASE LoadExisting(w)
  <2>1. row[job[w].id].blob \in SUBSET Mark
    BY <1>3 DEF Row
  <2> QED BY <1>2, <1>5, <2>1 DEF LoadExisting, TypeOK, Goto, Labels
<1>6. CASE SaveChunk(w)
  <2>1. PICK c \in Chunks :
          \E clean \in SUBSET Translations(w) : PersistChunk(w, c, clean)
    BY <1>6 DEF SaveChunk
  <2>2. PICK clean \in SUBSET Translations(w) : PersistChunk(w, c, clean)
    BY <2>1
  <2> DEFINE merged == mergeEnrichment(running[w], clean)
  <2>3. clean \in SUBSET Mark
    BY <1>2, TranslationsType
  <2>4. merged \in SUBSET Mark
    BY <1>2, <2>3, MergeCovers
  <2>5. c + 1 \in Nat
    BY PipelineAssumption DEF Chunks
  <2> HIDE DEF merged
  <2>6. row' \in [Articles -> Row]
    BY <1>2, <1>3, <2>2, <2>4, RowWrites, StoreWrites
       DEF PersistChunk, TypeOK, merged
  <2>7. LocalsOK'
    <3>1. CASE Live(job[w].id)
      BY <1>1, <2>2, <2>4, <2>5, <3>1 DEF PersistChunk, LocalsOK, merged
    <3>2. CASE ~Live(job[w].id)
      BY <1>1, <2>2, <3>2, EndJobType DEF PersistChunk
    <3> QED BY <3>1, <3>2
  <2> QED BY <1>6, <2>6, <2>7 DEF SaveChunk, TypeOK, LocalsOK
<1>7. CASE FailChunk(w)
  <2>1. at' \in [Workers -> Nat]
    BY <1>1, <1>7, PipelineAssumption DEF FailChunk, Chunks, LocalsOK
  <2> QED BY <1>7, <2>1 DEF FailChunk, TypeOK
<1>8. CASE FinishEnrich(w)
  <2>1. "enrich_failed" \in Statuses
    BY DEF Statuses, LiveStatuses, RestStatuses
  <2>2. row' \in [Articles -> Row]
    BY <1>2, <1>3, <1>8, <2>1, RowWrites, StoreWrites DEF FinishEnrich, TypeOK
  <2>3. LocalsOK'
    BY <1>1, <1>8, EndJobType DEF FinishEnrich
  <2> QED BY <1>8, <2>2, <2>3 DEF FinishEnrich, TypeOK, LocalsOK
<1> QED BY <1>4, <1>5, <1>6, <1>7, <1>8 DEF Enrich

\* And when it tops up.
LEMMA TopUpType ==
  ASSUME TypeOK, NEW w \in Workers, TopUp(w)
  PROVE  TypeOK'
<1> USE DEF outside
<1>1. LocalsOK
  BY DEF TypeOK, LocalsOK
<1>2. /\ job[w] \in Job /\ job[w].id \in Articles /\ job[w].content \in Contents
      /\ running[w] \in SUBSET Mark
  BY DEF TypeOK, TopUp, LoadTopUp, RestoreEnriched, BeginTopUp, FillGaps, FailTopUp,
         TimeOutTopUp, Job
<1>3. row[job[w].id] \in Row
  BY <1>2 DEF TypeOK
<1>4. CASE LoadTopUp(w)
  <2> DEFINE content == IF job[w].content # 0 THEN job[w].content
                                              ELSE row[job[w].id].content
             gaps == ChunksOf(content) \ Covered(row[job[w].id].blob)
  <2>1. content \in Contents /\ row[job[w].id].blob \in SUBSET Mark
    BY <1>2, <1>3 DEF Row
  <2>2. CASE Live(job[w].id)
    <3>1. /\ running' = [running EXCEPT ![w] = row[job[w].id].blob]
          /\ job' = [job EXCEPT ![w].content = content]
          /\ Goto(w, IF gaps = {} THEN "restore" ELSE "gaps")
          /\ UNCHANGED <<batch, full, at, failed>>
      BY <1>4, <2>2 DEF LoadTopUp
    <3> HIDE DEF content, gaps
    <3>2. job' \in [Workers -> Job \union {NoJob}] /\ job'[w] \in Job
      BY <1>1, <1>2, <2>1, <3>1 DEF LocalsOK, Job
    <3>3. pc' \in [Workers -> Labels]
      BY <1>1, <3>1 DEF LocalsOK, Goto, Labels
    <3>4. \A v \in Workers : pc'[v] \notin {"idle", "list", "next"} => job'[v] \in Job
      BY <1>1, <3>1, <3>2 DEF LocalsOK, Goto
    <3> QED BY <1>4, <2>1, <3>1, <3>2, <3>3, <3>4 DEF LoadTopUp, TypeOK
  <2>3. CASE ~Live(job[w].id)
    <3>1. EndJob(w)
      BY <1>4, <2>3 DEF LoadTopUp
    <3> QED BY <1>1, <1>4, <3>1, EndJobType DEF LoadTopUp, TypeOK, LocalsOK
  <2> QED BY <2>2, <2>3
<1>5. CASE RestoreEnriched(w)
  <2>1. row' \in [Articles -> Row]
    BY <1>2, <1>3, <1>5, RowWrites, StoreWrites DEF RestoreEnriched, TypeOK
  <2>2. LocalsOK'
    BY <1>1, <1>5, EndJobType DEF RestoreEnriched
  <2> QED BY <1>5, <2>1, <2>2 DEF RestoreEnriched, TypeOK, LocalsOK
<1>6. CASE BeginTopUp(w)
  <2>1. "enriching" \in Statuses /\ "fill" \in Labels
    BY DEF Statuses, LiveStatuses, WorkStatuses, Labels
  <2>2. row' \in [Articles -> Row]
    BY <1>2, <1>3, <1>6, <2>1, RowWrites, StoreWrites DEF BeginTopUp, TypeOK
  <2>3. LocalsOK'
    BY <1>1, <1>2, <1>6, <2>1, GotoType DEF BeginTopUp
  <2> QED BY <1>6, <2>2, <2>3 DEF BeginTopUp, TypeOK, LocalsOK
<1>7. CASE FillGaps(w)
  <2>1. PICK clean \in SUBSET Translations(w) :
          Store(job[w].id,
                SaveEnrichment(row[job[w].id], mergeEnrichment(running[w], clean)))
    BY <1>7 DEF FillGaps
  <2>2. clean \in SUBSET Mark
    BY <1>2, TranslationsType
  <2>3. mergeEnrichment(running[w], clean) \in SUBSET Mark
    BY <1>2, <2>2, MergeCovers
  <2>4. row' \in [Articles -> Row]
    BY <1>2, <1>3, <2>1, <2>3, RowWrites, StoreWrites DEF TypeOK
  <2>5. LocalsOK'
    BY <1>1, <1>7, EndJobType DEF FillGaps
  <2> QED BY <1>7, <2>4, <2>5 DEF FillGaps, TypeOK, LocalsOK
<1>8. CASE FailTopUp(w)
  <2>1. "enrich_failed" \in Statuses
    BY DEF Statuses, LiveStatuses, RestStatuses
  <2>2. row' \in [Articles -> Row]
    BY <1>2, <1>3, <1>8, <2>1, RowWrites, StoreWrites DEF FailTopUp, TypeOK
  <2>3. LocalsOK'
    BY <1>1, <1>8, EndJobType DEF FailTopUp
  <2> QED BY <1>8, <2>2, <2>3 DEF FailTopUp, TypeOK, LocalsOK
<1>9. CASE TimeOutTopUp(w)
  <2>1. LocalsOK'
    BY <1>1, <1>9, EndJobType DEF TimeOutTopUp
  <2> QED BY <1>2, <1>9, <2>1 DEF TimeOutTopUp, TypeOK, LocalsOK
<1> QED BY <1>4, <1>5, <1>6, <1>7, <1>8, <1>9 DEF TopUp

\* A request changes rows and histories only.
LEMMA RequestType ==
  ASSUME TypeOK, NEW a \in Articles, Request(a)
  PROVE  TypeOK'
<1> USE DEF Notify, Ask, local
<1>1. row[a] \in Row
  BY DEF TypeOK
<1>2. ASSUME NEW s \in {"queued", "fetched"}, NEW content \in Contents,
             Insert(a, s, content)
      PROVE  TypeOK'
  <2>1. s \in Statuses
    BY DEF Statuses, LiveStatuses, WorkStatuses
  <2>2. [NoRow(s, asks + 1) EXCEPT !.content = content, !.version = cfgVersion] \in Row
    <3>1. NoRow(s, asks + 1) \in Row
      BY <2>1, NoRowType DEF TypeOK
    <3> QED BY <3>1 DEF Row, TypeOK
  <2>3. row' \in [Articles -> Row]
    BY <1>2, <2>2 DEF Insert, TypeOK
  <2> QED BY <1>2, <2>3 DEF Insert, TypeOK
<1>3. CASE Add(a)
  BY <1>2, <1>3 DEF Add, Contents
<1>4. CASE AddText(a)
  BY <1>2, <1>4 DEF AddText, Contents
<1>5. CASE AddAgain(a)
  <2>1. row' \in [Articles -> Row]
    BY <1>1, <1>5, RowWrites, StoreWrites DEF AddAgain, TypeOK
  <2>2. epoch' \in [Articles -> Nat]
    BY <1>5 DEF AddAgain, TypeOK
  <2> QED BY <1>5, <2>1, <2>2 DEF AddAgain, TypeOK
<1>6. CASE Retry(a)
  <2>1. row' \in [Articles -> Row]
    BY <1>1, <1>6, RowWrites, StoreWrites DEF Retry, TypeOK
  <2> QED BY <1>6, <2>1 DEF Retry, TypeOK
<1>7. CASE ReEnrich(a)
  <2>1. row' \in [Articles -> Row]
    BY <1>1, <1>7, RowWrites, StoreWrites DEF ReEnrich, TypeOK
  <2>2. epoch' \in [Articles -> Nat]
    BY <1>7 DEF ReEnrich, TypeOK
  <2> QED BY <1>7, <2>1, <2>2 DEF ReEnrich, TypeOK
<1>8. CASE Delete(a)
  <2>1. NoRow("deleted", row[a].born) \in Row
    BY <1>1, NoRowType DEF Row, Statuses
  <2>2. row' \in [Articles -> Row]
    BY <1>8, <2>1, StoreWrites DEF Delete, TypeOK
  <2> QED BY <1>8, <2>2 DEF Delete, TypeOK
<1> QED BY <1>3, <1>4, <1>5, <1>6, <1>7, <1>8 DEF Request

\* Every step keeps the types.
LEMMA NextType == TypeOK /\ [Next]_vars => TypeOK'
<1> SUFFICES ASSUME TypeOK, [Next]_vars PROVE TypeOK'
  OBVIOUS
<1>1. CASE \E w \in Workers : Work(w)
  BY <1>1, DrainType, FetchType, EnrichType, TopUpType DEF Work
<1>2. CASE \E a \in Articles : LookUp(a) \/ Request(a)
  BY <1>2, RequestType DEF LookUp, TypeOK, local
<1>3. CASE Restart
  BY <1>3 DEF Restart, TypeOK, Labels
<1>4. CASE UNCHANGED vars
  BY <1>4 DEF vars, local, outside, TypeOK
<1> QED BY <1>1, <1>2, <1>3, <1>4 DEF Next

\* The first state is well typed.
LEMMA InitType == Init => TypeOK
<1>1. "absent" \in Statuses
  BY DEF Statuses
<1>2. NoRow("absent", 0) \in Row
  BY <1>1, NoRowType
<1> QED BY <1>2 DEF Init, TypeOK, Labels

\* The rows and the workers' locals keep their types, whatever the size of
\* the pool and of the library.
THEOREM TypeCorrect == Spec => []TypeOK
<1>1. Init => TypeOK
  BY InitType
<1>2. TypeOK /\ [Next]_vars => TypeOK'
  BY NextType
<1> QED BY <1>1, <1>2, PTL DEF Spec

-----------------------------------------------------------------------------
(* Rows agree with themselves *)

\* Each write of a live row leaves a consistent row.
LEMMA ConsistentWrites ==
  ASSUME NEW r \in Row, ConsistentRow(r), r.status \in LiveStatuses
  PROVE  /\ \A s \in LiveStatuses \ {"enriched"} : /\ ConsistentRow(SetStatus(r, s))
                                                 /\ ConsistentRow(SetFailed(r, s))
         /\ \A content : ConsistentRow(SaveContent(r, content))
         /\ \A b \in SUBSET Mark : /\ ConsistentRow(SaveEnrichment(r, b))
                                   /\ ConsistentRow(SaveEnrichmentProgress(r, b))
         /\ ConsistentRow(RetryArticle(r))
         /\ \A v \in Nat : ConsistentRow(RequeueForVersion(r, v))
         /\ ConsistentRow(ReEnrichFull(r))
         /\ ConsistentRow(ReEnrichTopup(r))
<1>1. {"queued", "fetched", "enriched", "topup_queued"} \subseteq LiveStatuses
  BY DEF LiveStatuses, WorkStatuses, RestStatuses
<1>2. QueueByContent(r) \in LiveStatuses \ {"enriched"}
  BY <1>1 DEF QueueByContent
<1>3. Covered({}) = {}
  BY DEF Covered
<1>4. \A s \in LiveStatuses \ {"enriched"} : /\ ConsistentRow(SetStatus(r, s))
                                            /\ ConsistentRow(SetFailed(r, s))
  BY DEF SetStatus, SetFailed, ConsistentRow, Row
<1>5. \A content : ConsistentRow(SaveContent(r, content))
  BY <1>1 DEF SaveContent, ConsistentRow, Row
<1>6. ASSUME NEW b \in SUBSET Mark
      PROVE  ConsistentRow(SaveEnrichment(r, b)) /\ ConsistentRow(SaveEnrichmentProgress(r, b))
  <2>1. sentenceCoverage(b, r.content).part \subseteq Covered(b)
    BY CoverageType DEF Row
  <2> QED BY <1>1, <2>1 DEF SaveEnrichment, SaveEnrichmentProgress, ConsistentRow, Row
<1>7. ConsistentRow(RetryArticle(r))
  BY <1>2 DEF RetryArticle, ConsistentRow, Row
<1>8. \A v \in Nat : ConsistentRow(RequeueForVersion(r, v))
  BY <1>2, <1>3 DEF RequeueForVersion, ConsistentRow, Row, NoCoverage
<1>9. ConsistentRow(ReEnrichFull(r)) /\ ConsistentRow(ReEnrichTopup(r))
  BY <1>1, <1>3 DEF ReEnrichFull, ReEnrichTopup, ConsistentRow, Row, NoCoverage
<1> QED BY <1>4, <1>5, <1>6, <1>7, <1>8, <1>9

\* One consistent write keeps every row consistent.
LEMMA StoreConsistent ==
  ASSUME row \in [Articles -> Row], RowsConsistent, NEW a \in Articles, NEW r,
         Store(a, r), Live(a) => ConsistentRow(r)
  PROVE  RowsConsistent'
<1> SUFFICES ASSUME NEW b \in Articles PROVE ConsistentRow(row'[b])
  BY DEF RowsConsistent
<1>1. ConsistentRow(row[b])
  BY DEF RowsConsistent
<1>2. CASE Live(a) /\ a = b
  <2>1. row'[b] = r
    BY <1>2 DEF Store
  <2> QED BY <1>2, <2>1
<1>3. CASE ~(Live(a) /\ a = b)
  <2>1. row'[b] = row[b]
    BY <1>3 DEF Store
  <2> QED BY <1>1, <2>1
<1> QED BY <1>2, <1>3

\* Every step keeps the rows consistent.
LEMMA NextConsistent == TypeOK /\ RowsConsistent /\ [Next]_vars => RowsConsistent'
<1> SUFFICES ASSUME TypeOK, RowsConsistent, [Next]_vars PROVE RowsConsistent'
  OBVIOUS
<1>1. row \in [Articles -> Row] /\ cfgVersion \in Nat
  BY DEF TypeOK
<1>2. ASSUME NEW a \in Articles, Live(a)
      PROVE  row[a] \in Row /\ ConsistentRow(row[a]) /\ row[a].status \in LiveStatuses
  BY <1>1, <1>2 DEF RowsConsistent, Live
<1>3. {"fetching", "enriching", "fetch_failed", "blocked", "enrich_failed"}
        \subseteq LiveStatuses \ {"enriched"}
  BY DEF LiveStatuses, WorkStatuses, RestStatuses
<1>4. ASSUME UNCHANGED row PROVE RowsConsistent'
  BY <1>4 DEF RowsConsistent
<1>5. ASSUME NEW w \in Workers, Work(w) PROVE RowsConsistent'
  <2>1. CASE Drain(w)
    BY <1>4, <2>1 DEF Drain, Wake, List, Take, EndBatch
  <2>2. CASE TimeOutFetch(w) \/ LoadExisting(w) \/ FailChunk(w) \/ LoadTopUp(w)
             \/ TimeOutTopUp(w)
    BY <1>4, <2>2 DEF TimeOutFetch, LoadExisting, FailChunk, LoadTopUp, TimeOutTopUp
  <2>3. ASSUME pc[w] \notin {"idle", "list", "next"}
        PROVE  /\ job[w] \in Job /\ job[w].id \in Articles /\ job[w].content \in Contents
               /\ running[w] \in SUBSET Mark
    BY <2>3 DEF TypeOK, Job
  <2>4. CASE BeginFetch(w)
    BY <1>1, <1>2, <1>3, <2>3, <2>4, ConsistentWrites, StoreConsistent DEF BeginFetch
  <2>5. CASE SaveFetched(w)
    <3>1. PICK text \in Texts : Store(job[w].id, SaveContent(row[job[w].id], text))
      BY <2>5 DEF SaveFetched
    <3>2. text \in Contents
      BY DEF Contents
    <3> QED BY <1>1, <1>2, <2>3, <2>5, <3>1, <3>2, ConsistentWrites, StoreConsistent
            DEF SaveFetched
  <2>6. CASE FailFetch(w)
    BY <1>1, <1>2, <1>3, <2>3, <2>6, ConsistentWrites, StoreConsistent DEF FailFetch
  <2>7. CASE BeginEnrich(w)
    BY <1>1, <1>2, <1>3, <2>3, <2>7, ConsistentWrites, StoreConsistent DEF BeginEnrich
  <2>8. CASE SaveChunk(w)
    <3>1. PICK c \in Chunks :
            \E clean \in SUBSET Translations(w) : PersistChunk(w, c, clean)
      BY <2>8 DEF SaveChunk
    <3>2. PICK clean \in SUBSET Translations(w) : PersistChunk(w, c, clean)
      BY <3>1
    <3>3. clean \in SUBSET Mark
      BY <1>1, <2>3, <2>8, TranslationsType DEF SaveChunk
    <3>4. mergeEnrichment(running[w], clean) \in SUBSET Mark
      BY <2>3, <2>8, <3>3, MergeCovers DEF SaveChunk
    <3>5. Store(job[w].id, SaveEnrichmentProgress(row[job[w].id],
                                                  mergeEnrichment(running[w], clean)))
      BY <3>2 DEF PersistChunk
    <3> QED BY <1>1, <1>2, <2>3, <2>8, <3>4, <3>5, ConsistentWrites, StoreConsistent
            DEF SaveChunk
  <2>9. CASE FinishEnrich(w)
    <3>1. CASE failed[w]
      BY <1>1, <1>2, <1>3, <2>3, <2>9, <3>1, ConsistentWrites, StoreConsistent
      DEF FinishEnrich
    <3>2. CASE ~failed[w]
      BY <1>1, <1>2, <2>3, <2>9, <3>2, ConsistentWrites, StoreConsistent
      DEF FinishEnrich
    <3> QED BY <3>1, <3>2
  <2>10. CASE RestoreEnriched(w)
    BY <1>1, <1>2, <2>3, <2>10, ConsistentWrites, StoreConsistent DEF RestoreEnriched
  <2>11. CASE BeginTopUp(w)
    BY <1>1, <1>2, <1>3, <2>3, <2>11, ConsistentWrites, StoreConsistent DEF BeginTopUp
  <2>12. CASE FillGaps(w)
    <3>1. PICK clean \in SUBSET Translations(w) :
            Store(job[w].id,
                  SaveEnrichment(row[job[w].id], mergeEnrichment(running[w], clean)))
      BY <2>12 DEF FillGaps
    <3>2. clean \in SUBSET Mark
      BY <1>1, <2>3, <2>12, TranslationsType DEF FillGaps
    <3>3. mergeEnrichment(running[w], clean) \in SUBSET Mark
      BY <2>3, <2>12, <3>2, MergeCovers DEF FillGaps
    <3> QED BY <1>1, <1>2, <2>3, <2>12, <3>1, <3>3, ConsistentWrites, StoreConsistent
            DEF FillGaps
  <2>13. CASE FailTopUp(w)
    BY <1>1, <1>2, <1>3, <2>3, <2>13, ConsistentWrites, StoreConsistent DEF FailTopUp
  <2> QED BY <1>5, <2>1, <2>2, <2>4, <2>5, <2>6, <2>7, <2>8, <2>9, <2>10, <2>11, <2>12,
             <2>13 DEF Work, Fetch, AnswerFetch, Enrich, TopUp
<1>6. ASSUME NEW a \in Articles, Request(a) PROVE RowsConsistent'
  <2>1. ASSUME NEW s \in {"queued", "fetched"}, NEW content \in Contents,
               Insert(a, s, content)
        PROVE  RowsConsistent'
    <3>1. row'[a] = [NoRow(s, asks + 1) EXCEPT !.content = content,
                                               !.version = cfgVersion]
      BY <1>1, <2>1 DEF Insert
    <3>2. s \in LiveStatuses \ {"enriched"}
      BY DEF LiveStatuses, WorkStatuses
    <3>3. ConsistentRow(row'[a])
      BY <3>1, <3>2 DEF ConsistentRow, NoRow, NoCoverage
    <3>4. \A b \in Articles \ {a} : row'[b] = row[b]
      BY <1>1, <2>1 DEF Insert
    <3> QED BY <3>3, <3>4 DEF RowsConsistent
  <2>2. CASE Add(a)
    BY <2>1, <2>2 DEF Add, Contents
  <2>3. CASE AddText(a)
    BY <2>1, <2>3 DEF AddText, Contents
  <2>4. CASE AddAgain(a)
    BY <1>1, <1>2, <2>4, ConsistentWrites, StoreConsistent DEF AddAgain
  <2>5. CASE Retry(a)
    BY <1>1, <1>2, <2>5, ConsistentWrites, StoreConsistent DEF Retry
  <2>6. CASE ReEnrich(a)
    BY <1>1, <1>2, <2>6, ConsistentWrites, StoreConsistent DEF ReEnrich
  <2>7. CASE Delete(a)
    <3>1. ConsistentRow(NoRow("deleted", row[a].born))
      BY DEF ConsistentRow, NoRow, NoCoverage
    <3> QED BY <1>1, <2>7, <3>1, StoreConsistent DEF Delete
  <2> QED BY <1>6, <2>2, <2>3, <2>4, <2>5, <2>6, <2>7 DEF Request
<1>7. CASE Restart \/ (\E a \in Articles : LookUp(a)) \/ UNCHANGED vars
  BY <1>4, <1>7 DEF Restart, LookUp, vars
<1> QED BY <1>5, <1>6, <1>7 DEF Next

\* A row never contradicts itself, however the writes of several workers, a
\* fresh start asked for and a deletion interleave.
THEOREM RowsAgree == Spec => []RowsConsistent
<1>1. Init => RowsConsistent
  BY DEF Init, RowsConsistent, ConsistentRow, NoRow, NoCoverage, LiveStatuses,
         WorkStatuses, RestStatuses
<1>2. TypeOK /\ RowsConsistent /\ [Next]_vars => RowsConsistent'
  BY NextConsistent
<1> QED BY <1>1, <1>2, TypeCorrect, PTL DEF Spec

-----------------------------------------------------------------------------
(* No wake-up is lost *)

\* What a step inside processArticle may do: write the row of the article in
\* hand, and let go of that article only once it rests or its call timed out.
JobStep(w) ==
  /\ job[w] \in Job
  /\ \A b \in Articles \ {job[w].id} : row'[b] = row[b]
  /\ \/ job'[w] # NoJob /\ job'[w].id = job[w].id
     \/ job'[w] = NoJob /\ (job[w].id \in deferred' \/ job[w].id \notin Waiting')
  /\ \A v \in Workers \ {w} : pc'[v] = pc[v] /\ job'[v] = job[v]
  /\ pc[w] # "list"
  /\ UNCHANGED <<notified, batch, full>>
  /\ deferred \subseteq deferred'

\* Returning lets go of the job and of nothing else.
LEMMA EndJobReleases ==
  ASSUME TypeOK, NEW w \in Workers, EndJob(w)
  PROVE  /\ job'[w] = NoJob
         /\ \A v \in Workers \ {w} : pc'[v] = pc[v] /\ job'[v] = job[v]
         /\ UNCHANGED <<batch, full>>
BY DEF EndJob, Goto, TypeOK

\* A job is never the absence of one.
LEMMA JobIsSome == NoJob \notin Job
BY PipelineAssumption DEF Job, Contents, Texts

\* Every step of the three stages is one.
LEMMA StageSteps ==
  ASSUME TypeOK, NEW w \in Workers, Fetch(w) \/ Enrich(w) \/ TopUp(w)
  PROVE  JobStep(w)
<1>1. pc[w] \notin {"idle", "list", "next"}
  BY DEF Fetch, BeginFetch, AnswerFetch, SaveFetched, FailFetch, TimeOutFetch,
         Enrich, BeginEnrich, LoadExisting, SaveChunk, FailChunk, FinishEnrich,
         TopUp, LoadTopUp, RestoreEnriched, BeginTopUp, FillGaps, FailTopUp, TimeOutTopUp
<1>2. job[w] \in Job /\ job[w].id \in Articles /\ job[w] # NoJob
  BY <1>1, JobIsSome DEF TypeOK, Job
<1> DEFINE a == job[w].id
<1> USE DEF outside
<1>3. ASSUME NEW r, Store(a, r)
      PROVE  /\ \A b \in Articles \ {a} : row'[b] = row[b]
             /\ ~Live(a) => a \notin Waiting'
             /\ r.status \in RestStatuses => a \notin Waiting'
  <2>1. row'[a] = IF Live(a) THEN r ELSE row[a]
    BY <1>2, <1>3 DEF Store, TypeOK
  <2>2. RestStatuses \intersect WorkStatuses = {}
    BY DEF RestStatuses, WorkStatuses
  <2>3. \A b \in Articles \ {a} : row'[b] = row[b]
    BY <1>3 DEF Store, TypeOK
  <2>4. ~Live(a) => a \notin Waiting'
    BY <2>1 DEF Waiting, Live, LiveStatuses
  <2>5. r.status \in RestStatuses => a \notin Waiting'
    BY <2>1, <2>2, <2>4 DEF Waiting
  <2> QED BY <2>3, <2>4, <2>5
<1>4. ASSUME EndJob(w), UNCHANGED notified, deferred \subseteq deferred',
             \A b \in Articles \ {a} : row'[b] = row[b],
             a \in deferred' \/ a \notin Waiting'
      PROVE  JobStep(w)
  BY <1>1, <1>2, <1>4, EndJobReleases DEF JobStep
<1>5. ASSUME NEW label, Goto(w, label), UNCHANGED <<notified, local, outside>>,
             \A b \in Articles \ {a} : row'[b] = row[b]
      PROVE  JobStep(w)
  BY <1>1, <1>2, <1>5 DEF JobStep, Goto, local, TypeOK
<1> HIDE DEF a
<1>6. CASE BeginFetch(w) \/ BeginEnrich(w) \/ BeginTopUp(w)
  BY <1>3, <1>5, <1>6 DEF BeginFetch, BeginEnrich, BeginTopUp, a
<1>7. CASE FailFetch(w)
  <2>1. PICK status \in {"fetch_failed", "blocked"} : Store(a, SetFailed(row[a], status))
    BY <1>7 DEF FailFetch, a
  <2>2. SetFailed(row[a], status).status \in RestStatuses
    BY <1>2 DEF SetFailed, RestStatuses, TypeOK, Row, a
  <2> QED BY <1>3, <1>4, <1>7, <2>1, <2>2 DEF FailFetch
<1>8. CASE TimeOutFetch(w) \/ TimeOutTopUp(w)
  BY <1>4, <1>8 DEF TimeOutFetch, TimeOutTopUp, a
<1>9. CASE SaveFetched(w)
  <2>1. PICK text \in Texts :
          /\ Store(a, SaveContent(row[a], text))
          /\ IF Live(a)
             THEN /\ Goto(w, "enrich")
                  /\ job' = [job EXCEPT ![w].content = text]
                  /\ UNCHANGED <<batch, full, running, at, failed>>
             ELSE EndJob(w)
    BY <1>9 DEF SaveFetched, a
  <2>2. CASE Live(a)
    <3>1. job'[w] \in Job /\ job'[w].id = a
      BY <1>2, <2>1, <2>2 DEF TypeOK, Job, Contents, a
    <3> QED BY <1>1, <1>2, <1>3, <1>9, <2>1, <2>2, <3>1, JobIsSome
            DEF SaveFetched, JobStep, Goto, TypeOK, a
  <2>3. CASE ~Live(a)
    BY <1>3, <1>4, <1>9, <2>1, <2>3 DEF SaveFetched
  <2> QED BY <2>2, <2>3
<1>10. CASE LoadExisting(w) \/ FailChunk(w)
  BY <1>1, <1>2, <1>10 DEF LoadExisting, FailChunk, JobStep, Goto, TypeOK
<1>11. CASE SaveChunk(w)
  <2>1. PICK c \in Chunks :
          \E clean \in SUBSET Translations(w) : PersistChunk(w, c, clean)
    BY <1>11 DEF SaveChunk
  <2>2. PICK clean \in SUBSET Translations(w) : PersistChunk(w, c, clean)
    BY <2>1
  <2>3. \E r : Store(a, r)
    BY <2>2 DEF PersistChunk, a
  <2>4. CASE Live(a)
    BY <1>1, <1>2, <1>3, <1>11, <2>2, <2>3, <2>4 DEF PersistChunk, SaveChunk, JobStep, a
  <2>5. CASE ~Live(a)
    BY <1>3, <1>4, <1>11, <2>2, <2>3, <2>5 DEF PersistChunk, SaveChunk, a
  <2> QED BY <2>4, <2>5
<1>12. CASE FinishEnrich(w)
  <2> DEFINE r == IF failed[w] THEN SetFailed(row[a], "enrich_failed")
                               ELSE SaveEnrichment(row[a], running[w])
  <2>1. Store(a, r)
    BY <1>12 DEF FinishEnrich, a
  <2>2. r.status \in RestStatuses
    BY <1>2 DEF SetFailed, SaveEnrichment, RestStatuses, TypeOK, Row, a
  <2> QED BY <1>3, <1>4, <1>12, <2>1, <2>2 DEF FinishEnrich
<1>13. CASE LoadTopUp(w)
  <2>1. CASE Live(a)
    <3>1. \E content \in Contents : job' = [job EXCEPT ![w].content = content]
      BY <1>2, <1>13, <2>1 DEF LoadTopUp, TypeOK, Row, Job, a
    <3>2. job'[w] \in Job /\ job'[w].id = a /\ \A v \in Workers \ {w} : job'[v] = job[v]
      BY <1>2, <3>1 DEF TypeOK, Job, a
    <3> QED BY <1>1, <1>2, <1>13, <2>1, <3>2, JobIsSome DEF LoadTopUp, JobStep, Goto, TypeOK, a
  <2>2. CASE ~Live(a)
    <3>1. a \notin Waiting'
      BY <1>13, <2>2 DEF LoadTopUp, Waiting, Live, LiveStatuses
    <3> QED BY <1>4, <1>13, <2>2, <3>1 DEF LoadTopUp, a
  <2> QED BY <2>1, <2>2
<1>14. CASE RestoreEnriched(w)
  <2>1. SaveEnrichment(row[a], running[w]).status \in RestStatuses
    BY <1>2 DEF SaveEnrichment, RestStatuses, TypeOK, Row, a
  <2> QED BY <1>3, <1>4, <1>14, <2>1 DEF RestoreEnriched, a
<1>15. CASE FillGaps(w)
  <2>1. PICK clean \in SUBSET Translations(w) :
          Store(a, SaveEnrichment(row[a], mergeEnrichment(running[w], clean)))
    BY <1>15 DEF FillGaps, a
  <2>2. \A b : SaveEnrichment(row[a], b).status \in RestStatuses
    BY <1>2 DEF SaveEnrichment, RestStatuses, TypeOK, Row, a
  <2> QED BY <1>3, <1>4, <1>15, <2>1, <2>2 DEF FillGaps
<1>16. CASE FailTopUp(w)
  <2>1. SetFailed(row[a], "enrich_failed").status \in RestStatuses
    BY <1>2 DEF SetFailed, RestStatuses, TypeOK, Row, a
  <2> QED BY <1>3, <1>4, <1>16, <2>1 DEF FailTopUp, a
<1> QED BY <1>6, <1>7, <1>8, <1>9, <1>10, <1>11, <1>12, <1>13, <1>14, <1>15, <1>16
        DEF Fetch, AnswerFetch, Enrich, TopUp

\* A step inside processArticle keeps every waiting article attended.
LEMMA JobStepAttends ==
  ASSUME TypeOK, NoLostWakeup, NEW w \in Workers, JobStep(w)
  PROVE  NoLostWakeup'
<1> SUFFICES ASSUME NEW a \in Articles, a \in Waiting'
             PROVE  a \in deferred' \/ Attended(a)'
  BY DEF NoLostWakeup, Waiting
<1>1. job[w] # NoJob
  BY JobIsSome DEF JobStep
<1>2. CASE a = job[w].id
  BY <1>2 DEF JobStep, Attended
<1>3. CASE a # job[w].id
  <2>1. a \in Waiting
    BY <1>3 DEF JobStep, Waiting
  <2>2. a \in deferred \/ Attended(a)
    BY <2>1 DEF NoLostWakeup
  <2>3. ASSUME Attended(a) PROVE Attended(a)'
    BY <1>3, <2>3 DEF Attended, JobStep
  <2> QED BY <2>2, <2>3 DEF JobStep
<1> QED BY <1>2, <1>3

\* A worker that drains passes its duty on: from the token to the listing,
\* from the listing to the snapshots or to the next listing, from a snapshot
\* to the job.
LEMMA DrainAttends ==
  ASSUME TypeOK, JobHeld, NoLostWakeup, NEW w \in Workers, Drain(w)
  PROVE  NoLostWakeup'
<1> SUFFICES ASSUME NEW a \in Articles, a \in Waiting'
             PROVE  a \in deferred' \/ Attended(a)'
  BY DEF NoLostWakeup, Waiting
<1>1. a \in Waiting /\ UNCHANGED row
  BY DEF Waiting, Drain, Wake, List, Take, EndBatch
<1>2. a \in deferred \/ Attended(a)
  BY <1>1 DEF NoLostWakeup
<1> USE DEF outside, local
<1>3. CASE Wake(w)
  BY <1>3 DEF Wake, Goto, Attended, TypeOK
<1>4. CASE List(w)
  <2>1. PICK ids \in SUBSET Articles :
          /\ IsBatch(ids)
          /\ batch' = [batch EXCEPT ![w] = {SnapshotOf(b) : b \in ids}]
          /\ full' = [full EXCEPT ![w] = Cardinality(ids) = BatchSize]
          /\ deferred' = deferred \ ids
    BY <1>4 DEF List
  <2>2. CASE a \in ids
    <3>1. SnapshotOf(a) \in batch'[w] /\ SnapshotOf(a).id = a
      BY <2>1, <2>2 DEF SnapshotOf, TypeOK
    <3> QED BY <3>1 DEF Attended
  <2>3. CASE a \notin ids
    <3>1. Cardinality(ids) = BatchSize
      BY <1>1, <2>1, <2>3 DEF IsBatch, ListedStatuses, Waiting, WorkStatuses
    <3>2. full'[w]
      BY <2>1, <3>1 DEF TypeOK
    <3> QED BY <3>2 DEF Attended
  <2> QED BY <2>2, <2>3
<1>5. CASE Take(w)
  <2>1. PICK s \in batch[w] :
          /\ batch' = [batch EXCEPT ![w] = @ \ {s}]
          /\ job' = [job EXCEPT ![w] = [id |-> s.id, content |-> s.content]]
          /\ Goto(w, Stage(s.status))
    BY <1>5 DEF Take
  <2>2. job'[w] = [id |-> s.id, content |-> s.content] /\ s \in Snapshot
    BY <2>1 DEF TypeOK
  <2>3. job'[w] # NoJob /\ job'[w].id = s.id
    BY <2>2, JobIsSome DEF Snapshot, Job
  <2>4. job[w] = NoJob /\ pc[w] = "next"
    BY <1>5 DEF JobHeld, Take
  <2>5. CASE s.id = a
    BY <2>3, <2>5 DEF Attended
  <2>6. CASE s.id # a
    <3>1. ASSUME Attended(a) PROVE Attended(a)'
      <4>1. \A v \in Workers \ {w} : batch'[v] = batch[v] /\ job'[v] = job[v] /\ pc'[v] = pc[v]
        BY <2>1 DEF Goto, TypeOK
      <4>2. \A t \in batch[w] : t.id = a => t \in batch'[w]
        BY <2>1, <2>6 DEF TypeOK
      <4> QED BY <1>5, <2>4, <3>1, <4>1, <4>2 DEF Attended, Take
    <3> QED BY <1>2, <1>5, <3>1 DEF Take
  <2> QED BY <2>5, <2>6
<1>6. CASE EndBatch(w)
  BY <1>2, <1>6 DEF EndBatch, Goto, Attended, TypeOK
<1> QED BY <1>3, <1>4, <1>5, <1>6 DEF Drain

\* Only a stage holds a job.
LEMMA NextJobHeld ==
  ASSUME TypeOK, JobHeld, [Next]_vars
  PROVE  JobHeld'
<1> USE DEF local, outside
<1>1. ASSUME NEW w \in Workers, Work(w) PROVE JobHeld'
  <2>1. ASSUME EndJob(w) PROVE JobHeld'
    BY <2>1 DEF EndJob, Goto, JobHeld, TypeOK
  <2>2. ASSUME NEW label, label \notin {"idle", "list", "next"}, Goto(w, label),
               \A v \in Workers \ {w} : job'[v] = job[v]
        PROVE  JobHeld'
    BY <2>2 DEF Goto, JobHeld, TypeOK
  <2>3. ASSUME UNCHANGED job, pc[w] \in {"idle", "list", "next"}, NEW label, Goto(w, label)
        PROVE  JobHeld'
    BY <2>3 DEF Goto, JobHeld, TypeOK
  <2>4. ASSUME UNCHANGED <<pc, job>> PROVE JobHeld'
    BY <2>4 DEF JobHeld
  <2>5. CASE Wake(w) \/ EndBatch(w)
    BY <2>3, <2>5 DEF Wake, EndBatch
  <2>6. CASE List(w)
    BY <2>3, <2>6 DEF List
  <2>7. CASE Take(w)
    <3>1. PICK s \in batch[w] :
            /\ job' = [job EXCEPT ![w] = [id |-> s.id, content |-> s.content]]
            /\ Goto(w, Stage(s.status))
      BY <2>7 DEF Take
    <3> QED BY <2>2, <3>1 DEF Stage, TypeOK
  <2>8. CASE BeginFetch(w) \/ BeginEnrich(w) \/ LoadExisting(w) \/ BeginTopUp(w)
    BY <2>2, <2>8 DEF BeginFetch, BeginEnrich, LoadExisting, BeginTopUp
  <2>9. CASE SaveFetched(w)
    BY <2>1, <2>2, <2>9 DEF SaveFetched, TypeOK
  <2>10. CASE LoadTopUp(w)
    <3>1. CASE Live(job[w].id)
      <4>1. \A v \in Workers \ {w} : job'[v] = job[v]
        BY <2>10, <3>1 DEF LoadTopUp, TypeOK
      <4>2. Goto(w, "restore") \/ Goto(w, "gaps")
        BY <2>10, <3>1 DEF LoadTopUp
      <4> QED BY <2>2, <4>1, <4>2
    <3>2. CASE ~Live(job[w].id)
      BY <2>1, <2>10, <3>2 DEF LoadTopUp
    <3> QED BY <3>1, <3>2
  <2>11. CASE SaveChunk(w)
    BY <2>1, <2>4, <2>11 DEF SaveChunk, PersistChunk
  <2>12. CASE FailChunk(w)
    BY <2>4, <2>12 DEF FailChunk
  <2>13. CASE FailFetch(w) \/ TimeOutFetch(w) \/ FinishEnrich(w) \/ RestoreEnriched(w)
              \/ FillGaps(w) \/ FailTopUp(w) \/ TimeOutTopUp(w)
    BY <2>1, <2>13 DEF FailFetch, TimeOutFetch, FinishEnrich, RestoreEnriched,
                       FillGaps, FailTopUp, TimeOutTopUp
  <2> QED BY <1>1, <2>5, <2>6, <2>7, <2>8, <2>9, <2>10, <2>11, <2>12, <2>13
          DEF Work, Drain, Fetch, AnswerFetch, Enrich, TopUp
<1>2. ASSUME NEW a \in Articles, LookUp(a) \/ Request(a) PROVE JobHeld'
  <2>1. UNCHANGED <<pc, job>>
    BY <1>2 DEF LookUp, Request, Add, AddText, Insert, AddAgain, Retry, ReEnrich, Delete
  <2> QED BY <2>1 DEF JobHeld
<1>3. CASE Restart
  BY <1>3 DEF Restart, JobHeld
<1>4. CASE UNCHANGED vars
  BY <1>4 DEF vars, JobHeld
<1> QED BY <1>1, <1>2, <1>3, <1>4 DEF Next

\* A request leaves the token behind, or takes its article off the list.
LEMMA RequestAttends ==
  ASSUME TypeOK, NoLostWakeup, NEW a \in Articles, Request(a)
  PROVE  NoLostWakeup'
<1>1. CASE Delete(a)
  <2> SUFFICES ASSUME NEW b \in Articles, b \in Waiting'
               PROVE  b \in deferred' \/ Attended(b)'
    BY DEF NoLostWakeup, Waiting
  <2>1. row' = [row EXCEPT ![a] = NoRow("deleted", row[a].born)]
    BY <1>1 DEF Delete, Store
  <2>2. b \in Waiting
    BY <2>1 DEF Waiting, WorkStatuses, NoRow, TypeOK
  <2>3. b \in deferred \/ Attended(b)
    BY <2>2 DEF NoLostWakeup
  <2> QED BY <1>1, <2>3 DEF Delete, Attended, local
<1>2. CASE ~Delete(a)
  <2>1. notified'
    BY <1>2 DEF Request, Add, AddText, Insert, AddAgain, Retry, ReEnrich, Notify
  <2> QED BY <2>1 DEF NoLostWakeup, Attended
<1> QED BY <1>1, <1>2

\* Every step keeps every waiting article attended.
LEMMA NextAttends ==
  ASSUME TypeOK, JobHeld, NoLostWakeup, [Next]_vars
  PROVE  NoLostWakeup'
<1>1. CASE \E w \in Workers : Work(w)
  BY <1>1, DrainAttends, StageSteps, JobStepAttends DEF Work
<1>2. CASE \E a \in Articles : Request(a)
  BY <1>2, RequestAttends
<1>3. CASE Restart
  BY <1>3 DEF Restart, NoLostWakeup, Attended
<1>4. CASE (\E a \in Articles : LookUp(a)) \/ UNCHANGED vars
  BY <1>4 DEF LookUp, vars, local, outside, NoLostWakeup, Attended, Waiting
<1> QED BY <1>1, <1>2, <1>3, <1>4 DEF Next

\* No wake-up is lost in a pool of any size, however requests coalesce in the
\* one-token channel: an article that waits is held, about to be listed, or
\* announced by a token, unless its last call timed out.
THEOREM WakeupsKept == Spec => []NoLostWakeup
<1>1. Init => JobHeld /\ NoLostWakeup
  BY DEF Init, JobHeld, NoLostWakeup, Attended
<1>2. TypeOK /\ JobHeld /\ NoLostWakeup /\ [Next]_vars => JobHeld' /\ NoLostWakeup'
  BY NextJobHeld, NextAttends
<1> QED BY <1>1, <1>2, TypeCorrect, PTL DEF Spec

-----------------------------------------------------------------------------
(* Deletion is final *)

\* No step of any worker or request touches the row of a deleted article, so
\* nothing a worker still holds in memory can revive it.
THEOREM DeletionIsFinal == Spec => DeletedForever
<1> DEFINE Kept == \A a \in Articles : row[a].status = "deleted" => row'[a] = row[a]
<1>1. ASSUME TypeOK, [Next]_vars PROVE Kept
  <2> SUFFICES ASSUME NEW a \in Articles, row[a].status = "deleted" PROVE row'[a] = row[a]
    OBVIOUS
  <2>1. ~Live(a) /\ a \notin Waiting
    BY DEF Live, Waiting, LiveStatuses, WorkStatuses, RestStatuses
  <2>2. ASSUME NEW b, NEW r, Store(b, r) PROVE row'[a] = row[a]
    BY <1>1, <2>1, <2>2 DEF Store, TypeOK
  <2>3. ASSUME UNCHANGED row PROVE row'[a] = row[a]
    BY <2>3
  <2>4. ASSUME NEW w \in Workers, Work(w) PROVE row'[a] = row[a]
    <3>1. CASE Drain(w)
      BY <2>3, <3>1 DEF Drain, Wake, List, Take, EndBatch
    <3>2. CASE Fetch(w)
      BY <2>2, <2>3, <3>2 DEF Fetch, BeginFetch, AnswerFetch, SaveFetched, FailFetch,
                              TimeOutFetch
    <3>3. CASE Enrich(w)
      BY <2>2, <2>3, <3>3 DEF Enrich, BeginEnrich, LoadExisting, SaveChunk, PersistChunk,
                              FailChunk, FinishEnrich
    <3>4. CASE TopUp(w)
      BY <2>2, <2>3, <3>4 DEF TopUp, LoadTopUp, RestoreEnriched, BeginTopUp, FillGaps,
                              FailTopUp, TimeOutTopUp
    <3> QED BY <2>4, <3>1, <3>2, <3>3, <3>4 DEF Work
  <2>5. ASSUME NEW b \in Articles, Request(b) PROVE row'[a] = row[a]
    <3>1. CASE Add(b) \/ AddText(b)
      <4>1. row[b].status = "absent"
        BY <3>1 DEF Add, AddText, Insert
      <4>2. \E r : row' = [row EXCEPT ![b] = r]
        BY <3>1 DEF Add, AddText, Insert
      <4> QED BY <1>1, <4>1, <4>2 DEF TypeOK
    <3>2. CASE AddAgain(b) \/ Retry(b) \/ ReEnrich(b) \/ Delete(b)
      BY <2>2, <3>2 DEF AddAgain, Retry, ReEnrich, Delete
    <3> QED BY <2>5, <3>1, <3>2 DEF Request
  <2> QED BY <1>1, <2>3, <2>4, <2>5 DEF Next, LookUp, Restart, vars
<1>2. TypeOK /\ [Next]_vars => [Kept]_vars
  BY <1>1
<1>3. Spec => [][Kept]_vars
  BY <1>2, TypeCorrect, PTL DEF Spec
<1> QED BY <1>3 DEF DeletedForever

-----------------------------------------------------------------------------
(***************************************************************************)
(* What holds of a pool of one worker, which is what processArticle's      *)
(* comment takes for granted of every pool: the pool itself never reopens  *)
(* a finished article, and someone who only watches the library sees the   *)
(* article lifecycle of ArticleLife; translations fit the text they are    *)
(* stored with, a failure names its stage, and what has been paid for stays. *)
(*                                                                         *)
(* All rest on one more invariant, HeldArticlesWait: what the worker lists, *)
(* holds or works on is still waiting, or was deleted meanwhile.  A second *)
(* worker breaks it, by finishing an article the first one holds a snapshot *)
(* of.  The last three also need TextsAgree, which relates that snapshot to *)
(* the stored text and its translations.                                   *)
(***************************************************************************)

\* The pool has one worker at most.
Solo == \A v, w \in Workers : v = w

\* An article the worker holds a snapshot of has not settled.
Unsettled(a) == row[a].status \in WorkStatuses \union {"deleted"}

HeldArticlesWait ==
  \A w \in Workers :
    /\ \A s \in batch[w] : Unsettled(s.id)
    /\ job[w] # NoJob => Unsettled(job[w].id)
    /\ \A s, t \in batch[w] : s.id = t.id => s = t
    /\ job[w] # NoJob => \A s \in batch[w] : s.id # job[w].id

-----------------------------------------------------------------------------

\* While the stage keeps its job, the article stays unsettled.
LEMMA StageKeepsUnsettled ==
  ASSUME TypeOK, NEW w \in Workers, Fetch(w) \/ Enrich(w) \/ TopUp(w),
         NEW a, a = job[w].id, Unsettled(a)
  PROVE  job'[w] # NoJob => Unsettled(a)'
<1>1. JobStep(w)
  BY StageSteps
<1>2. a \in Articles /\ row[a] \in Row
  BY <1>1 DEF JobStep, Job, TypeOK
<1>3. {"fetching", "fetched", "enriching"} \subseteq WorkStatuses
  BY DEF WorkStatuses
<1>4. ASSUME NEW r, Store(a, r), Live(a) => r.status \in WorkStatuses
      PROVE  Unsettled(a)'
  <2>1. row'[a] = IF Live(a) THEN r ELSE row[a]
    BY <1>2, <1>4 DEF Store, TypeOK
  <2>2. CASE Live(a)
    BY <1>4, <2>1, <2>2 DEF Unsettled
  <2>3. CASE ~Live(a)
    BY <2>1, <2>3 DEF Unsettled
  <2> QED BY <2>2, <2>3
<1>5. ASSUME EndJob(w) PROVE job'[w] = NoJob
  BY <1>5, EndJobReleases
<1>6. Live(a) => row[a].status \in WorkStatuses
  BY DEF Unsettled, Live, LiveStatuses, WorkStatuses, RestStatuses
<1>7. CASE BeginFetch(w) \/ BeginEnrich(w) \/ BeginTopUp(w)
  <2>1. \E s \in WorkStatuses : Store(a, SetStatus(row[a], s))
    BY <1>3, <1>7 DEF BeginFetch, BeginEnrich, BeginTopUp
  <2>2. \A s : SetStatus(row[a], s).status = s
    BY <1>2 DEF SetStatus, Row
  <2> QED BY <1>4, <2>1, <2>2
<1>8. CASE SaveFetched(w)
  <2>1. \E text \in Texts : Store(a, SaveContent(row[a], text))
    BY <1>8 DEF SaveFetched
  <2>2. \A text : SaveContent(row[a], text).status \in WorkStatuses
    BY <1>2, <1>3 DEF SaveContent, Row
  <2> QED BY <1>4, <2>1, <2>2
<1>9. CASE SaveChunk(w)
  <2>1. \E b : Store(a, SaveEnrichmentProgress(row[a], b))
    BY <1>9 DEF SaveChunk, PersistChunk
  <2>2. \A b : SaveEnrichmentProgress(row[a], b).status = row[a].status
    BY <1>2 DEF SaveEnrichmentProgress, Row
  <2> QED BY <1>4, <1>6, <2>1, <2>2
<1>10. CASE LoadExisting(w) \/ FailChunk(w) \/ LoadTopUp(w)
  BY <1>10 DEF LoadExisting, FailChunk, LoadTopUp, Unsettled
<1>11. CASE FailFetch(w) \/ TimeOutFetch(w) \/ FinishEnrich(w) \/ RestoreEnriched(w)
            \/ FillGaps(w) \/ FailTopUp(w) \/ TimeOutTopUp(w)
  BY <1>5, <1>11 DEF FailFetch, TimeOutFetch, FinishEnrich, RestoreEnriched, FillGaps,
                     FailTopUp, TimeOutTopUp
<1> QED BY <1>7, <1>8, <1>9, <1>10, <1>11 DEF Fetch, AnswerFetch, Enrich, TopUp

\* What a request does, seen from the library.
LEMMA RequestOutcome ==
  ASSUME TypeOK, NEW a \in Articles, Request(a)
  PROVE  /\ asks' = asks + 1
         /\ \A b \in Articles \ {a} : row'[b] = row[b]
         /\ \/ row[a].status = "absent" /\ row'[a].status \in WorkStatuses
            \/ Live(a) /\ row'[a].status \in WorkStatuses
            \/ Live(a) /\ row'[a].status = "deleted"
<1>1. row[a] \in Row
  BY DEF TypeOK
<1>2. {"queued", "fetched", "topup_queued"} \subseteq WorkStatuses
  BY DEF WorkStatuses
<1>3. QueueByContent(row[a]) \in WorkStatuses
  BY <1>2 DEF QueueByContent
<1>4. ASSUME NEW s \in {"queued", "fetched"}, NEW content, Insert(a, s, content)
      PROVE  row[a].status = "absent" /\ row'[a].status \in WorkStatuses
  BY <1>2, <1>4 DEF Insert, NoRow, TypeOK
<1>5. ASSUME NEW r, Store(a, r), Live(a)
      PROVE  row'[a] = r
  BY <1>5 DEF Store, TypeOK
<1>6. \A b \in Articles \ {a} : row'[b] = row[b]
  BY DEF Request, Add, AddText, Insert, AddAgain, Retry, ReEnrich, Delete, Store, TypeOK
<1>7. asks' = asks + 1
  BY DEF Request, Add, AddText, Insert, AddAgain, Retry, ReEnrich, Delete, Ask
<1>8. CASE Add(a) \/ AddText(a)
  BY <1>4, <1>6, <1>7, <1>8 DEF Add, AddText
<1>9. CASE AddAgain(a)
  <2>1. RequeueForVersion(row[a], cfgVersion).status \in WorkStatuses
    BY <1>1, <1>3 DEF RequeueForVersion, Row
  <2> QED BY <1>5, <1>6, <1>7, <1>9, <2>1 DEF AddAgain
<1>10. CASE Retry(a)
  <2>1. RetryArticle(row[a]).status \in WorkStatuses
    BY <1>1, <1>3 DEF RetryArticle, Row
  <2> QED BY <1>5, <1>6, <1>7, <1>10, <2>1 DEF Retry
<1>11. CASE ReEnrich(a)
  <2>1. /\ ReEnrichFull(row[a]).status \in WorkStatuses
        /\ ReEnrichTopup(row[a]).status \in WorkStatuses
    BY <1>1, <1>2 DEF ReEnrichFull, ReEnrichTopup, Row
  <2> QED BY <1>5, <1>6, <1>7, <1>11, <2>1 DEF ReEnrich
<1>12. CASE Delete(a)
  <2>1. NoRow("deleted", row[a].born).status = "deleted"
    BY DEF NoRow
  <2> QED BY <1>5, <1>6, <1>7, <1>12, <2>1 DEF Delete
<1> QED BY <1>8, <1>9, <1>10, <1>11, <1>12 DEF Request

\* Every step of a pool of one keeps the articles it holds unsettled.
LEMMA NextHeld ==
  ASSUME Solo, TypeOK, JobHeld, HeldArticlesWait, [Next]_vars
  PROVE  HeldArticlesWait'
<1> USE DEF local, outside
<1>1. ASSUME NEW w \in Workers, Fetch(w) \/ Enrich(w) \/ TopUp(w)
      PROVE  HeldArticlesWait'
  <2>1. JobStep(w)
    BY <1>1, StageSteps
  <2>2. job[w] # NoJob /\ Unsettled(job[w].id)
    BY <2>1, JobIsSome DEF HeldArticlesWait, JobStep
  <2>3. job'[w] # NoJob => row'[job'[w].id].status \in WorkStatuses \union {"deleted"}
    <3>1. \A a : a = job[w].id /\ job'[w] # NoJob => Unsettled(a)'
      BY <1>1, <2>2, StageKeepsUnsettled
    <3> QED BY <2>1, <3>1 DEF JobStep, Unsettled
  <2>4. \A s \in batch[w] : Unsettled(s.id)'
    <3> SUFFICES ASSUME NEW s \in batch[w] PROVE Unsettled(s.id)'
      OBVIOUS
    <3>1. s.id \in Articles \ {job[w].id} /\ Unsettled(s.id)
      BY <2>2 DEF HeldArticlesWait, TypeOK, Snapshot
    <3> QED BY <2>1, <3>1 DEF JobStep, Unsettled
  <2>5. batch' = batch /\ (job'[w] # NoJob => job'[w].id = job[w].id)
    BY <2>1 DEF JobStep
  <2>6. \A v \in Workers : v = w
    BY DEF Solo
  <2> QED BY <2>2, <2>3, <2>4, <2>5, <2>6 DEF HeldArticlesWait, Unsettled
<1>2. ASSUME NEW w \in Workers, List(w) PROVE HeldArticlesWait'
  <2>1. PICK ids \in SUBSET Articles :
          /\ IsBatch(ids)
          /\ batch' = [batch EXCEPT ![w] = {SnapshotOf(a) : a \in ids}]
    BY <1>2 DEF List
  <2>2. batch'[w] = {SnapshotOf(a) : a \in ids}
    BY <2>1 DEF TypeOK
  <2>3. \A s \in batch'[w] : s.id \in ids /\ s = SnapshotOf(s.id)
    BY <2>2 DEF SnapshotOf
  <2>4. \A a \in ids : Unsettled(a)
    BY <2>1 DEF IsBatch, ListedStatuses, WorkStatuses, Unsettled
  <2>5. job'[w] = NoJob /\ row' = row
    BY <1>2 DEF List, JobHeld
  <2>6. \A v \in Workers : v = w
    BY DEF Solo
  <2> QED BY <2>3, <2>4, <2>5, <2>6 DEF HeldArticlesWait, Unsettled
<1>3. ASSUME NEW w \in Workers, Take(w) PROVE HeldArticlesWait'
  <2>1. PICK s \in batch[w] :
          /\ batch' = [batch EXCEPT ![w] = @ \ {s}]
          /\ job' = [job EXCEPT ![w] = [id |-> s.id, content |-> s.content]]
    BY <1>3 DEF Take
  <2>2. batch'[w] = batch[w] \ {s} /\ job'[w].id = s.id /\ row' = row
    BY <1>3, <2>1 DEF Take, TypeOK
  <2>3. \A v \in Workers : v = w
    BY DEF Solo
  <2> QED BY <2>2, <2>3 DEF HeldArticlesWait, Unsettled
<1>4. ASSUME NEW w \in Workers, Wake(w) \/ EndBatch(w) PROVE HeldArticlesWait'
  BY <1>4 DEF Wake, EndBatch, HeldArticlesWait, Unsettled
<1>5. ASSUME NEW a \in Articles, Request(a) PROVE HeldArticlesWait'
  <2>1. \A b \in Articles : Unsettled(b) => Unsettled(b)'
    <3>1. \A b \in Articles \ {a} : Unsettled(b) => Unsettled(b)'
      BY <1>5, RequestOutcome DEF Unsettled
    <3>2. Unsettled(a)'
      BY <1>5, RequestOutcome DEF Unsettled
    <3> QED BY <3>1, <3>2
  <2>2. UNCHANGED <<batch, job>>
    BY <1>5 DEF Request, Add, AddText, Insert, AddAgain, Retry, ReEnrich, Delete
  <2>3. \A w \in Workers : /\ \A s \in batch[w] : s.id \in Articles
                           /\ job[w] # NoJob => job[w].id \in Articles
    BY DEF TypeOK, Snapshot, Job
  <2> QED BY <2>1, <2>2, <2>3 DEF HeldArticlesWait
<1>6. CASE Restart
  BY <1>6 DEF Restart, HeldArticlesWait
<1>7. CASE (\E a \in Articles : LookUp(a)) \/ UNCHANGED vars
  BY <1>7 DEF LookUp, vars, HeldArticlesWait, Unsettled
<1> QED BY <1>1, <1>2, <1>3, <1>4, <1>5, <1>6, <1>7 DEF Next, Work, Drain

\* A pool of one only holds articles that still wait, in every state.
LEMMA HeldInvariant ==
  ASSUME Solo
  PROVE  Spec => [](TypeOK /\ HeldArticlesWait)
<1>1. Init => JobHeld /\ HeldArticlesWait
  BY DEF Init, JobHeld, HeldArticlesWait
<1>2. TypeOK /\ JobHeld /\ HeldArticlesWait /\ [Next]_vars => JobHeld' /\ HeldArticlesWait'
  BY NextJobHeld, NextHeld
<1> QED BY <1>1, <1>2, TypeCorrect, PTL DEF Spec

-----------------------------------------------------------------------------
(* Only the user reopens *)

\* A pool of one never moves a finished article back to a work status: it
\* takes a request for that.
THEOREM PoolNeverReopens ==
  ASSUME Solo
  PROVE  Spec => OnlyUserReopens
<1> DEFINE Asked == \A a \in Articles : /\ row[a].status \in RestStatuses
                                        /\ row'[a].status \in WorkStatuses
                                        => asks' = asks + 1
<1>1. ASSUME TypeOK, HeldArticlesWait, [Next]_vars PROVE Asked
  <2> SUFFICES ASSUME NEW a \in Articles, row[a].status \in RestStatuses,
                      row'[a].status \in WorkStatuses
               PROVE  asks' = asks + 1
    OBVIOUS
  <2>1. ~Unsettled(a) /\ row'[a] # row[a]
    BY DEF Unsettled, RestStatuses, WorkStatuses
  <2>2. ASSUME NEW w \in Workers, Work(w) PROVE FALSE
    <3>1. CASE Drain(w)
      BY <2>1, <3>1 DEF Drain, Wake, List, Take, EndBatch
    <3>2. CASE Fetch(w) \/ Enrich(w) \/ TopUp(w)
      <4>1. JobStep(w)
        BY <1>1, <3>2, StageSteps
      <4>2. Unsettled(job[w].id)
        BY <1>1, <4>1, JobIsSome DEF HeldArticlesWait, JobStep
      <4> QED BY <2>1, <4>1, <4>2 DEF JobStep
    <3> QED BY <2>2, <3>1, <3>2 DEF Work
  <2>3. ASSUME NEW b \in Articles, Request(b) PROVE asks' = asks + 1
    BY <1>1, <2>3, RequestOutcome
  <2> QED BY <1>1, <2>1, <2>2, <2>3 DEF Next, LookUp, Restart, vars
<1>2. TypeOK /\ HeldArticlesWait /\ [Next]_vars => [Asked]_vars
  BY <1>1
<1>3. Spec => [][Asked]_vars
  BY <1>2, HeldInvariant, PTL DEF Spec
<1> QED BY <1>3 DEF OnlyUserReopens

-----------------------------------------------------------------------------
(* The pipeline implements the article lifecycle *)

\* Phases of the statuses.
LEMMA PhaseOf ==
  ASSUME TypeOK, NEW a \in Articles
  PROVE  /\ row[a].status \in WorkStatuses <=> Phase(a) = "waiting"
         /\ row[a].status \in RestStatuses <=> Phase(a) = "settled"
         /\ row[a].status = "deleted" => Phase(a) = "deleted"
         /\ row[a].status = "absent" => Phase(a) = "absent"
         /\ Live(a) <=> Phase(a) \in {"waiting", "settled"}
<1>1. row[a].status \in Statuses
  BY DEF TypeOK, Row
<1> QED BY <1>1 DEF Phase, Statuses, WorkStatuses, RestStatuses, Live, LiveStatuses

\* A stage step leaves every phase alone, or settles the article in hand.
LEMMA StageSettles ==
  ASSUME TypeOK, NEW w \in Workers, Fetch(w) \/ Enrich(w) \/ TopUp(w),
         HeldArticlesWait
  PROVE  \/ \A b \in Articles : Phase(b)' = Phase(b)
         \/ \E a \in Articles : /\ Phase(a) = "waiting" /\ Phase(a)' = "settled"
                               /\ \A b \in Articles \ {a} : Phase(b)' = Phase(b)
<1>1. JobStep(w)
  BY StageSteps
<1>2. PICK a \in Articles : a = job[w].id
  BY <1>1 DEF JobStep, Job
<1>3. Unsettled(a)
  BY <1>1, <1>2, JobIsSome DEF HeldArticlesWait, JobStep
<1>4. \A b \in Articles \ {a} : Phase(b)' = Phase(b)
  BY <1>1, <1>2 DEF JobStep, Phase
<1>5. CASE row[a].status = "deleted"
  <2>1. row'[a] = row[a]
    BY <1>1, <1>2, <1>5 DEF JobStep, Fetch, BeginFetch, AnswerFetch, SaveFetched, FailFetch,
         TimeOutFetch, Enrich, BeginEnrich, LoadExisting, SaveChunk, PersistChunk, FailChunk,
         FinishEnrich, TopUp, LoadTopUp, RestoreEnriched, BeginTopUp, FillGaps, FailTopUp,
         TimeOutTopUp, Store, Live, LiveStatuses, WorkStatuses, RestStatuses, TypeOK
  <2>2. Phase(a)' = Phase(a)
    BY <2>1 DEF Phase
  <2> QED BY <1>4, <2>2
<1>6. CASE row[a].status \in WorkStatuses
  <2>1. Phase(a) = "waiting"
    BY <1>6, PhaseOf
  <2>2. row'[a].status \in LiveStatuses
    <3>1. row[a] \in Row /\ Live(a)
      BY <1>6 DEF TypeOK, Live, LiveStatuses
    <3>2. ASSUME NEW r, Store(a, r), r.status \in LiveStatuses PROVE row'[a].status \in LiveStatuses
      BY <3>1, <3>2 DEF Store, TypeOK
    <3>3. ASSUME UNCHANGED row PROVE row'[a].status \in LiveStatuses
      BY <3>1, <3>3 DEF Live
    <3>4. \A s \in LiveStatuses : /\ SetStatus(row[a], s).status \in LiveStatuses
                                  /\ SetFailed(row[a], s).status \in LiveStatuses
      BY <3>1 DEF SetStatus, SetFailed, Row
    <3>5. \A x : /\ SaveContent(row[a], x).status \in LiveStatuses
                 /\ SaveEnrichment(row[a], x).status \in LiveStatuses
                 /\ SaveEnrichmentProgress(row[a], x).status \in LiveStatuses
      BY <3>1 DEF SaveContent, SaveEnrichment, SaveEnrichmentProgress, Row, Live,
                  LiveStatuses, WorkStatuses, RestStatuses
    <3>6. {"fetching", "enriching", "fetch_failed", "blocked", "enrich_failed"}
            \subseteq LiveStatuses
      BY DEF LiveStatuses, WorkStatuses, RestStatuses
    <3>7. CASE Fetch(w)
      BY <1>2, <3>2, <3>3, <3>4, <3>5, <3>6, <3>7
      DEF Fetch, BeginFetch, AnswerFetch, SaveFetched, FailFetch, TimeOutFetch
    <3>8. CASE Enrich(w)
      BY <1>2, <3>2, <3>3, <3>4, <3>5, <3>6, <3>8
      DEF Enrich, BeginEnrich, LoadExisting, SaveChunk, PersistChunk, FailChunk, FinishEnrich
    <3>9. CASE TopUp(w)
      BY <1>2, <3>2, <3>3, <3>4, <3>5, <3>6, <3>9
      DEF TopUp, LoadTopUp, RestoreEnriched, BeginTopUp, FillGaps, FailTopUp, TimeOutTopUp
    <3> QED BY <3>7, <3>8, <3>9
  <2>3. Phase(a)' = "waiting" \/ Phase(a)' = "settled"
    BY <2>2 DEF Phase, LiveStatuses
  <2> QED BY <1>4, <2>1, <2>3
<1> QED BY <1>3, <1>5, <1>6 DEF Unsettled

\* The pool of one and the requests that feed it implement the lifecycle of an
\* article: nothing settles, reopens or vanishes but as ArticleLife has it.
THEOREM PoolImplementsLife ==
  ASSUME Solo
  PROVE  Spec => Life!LifeSpec
<1>1. Init => Life!LifeInit
  BY DEF Init, Life!LifeInit, Phase, NoRow, WorkStatuses, RestStatuses
<1>2. ASSUME TypeOK, HeldArticlesWait, [Next]_vars
      PROVE  [Life!LifeNext]_(Life!lifeVars)
  <2> DEFINE phase == [a \in Articles |-> Phase(a)]
  <2>1. ASSUME UNCHANGED asks, \A b \in Articles : Phase(b)' = Phase(b)
        PROVE  UNCHANGED Life!lifeVars
    BY <2>1 DEF Life!lifeVars
  <2>2. ASSUME NEW a \in Articles, NEW p, Phase(a)' = p,
               \A b \in Articles \ {a} : Phase(b)' = Phase(b)
        PROVE  phase' = [phase EXCEPT ![a] = p]
    BY <2>2
  <2>3. ASSUME UNCHANGED row PROVE \A b \in Articles : Phase(b)' = Phase(b)
    BY <2>3 DEF Phase
  <2>4. ASSUME NEW w \in Workers, Work(w) PROVE [Life!LifeNext]_(Life!lifeVars)
    <3>1. UNCHANGED asks
      BY <2>4 DEF outside, Work, Drain, Wake, List, Take, EndBatch, Fetch, BeginFetch,
         AnswerFetch, SaveFetched, FailFetch, TimeOutFetch, Enrich, BeginEnrich, LoadExisting,
         SaveChunk, FailChunk, FinishEnrich, TopUp, LoadTopUp, RestoreEnriched, BeginTopUp,
         FillGaps, FailTopUp, TimeOutTopUp
    <3>2. CASE Drain(w)
      BY <2>1, <2>3, <3>1, <3>2 DEF Drain, Wake, List, Take, EndBatch
    <3>3. CASE Fetch(w) \/ Enrich(w) \/ TopUp(w)
      <4>1. CASE \A b \in Articles : Phase(b)' = Phase(b)
        BY <2>1, <3>1, <4>1
      <4>2. CASE \E a \in Articles :
                   /\ Phase(a) = "waiting" /\ Phase(a)' = "settled"
                   /\ \A b \in Articles \ {a} : Phase(b)' = Phase(b)
        <5>1. PICK a \in Articles :
                   /\ Phase(a) = "waiting" /\ Phase(a)' = "settled"
                   /\ \A b \in Articles \ {a} : Phase(b)' = Phase(b)
          BY <4>2
        <5>2. phase' = [phase EXCEPT ![a] = "settled"]
          BY <2>2, <5>1
        <5>3. Life!Settle(a)
          BY <3>1, <5>1, <5>2 DEF Life!Settle
        <5> QED BY <5>3 DEF Life!LifeNext
      <4>3. \/ \A b \in Articles : Phase(b)' = Phase(b)
            \/ \E a \in Articles :
                 /\ Phase(a) = "waiting" /\ Phase(a)' = "settled"
                 /\ \A b \in Articles \ {a} : Phase(b)' = Phase(b)
        BY <1>2, <3>3, StageSettles
      <4> QED BY <4>1, <4>2, <4>3
    <3> QED BY <2>4, <3>2, <3>3 DEF Work
  <2>5. ASSUME NEW a \in Articles, Request(a) PROVE Life!LifeNext
    <3>1. /\ asks' = asks + 1
          /\ \A b \in Articles \ {a} : Phase(b)' = Phase(b)
      BY <1>2, <2>5, RequestOutcome DEF Phase
    <3>2. CASE row[a].status = "absent" /\ row'[a].status \in WorkStatuses
      <4>1. Phase(a) = "absent" /\ Phase(a)' = "waiting"
        BY <3>2 DEF Phase, WorkStatuses, RestStatuses
      <4>2. phase' = [phase EXCEPT ![a] = "waiting"]
        BY <2>2, <3>1, <4>1
      <4>3. Life!Submit(a)
        BY <3>1, <4>1, <4>2 DEF Life!Submit
      <4> QED BY <4>3 DEF Life!LifeNext
    <3>3. CASE Live(a) /\ row'[a].status \in WorkStatuses
      <4>1. Phase(a) \in {"waiting", "settled"} /\ Phase(a)' = "waiting"
        <5>1. Phase(a) \in {"waiting", "settled"}
          BY <1>2, <3>3, PhaseOf
        <5>2. Phase(a)' = "waiting"
          BY <3>3 DEF Phase, WorkStatuses, RestStatuses
        <5> QED BY <5>1, <5>2
      <4>2. phase' = [phase EXCEPT ![a] = "waiting"]
        BY <2>2, <3>1, <4>1
      <4>3. Life!AskAgain(a)
        BY <3>1, <4>1, <4>2 DEF Life!AskAgain
      <4> QED BY <4>3 DEF Life!LifeNext
    <3>4. CASE Live(a) /\ row'[a].status = "deleted"
      <4>1. Phase(a) \in {"waiting", "settled"} /\ Phase(a)' = "deleted"
        <5>1. Phase(a) \in {"waiting", "settled"}
          BY <1>2, <3>4, PhaseOf
        <5>2. Phase(a)' = "deleted"
          BY <3>4 DEF Phase, WorkStatuses, RestStatuses
        <5> QED BY <5>1, <5>2
      <4>2. phase' = [phase EXCEPT ![a] = "deleted"]
        BY <2>2, <3>1, <4>1
      <4>3. Life!Remove(a)
        BY <3>1, <4>1, <4>2 DEF Life!Remove
      <4> QED BY <4>3 DEF Life!LifeNext
    <3> QED BY <1>2, <2>5, <3>2, <3>3, <3>4, RequestOutcome
  <2>6. CASE Restart \/ (\E a \in Articles : LookUp(a)) \/ UNCHANGED vars
    BY <2>1, <2>3, <2>6 DEF Restart, LookUp, vars, outside
  <2> QED BY <1>2, <2>4, <2>5, <2>6 DEF Next
<1>3. TypeOK /\ HeldArticlesWait /\ [Next]_vars => [Life!LifeNext]_(Life!lifeVars)
  BY <1>2
<1> QED BY <1>1, <1>3, HeldInvariant, PTL DEF Spec, Life!LifeSpec

-----------------------------------------------------------------------------
(* Texts and translations agree *)

\* A row's status, text and translation fit each other.
TextRow(r) ==
  /\ r.status \in {"queued", "fetching", "fetch_failed", "blocked"} => r.content = 0
  /\ r.status = "enrich_failed" => r.content # 0
  /\ \A m \in r.blob : m.content = r.content /\ m.content # 0
  /\ r.coverage = sentenceCoverage(r.blob, r.content)

\* A snapshot holds the text of the row it was made of.
TextBatch(w) ==
  \A s \in batch[w] :
    /\ Live(s.id) => s.content = row[s.id].content
    /\ s.status \in {"queued", "fetching"} => s.content = 0

\* So does the job, and what it has translated is of that text and covers what
\* the row has.
TextJob(w) ==
  /\ job[w] # NoJob =>
       /\ Live(job[w].id) => job[w].content = row[job[w].id].content
       /\ pc[w] \in {"fetch", "extract"} => job[w].content = 0
       /\ pc[w] \in {"gaps", "fill"} => job[w].content # 0
  /\ \A m \in running[w] :
       job[w] # NoJob /\ m.content = job[w].content /\ m.content # 0
  /\ failed[w] => job[w] # NoJob /\ job[w].content # 0
  /\ pc[w] \in {"chunk", "restore", "gaps", "fill"} /\ Live(job[w].id) =>
       Covered(row[job[w].id].blob) \subseteq Covered(running[w])

TextsAgree ==
  /\ \A a \in Articles : TextRow(row[a])
  /\ \A w \in Workers : TextBatch(w) /\ TextJob(w)

\* An enrichment that fits the text it is to be stored with.
Fits(b, content) == \A m \in b : m.content = content /\ m.content # 0

\* Each write keeps a fitting row one, and none but SaveContent its text.
LEMMA TextWrites ==
  ASSUME NEW r \in Row, TextRow(r)
  PROVE  /\ TextRow(SetStatus(r, "enriching"))
         /\ r.content = 0 => TextRow(SetStatus(r, "fetching"))
         /\ \A s \in {"fetch_failed", "blocked"} : r.content = 0 => TextRow(SetFailed(r, s))
         /\ r.content # 0 => TextRow(SetFailed(r, "enrich_failed"))
         /\ \A b : Fits(b, r.content) =>
              /\ TextRow(SaveEnrichment(r, b))
              /\ TextRow(SaveEnrichmentProgress(r, b))
         /\ \A content : r.content = 0 /\ content # 0 => TextRow(SaveContent(r, content))
         /\ TextRow(RetryArticle(r))
         /\ \A v : TextRow(RequeueForVersion(r, v))
         /\ TextRow(ReEnrichFull(r))
         /\ TextRow(ReEnrichTopup(r))
<1>1. \A s : /\ SetStatus(r, s).status = s /\ SetFailed(r, s).status = s
             /\ SetStatus(r, s).content = r.content /\ SetFailed(r, s).content = r.content
             /\ SetStatus(r, s).blob = r.blob /\ SetFailed(r, s).blob = r.blob
             /\ SetStatus(r, s).coverage = r.coverage
             /\ SetFailed(r, s).coverage = r.coverage
  BY DEF SetStatus, SetFailed, Row
<1>2. \A b : /\ SaveEnrichment(r, b).status = "enriched"
             /\ SaveEnrichment(r, b).content = r.content /\ SaveEnrichment(r, b).blob = b
             /\ SaveEnrichmentProgress(r, b).status = r.status
             /\ SaveEnrichmentProgress(r, b).content = r.content
             /\ SaveEnrichmentProgress(r, b).blob = b
             /\ SaveEnrichment(r, b).coverage = sentenceCoverage(b, r.content)
             /\ SaveEnrichmentProgress(r, b).coverage = sentenceCoverage(b, r.content)
  BY DEF SaveEnrichment, SaveEnrichmentProgress, Row
<1>3. \A content : /\ SaveContent(r, content).status = "fetched"
                   /\ SaveContent(r, content).content = content
                   /\ SaveContent(r, content).blob = r.blob
                   /\ SaveContent(r, content).coverage = r.coverage
  BY DEF SaveContent, Row
<1>4. TextRow(RetryArticle(r))
  BY DEF RetryArticle, QueueByContent, TextRow, Row
<1>5. \A v : TextRow(RequeueForVersion(r, v))
  BY NothingCovered DEF RequeueForVersion, QueueByContent, TextRow, Row
<1>6. TextRow(ReEnrichFull(r)) /\ TextRow(ReEnrichTopup(r))
  BY NothingCovered DEF ReEnrichFull, ReEnrichTopup, TextRow, Row
<1>7. \A b : Fits(b, r.content) =>
        TextRow(SaveEnrichment(r, b)) /\ TextRow(SaveEnrichmentProgress(r, b))
  BY <1>2 DEF TextRow, Fits
<1>8. \A content : r.content = 0 /\ content # 0 => TextRow(SaveContent(r, content))
  <2>1. r.content = 0 => r.blob = {} /\ r.coverage = NoCoverage
    BY NothingCovered DEF TextRow
  <2> QED BY <1>3, <2>1, NothingCovered DEF TextRow
<1>9. /\ TextRow(SetStatus(r, "enriching"))
      /\ r.content = 0 => TextRow(SetStatus(r, "fetching"))
      /\ \A s \in {"fetch_failed", "blocked"} : r.content = 0 => TextRow(SetFailed(r, s))
      /\ r.content # 0 => TextRow(SetFailed(r, "enrich_failed"))
  BY <1>1 DEF TextRow
<1> QED BY <1>4, <1>5, <1>6, <1>7, <1>8, <1>9

\* What a worker translates fits the text it holds, and so does the merge.
LEMMA MergeFits ==
  ASSUME TypeOK, NEW w \in Workers, job[w] \in Job, TextJob(w),
         NEW clean \in SUBSET Translations(w)
  PROVE  /\ Fits(running[w], job[w].content)
         /\ Fits(mergeEnrichment(running[w], clean), job[w].content)
         /\ Covered(running[w]) \subseteq Covered(mergeEnrichment(running[w], clean))
<1>1. Fits(running[w], job[w].content)
  BY DEF TextJob, Fits
<1>2. Fits(clean, job[w].content)
  BY DEF Translations, Translated, ChunksOf, Fits
<1>3. Covered(running[w]) \subseteq Covered(mergeEnrichment(running[w], clean))
  BY DEF mergeEnrichment, Covered
<1> QED BY <1>1, <1>2, <1>3 DEF Fits, mergeEnrichment

\* A worker that has returned holds nothing to agree with.
LEMMA EndJobText ==
  ASSUME TypeOK, NEW w \in Workers, EndJob(w)
  PROVE  TextJob(w)'
BY DEF EndJob, Goto, TypeOK, TextJob

\* The article in hand is all a step of a stage has to care about.
LEMMA StageTexts ==
  ASSUME Solo, TypeOK, HeldArticlesWait, TextsAgree, NEW w \in Workers,
         Fetch(w) \/ Enrich(w) \/ TopUp(w),
         TextRow(row'[job[w].id]), TextJob(w)'
  PROVE  TextsAgree'
<1>1. JobStep(w)
  BY StageSteps
<1>2. \A v \in Workers : v = w
  BY DEF Solo
<1>3. TextBatch(w)'
  <2> SUFFICES ASSUME NEW s \in batch[w]
               PROVE  /\ Live(s.id)' => s.content = row'[s.id].content
                      /\ s.status \in {"queued", "fetching"} => s.content = 0
    BY <1>1 DEF JobStep, TextBatch
  <2>1. s.id \in Articles \ {job[w].id}
    BY <1>1, JobIsSome DEF HeldArticlesWait, TypeOK, Snapshot, JobStep
  <2>2. row'[s.id] = row[s.id]
    BY <1>1, <2>1 DEF JobStep
  <2> QED BY <2>2 DEF TextsAgree, TextBatch, Live
<1>4. \A a \in Articles : TextRow(row'[a])
  BY <1>1 DEF JobStep, TextsAgree
<1> QED BY <1>2, <1>3, <1>4 DEF TextsAgree

\* A worker that marks the row and goes on still agrees with it.
LEMMA GotoText ==
  ASSUME TypeOK, NEW w \in Workers, job[w] \in Job, TextJob(w), NEW status, NEW label,
         Store(job[w].id, SetStatus(row[job[w].id], status)), Goto(w, label),
         UNCHANGED local,
         label \in {"fetch", "extract"} => job[w].content = 0,
         label \in {"gaps", "fill"} => job[w].content # 0,
         label \in {"chunk", "restore", "gaps", "fill"} =>
           pc[w] \in {"chunk", "restore", "gaps", "fill"}
  PROVE  TextJob(w)'
<1> DEFINE a == job[w].id
<1>1. a \in Articles /\ row[a] \in Row /\ job[w] # NoJob
  BY JobIsSome DEF Job, TypeOK
<1>2. row'[a] = IF Live(a) THEN SetStatus(row[a], status) ELSE row[a]
  BY <1>1 DEF Store, TypeOK
<1>3. row'[a].content = row[a].content /\ row'[a].blob = row[a].blob
  BY <1>1, <1>2 DEF SetStatus, Row
<1>4. row'[a].status \in LiveStatuses => Live(a)
  BY <1>2 DEF Live
<1>5. pc'[w] = label
  BY DEF Goto, TypeOK
<1>6. UNCHANGED <<job, running, failed>>
  BY DEF local
<1> QED BY <1>3, <1>4, <1>5, <1>6 DEF TextJob, Live

\* Fetching keeps texts and translations in agreement.
LEMMA FetchTexts ==
  ASSUME Solo, TypeOK, HeldArticlesWait, TextsAgree, NEW w \in Workers, Fetch(w)
  PROVE  TextsAgree'
<1> DEFINE a == job[w].id
<1>1. JobStep(w)
  BY StageSteps
<1>2. /\ job[w] \in Job /\ job[w] # NoJob /\ a \in Articles
      /\ row[a] \in Row /\ TextRow(row[a]) /\ TextJob(w)
  BY <1>1, JobIsSome DEF JobStep, Job, TypeOK, TextsAgree
<1>3. ASSUME NEW r, Store(a, r), Live(a) => TextRow(r) PROVE TextRow(row'[a])
  BY <1>2, <1>3 DEF Store, TypeOK
<1>4. job[w].content = 0 /\ (Live(a) => row[a].content = 0)
  BY <1>2 DEF Fetch, BeginFetch, AnswerFetch, SaveFetched, FailFetch, TimeOutFetch, TextJob
<1>5. running[w] = {} /\ ~failed[w]
  BY <1>2, <1>4 DEF TextJob
<1> HIDE DEF a
<1>6. CASE BeginFetch(w)
  <2>1. TextRow(row'[a])
    BY <1>2, <1>3, <1>4, <1>6, TextWrites DEF BeginFetch, a
  <2>2. TextJob(w)'
    BY <1>2, <1>4, <1>6, GotoText DEF BeginFetch
  <2> QED BY <2>1, <2>2, StageTexts DEF a
<1>7. CASE SaveFetched(w)
  <2>1. PICK text \in Texts :
          /\ Store(a, SaveContent(row[a], text))
          /\ IF Live(a)
             THEN /\ Goto(w, "enrich")
                  /\ job' = [job EXCEPT ![w].content = text]
                  /\ UNCHANGED <<batch, full, running, at, failed>>
             ELSE EndJob(w)
    BY <1>7 DEF SaveFetched, a
  <2>2. text \in Contents /\ text # 0
    BY PipelineAssumption DEF Texts, Contents
  <2>3. TextRow(row'[a])
    BY <1>2, <1>3, <1>4, <2>1, <2>2, TextWrites
  <2>4. TextJob(w)'
    <3>1. CASE Live(a)
      <4>1. row'[a].content = text
        BY <1>2, <2>1, <3>1 DEF Store, SaveContent, TypeOK, Row
      <4>2. job'[w].content = text /\ job'[w].id = a /\ pc'[w] = "enrich"
        BY <1>2, <2>1, <3>1 DEF TypeOK, Goto, Job, a
      <4>3. running'[w] = {} /\ ~failed'[w]
        BY <1>5, <2>1, <3>1
      <4> QED BY <4>1, <4>2, <4>3 DEF TextJob
    <3>2. CASE ~Live(a)
      BY <2>1, <3>2, EndJobText
    <3> QED BY <3>1, <3>2
  <2> QED BY <2>3, <2>4, StageTexts DEF a
<1>8. CASE FailFetch(w)
  <2>1. PICK status \in {"fetch_failed", "blocked"} : Store(a, SetFailed(row[a], status))
    BY <1>8 DEF FailFetch, a
  <2>2. TextRow(row'[a])
    BY <1>2, <1>3, <1>4, <2>1, TextWrites
  <2>3. TextJob(w)'
    BY <1>8, EndJobText DEF FailFetch
  <2> QED BY <2>2, <2>3, StageTexts DEF a
<1>9. CASE TimeOutFetch(w)
  <2>1. TextRow(row'[a]) /\ TextJob(w)'
    BY <1>2, <1>9, EndJobText DEF TimeOutFetch
  <2> QED BY <2>1, StageTexts DEF a
<1> QED BY <1>6, <1>7, <1>8, <1>9 DEF Fetch, AnswerFetch

\* Translating keeps texts and translations in agreement.
LEMMA EnrichTexts ==
  ASSUME Solo, TypeOK, RowsConsistent, HeldArticlesWait, TextsAgree,
         NEW w \in Workers, Enrich(w)
  PROVE  TextsAgree'
<1> DEFINE a == job[w].id
<1>1. JobStep(w)
  BY StageSteps
<1>2. /\ job[w] \in Job /\ job[w] # NoJob /\ a \in Articles
      /\ row[a] \in Row /\ TextRow(row[a]) /\ TextJob(w)
  BY <1>1, JobIsSome DEF JobStep, Job, TypeOK, TextsAgree
<1>3. ASSUME NEW r, Store(a, r), Live(a) => TextRow(r) PROVE TextRow(row'[a])
  BY <1>2, <1>3 DEF Store, TypeOK
<1>4. /\ Live(a) => job[w].content = row[a].content
      /\ failed[w] => job[w].content # 0
      /\ Fits(running[w], job[w].content)
  BY <1>2 DEF TextJob, Fits
<1>5. ~Live(a) => row[a].blob = {}
  BY <1>2 DEF RowsConsistent, ConsistentRow, Live
<1> HIDE DEF a
<1>6. CASE BeginEnrich(w)
  <2>1. TextRow(row'[a])
    BY <1>2, <1>3, <1>6, TextWrites DEF BeginEnrich, a
  <2>2. TextJob(w)'
    BY <1>2, <1>6, GotoText DEF BeginEnrich
  <2> QED BY <2>1, <2>2, StageTexts DEF a
<1>7. CASE LoadExisting(w)
  <2>1. /\ running'[w] = row[a].blob /\ pc'[w] = "chunk"
        /\ UNCHANGED <<row, job, failed>>
    BY <1>7 DEF LoadExisting, Goto, TypeOK, a
  <2>2. Fits(row[a].blob, job[w].content)
    BY <1>2, <1>4, <1>5 DEF TextRow, Fits
  <2>3. TextJob(w)'
    BY <1>2, <1>4, <2>1, <2>2 DEF TextJob, Fits, Live, a
  <2>4. TextRow(row'[a])
    BY <1>2, <2>1
  <2> QED BY <2>3, <2>4, StageTexts DEF a
<1>8. CASE SaveChunk(w)
  <2>1. PICK c \in Chunks, clean \in SUBSET Translations(w) : PersistChunk(w, c, clean)
    BY <1>8 DEF SaveChunk
  <2> DEFINE merged == mergeEnrichment(running[w], clean)
  <2>2. Fits(merged, job[w].content)
    BY <1>2, MergeFits
  <2> HIDE DEF merged
  <2>3. /\ Store(a, SaveEnrichmentProgress(row[a], merged))
        /\ IF Live(a)
           THEN /\ running' = [running EXCEPT ![w] = merged]
                /\ UNCHANGED <<pc, job, failed>>
           ELSE EndJob(w)
    BY <2>1 DEF PersistChunk, merged, a
  <2>4. TextRow(row'[a])
    BY <1>2, <1>3, <1>4, <2>2, <2>3, TextWrites
  <2>5. CASE Live(a)
    <3>1. row'[a].blob = merged /\ row'[a].content = row[a].content
      BY <1>2, <2>3, <2>5 DEF Store, SaveEnrichmentProgress, TypeOK, Row
    <3>2. running'[w] = merged /\ UNCHANGED <<pc, job, failed>>
      BY <2>3, <2>5 DEF TypeOK
    <3>3. pc[w] = "chunk"
      BY <1>8 DEF SaveChunk
    <3>4. TextJob(w)'
      BY <1>2, <1>4, <2>2, <2>5, <3>1, <3>2, <3>3 DEF TextJob, Fits, a
    <3> QED BY <2>4, <3>4, StageTexts DEF a
  <2>6. CASE ~Live(a)
    BY <2>3, <2>4, <2>6, EndJobText, StageTexts DEF a
  <2> QED BY <2>5, <2>6
<1>9. CASE FailChunk(w)
  <2>1. job[w].content # 0
    BY <1>9 DEF FailChunk, IsNextChunk, Pending, ChunksOf
  <2>2. UNCHANGED <<row, pc, job, running>>
    BY <1>9 DEF FailChunk
  <2>3. TextJob(w)'
    BY <1>2, <2>1, <2>2 DEF TextJob, Live
  <2>4. TextRow(row'[a])
    BY <1>2, <2>2
  <2> QED BY <2>3, <2>4, StageTexts DEF a
<1>10. CASE FinishEnrich(w)
  <2>1. /\ Store(a, IF failed[w] THEN SetFailed(row[a], "enrich_failed")
                                 ELSE SaveEnrichment(row[a], running[w]))
        /\ EndJob(w)
    BY <1>10 DEF FinishEnrich, a
  <2>2. TextRow(row'[a])
    <3>1. CASE failed[w]
      BY <1>2, <1>3, <1>4, <2>1, <3>1, TextWrites
    <3>2. CASE ~failed[w]
      BY <1>2, <1>3, <1>4, <2>1, <3>2, TextWrites
    <3> QED BY <3>1, <3>2
  <2> QED BY <2>1, <2>2, EndJobText, StageTexts DEF a
<1> QED BY <1>6, <1>7, <1>8, <1>9, <1>10 DEF Enrich

\* Filling the gaps keeps texts and translations in agreement.
LEMMA TopUpTexts ==
  ASSUME Solo, TypeOK, RowsConsistent, HeldArticlesWait, TextsAgree,
         NEW w \in Workers, TopUp(w)
  PROVE  TextsAgree'
<1> DEFINE a == job[w].id
<1>1. JobStep(w)
  BY StageSteps
<1>2. /\ job[w] \in Job /\ job[w] # NoJob /\ a \in Articles
      /\ row[a] \in Row /\ TextRow(row[a]) /\ TextJob(w)
  BY <1>1, JobIsSome DEF JobStep, Job, TypeOK, TextsAgree
<1>3. ASSUME NEW r, Store(a, r), Live(a) => TextRow(r) PROVE TextRow(row'[a])
  BY <1>2, <1>3 DEF Store, TypeOK
<1>4. /\ Live(a) => job[w].content = row[a].content
      /\ Fits(running[w], job[w].content)
  BY <1>2 DEF TextJob, Fits
<1> HIDE DEF a
<1>5. CASE LoadTopUp(w)
  <2>1. UNCHANGED row
    BY <1>5 DEF LoadTopUp
  <2>2. TextRow(row'[a])
    BY <1>2, <2>1
  <2>3. CASE Live(a)
    <3> DEFINE content == IF job[w].content # 0 THEN job[w].content ELSE row[a].content
               gaps == ChunksOf(content) \ Covered(row[a].blob)
    <3>1. /\ running' = [running EXCEPT ![w] = row[a].blob]
          /\ job' = [job EXCEPT ![w].content = content]
          /\ Goto(w, IF gaps = {} THEN "restore" ELSE "gaps")
          /\ UNCHANGED failed
      BY <1>5, <2>3 DEF LoadTopUp, a
    <3>2. content = job[w].content
      BY <1>4, <2>3
    <3>3. gaps # {} => content # 0
      BY DEF ChunksOf
    <3> HIDE DEF content, gaps
    <3>4. /\ job'[w].id = a /\ job'[w].content = job[w].content /\ job'[w] # NoJob
          /\ running'[w] = row[a].blob
          /\ pc'[w] \in {"restore", "gaps"} /\ (pc'[w] = "gaps" => job[w].content # 0)
      <4>1. job'[w] = [job[w] EXCEPT !.content = content]
        BY <3>1 DEF TypeOK
      <4>2. job'[w] = job[w]
        BY <1>2, <3>2, <4>1 DEF Job
      <4> QED BY <1>2, <3>1, <3>2, <3>3, <4>2 DEF TypeOK, Goto, a
    <3>5. TextJob(w)'
      BY <1>2, <1>4, <2>1, <2>3, <3>1, <3>4 DEF TextJob, TextRow, Live, a
    <3> QED BY <2>2, <3>5, StageTexts DEF a
  <2>4. CASE ~Live(a)
    <3>1. EndJob(w)
      BY <1>5, <2>4 DEF LoadTopUp, a
    <3> QED BY <2>2, <3>1, EndJobText, StageTexts DEF a
  <2> QED BY <2>3, <2>4
<1>6. CASE RestoreEnriched(w)
  <2>1. TextRow(row'[a])
    BY <1>2, <1>3, <1>4, <1>6, TextWrites DEF RestoreEnriched, a
  <2> QED BY <1>6, <2>1, EndJobText, StageTexts DEF RestoreEnriched, a
<1>7. CASE BeginTopUp(w)
  <2>1. TextRow(row'[a])
    BY <1>2, <1>3, <1>7, TextWrites DEF BeginTopUp, a
  <2>2. pc[w] = "gaps" /\ job[w].content # 0
    BY <1>2, <1>7 DEF BeginTopUp, TextJob
  <2>3. TextJob(w)'
    BY <1>2, <1>7, <2>2, GotoText DEF BeginTopUp
  <2> QED BY <2>1, <2>3, StageTexts DEF a
<1>8. CASE FillGaps(w)
  <2>1. PICK clean \in SUBSET Translations(w) :
          Store(a, SaveEnrichment(row[a], mergeEnrichment(running[w], clean)))
    BY <1>8 DEF FillGaps, a
  <2>2. Fits(mergeEnrichment(running[w], clean), job[w].content)
    BY <1>2, MergeFits
  <2>3. TextRow(row'[a])
    BY <1>2, <1>3, <1>4, <2>1, <2>2, TextWrites
  <2> QED BY <1>8, <2>3, EndJobText, StageTexts DEF FillGaps, a
<1>9. CASE FailTopUp(w)
  <2>1. job[w].content # 0
    BY <1>2, <1>9 DEF FailTopUp, TextJob
  <2>2. TextRow(row'[a])
    BY <1>2, <1>3, <1>4, <1>9, <2>1, TextWrites DEF FailTopUp, a
  <2> QED BY <1>9, <2>2, EndJobText, StageTexts DEF FailTopUp, a
<1>10. CASE TimeOutTopUp(w)
  BY <1>2, <1>10, EndJobText, StageTexts DEF TimeOutTopUp, a
<1> QED BY <1>5, <1>6, <1>7, <1>8, <1>9, <1>10 DEF TopUp

\* Listing and taking up an article copies the text of its row.
LEMMA DrainTexts ==
  ASSUME Solo, TypeOK, JobHeld, HeldArticlesWait, TextsAgree,
         NEW w \in Workers, Drain(w)
  PROVE  TextsAgree'
<1>1. \A v \in Workers : v = w
  BY DEF Solo
<1>2. row' = row /\ failed' = failed /\ running' = running
  BY DEF Drain, Wake, List, Take, EndBatch, local
<1>3. pc[w] \in {"idle", "list", "next"} /\ job[w] = NoJob
  BY DEF Drain, Wake, List, Take, EndBatch, JobHeld
<1>4. running[w] = {} /\ ~failed[w]
  BY <1>3 DEF TextsAgree, TextJob
<1>5. CASE Wake(w) \/ EndBatch(w)
  <2>1. UNCHANGED <<batch, job>> /\ pc'[w] \in {"idle", "list"}
    BY <1>5 DEF Wake, EndBatch, local, Goto, TypeOK
  <2> QED BY <1>1, <1>2, <1>3, <1>4, <2>1 DEF TextsAgree, TextBatch, TextJob, Live
<1>6. CASE List(w)
  <2>1. PICK ids \in SUBSET Articles :
          batch' = [batch EXCEPT ![w] = {SnapshotOf(a) : a \in ids}]
    BY <1>6 DEF List
  <2>2. batch'[w] = {SnapshotOf(a) : a \in ids}
    BY <2>1 DEF TypeOK
  <2>3. job' = job /\ pc'[w] \in {"idle", "next"}
    BY <1>6 DEF List, Goto, TypeOK
  <2>4. ASSUME NEW a \in ids
        PROVE  /\ SnapshotOf(a).id = a /\ SnapshotOf(a).content = row[a].content
               /\ SnapshotOf(a).status \in {"queued", "fetching"} => row[a].content = 0
    BY DEF SnapshotOf, TextsAgree, TextRow
  <2>5. TextBatch(w)'
    BY <1>2, <2>2, <2>4 DEF TextBatch, Live
  <2> QED BY <1>1, <1>2, <1>3, <1>4, <2>3, <2>5 DEF TextsAgree, TextJob
<1>7. CASE Take(w)
  <2>1. PICK s \in batch[w] :
          /\ batch' = [batch EXCEPT ![w] = @ \ {s}]
          /\ job' = [job EXCEPT ![w] = [id |-> s.id, content |-> s.content]]
          /\ Goto(w, Stage(s.status))
    BY <1>7 DEF Take
  <2>2. /\ batch'[w] = batch[w] \ {s}
        /\ job'[w].id = s.id /\ job'[w].content = s.content
        /\ pc'[w] = Stage(s.status)
    BY <2>1 DEF TypeOK, Goto
  <2>3. pc'[w] \in {"fetch", "topup", "enrich"}
        /\ (pc'[w] = "fetch" => s.status \in {"queued", "fetching"})
    BY <2>2 DEF Stage
  <2>4. TextBatch(w)'
    BY <1>2, <2>2 DEF TextsAgree, TextBatch, Live
  <2>5. /\ Live(s.id) => s.content = row[s.id].content
        /\ s.status \in {"queued", "fetching"} => s.content = 0
    BY DEF TextsAgree, TextBatch
  <2>6. TextJob(w)'
    BY <1>2, <1>4, <2>2, <2>3, <2>5 DEF TextJob, Live
  <2> QED BY <1>1, <1>2, <2>4, <2>6 DEF TextsAgree
<1> QED BY <1>5, <1>6, <1>7 DEF Drain

\* A request never changes the text of an article that is there: it leaves the
\* translation alone, or empties it and starts a new epoch.
LEMMA RequestTexts ==
  ASSUME TypeOK, TextsAgree, NEW a \in Articles, Request(a)
  PROVE  /\ TextRow(row'[a])
         /\ row[a].status # "absent" /\ row'[a].status # "deleted" =>
              /\ Live(a)
              /\ row'[a].content = row[a].content
              /\ \/ row'[a].blob = row[a].blob
                 \/ row'[a].blob = {} /\ epoch'[a] # epoch[a]
<1>1. row[a] \in Row /\ TextRow(row[a])
  BY DEF TypeOK, TextsAgree
<1>2. ASSUME NEW s, NEW content \in Contents, Insert(a, s, content),
             (s = "queued" /\ content = 0) \/ s = "fetched"
      PROVE  TextRow(row'[a]) /\ row[a].status = "absent"
  BY <1>2, NothingCovered DEF Insert, NoRow, TypeOK, TextRow
<1>3. ASSUME NEW r, Store(a, r), Live(a) PROVE row'[a] = r
  BY <1>3 DEF Store, TypeOK
<1>4. epoch' = [epoch EXCEPT ![a] = @ + 1] => epoch'[a] # epoch[a]
  BY DEF TypeOK
<1>5. CASE Add(a) \/ AddText(a)
  BY <1>2, <1>5 DEF Add, AddText, Contents
<1>6. CASE AddAgain(a)
  <2>1. row'[a] = RequeueForVersion(row[a], cfgVersion)
    BY <1>3, <1>6 DEF AddAgain
  <2>2. row'[a].blob = {} /\ row'[a].content = row[a].content
    BY <1>1, <2>1 DEF RequeueForVersion, Row
  <2> QED BY <1>1, <1>4, <1>6, <2>1, <2>2, TextWrites DEF AddAgain
<1>7. CASE Retry(a)
  <2>1. row'[a] = RetryArticle(row[a])
    BY <1>3, <1>7 DEF Retry
  <2>2. row'[a].blob = row[a].blob /\ row'[a].content = row[a].content
    BY <1>1, <2>1 DEF RetryArticle, Row
  <2> QED BY <1>1, <1>7, <2>1, <2>2, TextWrites DEF Retry
<1>8. CASE ReEnrich(a)
  <2>1. CASE Store(a, ReEnrichFull(row[a])) /\ epoch' = [epoch EXCEPT ![a] = @ + 1]
    <3>1. row'[a] = ReEnrichFull(row[a])
      BY <1>3, <1>8, <2>1 DEF ReEnrich
    <3>2. row'[a].blob = {} /\ row'[a].content = row[a].content
      BY <1>1, <3>1 DEF ReEnrichFull, Row
    <3> QED BY <1>1, <1>4, <1>8, <2>1, <3>1, <3>2, TextWrites DEF ReEnrich
  <2>2. CASE Store(a, ReEnrichTopup(row[a]))
    <3>1. row'[a] = ReEnrichTopup(row[a])
      BY <1>3, <1>8, <2>2 DEF ReEnrich
    <3>2. row'[a].blob = row[a].blob /\ row'[a].content = row[a].content
      BY <1>1, <3>1 DEF ReEnrichTopup, Row
    <3> QED BY <1>1, <1>8, <3>1, <3>2, TextWrites DEF ReEnrich
  <2> QED BY <1>8, <2>1, <2>2 DEF ReEnrich
<1>9. CASE Delete(a)
  <2>1. row'[a] = NoRow("deleted", row[a].born)
    BY <1>3, <1>9 DEF Delete
  <2> QED BY <2>1, NothingCovered DEF NoRow, TextRow
<1> QED BY <1>5, <1>6, <1>7, <1>8, <1>9 DEF Request

\* Every step of a pool of one keeps texts and translations in agreement.
LEMMA NextTexts ==
  ASSUME Solo, TypeOK, RowsConsistent, JobHeld, HeldArticlesWait, TextsAgree, [Next]_vars
  PROVE  TextsAgree'
<1> USE DEF local, outside
<1>1. ASSUME NEW w \in Workers, Work(w) PROVE TextsAgree'
  BY <1>1, DrainTexts, FetchTexts, EnrichTexts, TopUpTexts DEF Work
<1>2. ASSUME NEW a \in Articles, Request(a) PROVE TextsAgree'
  <2>1. \A b \in Articles \ {a} : row'[b] = row[b]
    BY <1>2, RequestOutcome
  <2>2. UNCHANGED <<pc, batch, job, running, failed>>
    BY <1>2 DEF Request, Add, AddText, Insert, AddAgain, Retry, ReEnrich, Delete
  <2>3. \A b \in Articles : TextRow(row'[b])
    BY <1>2, <2>1, RequestTexts DEF TextsAgree
  <2>4. ASSUME NEW b \in Articles, Unsettled(b), row'[b].status \in LiveStatuses
        PROVE  /\ Live(b) /\ row'[b].content = row[b].content
               /\ Covered(row'[b].blob) \subseteq Covered(row[b].blob)
    <3>1. CASE b # a
      BY <2>1, <2>4, <3>1 DEF Live
    <3>2. CASE b = a
      <4>1. row[a].status # "absent" /\ row'[a].status # "deleted"
        BY <2>4, <3>2 DEF Unsettled, WorkStatuses, LiveStatuses, RestStatuses
      <4> QED BY <1>2, <3>2, <4>1, RequestTexts DEF Covered
    <3> QED BY <3>1, <3>2
  <2> HIDE DEF local, outside
  <2>5. ASSUME NEW w \in Workers PROVE TextBatch(w)'
    <3>1. \A s \in batch[w] : s.id \in Articles /\ Unsettled(s.id)
      BY DEF TypeOK, Snapshot, HeldArticlesWait
    <3> QED BY <2>2, <2>4, <3>1 DEF TextBatch, TextsAgree, Live
  <2>6. ASSUME NEW w \in Workers PROVE TextJob(w)'
    <3>1. CASE job[w] = NoJob
      <4>1. pc[w] \in {"idle", "list", "next"}
        BY <3>1, JobIsSome DEF TypeOK
      <4> QED BY <2>2, <3>1, <4>1 DEF TextJob, TextsAgree
    <3>2. CASE job[w] # NoJob
      <4>1. job[w].id \in Articles /\ Unsettled(job[w].id)
        BY <3>2 DEF TypeOK, Job, HeldArticlesWait
      <4>2. TextJob(w)
        BY DEF TextsAgree
      <4>3. row'[job[w].id].status \in LiveStatuses =>
              /\ Live(job[w].id) /\ row'[job[w].id].content = row[job[w].id].content
              /\ Covered(row'[job[w].id].blob) \subseteq Covered(row[job[w].id].blob)
        BY <2>4, <4>1
      <4> QED BY <2>2, <3>2, <4>2, <4>3 DEF TextJob, Live
    <3> QED BY <3>1, <3>2
  <2> QED BY <2>3, <2>5, <2>6 DEF TextsAgree
<1>3. CASE Restart
  BY <1>3 DEF Restart, TextsAgree, TextBatch, TextJob
<1>4. CASE (\E a \in Articles : LookUp(a)) \/ UNCHANGED vars
  BY <1>4 DEF LookUp, vars, TextsAgree, TextBatch, TextJob, Live
<1> QED BY <1>1, <1>2, <1>3, <1>4 DEF Next

\* Texts and translations of a pool of one agree in every state.
LEMMA TextsInvariant ==
  ASSUME Solo
  PROVE  Spec => [](TypeOK /\ HeldArticlesWait /\ TextsAgree)
<1>1. Init => JobHeld /\ TextsAgree
  <2>1. ASSUME Init, NEW a \in Articles PROVE TextRow(row[a])
    BY <2>1, NothingCovered DEF Init, TextRow, NoRow
  <2>2. ASSUME Init, NEW w \in Workers PROVE TextBatch(w) /\ TextJob(w)
    BY <2>2 DEF Init, TextBatch, TextJob
  <2>3. Init => JobHeld
    BY DEF Init, JobHeld
  <2> QED BY <2>1, <2>2, <2>3 DEF TextsAgree
<1>2. TypeOK /\ RowsConsistent /\ JobHeld /\ HeldArticlesWait /\ TextsAgree /\ [Next]_vars
        => JobHeld' /\ TextsAgree'
  BY NextJobHeld, NextTexts
<1> QED BY <1>1, <1>2, HeldInvariant, RowsAgree, PTL DEF Spec

\* A failed status names the stage that failed: the retry routing by stored
\* text sends every failed article back to the stage it failed in.
THEOREM FailuresNameTheirStage ==
  ASSUME Solo
  PROVE  Spec => []FailureNamesStage
<1>1. TextsAgree => FailureNamesStage
  BY DEF TextsAgree, TextRow, FailureNamesStage
<1> QED BY <1>1, TextsInvariant, PTL

\* Every stored sentence translates the text that is stored, whatever fails,
\* is retried, topped up or restarted.
THEOREM TranslationsFitTheirText ==
  ASSUME Solo
  PROVE  Spec => []BlobMatchesContent
<1>1. TextsAgree => BlobMatchesContent
  BY DEF TextsAgree, TextRow, BlobMatchesContent
<1> QED BY <1>1, TextsInvariant, PTL

\* The coverage shown is that of the text and the enrichment it stands beside,
\* whatever is fetched, resumed, topped up, retried or restarted.
THEOREM CoverageIsOfThisText ==
  ASSUME Solo
  PROVE  Spec => []CoverageFitsText
<1>1. TextsAgree => CoverageFitsText
  BY DEF TextsAgree, TextRow, CoverageFitsText
<1> QED BY <1>1, TextsInvariant, PTL

\* A write of the worker covers what the row covered.
LEMMA StageKeepsChunks ==
  ASSUME TypeOK, TextsAgree, NEW w \in Workers, Fetch(w) \/ Enrich(w) \/ TopUp(w),
         NEW a \in Articles, a = job[w].id
  PROVE  Covered(row[a].blob) \subseteq Covered(row'[a].blob)
<1>1. row[a] \in Row /\ job[w] \in Job /\ TextJob(w)
  BY StageSteps DEF JobStep, TypeOK, TextsAgree
<1>2. ASSUME NEW r, Store(a, r), Live(a) => Covered(row[a].blob) \subseteq Covered(r.blob)
      PROVE  Covered(row[a].blob) \subseteq Covered(row'[a].blob)
  BY <1>2 DEF Store, TypeOK
<1>3. \A s : SetStatus(row[a], s).blob = row[a].blob /\ SetFailed(row[a], s).blob = row[a].blob
  BY <1>1 DEF SetStatus, SetFailed, Row
<1>4. \A b : SaveEnrichment(row[a], b).blob = b /\ SaveEnrichmentProgress(row[a], b).blob = b
  BY <1>1 DEF SaveEnrichment, SaveEnrichmentProgress, Row
<1>5. pc[w] \in {"chunk", "restore", "gaps", "fill"} /\ Live(a) =>
        Covered(row[a].blob) \subseteq Covered(running[w])
  BY <1>1 DEF TextJob
<1>6. CASE Fetch(w)
  <2>1. \A text : SaveContent(row[a], text).blob = row[a].blob
    BY <1>1 DEF SaveContent, Row
  <2> QED BY <1>2, <1>3, <1>6, <2>1
          DEF Fetch, BeginFetch, AnswerFetch, SaveFetched, FailFetch, TimeOutFetch
<1>7. ASSUME NEW clean \in SUBSET Translations(w)
      PROVE  Covered(running[w]) \subseteq Covered(mergeEnrichment(running[w], clean))
  BY <1>1, MergeFits
<1>8. CASE SaveChunk(w)
  <2>1. PICK clean \in SUBSET Translations(w) :
          Store(a, SaveEnrichmentProgress(row[a], mergeEnrichment(running[w], clean)))
    BY <1>8 DEF SaveChunk, PersistChunk
  <2>2. pc[w] = "chunk"
    BY <1>8 DEF SaveChunk
  <2> QED BY <1>2, <1>4, <1>5, <1>7, <2>1, <2>2
<1>9. CASE FinishEnrich(w)
  <2>1. Store(a, IF failed[w] THEN SetFailed(row[a], "enrich_failed")
                              ELSE SaveEnrichment(row[a], running[w])) /\ pc[w] = "chunk"
    BY <1>9 DEF FinishEnrich
  <2> QED BY <1>2, <1>3, <1>4, <1>5, <2>1
<1>10. CASE RestoreEnriched(w)
  BY <1>2, <1>4, <1>5, <1>10 DEF RestoreEnriched
<1>11. CASE FillGaps(w)
  <2>1. PICK clean \in SUBSET Translations(w) :
          Store(a, SaveEnrichment(row[a], mergeEnrichment(running[w], clean)))
    BY <1>11 DEF FillGaps
  <2>2. pc[w] = "fill"
    BY <1>11 DEF FillGaps
  <2> QED BY <1>2, <1>4, <1>5, <1>7, <2>1, <2>2
<1>12. CASE BeginEnrich(w) \/ BeginTopUp(w) \/ FailTopUp(w)
  BY <1>2, <1>3, <1>12 DEF BeginEnrich, BeginTopUp, FailTopUp
<1>13. CASE LoadExisting(w) \/ FailChunk(w) \/ LoadTopUp(w) \/ TimeOutTopUp(w)
  BY <1>13 DEF LoadExisting, FailChunk, LoadTopUp, TimeOutTopUp
<1> QED BY <1>6, <1>8, <1>9, <1>10, <1>11, <1>12, <1>13 DEF Enrich, TopUp

\* What a run has paid for is never lost: a chunk once stored stays, until the
\* user asks for a new translation or deletes the article.
THEOREM PaidChunksStay ==
  ASSUME Solo
  PROVE  Spec => ChunksKept
<1> DEFINE Kept == \A a \in Articles : \/ Covered(row[a].blob) \subseteq Covered(row'[a].blob)
                                       \/ epoch'[a] # epoch[a]
                                       \/ row'[a].status = "deleted"
<1>1. ASSUME TypeOK, RowsConsistent, TextsAgree, [Next]_vars PROVE Kept
  <2> SUFFICES ASSUME NEW a \in Articles
               PROVE  \/ Covered(row[a].blob) \subseteq Covered(row'[a].blob)
                      \/ epoch'[a] # epoch[a]
                      \/ row'[a].status = "deleted"
    OBVIOUS
  <2>1. ASSUME NEW w \in Workers, Work(w)
        PROVE  Covered(row[a].blob) \subseteq Covered(row'[a].blob)
    <3>1. CASE Drain(w)
      BY <3>1 DEF Drain, Wake, List, Take, EndBatch
    <3>2. CASE Fetch(w) \/ Enrich(w) \/ TopUp(w)
      <4>1. JobStep(w)
        BY <1>1, <3>2, StageSteps
      <4>2. CASE a = job[w].id
        BY <1>1, <3>2, <4>2, StageKeepsChunks
      <4>3. CASE a # job[w].id
        BY <4>1, <4>3 DEF JobStep
      <4> QED BY <4>2, <4>3
    <3> QED BY <2>1, <3>1, <3>2 DEF Work
  <2>2. ASSUME NEW b \in Articles, Request(b)
        PROVE  \/ Covered(row[a].blob) \subseteq Covered(row'[a].blob)
               \/ epoch'[a] # epoch[a]
               \/ row'[a].status = "deleted"
    <3>1. CASE a # b
      BY <1>1, <2>2, <3>1, RequestOutcome
    <3>2. CASE a = b /\ row[a].status = "absent"
      <4>1. row[a].blob = {}
        BY <1>1, <3>2 DEF RowsConsistent, ConsistentRow, LiveStatuses, WorkStatuses,
                          RestStatuses
      <4> QED BY <4>1 DEF Covered
    <3>3. CASE a = b /\ row[a].status # "absent"
      BY <1>1, <2>2, <3>3, RequestTexts
    <3> QED BY <3>1, <3>2, <3>3
  <2> QED BY <1>1, <2>1, <2>2 DEF Next, LookUp, Restart, vars
<1>2. TypeOK /\ RowsConsistent /\ TextsAgree /\ [Next]_vars => [Kept]_vars
  BY <1>1
<1>3. Spec => [][Kept]_vars
  BY <1>2, TextsInvariant, RowsAgree, PTL DEF Spec
<1> QED BY <1>3 DEF ChunksKept


=============================================================================
