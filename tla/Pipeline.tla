------------------------------ MODULE Pipeline ------------------------------
(***************************************************************************)
(* The article pipeline: the worker pool of internal/enrich, the article   *)
(* and enrichment rows of internal/store it works on, and the requests of  *)
(* internal/ingest that feed it.                                           *)
(*                                                                         *)
(* Covered: every status write, in the order the code makes them; the      *)
(* snapshot a worker works from between reading and writing a row; the     *)
(* wake-up channel and the poll ticker; terminal, bot-wall and timed-out   *)
(* fetches; failed and dropped chunks; resume; top-up; deletion under a    *)
(* running worker; crash, shutdown and restart with a new enrichment       *)
(* version.                                                                *)
(*                                                                         *)
(* Abstracted: the text of an article is a number (0: none yet), an        *)
(* enrichment is the set of chunks its sentences cover, each marked with   *)
(* the text and the epoch it was translated from, and attempts that are    *)
(* retried inside one call, which leave no trace in the store, are the     *)
(* outcome of the last one.  Summary, stage label, error text, pin and     *)
(* model name never steer the pipeline and are left out.                   *)
(***************************************************************************)
EXTENDS Naturals, FiniteSets

CONSTANTS
  Articles,     \* article ids; an id is used for one insertion only
  Workers,      \* the goroutines of Pool.Start (LLM_MAX_CONCURRENT of them)
  NChunks,      \* chunks of the longest text
  BatchSize,    \* limit of one ListWork
  NoJob,        \* job of a worker that has none
  NTexts,       \* texts a fetch or a paste can store, numbered from 1
  Length,       \* how many chunks each of them has
  MaxAsks,      \* bound: user requests
  MaxRestarts   \* bound: process restarts

ASSUME PipelineAssumption ==
  /\ NChunks \in Nat \ {0}
  /\ BatchSize \in Nat \ {0}
  /\ NTexts \in Nat \ {0}
  /\ Length \in [1 .. NTexts -> 1 .. NChunks]
  /\ MaxAsks \in Nat
  /\ MaxRestarts \in Nat
  /\ NoJob \notin [id : Articles, content : {0} \union (1 .. NTexts)]

VARIABLES
  row,         \* articles JOIN enrichments, one record per id
  notified,    \* Pool.notify holds its one token
  cfgVersion,  \* cfg.EnrichmentVersion of the running process
  pc,          \* where each worker is
  batch,       \* the snapshots a worker has listed and not yet taken
  full,        \* the listed batch was as large as the limit
  job,         \* the snapshot being processed, with the text it holds
  running,     \* the enrichment a worker builds, in its own memory
  at,          \* next chunk of runEnrich's loop
  failed,      \* lastErr of runEnrich's loop is set
  outdated,    \* articles an Add has found outdated and not requeued yet
  asks,        \* history: user requests served
  epoch,       \* history: wholesale resets of each article's enrichment
  deferred,    \* history: articles a timed-out call left in a work status
  restarts     \* history: restarts so far

local   == <<batch, full, job, running, at, failed>>
outside == <<outdated, asks, epoch, deferred, restarts>>
vars    == <<row, notified, cfgVersion, pc, local, outside>>

-----------------------------------------------------------------------------
(* Rows *)

WorkStatuses == {"queued", "fetching", "fetched", "enriching", "topup_queued"}
RestStatuses == {"enriched", "fetch_failed", "enrich_failed", "blocked"}
LiveStatuses == WorkStatuses \union RestStatuses

\* "absent": not inserted yet; "deleted": removed by DeleteArticle.
Statuses == LiveStatuses \union {"absent", "deleted"}

Texts    == 1 .. NTexts
Contents == {0} \union Texts
Chunks   == 1 .. NChunks
Mark     == [chunk : Chunks, content : Contents, epoch : Nat]

\* A fraction: the chunks covered, and those of the text they were counted in.
Coverage   == [part : SUBSET Chunks, of : SUBSET Chunks]
NoCoverage == [part |-> {}, of |-> {}]

Row == [status   : Statuses,
        content  : Contents,     \* original_text and tokens; 0 when empty
        version  : Nat,          \* enrichment_version
        stored   : BOOLEAN,      \* the enrichments row exists
        blob     : SUBSET Mark,  \* and what it holds
        coverage : Coverage,     \* enrichment_coverage
        born     : Nat]          \* created_at

NoRow(status, born) ==
  [status |-> status, content |-> 0, version |-> 0, stored |-> FALSE,
   blob |-> {}, coverage |-> NoCoverage, born |-> born]

Snapshot == [id : Articles, status : WorkStatuses, content : Contents, born : Nat]

\* tokenCovered over a chunk: some sentence of the enrichment covers it.
Covered(b) == {m.chunk : m \in b}

\* chunkSpans: a text without tokens has no chunks.
ChunksOf(content) == IF content = 0 THEN {} ELSE 1 .. Length[content]

\* The enrichment against the tokens the row has when it is saved.
sentenceCoverage(b, content) ==
  LET part == Covered(b) \intersect ChunksOf(content)
  IN IF part = {} THEN NoCoverage ELSE [part |-> part, of |-> ChunksOf(content)]

\* mergeEnrichment: additive, and what is already there wins.
mergeEnrichment(existing, addition) ==
  existing \union {m \in addition : m.chunk \notin Covered(existing)}

Live(a)  == row[a].status \in LiveStatuses
Waiting  == {a \in Articles : row[a].status \in WorkStatuses}

-----------------------------------------------------------------------------
(* The store's writes, each from a row to the row it leaves.  A write is   *)
(* one transaction under the write lock; on a missing row it reports       *)
(* ErrNotFound and changes nothing.                                        *)

SetStatus(r, status) == [r EXCEPT !.status = status]

SetFailed(r, status) == [r EXCEPT !.status = status]

\* SaveContent replaces the tokens; enrichment and coverage stay as they are.
SaveContent(r, content) == [r EXCEPT !.status = "fetched", !.content = content]

SaveEnrichment(r, b) ==
  [r EXCEPT !.status = "enriched", !.stored = TRUE, !.blob = b,
            !.coverage = sentenceCoverage(b, r.content)]

\* The status stays, so that an interrupted article is listed again.
SaveEnrichmentProgress(r, b) ==
  [r EXCEPT !.stored = TRUE, !.blob = b,
            !.coverage = sentenceCoverage(b, r.content)]

\* Mutant: the content check is gone.
QueueAnyway(r) == "queued"

QueueByContent(r) == IF r.content # 0 THEN "fetched" ELSE "queued"

\* Mutant: a retry always starts from the fetch.
RetryFromFetch(r) == [r EXCEPT !.status = "queued"]

RetryArticle(r) == [r EXCEPT !.status = QueueByContent(r)]

RequeueForVersion(r, version) ==
  [r EXCEPT !.status = QueueByContent(r), !.version = version,
            !.stored = FALSE, !.blob = {}, !.coverage = NoCoverage]

\* Mutant: the coverage column is not reset with the enrichment.
ReEnrichKeepingCoverage(r) ==
  [r EXCEPT !.status = "fetched", !.stored = FALSE, !.blob = {}]

ReEnrichFull(r) ==
  [r EXCEPT !.status = "fetched", !.stored = FALSE, !.blob = {},
            !.coverage = NoCoverage]

ReEnrichTopup(r) == [r EXCEPT !.status = "topup_queued"]

\* Mutant: an upsert instead of an update.
Upsert(a, r) == row' = [row EXCEPT ![a] = r]

Store(a, r) == row' = [row EXCEPT ![a] = IF Live(a) THEN r ELSE @]

\* Mutant: the status added last is forgotten in the query.
ListedBeforeTopUp == {"queued", "fetching", "fetched", "enriching"}

\* The statuses ListWork selects, its own copy of WorkStatuses.
ListedStatuses == {"queued", "fetching", "fetched", "enriching", "topup_queued"}

\* ListWork: the oldest articles awaiting work, BatchSize of them at most.
IsBatch(ids) ==
  LET found == {a \in Articles : row[a].status \in ListedStatuses}
  IN /\ ids \subseteq found
     /\ \A a \in ids : \A b \in found \ ids : row[a].born <= row[b].born
     /\ \/ Cardinality(ids) = BatchSize
        \/ Cardinality(ids) < BatchSize /\ ids = found

SnapshotOf(a) ==
  [id |-> a, status |-> row[a].status, content |-> row[a].content,
   born |-> row[a].born]

-----------------------------------------------------------------------------
(* Control of one worker *)

Labels == {"idle", "list", "next", "fetch", "extract", "enrich", "load",
           "chunk", "topup", "restore", "gaps", "fill"}

Job == [id : Articles, content : Contents]

Goto(w, label) == pc' = [pc EXCEPT ![w] = label]

\* processArticle returns: its locals are gone and the batch goes on.
EndJob(w) ==
  /\ Goto(w, "next")
  /\ job' = [job EXCEPT ![w] = NoJob]
  /\ running' = [running EXCEPT ![w] = {}]
  /\ at' = [at EXCEPT ![w] = 1]
  /\ failed' = [failed EXCEPT ![w] = FALSE]
  /\ UNCHANGED <<batch, full>>

\* runWorker: the 30 s ticker, or the token of Notify.
Wake(w) ==
  /\ pc[w] = "idle"
  /\ Goto(w, "list")
  /\ \/ UNCHANGED notified
     \/ notified /\ notified' = FALSE
  /\ UNCHANGED <<row, cfgVersion, local, outside>>

\* drain, one turn of its loop: list a batch, or go back to sleep.
List(w) ==
  /\ pc[w] = "list"
  /\ \E ids \in SUBSET Articles :
       /\ IsBatch(ids)
       /\ batch' = [batch EXCEPT ![w] = {SnapshotOf(a) : a \in ids}]
       /\ full' = [full EXCEPT ![w] = Cardinality(ids) = BatchSize]
       /\ Goto(w, IF ids = {} THEN "idle" ELSE "next")
       /\ deferred' = deferred \ ids
  /\ UNCHANGED <<row, notified, cfgVersion, job, running, at, failed, outdated,
                 asks, epoch, restarts>>

Stage(status) ==
  CASE status \in {"queued", "fetching"} -> "fetch"
    [] status = "topup_queued" -> "topup"
    [] OTHER -> "enrich"

\* Mutant: a snapshot is processed and stays in the batch.
TakeAgain(w) ==
  /\ pc[w] = "next"
  /\ \E s \in batch[w] :
       /\ job' = [job EXCEPT ![w] = [id |-> s.id, content |-> s.content]]
       /\ Goto(w, Stage(s.status))
  /\ UNCHANGED <<row, notified, cfgVersion, batch, full, running, at, failed,
                 outside>>

\* processArticle branches on the status of the snapshot, not of the row.
Take(w) ==
  /\ pc[w] = "next"
  /\ \E s \in batch[w] :
       /\ \A t \in batch[w] : s.born <= t.born
       /\ batch' = [batch EXCEPT ![w] = @ \ {s}]
       /\ job' = [job EXCEPT ![w] = [id |-> s.id, content |-> s.content]]
       /\ Goto(w, Stage(s.status))
  /\ UNCHANGED <<row, notified, cfgVersion, full, running, at, failed, outside>>

\* Mutant: one batch for each wake-up.
EndBatchAndSleep(w) ==
  /\ pc[w] = "next"
  /\ batch[w] = {}
  /\ Goto(w, "idle")
  /\ full' = [full EXCEPT ![w] = FALSE]
  /\ UNCHANGED <<row, notified, cfgVersion, batch, job, running, at, failed,
                 outside>>

\* The batch is done: a full one may have left articles behind.
EndBatch(w) ==
  /\ pc[w] = "next"
  /\ batch[w] = {}
  /\ Goto(w, IF full[w] THEN "list" ELSE "idle")
  /\ full' = [full EXCEPT ![w] = FALSE]
  /\ UNCHANGED <<row, notified, cfgVersion, batch, job, running, at, failed,
                 outside>>

-----------------------------------------------------------------------------
(* runFetch *)

BeginFetch(w) ==
  /\ pc[w] = "fetch"
  /\ Store(job[w].id, SetStatus(row[job[w].id], "fetching"))
  /\ Goto(w, "extract")
  /\ UNCHANGED <<notified, cfgVersion, local, outside>>

\* The page was extracted, is no bot wall, and is tokenized and saved.
SaveFetched(w) ==
  /\ pc[w] = "extract"
  /\ \E text \in Texts :
       LET a == job[w].id IN
       /\ Store(a, SaveContent(row[a], text))
       /\ IF Live(a)
          THEN /\ Goto(w, "enrich")
               /\ job' = [job EXCEPT ![w].content = text]
               /\ UNCHANGED <<batch, full, running, at, failed>>
          ELSE EndJob(w)
  /\ UNCHANGED <<notified, cfgVersion, outside>>

\* Permanent error, attempts exhausted, or a bot wall.
FailFetch(w) ==
  /\ pc[w] = "extract"
  /\ \E status \in {"fetch_failed", "blocked"} :
       Store(job[w].id, SetFailed(row[job[w].id], status))
  /\ EndJob(w)
  /\ UNCHANGED <<notified, cfgVersion, outside>>

\* `cancelled' takes the HTTP client's own timeout (context.DeadlineExceeded)
\* for a shutdown: nothing is written and the article stays `fetching'.
TimeOutFetch(w) ==
  /\ pc[w] = "extract"
  /\ EndJob(w)
  /\ deferred' = deferred \union {job[w].id}
  /\ UNCHANGED <<row, notified, cfgVersion, outdated, asks, epoch, restarts>>

-----------------------------------------------------------------------------
(* runEnrich *)

BeginEnrich(w) ==
  /\ pc[w] = "enrich"
  /\ Store(job[w].id, SetStatus(row[job[w].id], "enriching"))
  /\ Goto(w, "load")
  /\ UNCHANGED <<notified, cfgVersion, local, outside>>

\* Mutant: every run starts from an empty enrichment.
LoadNothing(w) ==
  /\ pc[w] = "load"
  /\ Goto(w, "chunk")
  /\ UNCHANGED <<row, notified, cfgVersion, local, outside>>

\* loadExistingEnrichment: what an earlier run persisted is resumed.
LoadExisting(w) ==
  /\ pc[w] = "load"
  /\ running' = [running EXCEPT ![w] = row[job[w].id].blob]
  /\ Goto(w, "chunk")
  /\ UNCHANGED <<row, notified, cfgVersion, batch, full, job, at, failed, outside>>

\* The chunks the loop still visits: those its own enrichment leaves uncovered.
Pending(w) ==
  {c \in ChunksOf(job[w].content) : c >= at[w] /\ c \notin Covered(running[w])}

IsNextChunk(w, c) == c \in Pending(w) /\ \A d \in Pending(w) : c <= d

\* The sentences of a chunk of the text the worker holds, translated now.
Translated(w, c) ==
  [chunk |-> c, content |-> job[w].content, epoch |-> epoch[job[w].id]]

\* An answer is not held to the span it was asked for: sanitizeEnrichment
\* keeps any sentence of the article, and may drop those that were wanted.
Translations(w) == {Translated(w, c) : c \in ChunksOf(job[w].content)}

\* The enrichment built so far is saved whole, and the loop goes on.
PersistChunk(w, c, clean) ==
  LET a      == job[w].id
      merged == mergeEnrichment(running[w], clean)
  IN /\ Store(a, SaveEnrichmentProgress(row[a], merged))
     /\ IF Live(a)
        THEN /\ running' = [running EXCEPT ![w] = merged]
             /\ at' = [at EXCEPT ![w] = c + 1]
             /\ UNCHANGED <<pc, batch, full, job, failed>>
        ELSE EndJob(w)

\* enrichChunk succeeds, and what it leaves uncovered stays so.
SaveChunk(w) ==
  /\ pc[w] = "chunk"
  /\ \E c \in Chunks :
       /\ IsNextChunk(w, c)
       /\ \E clean \in SUBSET Translations(w) : PersistChunk(w, c, clean)
  /\ UNCHANGED <<notified, cfgVersion, outside>>

\* enrichChunk gives up; the other chunks are still translated.
FailChunk(w) ==
  /\ pc[w] = "chunk"
  /\ \E c \in Chunks :
       IsNextChunk(w, c) /\ at' = [at EXCEPT ![w] = c + 1]
  /\ failed' = [failed EXCEPT ![w] = TRUE]
  /\ UNCHANGED <<row, notified, cfgVersion, pc, batch, full, job, running, outside>>

FinishEnrich(w) ==
  /\ pc[w] = "chunk"
  /\ Pending(w) = {}
  /\ LET r == row[job[w].id] IN
     Store(job[w].id, IF failed[w] THEN SetFailed(r, "enrich_failed")
                                   ELSE SaveEnrichment(r, running[w]))
  /\ EndJob(w)
  /\ UNCHANGED <<notified, cfgVersion, outside>>

-----------------------------------------------------------------------------
(* runTopUp *)

\* The snapshot's tokens are preferred to those of the payload just read.
LoadTopUp(w) ==
  /\ pc[w] = "topup"
  /\ LET a       == job[w].id
         content == IF job[w].content # 0 THEN job[w].content
                                          ELSE row[a].content
         gaps    == ChunksOf(content) \ Covered(row[a].blob)
     IN IF Live(a)
        THEN /\ running' = [running EXCEPT ![w] = row[a].blob]
             /\ job' = [job EXCEPT ![w].content = content]
             /\ Goto(w, IF gaps = {} THEN "restore" ELSE "gaps")
             /\ UNCHANGED <<batch, full, at, failed>>
        ELSE EndJob(w)
  /\ UNCHANGED <<row, notified, cfgVersion, outside>>

\* Fully covered: the enriched status is restored.
RestoreEnriched(w) ==
  /\ pc[w] = "restore"
  /\ Store(job[w].id, SaveEnrichment(row[job[w].id], running[w]))
  /\ EndJob(w)
  /\ UNCHANGED <<notified, cfgVersion, outside>>

BeginTopUp(w) ==
  /\ pc[w] = "gaps"
  /\ Store(job[w].id, SetStatus(row[job[w].id], "enriching"))
  /\ Goto(w, "fill")
  /\ UNCHANGED <<notified, cfgVersion, local, outside>>

\* One LLM call for every gap; sanitizing may leave any of them open.
FillGaps(w) ==
  /\ pc[w] = "fill"
  /\ \E clean \in SUBSET Translations(w) :
       LET a == job[w].id
       IN Store(a, SaveEnrichment(row[a], mergeEnrichment(running[w], clean)))
  /\ EndJob(w)
  /\ UNCHANGED <<notified, cfgVersion, outside>>

FailTopUp(w) ==
  /\ pc[w] = "fill"
  /\ Store(job[w].id, SetFailed(row[job[w].id], "enrich_failed"))
  /\ EndJob(w)
  /\ UNCHANGED <<notified, cfgVersion, outside>>

\* A timed-out call returns here too, and leaves `enriching' behind.
TimeOutTopUp(w) ==
  /\ pc[w] = "fill"
  /\ EndJob(w)
  /\ deferred' = deferred \union {job[w].id}
  /\ UNCHANGED <<row, notified, cfgVersion, outdated, asks, epoch, restarts>>

-----------------------------------------------------------------------------
(* The requests of internal/ingest.  Each writes with one store call; all  *)
(* of them but a deletion end with Notify, which leaves one token however  *)
(* many requests come before a worker takes it.                            *)

Notify == notified' = TRUE

\* A request is served: the bookkeeping all of them share.
Ask == asks < MaxAsks /\ asks' = asks + 1

\* asks doubles as the clock of created_at.
Insert(a, status, content) ==
  /\ row[a].status = "absent"
  /\ row' = [row EXCEPT ![a] = [NoRow(status, asks + 1) EXCEPT
                                  !.content = content,
                                  !.version = cfgVersion]]
  /\ Ask
  /\ Notify
  /\ UNCHANGED <<cfgVersion, pc, local, outdated, epoch, deferred, restarts>>

\* Add of a URL no row has.
Add(a) == Insert(a, "queued", 0)

\* AddText of a paste no row has: its content is stored at once.
AddText(a) == \E text \in Texts : Insert(a, "fetched", text)

\* Add or AddText of a known hash: at the current enrichment version the
\* article is returned as it is, else the request goes on to requeue it.
LookUp(a) ==
  /\ Live(a)
  /\ row[a].version # cfgVersion
  /\ outdated' = outdated \union {a}
  /\ UNCHANGED <<row, notified, cfgVersion, pc, local, asks, epoch, deferred,
                 restarts>>

\* requeue: by now another request that looked the article up may have brought
\* it to the current version, and yet another may still be on its way.
AddAgain(a) ==
  /\ Live(a)
  /\ a \in outdated
  /\ outdated' \in {outdated, outdated \ {a}}
  /\ Store(a, RequeueForVersion(row[a], cfgVersion))
  /\ epoch' = [epoch EXCEPT ![a] = @ + 1]
  /\ deferred' = deferred \ {a}
  /\ Ask
  /\ Notify
  /\ UNCHANGED <<cfgVersion, pc, local, restarts>>

Retry(a) ==
  /\ Live(a)
  /\ Store(a, RetryArticle(row[a]))
  /\ deferred' = deferred \ {a}
  /\ Ask
  /\ Notify
  /\ UNCHANGED <<cfgVersion, pc, local, outdated, epoch, restarts>>

\* The handler does not look at the status: any live article can be asked
\* for, and an offline device may ask long after it saw the article enriched.
ReEnrich(a) ==
  /\ Live(a)
  /\ \/ /\ Store(a, ReEnrichFull(row[a]))
        /\ epoch' = [epoch EXCEPT ![a] = @ + 1]
     \/ /\ Store(a, ReEnrichTopup(row[a]))
        /\ UNCHANGED epoch
  /\ deferred' = deferred \ {a}
  /\ Ask
  /\ Notify
  /\ UNCHANGED <<cfgVersion, pc, local, outdated, restarts>>

\* DeleteArticle cascades to the enrichments row.
Delete(a) ==
  /\ Live(a)
  /\ Store(a, NoRow("deleted", row[a].born))
  /\ Ask
  /\ UNCHANGED <<notified, cfgVersion, pc, local, outdated, epoch, deferred, restarts>>

\* A crash, or a shutdown and a start (whose workers abandon their calls
\* without writing): memory is lost, Start sends the first token, and the
\* new build may carry a higher enrichment version.
Restart ==
  /\ restarts < MaxRestarts
  /\ restarts' = restarts + 1
  /\ cfgVersion' \in {cfgVersion, cfgVersion + 1}
  /\ notified' = TRUE
  /\ pc' = [w \in Workers |-> "idle"]
  /\ batch' = [w \in Workers |-> {}]
  /\ full' = [w \in Workers |-> FALSE]
  /\ job' = [w \in Workers |-> NoJob]
  /\ running' = [w \in Workers |-> {}]
  /\ at' = [w \in Workers |-> 1]
  /\ failed' = [w \in Workers |-> FALSE]
  /\ outdated' = {}
  /\ deferred' = {}
  /\ UNCHANGED <<row, asks, epoch>>

-----------------------------------------------------------------------------

Init ==
  /\ row = [a \in Articles |-> NoRow("absent", 0)]
  /\ notified = TRUE
  /\ cfgVersion = 1
  /\ pc = [w \in Workers |-> "idle"]
  /\ batch = [w \in Workers |-> {}]
  /\ full = [w \in Workers |-> FALSE]
  /\ job = [w \in Workers |-> NoJob]
  /\ running = [w \in Workers |-> {}]
  /\ at = [w \in Workers |-> 1]
  /\ failed = [w \in Workers |-> FALSE]
  /\ outdated = {}
  /\ asks = 0
  /\ epoch = [a \in Articles |-> 0]
  /\ deferred = {}
  /\ restarts = 0

AnswerFetch(w) == SaveFetched(w) \/ FailFetch(w)

Fetch(w)  == BeginFetch(w) \/ AnswerFetch(w) \/ TimeOutFetch(w)
Enrich(w) == BeginEnrich(w) \/ LoadExisting(w) \/ SaveChunk(w) \/ FailChunk(w)
               \/ FinishEnrich(w)
TopUp(w)  == LoadTopUp(w) \/ RestoreEnriched(w) \/ BeginTopUp(w) \/ FillGaps(w)
               \/ FailTopUp(w) \/ TimeOutTopUp(w)
Drain(w)  == Wake(w) \/ List(w) \/ Take(w) \/ EndBatch(w)

Work(w)    == Drain(w) \/ Fetch(w) \/ Enrich(w) \/ TopUp(w)
Request(a) == Add(a) \/ AddText(a) \/ AddAgain(a) \/ Retry(a) \/ ReEnrich(a)
                \/ Delete(a)

Next ==
  \/ \E w \in Workers : Work(w)
  \/ \E a \in Articles : LookUp(a) \/ Request(a)
  \/ Restart

Spec == Init /\ [][Next]_vars

(***************************************************************************)
(* Goroutines are scheduled and every outside call returns within its      *)
(* client's timeout, hence weak fairness of each worker.  Nothing in the   *)
(* code makes a site answer in time; AnsweringSpec adds that one that is   *)
(* asked again and again does so at some point.                            *)
(***************************************************************************)
ScheduledSpec == Spec /\ \A w \in Workers : WF_vars(Work(w))
AnsweringSpec == ScheduledSpec /\ \A w \in Workers : SF_vars(AnswerFetch(w))

-----------------------------------------------------------------------------
(* What holds for any number of workers *)

\* Type correctness of the rows, the workers' locals and the histories.
TypeOK ==
  /\ row \in [Articles -> Row]
  /\ notified \in BOOLEAN
  /\ cfgVersion \in Nat
  /\ pc \in [Workers -> Labels]
  /\ batch \in [Workers -> SUBSET Snapshot]
  /\ full \in [Workers -> BOOLEAN]
  /\ job \in [Workers -> Job \union {NoJob}]
  /\ \A w \in Workers :
       pc[w] \notin {"idle", "list", "next"} => job[w] \in Job
  /\ running \in [Workers -> SUBSET Mark]
  /\ at \in [Workers -> Nat]
  /\ failed \in [Workers -> BOOLEAN]
  /\ outdated \in SUBSET Articles
  /\ asks \in Nat
  /\ epoch \in [Articles -> Nat]
  /\ deferred \in SUBSET Articles
  /\ restarts \in Nat

ConsistentRow(r) ==
  /\ r.coverage.part \subseteq Covered(r.blob)
  /\ r.status = "enriched" => r.stored
  /\ ~r.stored => r.blob = {}
  /\ r.status \notin LiveStatuses => ~r.stored /\ r.content = 0

\* The row a reader sees agrees with itself, whatever order the writes of
\* several workers, a re-translate and a deletion land in: nothing counts as
\* translated that is not stored (SaveEnrichment and SaveEnrichmentProgress
\* write both together, ReEnrich and RequeueForVersion reset both), an enriched
\* article has an enrichment, and a worker that outlives a deletion brings
\* nothing of the article back.
RowsConsistent == \A a \in Articles : ConsistentRow(row[a])

\* Someone is going to look at the article: a worker holds it, or will list
\* again, or the wake-up token is waiting for a worker.
Attended(a) ==
  \/ notified
  \/ \E w \in Workers :
       \/ pc[w] = "list"
       \/ full[w]
       \/ \E s \in batch[w] : s.id = a
       \/ job[w] # NoJob /\ job[w].id = a

\* No wake-up is lost (Pool.Notify coalesces, drain stops at a short batch,
\* and several workers take tokens from each other): every waiting article is
\* attended without the help of the 30 s ticker, except one whose call timed
\* out, which only the ticker finds again.
NoLostWakeup == \A a \in Waiting : a \in deferred \/ Attended(a)

\* A deleted article stays deleted: no write of a worker that was still
\* processing it revives the id (store writes report ErrNotFound instead).
DeletedForever ==
  [][\A a \in Articles : row[a].status = "deleted" => row'[a] = row[a]]_vars

-----------------------------------------------------------------------------
(* What holds for one worker only: processArticle takes it for granted     *)
(* that an article is processed by one worker at a time.                   *)

\* The pool never takes up a finished article again on its own: only a
\* user's request moves one from a resting status to a work status.
OnlyUserReopens ==
  [][\A a \in Articles :
       /\ row[a].status \in RestStatuses
       /\ row'[a].status \in WorkStatuses
       => asks' = asks + 1]_vars

\* Every stored sentence was translated from the text that is stored: token
\* indices of the enrichment point into the tokens they were made for.
BlobMatchesContent ==
  \A a \in Articles : \A m \in row[a].blob : m.content = row[a].content

\* The completeness shown is that of the enrichment and the text beside it, as
\* "coverage against the article the enrichment belongs to" has it: a save
\* takes it from the tokens the row has by then, and SaveContent, which changes
\* the tokens, leaves it alone, so that it rests on what is never fetched twice.
CoverageFitsText ==
  \A a \in Articles :
    row[a].coverage = sentenceCoverage(row[a].blob, row[a].content)

\* Paid translation is never thrown away: a chunk once persisted stays, over
\* later chunks, failures, top-ups, retries and crashes, until the user asks
\* for a fresh translation or deletes the article.
ChunksKept ==
  [][\A a \in Articles :
       \/ Covered(row[a].blob) \subseteq Covered(row'[a].blob)
       \/ epoch'[a] # epoch[a]
       \/ row'[a].status = "deleted"]_vars

\* The failed status names the stage that failed, which is what the retry
\* routing by stored content relies on: a failed fetch left no text behind,
\* and a failed enrichment has a text to be retried on.
FailureNamesStage ==
  \A a \in Articles :
    /\ row[a].status \in {"fetch_failed", "blocked"} => row[a].content = 0
    /\ row[a].status = "enrich_failed" => row[a].content # 0

-----------------------------------------------------------------------------
(* What the pool promises to someone who only watches the library *)

Phase(a) ==
  CASE row[a].status \in WorkStatuses -> "waiting"
    [] row[a].status \in RestStatuses -> "settled"
    [] OTHER -> row[a].status

Life == INSTANCE ArticleLife WITH phase <- [a \in Articles |-> Phase(a)]

\* The pipeline implements the article lifecycle, its progress included.
ImplementsLife == Life!FairSpec

\* Every article that waits is settled in the end, one way or the other.
Settles == \A a \in Articles : Phase(a) = "waiting" ~> Phase(a) # "waiting"

\* "drain fetches and processes pending articles until none remain": every
\* article that waits is taken up by a worker, whatever becomes of the others.
TakenUp ==
  \A a \in Articles :
    Phase(a) = "waiting"
      ~> \/ Phase(a) # "waiting"
         \/ \E w \in Workers : job[w] # NoJob /\ job[w].id = a

\* A full re-translate regenerates the enrichment: an enriched article holds
\* nothing from before the last reset the user asked for.
ResetIsFresh ==
  \A a \in Articles :
    row[a].status = "enriched" =>
      \A m \in row[a].blob : m.epoch = epoch[a]

=============================================================================
