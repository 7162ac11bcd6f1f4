# deep-reader: a verification project

deep-reader is a self-hosted reader for foreign-language articles. A Go server
fetches articles, has an LLM annotate them chunk by chunk and publishes pages; a
SvelteKit client keeps a copy of the library in IndexedDB, works offline and
synchronises through an outbox. This directory holds TLA+ modules of the parts
where order, failure and concurrency decide whether the program is right, TLC
runs that check them on small instances, and TLAPS proofs for every value of the
constants.

    tlc -workers 2 -config PipelinePool.cfg MCPipeline.tla     # a run
    tlapm SyncProofs.tla                                       # the proofs of a module

`PROJECT.json` lists every run, the lines each definition translates, the
hazards with the properties that cover them, and the theorems.

## 1. Inventory

| Component | State | Operations | Interacts through | Module |
|---|---|---|---|---|
| Pipeline (`internal/enrich`) | `notify` channel of one token; per worker a batch of snapshots, the one in work and the enrichment it builds | `Notify`, `runWorker`, `drain`, `processArticle` and its stages, `runTopUp` | rows of the store; calls of the extractor and the LLM | `Pipeline` |
| Annotation algorithms (`enrich.go`, `chunk.go`) | none | `chunkSpans`, `sanitizeEnrichment`, `mergeEnrichment`, `uncoveredSpans`, `expandSpansToSentences` | used by the stages | `Annotation` |
| Store (`internal/store`) | SQLite; one writer lock, a transaction per write | `CreateArticle`, `SetStatus`, `SaveContent`, `SaveEnrichment*`, `ListWork`, `RetryArticle`, `ReEnrich`, `DeleteArticle`, progress, vocabulary, publications, providers, budget | called by everything | each table in the module of its component |
| Ingestor (`internal/ingest`) | none | `Add`, `AddText`, `requeue`, `Retry`, `ReEnrich` | store, then `Notify` | `Pipeline` |
| HTTP API (`internal/api`) | none but the login guard | one handler per route | ingestor, store, publisher | all |
| Sync engine (`frontend/src/lib/sync`) | tables `articles_meta`, `articles_payload`, `progress`, `outbox`, `sync_state`, `vocab_entries` | `enqueue*`, `flushOutbox`, `pull`, `sync` | API; the tables are shared with the pages | `Sync`, `Progress`, `Vocabulary` |
| Payload caches (`service-worker.ts`, HTTP) | copies of `GET /api/articles/:id` | `cacheFirst`, `networkFirst` | between sync engine or reader page and API | `Sync` |
| Vocabulary (`store/vocab.go`, `lib/vocab`) | append-only events, the aggregate of a word, tombstones | `SaveLookups`, `deleteVocabEntry`, `PruneVocabTombstones`, taps, manual saves | outbox, pull | `Vocabulary` |
| Reading progress | a row per article, on the server and on each device | `enqueueProgress`, `putProgress`, `UpsertProgress` | outbox, pull | `Progress` |
| Published pages | a row (the gate) and a file (the page) per link | publish, unpublish, the cascade of a deletion, the sweeper | store, directory, delta sync | `Publications` |
| Login | user, sessions, attempts per client | `setup`, `login`, `logout`, `loginGuard` | API | `Access` |
| LLM client and profiles | `llm_providers` with one active row | profile CRUD, seeding, `complete` with its fallback, the retry loops | pipeline, translation handler | `LLMClient` |
| Extraction | units of the conversion service per day | `Chain.Extract`, the guarded fetch | pipeline, store | `Extraction` |
| Reader page, lemma backfill, configuration, telemetry, UI | see `components` in `PROJECT.json` | | | none |

What is hard in it: several workers over the same rows without claims; snapshots
that grow old; a process that stops between two chunks; timeouts that look like
shutdowns; answers of an LLM that are wrong in any way; two stores (rows and
files) that no transaction spans; checks made long before what they allow;
optimistic writes and answers of the server applied in any order; several
devices with clocks of their own; answers that are lost after the write took
effect; pages closed at any `await`.

What makes the components correct:

* **pipeline**: every waiting article is looked at and settles; rows agree with
  themselves under any interleaving; a deleted article stays deleted; paid
  translation is not lost; a translation, and the completeness beside it, belong to
  the text they are shown with;
* **annotation**: chunks tile the article; a token is translated once; a top-up asks for what is missing in whole sentences;
* **sync**: no write is lost or reordered; deleted is deleted, on this device and
  the others; the devices converge to the server;
* **vocabulary**: a tap is not lost and counts once however often it is delivered, a
  late one does not take the row back, a removal is not undone by a retry, and a
  device shows the words it has seen alive;
* **progress**: the last write wins, on the server and on every device, and a
  position is not lost on its way;
* **published pages**: a link that is dead stays dead, a live one keeps its page, and a
  page without a row goes away;
* **login**: one setup, a bounded number of wrong passwords, locks that only their
  own client's answers cut short;
* **LLM client**: one active profile, requests that follow it, retries of what may
  succeed, and an end to every call;
* **extraction**: a day's limit holds, the books balance, and a refund booked
  to the wrong day costs no more than itself.

## 2. Modules

`MC<Name>` instantiates module `<Name>` for TLC where constants need more than a
.cfg can say (`Access` and `Extraction` are checked as they are), `<Name>Proofs` holds
theorems about it; those about `Annotation` and `LLMClient`, the two halves of a call of the
enrichment, are in `EnrichmentProofs`. `ArticleLife` is the abstract lifecycle `Pipeline` implements
(`Pipeline` instantiates it with a refinement mapping). No other modules depend on
each other: what two of them would share is the existence of an article, which
each has in the form its own questions need.

A definition marked `Mutant:` is no part of a specification: it is a plausible
mistake in the definition that follows it, named in `PROJECT.json`, and the
property it is listed with must fail when it takes that definition's place.

### Pipeline

`row[a]` is a row of `articles` joined with its `enrichments` row. `content` is a
number that stands for the text and its tokens (0: none), `blob` the set of chunks
that have sentences, each marked with the text and the reset (`epoch`) it came
from. `Length[t]` is the number of chunks of text `t`, and `coverage` what a save
last made of the enrichment and of the text the row had by then
(`sentenceCoverage`); `SaveContent` replaces the text and leaves it alone. A worker `w` is at `pc[w]`: waiting (`idle`), listing, taking the next
snapshot, or inside a stage; `batch[w]` and `job[w]` are the snapshots `ListWork`
returned. Each store call is one action, since it is one transaction under the
write lock; each call of the extractor or the LLM lies between two actions, so
everything else can happen meanwhile. `Notify` sets `notified`, `Wake` takes the
token (or the 30 s tick), `EndBatch` decides whether `drain` lists again.

`TimeOutFetch` and `TimeOutTopUp` are the branches of `cancelled`. `Restart` is a
crash or a shutdown: rows stay, everything else starts anew, and the version of the
configuration may have been raised.

Attempts repeated inside one stage write nothing in between and appear as the
outcome of the last one. Errors of the database, the summary, the stage label,
pin, titles and model names are left out; none of them steers the pipeline.

### Annotation

The tokens of an article are `0 .. N - 1`, `ends` the sentence ends among them, a
sentence of the enrichment is its range. `CutChunk` is one chunk of `chunkSpans`,
`AnnotateChunk` one answer sanitized and merged, `SkipChunk` a chunk that is
covered already, `TopUp` a gap fill. `size` is chosen anew for each run, since the
user may change it. `mergeEnrichment` accepts sentences greedily in the order of
the answer; `Keeps` describes exactly the sets such a pass can accept over all
orders, which is proved (`MergeKeepsAChoice`, `ChoicesAreMerged`). The request of a
top-up is computed as the code does it: the runs of missing tokens, each widened to
sentences, and `coalesceSpans`, which takes the spans by their starts and extends
the last one kept. `Spec` allows any answer; `FaithfulSpec` has top-ups that are answered as
`buildSpanPrompt` asks, one sentence per sentence asked for.

### LLMClient

Its behaviour is `LLMSpec`, from `LLMInit` and `LLMNext` (a module of proofs can then
use it beside `Annotation`).
`profiles` is the provider table, `call[c]` a call under way: the leg it is in, the
attempt, the connection `resolveConn` read for it and what it last heard. A
connection is known by the edition of the profile that its address and its key came
from (`UpdateLLMProvider` may leave the key). `Answer` is one request with its
answer classified as the code does: the fallback from `json_schema` to
`json_object`, the error of both legs joined, `isRetryable` asking the first error
that can be asked, and the loops of the callers (`summary`, `normalize`, `chunk`
retry, `translate` does not). `late[c]` counts, over all attempts and calls of `c`
since the table was last changed, the requests that went to a connection that is no
longer the active one. `Restart` seeds an empty table.

### Extraction

`slot[s]` is one `Chain.Extract` under way, `used[d]` the units booked on day `d`.
`Reserve`, `Convert` and `Refund` are the budgeted attempt of the chain; `Preflight`,
`Dial` and `Follow` the fetch of the fallback, where each look-up of a name may give
another address; `checkIP` refuses the ranges of the code by name. No property is
about the addresses, as the dialer checks the very one it connects to. `Midnight` moves the day between any two of them. `converted`,
`unreturned` (refunds that failed or that a restart lost) and `strays` (refunds that
were booked on another day than their reservation) are the history the books need.

### Sync

`library`, `payload`, `outbox` and `synced` are the tables of a device, `cache`
its HTTP and service worker cache. `editing` is a call of `enqueuePin`,
`enqueueReEnrich` or `enqueueDelete` in progress, with the row it has read
(`BeginEdit`, `ApplyEdit`, `DropPayload`, `QueueEdit` are its awaits); it interleaves with the
sync run, whose program counter is `phase`: `BeginSync` reads the outbox,
`Dispatch` is a request handled by the server, `Confirm` its answer, `StopFlush`
an answer or a request that is lost, `RequestList` and `CommitPull` the two halves
of a pull, `FetchPayload`, `StorePayload`, `SkipPayload`, `MissPayload` one article
of its last loop. `Reload` closes the page at any of these points. `Enrich` is the
pipeline as seen from here.

A copy of a translation is `current` or `stale`. `getConfig` leaves `Cursor` at
the zero time, so every answer is the full list, and `synced` says that the client
has a cursor and takes it for a delta: both sides are modelled as they are.
`begun`, `queued`, `handled` and `buried` are history.

### Progress

One article. `server` is its row in `progress`, `local[d]` the device's, `outbox[d]`
the queued writes. `Begin`, `Put` and `Queue` are the awaits of `enqueueProgress`;
`Skip` is the superseded check of `dispatchEntry`; `Dispatch`, `Confirm` and `Lose`
are a request, its answer and the loss of it; `ListProgress` and `Merge` the two
halves of a pull. A second has `Fraction` instants: devices compare instants,
`fmtTime` keeps the second, and `UpsertProgress` compares the one with the other.
`Skew` sets a device's clock ahead. `torn[d]` holds writes that a closed page left in
the table and not in the queue.

### Vocabulary

One word. `log` is its `lookup_events`, `entry` the row of `vocab_entries` with the
change it was stamped at, `local[d]` what a device shows, `outbox[d]` its taps and
removals. The index on `(article, kind, span_start)` spans all words: `held` are the
places under another word's key, which `HoldElsewhere` takes when the text was fetched
again or the target language changed, and `Landed` passes over a tap there.

A tap queues its event (`Capture`) and then reads the local row and writes it back, a
step each (`GetLocalEntry`, `PutLocalEntry`); the same two awaits put a translation on
it (`DispatchSave`, `PutTranslation`), and a removal takes the row and then queues the
deletion (`removeVocabEntry`, `QueueDeletion`). Pulls, taps and the death of the page
come between any two of them. A run sends the lookups first, in batches, and then the
rest (`run[d]`), as `flushOutbox` does; a batch may be refused, and its answer lost.
`Pull` is answered in full, since the cursor on the wire is the zero time, and `Apply`
commits what was answered before. `captured[d]` are the positions a page has already
tapped, which a tap skips. `torn` are the devices whose page died inside a removal.
`PruningSpec` adds the removal of tombstones.

### Publications

`rows` is the table and `pages` the directory. `req[r]` is a request between two of
its operations: a publication writes the file (`PublishWrite`), replaces the row
(`PublishRecord`) and removes the page it superseded; an unpublication deletes the
row, touches the article (`UnpublishTouch`, the statement outside any transaction)
and removes the page; a deletion reads the token, lets the cascade take the row and
removes the page. The sweeper prunes (`SweepExpired`), lists live tokens
(`ListPublicationTokens`) and later removes what is not on that list
(`RemoveOrphans`, which stops at the first file it cannot remove). Any file operation
or statement may fail, and `Crash` drops every request and keeps rows and files. How a
link reaches the devices is the pull of `Sync`: every answer lists every article with
its link, so nothing of it could go wrong here.

### Access

`entries[k]` is the guard's record of a client: failures, the age of its window and
what is left of its lock. A login is three steps, `retryAfter`, the slow comparison
that ends in `recordFailure` or `recordSuccess`, and the session; other requests
come in between. `Setup` creates the account and then its session. `Restart`
empties the guard and keeps accounts and sessions.

## 3. Runs

Deadlock is checked except in the annotation run: an annotation is one run after
another until nothing is left to do, and then it may stop.

| Run | Instance | Question, and what it shows |
|---|---|---|
| `pipeline_pool` | 2 workers, 2 articles, 1 chunk, batch 1, 3 requests | Rows consistent, no wake-up lost, nothing revives a deleted article. Every batch is full, so the loop of `drain` matters, and the two workers compete for each token. |
| `pipeline_solo` | 1 worker, 2 articles, 2 chunks, 2 texts, 2 requests, 1 restart; safety and liveness | What holds when `processArticle`'s assumption does: resume half way, re-fetch of a text of another length, retry, crash; and `Pipeline` implements `ArticleLife!FairSpec`. |
| `annotation_merge` | 5 tokens, chunk sizes 1 and 2, 2 sentences per answer | Tiling, disjoint sentences, whole-sentence requests. The hard cap is reached (a sentence longer than one and a half chunks) and sizes change between runs. |
| `sync_online` | 1 device, 1 article, 2 writes; safety and liveness | Outbox order and completeness, deletions that stay, convergence of the library. |
| `publications` | 1 article, 2 requests, 2 links, 2 lifetimes, 2 hours, 1 crash; safety and liveness | Dead links stay dead, only the sweep's older list can take a live page, orphans are collected although requests die and passes of the sweeper are cut short. |
| `llm` | 1 caller, 3 attempts, 3 editions, 1 restart; safety and liveness | One active profile, a replaced connection gets what was on its way and no more, giving up for a reason only, every call ends. |
| `vocabulary` | 2 devices, 2 places, clocks of 2 readings, 2 taps, 1 removal, 1 reload, 1 place taken by another word | Taps never lost or doubled, late ones stay behind, retries revive nothing, a live entry is shown. |
| `extraction` | 2 slots, cost 2, limit 5, 2 days, 1 redirect, 1 restart | The limit, the books, what a stray refund costs a day. |
| `progress` | 2 devices, clocks 2 instants apart, 3 instants a second, 3 writes, 1 reload; safety and liveness | Last second wins, nothing lost on its way, devices agree, the queue moves. |
| `access` | 2 clients, 2 requests, 2 attempts, window and lock of 2, 1 restart | Bound on wrong passwords, what can shorten a lock, one setup. |

Two runs end in a counterexample, and the findings in `PROJECT.json` quote what the
code says of itself there:

| Run | What happens |
|---|---|
| `pipeline_reopen` | Nothing claims an article, so with the default two workers both take it; the slower one puts a settled article back to work and pays for it twice. |
| `pipeline_timeout` (liveness; 2 articles, batches of 1) | The timeout of the HTTP client is taken for a shutdown: the article stays `fetching`, with nothing recorded. It is the oldest, fills every batch, and `drain` lists it again at once: the other article is never taken up. With fewer such articles than a batch holds (ten in the code), `drain` ends and they are only fetched again at each tick. |

**Further configurations**, not listed as runs. `PipelineSingle`, `PipelineLife`,
`SyncDevices` (two devices that write to one article) and `VocabularyAlone` (one
device with every order of its steps) are larger or other instances of what the runs
check, and pass. These check one property each and end in a
counterexample:

| Configuration | Property | What the code says, and what happens |
|---|---|---|
| `PipelineReset` | `ResetIsFresh` | A full re-translation asked for during a run is undone by that run's next save. |
| `PipelineCoverage` | `CoverageFitsText` | A save computes it "against the article the enrichment belongs to" (`store.go:586-587`): with two workers, one has saved a chunk of the first text when the other, from an older listing, stores a text of another length, and `SaveContent` keeps the completeness of the first beside it. |
| `PipelineSettles` | `Settles` | `drain` goes on "until none remain" (`enrich.go:171-172`); an article whose site times out is left waiting, without a failed attempt counted, and fetched again at each tick for ever. |
| `AnnotationTopUp` | `GapsAreFilled` | A sentence that is partly covered is asked for whole, and its answer is dropped for overlapping: the gap stays. |
| `SyncStale` | `TranslationsRefresh` | The listing has no `updated_at`: a stale translation counts as fresh, and the caches return it where it was dropped. |
| `SyncDeleted` | `PullReconciles` | Deletions are only reconciled on a sync without a cursor, which is the first one: an article deleted on another device stays. |
| `PublicationsSweep` | `LiveLinkHasPage` | The file is written before the row so that no link answers 404 (`handlers_publish.go:95-97`); a sweep that listed the rows in between takes it for an orphan. |
| `LLMSeed` | `RestartKeepsProfiles` | The environment is "only a first-boot seed" (`llm.go:77-88`); a table the user emptied is seeded again. |
| `LLMLost` | `LostAnswersRetried` | A dropped stream is what "a re-send commonly fixes" (`llm.go:488-493`); a request that times out, or a body that is torn, is an error that cannot be asked whether it is retryable, and ends the call at its first attempt. |
| `VocabularyRefetch` | `TapsAreRecorded` | "The authoritative de-duplication is the SQLite unique index" (`capture.ts:32-35`): it has no entry key, so a tap where another word was tapped in an earlier text, or for another target language, is acknowledged and dropped. |
| `VocabularyCount` | `ShownCountIsCurrent` | The next pull "keeps the optimistic count from drifting" (`capture.ts:325-327`): one that commits between the reading and the writing of a local row is overwritten with what was read, and the count is off until the pull after it. |
| `VocabularyRetap` | `MisclickCostsOneTap` | "The entry revives on the next lookup" (`vocab/store.svelte.ts:116-121`); a tap at the place that is already in the log adds no event and revives nothing, while the device shows the word. |
| `VocabularyPruned` | `PrunedWordForgotten` | Tombstones go because "a client that has been offline longer does a full sync anyway" (`vocab.go:20-24`); a full answer removes no word the device has. |
| `AccessLock` | `LockRunsItsCourse` | `lockedUntil` is "the instant the key becomes usable again" (`bruteforce.go:42-43`): a wrong password that was past the guard when the lock began, and is counted after the window has ended, starts a new streak and lifts the lock. Window and lock are equal, as they are by default. |
| `ExtractionMidnight` | `DayPaysForItsConversions` | The budget mirrors the service's daily limit (`markdown.go:15-17`); a refund after midnight is booked on the new day. |
| `ProgressSecond` | `NewestInstantWins` | The row keeps seconds and is compared with instants (`store.go:1022-1028`): within one second the older write can win. |
| `ProgressWedge` | `OutboxDrains` | Permanent errors are dropped "to avoid infinite retry" (`engine.ts:327`); progress of an article deleted elsewhere is answered 500 and is sent for ever, ahead of everything else. |

Smaller things noticed while modelling, with no run of their own: a word's row is taken off the device before its
removal is queued, so a page closed in between shows it again later (`torn` of
`Vocabulary`); a failed touch after an unpublication leaves the page to the
sweeper; a refund under a cancelled context is lost (`unreturned` of `Extraction`);
the fetch of the fallback does not look at the HTTP status.

**Bounds.** `MaxAsks`, `MaxRestarts`, `MaxWrites`, `MaxOffers`, `MaxTaps`,
`MaxEditions`, `MaxTokens`, `MaxTime` and their like bound what users, operators,
clocks and answers do; they appear in guards, so every behaviour up to the bound is
complete. Two articles are needed for a full batch to hide another; one
is enough where rows do not interact (a device treats articles independently but
for the order of its outbox, which two writes to one article exercise; publications
of different articles meet only in the sweep). Two chunks are needed to stop between
them. Five tokens hold a chunk at the hard cap, its neighbour and a sentence across
both. Two requests are what it takes to publish over a publication, to revoke it
meanwhile, to run two setups at once, or to be past the guard when a lock begins. The run of the
vocabulary has two constraints beside its bounds: while one device has a step under
way the other waits (`Turns`), and users, clocks and other words do three things in
all (`Budget`); devices meet at the server only, one transaction at a time, and what one
does between its own awaits is in `VocabularyAlone` without either. A
limit of five at a cost of two leaves a unit over, and two days let a refund cross.
Skew and fraction put two writes into one second in the wrong order and into
different seconds. The LLM run has one caller because callers share nothing but the
table, which the settings change at any moment. The pool run has no restart:
restarts are in the single-worker run, and in the proofs. Workers and devices are
permuted for symmetry in safety runs only.

**Fairness.** A worker is a goroutine, every call it waits for has a timeout, and
the ticker wakes it: `WF_vars(Work(w))`. `AnsweringSpec` adds that a site asked
again and again answers in time at some point (`SF` of `AnswerFetch`); without it
`pipeline_timeout` fails. `FaithfulSpec` lets runs go on and has a faithful answer
to a top-up that is asked for again and again. `OnlineSpec` of `Sync` and of
`Progress` has weak fairness for the run (the minute timer) and the local write, and
strong fairness for each request: a network that fails any number of times but not
always, and a page that stays open long enough now and then. `Publications` is fair
to the sweeper, which runs at every start and every hour, and to the one statement
that is made under the write lock; no other request is promised to finish. Passes of
the sweeper may be cut short, but of so many of them one lists the tokens and one
removes every file (`SF` of `ListPublicationTokens` and of `RemoveOrphans({})`): no
file resists removal for ever.
`LLMClient` is fair to a call under way, since requests have timeouts and pauses
end. Nothing is assumed of the user, and the other modules state no liveness.

## 4. Proofs

For every number of workers, articles, chunks, tokens, devices, requests, links,
clients and writes, under the assumptions on constants named in the modules (counts
are natural numbers, chunk sizes and costs positive, sets that are counted finite):

* `PipelineProofs`: `TypeCorrect`, `RowsAgree`, `WakeupsKept`, `DeletionIsFinal`.
  The inductive invariant is `TypeOK /\ RowsConsistent /\ NoLostWakeup /\ JobHeld`.
  `NoLostWakeup` is not inductive alone: a worker that starts its next snapshot
  would drop the article of the one before if it still held it, and `JobHeld` says
  that it does not.
* `PipelineProofs`, for a pool of one (`Solo`): `PoolNeverReopens` and
  `PoolImplementsLife` (the safety part of the refinement; its initial states and
  steps map to those of `ArticleLife`) need `HeldArticlesWait`: what the worker has
  listed or holds still waits or is deleted. `pipeline_reopen` shows how a second
  worker breaks it. `FailuresNameTheirStage`, `TranslationsFitTheirText`,
  `CoverageIsOfThisText` and `PaidChunksStay` need `TextsAgree` as well: the snapshot in work has the text of
  its row, and the enrichment being built covers what the row has and translates
  that text. It is inductive only together with `HeldArticlesWait`, which keeps
  requests from replacing the text of an article in work.
* `EnrichmentProofs`, for `Annotation`: `TypeCorrect`, `ChunksTile`,
  `SentencesDisjoint`. `PlanTiles` is inductive with the type
  invariant, since it describes the half-cut article too; `SentencesDisjoint` rests on
  `MergeKeeps`, what one merge accepts. `MergeKeepsAChoice` and `ChoicesAreMerged` say
  that this is what the loop of `mergeEnrichment` does, sentence by sentence.
  `TopUpsAskWholeSentences` follows from the type invariant alone: `RunsCover` (every
  missing token is in a run), `WidenedIsWhole` (the last token ends a sentence, so
  each token has its bounds), and `CoalesceSpans`, whose loop invariant `Coalesced`
  says that what has been merged so far is whole sentences with gaps between them and
  that the last span starts no later than the next one to come.
* `EnrichmentProofs`, for `LLMClient`: `LLMTypeCorrect`, `OneActiveProfile`,
  `ReplacedConnectionsFade`, `GiveUpsAreJustified`. `OneActiveProfile` needs
  `ProfilesInv`: ids are handed out once and never reused, so that the profile a
  deletion promotes, or an activation names, is one row. `ReplacedConnectionsFade`
  needs `LateInv`: what a caller has sent late since the table changed it sent in the
  call that had read the old connection, and an attempt that begins later reads the
  new one. `GiveUpsAreJustified` needs `CallsInv`: a call that goes on has no outcome.
* `VocabularyProofs`: `TypeCorrect` (with it: no id and no position is in the log
  twice), `RetriesDoNotRevive`, `LateTapsStayBehind`, `NoTapIsLost`, `TapsCountOnce`,
  `SeenWordsAreShown`. `TapsAreNotLost` is inductive only with `IdsNameTaps`: two events
  with one id, in the log, a queue or a drain under way, are copies of one tap, without
  which the `INSERT OR IGNORE` of `SaveLookups` could swallow a tap for having another
  one's id; and with `SavesRecorded`: a save whose translation is being put on the row
  is in the log already. `LateTapsStayBehind` rests on `RowIsOfTheLog`, `TapsCountOnce`
  on it and on `Apart` (no logged place is another word's). `LiveEntryShown` needs
  `RowsSeen`: no device was answered with a change ahead of the row's stamp, and an
  answer on its way that carries the last stamp carries the row as it is.
* `SyncProofs`: `TypeCorrect`, `NoWriteLost`, `WritesDeliveredInOrder`,
  `DeletionsStay`. The outbox needs `OutboxOrdered` (a drain works on a prefix of it,
  and its head is the write handled last or the next), the deletions `BurialInv`: a
  deletion is known to the outbox or to the server, a listing on its way is filtered
  or has lost the article already, and no edit under way is of a buried one.
* `ProgressProofs`: `TypeCorrect`, `LastWriteWins`, `ProgressKept`, which needs what a
  device's table, an answer on its way and an entry that was sent have to do with the
  server's row.
* `PublicationsProofs`: `TypeCorrect`, `DeadStaysDead`, `OnlyASweepTakesALivePage`,
  from `Tokens`: only the publish request that minted a token may record it, and a
  request that is to remove a page has seen its row go.
* `ExtractionProofs`: `TypeCorrect`, `LimitHolds`, `BooksAreBalanced`,
  `StraysAreBounded`. `AccessProofs`: `TypeCorrect`, `OneSetupLogsIn`, `LocksRun`,
  `StreaksBounded`, which counts the requests past the guard.

Recursion and induction: a recursive definition a theorem is about is a recursive
function of a LET (`coalesceSpans`, `mergeEnrichment`), and what it computes is proved
in two steps. That a function with its equation exists, and that its values are
right, are both shown by a smallest size or index at which they fail (`LeastNatural`,
which is `WFMin` for the natural numbers).

Every safety invariant and every action property the passing runs check is a theorem.
Only model-checked is liveness, since TLAPS does not reach fairness: the progress
half of `ImplementsLife`, `LibrariesConverge`, `DevicesAgree`, `OutboxMoves`,
`OrphansCollected`, `EveryCallEnds` and the liveness counterexamples. So are the
properties that end in a counterexample, which are no theorems.

## 5. What is not modelled

* Errors of SQLite in the pipeline; the one with consequences
  (`loadExistingEnrichment` starting fresh after a failed read) is a hazard.
* Two pages open on one device: `syncChain` orders the runs of one page only.
* The settings and add entries of the outbox.
* The open reader page: its poll meets `Sync`, `Pipeline` and the network-first path
  of the service worker at once, and their product is too large for a run.
* The lemma backfill, a one-off pass at start-up; its race with a re-fetch is a hazard.
* Requests the client gave up on that reach the server later.
* Turning a page into text, tokens and lemmas, rendering a published page, prompts
  and the decoding of JSON: pure functions no property here looks into.
* HTTP, telemetry, configuration, the native shell, the statistics and the import of
  known words.

## 6. Plan

1. `ReaderPoll`: the open page against an abstract server and the service worker.
2. Store errors in `Pipeline`, and the rest of the outbox kinds in `Sync`.
3. Several articles in the outbox of `Progress` and `Vocabulary`, to state what one
   head that is refused for ever holds up.
