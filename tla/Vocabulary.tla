---------------------------- MODULE Vocabulary ----------------------------
(***************************************************************************)
(* One entry of the vocabulary: the event log and the aggregate derived    *)
(* from it (internal/store/vocab.go), the routes that write them           *)
(* (internal/api/handlers_vocab.go), and the devices that tap, save and    *)
(* remove the word and drain their queues (frontend vocab/capture.ts,      *)
(* vocab/store.svelte.ts, sync/engine.ts).                                 *)
(*                                                                         *)
(* Covered: taps, manual saves and removals at any point of a sync run,    *)
(* with everything that may come between their awaits: the local row is    *)
(* read and written back in two steps, and so is the removal of a row and  *)
(* the queueing of it; the lookups that overtake the rest of the queue;    *)
(* answers that are lost, refused or never come; a page that dies in the   *)
(* middle; the pull between whose request and transaction the user goes    *)
(* on; positions taken by another word; pruned tombstones.                 *)
(*                                                                         *)
(* Abstracted: one entry is followed.  The others touch it only through    *)
(* the index on positions, which spans all entries, and that is `held`.    *)
(* The server's clock is the number of changes it has made to the entry.   *)
(* The facets of an event, its translation among them, travel with its id. *)
(* Deletions are never refused, as a key that is too long never got into   *)
(* the vocabulary.                                                         *)
(***************************************************************************)
EXTENDS Integers, FiniteSets, Sequences, Functions

CONSTANTS
  Devices,
  Positions,   \* places in articles where the word occurs: (article, kind, span)
  Times,       \* readings of the devices' clocks, in seconds
  BatchSize,   \* LOOKUP_BATCH_SIZE
  MaxTaps,     \* bound: taps and manual saves
  MaxRemovals, \* bound: removals by the user
  MaxReloads,  \* bound: reloads of a page, and articles opened
  MaxHeld      \* bound: positions another word takes

ASSUME VocabularyAssumption ==
  /\ Times \subseteq Nat
  /\ BatchSize \in Nat \ {0}
  /\ MaxTaps \in Nat
  /\ MaxRemovals \in Nat
  /\ MaxReloads \in Nat
  /\ MaxHeld \in Nat

VARIABLES
  log,       \* lookup_events of the entry
  held,      \* positions in lookup_events under the key of another entry
  entry,     \* the row of vocab_entries
  local,     \* the device's row of the entry
  outbox,    \* the device's queue, as far as it is about this entry
  captured,  \* capturedThisSession
  writes,    \* the device's calls of upsertLocalEntry that have not ended
  removing,  \* the device's removals whose deletion is not queued yet
  run,       \* the device's sync run
  taps,      \* taps and saves so far; they number the events
  seen,      \* history: the last change of the entry each device was answered with
  tapped,    \* history: positions queued
  refused,   \* history: positions dropped on a 4xx
  torn,      \* history: devices whose page died in the middle of a removal
  removals,
  reloads

server == <<log, held, entry>>
client == <<seen, local, outbox, captured, writes, removing, run>>
told   == <<taps, tapped, refused, torn, removals, reloads>>
vars   == <<server, client, told>>

Event == [id : 1 .. MaxTaps, pos : Positions, at : Times]

NoEvent == [id |-> 0]

Entry == [state : {"none", "live", "deleted"}, count : Nat,
          latest : Event \union {NoEvent}, stamp : Nat]

NoEntry == [state |-> "none", count |-> 0, latest |-> NoEvent, stamp |-> 0]

Local == [shown : BOOLEAN, count : Nat]

NotShown == [shown |-> FALSE, count |-> 0]

\* A call of upsertLocalEntry, before its get and between the get and the put.
Write == [step : {"get", "put"}, pos : Positions, row : Local]

Item == [kind : {"lookup", "manual_lookup"}, event : Event]
          \union [kind : {"vocab_delete"}, event : {NoEvent}]

\* What a pull answers.
Pulled == [state : {"none", "live", "deleted"}, count : Nat, stamp : Nat]

Nothing == [state |-> "none", count |-> 0, stamp |-> 0]

Deletion == [kind |-> "vocab_delete", event |-> NoEvent]

Run == [step : {"idle", "flush", "translate", "pull", "apply"},
        todo : Seq(Item), row : Local, got : Pulled]

NotRunning == [step |-> "idle", todo |-> <<>>, row |-> NotShown, got |-> Nothing]

\* The items of a queue at the positions I, in their order.
At(q, I) ==
  [k \in 1 .. Cardinality(I) |->
     q[CHOOSE i \in I : Cardinality({j \in I : j < i}) = k - 1]]

-----------------------------------------------------------------------------
(* The store *)

Newer(e, f) == e.at > f.at \/ (e.at = f.at /\ e.id > f.id)

NewestOf(events) == CHOOSE e \in events : \A f \in events \ {e} : Newer(e, f)

\* recomputeAggregate: a row of it is alive, whatever it was before.
Aggregate(events, stamp) ==
  [state |-> "live", count |-> Cardinality(events), latest |-> NewestOf(events),
   stamp |-> stamp]

Clash(e, f) == e.id = f.id \/ e.pos = f.pos

\* Mutant: only the id is unique.
LandedById(events, stored) ==
  stored \union {e \in Range(events) : \A f \in stored : e.id # f.id}

\* INSERT OR IGNORE: an event whose id or position is there already, in the log
\* of this word or of another or earlier in the batch, is passed over.
Landed(events, stored) ==
  stored \union
    {events[i] : i \in {j \in DOMAIN events :
       /\ events[j].pos \notin held
       /\ \A f \in stored : ~Clash(events[j], f)
       /\ \A k \in 1 .. j - 1 : ~Clash(events[j], events[k])}}

\* Mutant: the event that arrived last supplies the latest fields.
SaveAndTakeLast(events) ==
  /\ log' = Landed(events, log)
  /\ entry' = IF log' = log THEN entry
              ELSE [Aggregate(log', entry.stamp + 1) EXCEPT
                      !.latest = events[Len(events)]]
  /\ UNCHANGED held

\* Mutant: the aggregate of every key submitted is recomputed.
SaveAndRecompute(events) ==
  /\ log' = Landed(events, log)
  /\ entry' = IF log' = {} THEN entry ELSE Aggregate(log', entry.stamp + 1)
  /\ UNCHANGED held

\* Only a key with an event that landed is recomputed.
SaveLookups(events) ==
  /\ log' = Landed(events, log)
  /\ entry' = IF log' = log THEN entry ELSE Aggregate(log', entry.stamp + 1)
  /\ UNCHANGED held

\* The events stay.
DeleteVocabEntry ==
  /\ entry' = IF entry.state = "live"
              THEN [entry EXCEPT !.state = "deleted", !.stamp = @ + 1] ELSE entry
  /\ UNCHANGED <<log, held>>

\* A word of another key is tapped where this word is or was: the text of the
\* article has been fetched again, or the target language is another now.
HoldElsewhere ==
  /\ Cardinality(held) < MaxHeld
  /\ \E p \in Positions \ {e.pos : e \in log} : held' = held \union {p}
  /\ UNCHANGED <<log, entry, client, told>>

\* Nothing is under way on the device.
Idle(d) == run[d].step = "idle" /\ writes[d] = {} /\ removing[d] = 0

\* At a start of the server, and only after 90 days: nothing lasts that long.
PruneVocabTombstones ==
  /\ entry.state = "deleted"
  /\ \A d \in Devices : Idle(d)
  /\ entry' = [NoEntry EXCEPT !.stamp = entry.stamp]
  /\ UNCHANGED <<log, held, client, told>>

-----------------------------------------------------------------------------
(* The user *)

Queue(d, item) == outbox' = [outbox EXCEPT ![d] = Append(@, item)]

\* The marker is set and the event queued; the local row is still to be written.
Capture(d, e, kind) ==
  /\ taps < MaxTaps
  /\ e.id = taps + 1
  /\ e.pos \notin captured[d]
  /\ captured' = [captured EXCEPT ![d] = @ \union {e.pos}]
  /\ Queue(d, [kind |-> kind, event |-> e])
  /\ writes' = [writes EXCEPT ![d] =
       @ \union {[step |-> "get", pos |-> e.pos, row |-> NotShown]}]
  /\ taps' = taps + 1
  /\ tapped' = tapped \union {e.pos}
  /\ UNCHANGED <<server, seen, local, removing, run, refused, torn, removals, reloads>>

\* A tap on an annotated word, which is translated; also a deliberate save of
\* one the article has a translation for.
captureLookup(d) ==
  \E p \in Positions, t \in Times :
    Capture(d, [id |-> taps + 1, pos |-> p, at |-> t], "lookup")

saveManualTerm(d) ==
  \E p \in Positions, t \in Times :
    Capture(d, [id |-> taps + 1, pos |-> p, at |-> t], "manual_lookup")

\* upsertLocalEntry: a row that is there is written back with its count, a fresh
\* one has none.
GetLocalEntry(d) ==
  /\ \E w \in writes[d] :
       /\ w.step = "get"
       /\ writes' = [writes EXCEPT ![d] =
            (@ \ {w}) \union {[w EXCEPT !.step = "put", !.row = local[d]]}]
  /\ UNCHANGED <<server, seen, local, outbox, captured, removing, run, told>>

\* A write that fails takes the marker back; the event stays queued.
PutLocalEntry(d) ==
  /\ \E w \in writes[d] :
       /\ writes' = [writes EXCEPT ![d] = @ \ {w}]
       /\ \/ /\ w.step = "put"
             /\ local' = [local EXCEPT ![d] = [w.row EXCEPT !.shown = TRUE]]
             /\ UNCHANGED captured
          \/ /\ captured' = [captured EXCEPT ![d] = @ \ {w.pos}]
             /\ UNCHANGED local
  /\ UNCHANGED <<server, seen, outbox, removing, run, told>>

\* The row goes first and the deletion is queued after it.
removeVocabEntry(d) ==
  /\ local[d].shown
  /\ removals < MaxRemovals
  /\ removals' = removals + 1
  /\ local' = [local EXCEPT ![d] = NotShown]
  /\ removing' = [removing EXCEPT ![d] = @ + 1]
  /\ UNCHANGED <<server, seen, outbox, captured, writes, run,
                 taps, tapped, refused, torn, reloads>>

QueueDeletion(d) ==
  /\ removing[d] > 0
  /\ removing' = [removing EXCEPT ![d] = @ - 1]
  /\ Queue(d, Deletion)
  /\ UNCHANGED <<server, seen, local, captured, writes, run, told>>

\* An article is opened; what is under way goes on.
resetCaptureSession(d) ==
  /\ reloads < MaxReloads
  /\ reloads' = reloads + 1
  /\ captured' = [captured EXCEPT ![d] = {}]
  /\ UNCHANGED <<server, seen, local, outbox, writes, removing, run,
                 taps, tapped, refused, torn, removals>>

\* The page dies, and with it all that was under way.
Reload(d) ==
  /\ reloads < MaxReloads
  /\ reloads' = reloads + 1
  /\ captured' = [captured EXCEPT ![d] = {}]
  /\ writes' = [writes EXCEPT ![d] = {}]
  /\ removing' = [removing EXCEPT ![d] = 0]
  /\ run' = [run EXCEPT ![d] = NotRunning]
  /\ torn' = IF removing[d] > 0 THEN torn \union {d} ELSE torn
  /\ UNCHANGED <<server, seen, local, outbox, taps, tapped, refused, removals>>

-----------------------------------------------------------------------------
(* A sync run: flushOutbox, then pull *)

IsLookup(item) == item.kind = "lookup"
Lookups(q) == At(q, {i \in DOMAIN q : IsLookup(q[i])})
Others(q)  == At(q, {i \in DOMAIN q : ~IsLookup(q[i])})
Events(q)  == [i \in DOMAIN q |-> q[i].event]

Chunk(q) == SubSeq(Lookups(q), 1, IF Len(Lookups(q)) < BatchSize
                                  THEN Len(Lookups(q)) ELSE BatchSize)

Without(q, items) == At(q, {i \in DOMAIN q : q[i] \notin Range(items)})

\* The drain ends, as it is through or because the server cannot be reached.
Stop(d) == run' = [run EXCEPT ![d] = [NotRunning EXCEPT !.step = "pull"]]

\* A run reads the queue once, at its start.
flushOutbox(d) ==
  /\ run[d].step = "idle"
  /\ run' = [run EXCEPT ![d] =
       [NotRunning EXCEPT !.step = "flush", !.todo = outbox[d]]]
  /\ UNCHANGED <<server, seen, local, outbox, captured, writes, removing, told>>

\* Mutant: all lookups of the queue are removed, those of the run or not.
ClearLookups(d, chunk) ==
  /\ outbox' = [outbox EXCEPT ![d] = Others(@)]
  /\ run' = [run EXCEPT ![d].todo = Without(@, chunk)]

Dequeue(d, items) ==
  /\ outbox' = [outbox EXCEPT ![d] = Without(@, items)]
  /\ run' = [run EXCEPT ![d].todo = Without(@, items)]

\* A chunk is delivered and acknowledged; delivered, but the answer is lost;
\* or refused as a whole.
flushLookups(d) ==
  LET chunk == Chunk(run[d].todo)
  IN /\ run[d].step = "flush"
     /\ chunk # <<>>
     /\ \/ /\ SaveLookups(Events(chunk))
           /\ Dequeue(d, chunk)
           /\ UNCHANGED refused
        \/ /\ SaveLookups(Events(chunk))
           /\ Stop(d)
           /\ UNCHANGED <<outbox, refused>>
        \/ /\ Dequeue(d, chunk)
           /\ refused' = refused \union {e.pos : e \in Range(Events(chunk))}
           /\ UNCHANGED server
     /\ UNCHANGED <<seen, local, captured, writes, removing,
                    taps, tapped, torn, removals, reloads>>

\* The rest of the queue comes after the lookups, in its order.
LookupsDone(d) == run[d].step = "flush" /\ run[d].todo # <<>> /\ Lookups(run[d].todo) = <<>>

\* One event of its own, translated or, if the server refuses that, not.  When it
\* is recorded the local row is read, for the translation to be put on it; a
\* refused save is dropped.
DispatchSave(d) ==
  LET item == Head(run[d].todo)
  IN /\ LookupsDone(d)
     /\ item.kind = "manual_lookup"
     /\ \/ /\ SaveLookups(<<item.event>>)
           /\ IF local[d].shown
              THEN /\ run' = [run EXCEPT ![d].step = "translate", ![d].row = local[d]]
                   /\ UNCHANGED outbox
              ELSE Dequeue(d, <<item>>)
           /\ UNCHANGED refused
        \/ /\ SaveLookups(<<item.event>>)
           /\ Stop(d)
           /\ UNCHANGED <<outbox, refused>>
        \/ /\ Dequeue(d, <<item>>)
           /\ refused' = refused \union {item.event.pos}
           /\ UNCHANGED server
     /\ UNCHANGED <<seen, local, captured, writes, removing,
                    taps, tapped, torn, removals, reloads>>

\* applyTranslationLocally: the row that was read is put back, and the save leaves
\* the queue; either may fail, and the drain ends.
PutTranslation(d) ==
  LET item == Head(run[d].todo)
      rest == Without(run[d].todo, <<item>>)
  IN /\ run[d].step = "translate"
     /\ \/ /\ local' = [local EXCEPT ![d] = run[d].row]
           /\ outbox' = [outbox EXCEPT ![d] = Without(@, <<item>>)]
           /\ run' = [run EXCEPT ![d] = [NotRunning EXCEPT !.step = "flush", !.todo = rest]]
        \/ /\ local' \in {local, [local EXCEPT ![d] = run[d].row]}
           /\ Stop(d)
           /\ UNCHANGED outbox
     /\ UNCHANGED <<server, seen, captured, writes, removing, told>>

\* One queued deletion is as good as another, so the first of them goes.
FirstDeletion(q) ==
  {i \in DOMAIN q : q[i] = Deletion /\ \A k \in 1 .. i - 1 : q[k] # Deletion}

DequeueDeletion(d) ==
  /\ outbox' = [outbox EXCEPT ![d] = At(@, DOMAIN @ \ FirstDeletion(@))]
  /\ run' = [run EXCEPT ![d].todo = Tail(@)]

DispatchDelete(d) ==
  /\ LookupsDone(d)
  /\ Head(run[d].todo) = Deletion
  /\ DeleteVocabEntry
  /\ \/ DequeueDeletion(d)
     \/ Stop(d) /\ UNCHANGED outbox
  /\ UNCHANGED <<seen, local, captured, writes, removing, told>>

\* Nothing is left, or the next request does not get through.
Drained(d) ==
  /\ run[d].step = "flush"
  /\ Stop(d)
  /\ UNCHANGED <<server, seen, local, outbox, captured, writes, removing, told>>

\* GET /api/config: as in Sync its cursor is the zero time, so every answer is in
\* full, and only a row that was pruned is missing.
ListVocab ==
  IF entry.state = "none" THEN Nothing
  ELSE [state |-> entry.state, count |-> entry.count, stamp |-> entry.stamp]

Pull(d) ==
  /\ run[d].step = "pull"
  /\ \/ run' = [run EXCEPT ![d] = [NotRunning EXCEPT !.step = "apply", !.got = ListVocab]]
     \/ run' = [run EXCEPT ![d] = NotRunning]
  /\ UNCHANGED <<server, seen, local, outbox, captured, writes, removing, told>>

\* The local row a pulled one becomes.
RowOf(got) ==
  IF got.state = "deleted" THEN NotShown ELSE [shown |-> TRUE, count |-> got.count]

\* Mutant: a row with something queued is passed over.
ApplyUnlessQueued(d) ==
  /\ run[d].step = "apply"
  /\ LET got == run[d].got
     IN IF got.state = "none" THEN UNCHANGED <<local, seen, torn>>
        ELSE /\ local' = IF outbox[d] # <<>> THEN local
                       ELSE [local EXCEPT ![d] = RowOf(got)]
             /\ seen' = [seen EXCEPT ![d] = got.stamp]
             /\ torn' = torn \ {d}
  /\ run' = [run EXCEPT ![d] = NotRunning]
  /\ UNCHANGED <<server, outbox, captured, writes, removing,
                 taps, tapped, refused, removals, reloads>>

\* bulkPut and bulkDelete; absence says nothing.
Apply(d) ==
  /\ run[d].step = "apply"
  /\ LET got == run[d].got
     IN IF got.state = "none" THEN UNCHANGED <<local, seen, torn>>
        ELSE /\ local' = [local EXCEPT ![d] = RowOf(got)]
             /\ seen' = [seen EXCEPT ![d] = got.stamp]
             /\ torn' = torn \ {d}
  /\ run' = [run EXCEPT ![d] = NotRunning]
  /\ UNCHANGED <<server, outbox, captured, writes, removing,
                 taps, tapped, refused, removals, reloads>>

-----------------------------------------------------------------------------
Init ==
  /\ log = {}
  /\ held = {}
  /\ entry = NoEntry
  /\ seen = [d \in Devices |-> 0]
  /\ local = [d \in Devices |-> NotShown]
  /\ outbox = [d \in Devices |-> <<>>]
  /\ captured = [d \in Devices |-> {}]
  /\ writes = [d \in Devices |-> {}]
  /\ removing = [d \in Devices |-> 0]
  /\ run = [d \in Devices |-> NotRunning]
  /\ taps = 0
  /\ tapped = {}
  /\ refused = {}
  /\ torn = {}
  /\ removals = 0
  /\ reloads = 0

User(d) ==
  \/ captureLookup(d) \/ saveManualTerm(d) \/ GetLocalEntry(d) \/ PutLocalEntry(d)
  \/ removeVocabEntry(d) \/ QueueDeletion(d)
  \/ resetCaptureSession(d) \/ Reload(d)

Sync(d) ==
  \/ flushOutbox(d) \/ flushLookups(d)
  \/ DispatchSave(d) \/ PutTranslation(d) \/ DispatchDelete(d) \/ Drained(d)
  \/ Pull(d) \/ Apply(d)

Next == (\E d \in Devices : User(d) \/ Sync(d)) \/ HoldElsewhere

Spec == Init /\ [][Next]_vars

PruningSpec == Init /\ [][Next \/ PruneVocabTombstones]_vars

-----------------------------------------------------------------------------
(* Properties *)

\* The states have the types above, and a position is in the log once.
TypeOK ==
  /\ log \subseteq Event
  /\ \A e, f \in log : e.id = f.id \/ e.pos = f.pos => e = f
  /\ held \subseteq Positions
  /\ entry \in Entry
  /\ seen \in [Devices -> Nat]
  /\ local \in [Devices -> Local]
  /\ outbox \in [Devices -> Seq(Item)]
  /\ captured \in [Devices -> SUBSET Positions]
  /\ writes \in [Devices -> SUBSET Write]
  /\ removing \in [Devices -> Nat]
  /\ run \in [Devices -> Run]
  /\ taps \in 0 .. MaxTaps
  /\ tapped \subseteq Positions
  /\ refused \subseteq Positions
  /\ torn \subseteq Devices
  /\ removals \in 0 .. MaxRemovals
  /\ reloads \in 0 .. MaxReloads

Queued(p) ==
  \E d \in Devices : \E item \in Range(outbox[d]) :
    item # Deletion /\ item.event.pos = p

InLog(p) == \E e \in log : e.pos = p

\* A word that was tapped is in the log or still queued on some device, unless
\* the server refused it or another word has the position: neither a lost
\* answer, nor a reload, nor a tap that comes while the queue is being drained,
\* nor a local row that could not be written loses it.
TapsAreNotLost == \A p \in tapped \ (refused \union held) : InLog(p) \/ Queued(p)

\* "The authoritative de-duplication is the SQLite unique index": the taps of a
\* word are all recorded, wherever other words were tapped.
TapsAreRecorded == \A p \in tapped \ refused : InLog(p) \/ Queued(p)

\* The row counts every place where the word was tapped once, however often and
\* from however many devices, sessions and retries the tap arrives: no more than
\* the places tapped, and no less than those nobody has still to send.
EachTapCountsOnce ==
  entry.state # "none" =>
    /\ entry.count <= Cardinality(tapped \ held)
    /\ entry.count >=
         Cardinality({p \in tapped \ (refused \union held) : ~Queued(p)})

\* "The newest event supplies every latest_* field": a tap made offline and
\* delivered late never takes the row back to an earlier one.
LatestNeverOlder ==
  [][entry.state # "none" => entry'.latest.at >= entry.latest.at]_vars

\* "Fully idempotent ... so the client can retry a batch freely": the retry of
\* a tap that has already been recorded does not bring a word back that was
\* removed since.
RetryDoesNotRevive ==
  [][entry.state = "deleted" /\ entry'.state = "live" => log' # log]_vars

\* The user has removed the word on the device, and the server does not know yet,
\* or never will: the page died before the removal was queued.
Removed(d) == removing[d] > 0 \/ Deletion \in Range(outbox[d]) \/ d \in torn

\* A device that has seen the entry's last change shows it if it is alive, unless
\* the user has removed it there.
LiveEntryShown ==
  \A d \in Devices :
    entry.state = "live" /\ seen[d] = entry.stamp /\ ~Removed(d) => local[d].shown

\* "The next pull replaces the row wholesale.  That is what keeps the optimistic
\* count from drifting": and with its count.
ShownCountIsCurrent ==
  \A d \in Devices :
    entry.state = "live" /\ seen[d] = entry.stamp /\ ~Removed(d) =>
      local[d].count = entry.count

\* A device that has nothing queued and has seen the last change shows no word
\* that is not in the vocabulary.
Settled(d) == outbox[d] = <<>> /\ Idle(d) /\ seen[d] = entry.stamp

\* "The entry revives on the next lookup, so a misclick costs one tap in an
\* article": what a device with nothing left to send shows is in the
\* vocabulary.
MisclickCostsOneTap ==
  \A d \in Devices : Settled(d) /\ local[d].shown /\ refused = {} =>
    entry.state = "live"

\* "A client that has been offline longer than this does a full sync anyway":
\* a device that asks for everything after the tombstone is gone forgets the
\* word.
PrunedWordForgotten ==
  [][\A d \in Devices :
       run[d].step = "apply" /\ entry.state = "none" /\ log # {}
       /\ outbox[d] = <<>> /\ run'[d].step = "idle" => ~local'[d].shown]_vars

=============================================================================
