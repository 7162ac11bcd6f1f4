--------------------------------- MODULE Sync ---------------------------------
(***************************************************************************)
(* The offline-first client: the sync engine of the PWA                    *)
(* (frontend/src/lib/sync/engine.ts), the tables of its IndexedDB, the     *)
(* cache its requests go through, and the article rows of the server.      *)
(*                                                                         *)
(* Covered: the optimistic local write of a pin, a re-enrichment and a     *)
(* deletion, one table at a time; the outbox and its drain; a pull whose   *)
(* answer is applied after the user went on; the lazy fetch of payloads;   *)
(* several devices; lost answers, refusals and outages; a page that is     *)
(* closed at any moment.                                                   *)
(*                                                                         *)
(* Abstracted: an article is at work or enriched, and a copy of its        *)
(* translation is current or stale.  Progress, settings and vocabulary use *)
(* the same outbox and are left out here; so is the open article page,     *)
(* which fetches the one article it shows by itself.  One page is open per *)
(* device: its runs are serialised by syncChain.  A request the client     *)
(* gave up on is not handled later.  Failed articles behave like those at  *)
(* work.                                                                   *)
(***************************************************************************)
EXTENDS Naturals, FiniteSets

CONSTANTS
  Articles,   \* ids of the library
  Devices,    \* browsers or apps of the one user
  MaxWrites   \* bound: writes the user makes on each device

ASSUME SyncAssumption == MaxWrites \in [Devices -> Nat]

VARIABLES
  server,    \* articles rows
  library,   \* articles_meta of a device
  payload,   \* articles_payload: the translation a device holds
  cache,     \* HTTP and service worker cache of GET /api/articles/:id
  outbox,    \* queued writes
  synced,    \* sync_state.cursor is set
  editing,   \* the enqueue* call in progress
  phase,     \* where the sync run is
  todo,      \* entries flushOutbox read and has not dispatched yet
  listing,   \* articles of the answer of GET /api/config
  wanted,    \* enriched articles of it not looked at yet
  reply,     \* payload received and not stored yet
  begun,     \* history: writes the user began
  queued,    \* history: number of the last write queued
  handled,   \* history: number of the last write the server handled
  buried     \* history: articles gone from the library when their deletion
             \* had been queued

tables == <<library, payload, cache, synced>>
run    == <<phase, todo, listing, wanted, reply>>
past   == <<begun, queued, handled, buried>>
vars   == <<server, tables, outbox, editing, run, past>>

-----------------------------------------------------------------------------
(* The server's side *)

Absent == [status |-> "none", pinned |-> FALSE]
Meta   == [status : {"working", "enriched"}, pinned : BOOLEAN]

\* An id is never used again, so a deleted row is told apart from a new one.
Row == [status : {"working", "enriched", "deleted"}, pinned : BOOLEAN]

Alive(a) == server[a].status # "deleted"

\* GET /api/config: getConfig never sets Cursor, so the cursor a client sends
\* back is the zero time and ListArticleMeta lists everything.
ListArticleMeta ==
  [a \in Articles |->
     IF Alive(a) THEN [status |-> server[a].status, pinned |-> server[a].pinned]
                 ELSE Absent]

\* A copy of the translation, relative to the one the server has.
Copies == {"none", "stale", "current"}

NoReply == [copy |-> "none"]
Reply   == [article : Articles, copy : {"stale", "current"}]

\* The copies of an article grow old.
Outdate(copies, a) ==
  [d \in Devices |-> [copies[d] EXCEPT ![a] = IF @ = "none" THEN @ ELSE "stale"]]

\* The pipeline ends with a new translation.
Enrich(a) ==
  /\ server[a].status = "working"
  /\ server' = [server EXCEPT ![a].status = "enriched"]
  /\ payload' = Outdate(payload, a)
  /\ cache' = Outdate(cache, a)
  /\ reply' = [d \in Devices |->
       IF reply[d] # NoReply /\ reply[d].article = a
       THEN [reply[d] EXCEPT !.copy = "stale"] ELSE reply[d]]
  /\ UNCHANGED <<library, synced, outbox, editing, phase, todo, listing, wanted,
                 past>>

Kinds == {"pin", "unpin", "reenrich", "delete"}
Entry == [seq : Nat \ {0}, kind : Kinds, article : Articles]

\* The handler of a write; an unknown id is answered with 404.
Handle(r, kind) ==
  IF r.status = "deleted" THEN r
  ELSE CASE kind = "pin"      -> [r EXCEPT !.pinned = TRUE]
         [] kind = "unpin"    -> [r EXCEPT !.pinned = FALSE]
         [] kind = "reenrich" -> [r EXCEPT !.status = "working"]
         [] OTHER             -> [r EXCEPT !.status = "deleted"]

-----------------------------------------------------------------------------
(* enqueuePin, enqueueReEnrich, enqueueDelete: each await is a step, and    *)
(* the sync run goes on between them.                                       *)

NoEdit == [kind |-> "none"]
Edit   == [kind : Kinds, article : Articles, copy : Meta,
           step : {"row", "payload", "queue"}]

\* The user acts on an article of the list, and its row is read.
BeginEdit(d, a, kind) ==
  /\ editing[d] = NoEdit
  /\ library[d][a] # Absent
  /\ begun[d] < MaxWrites[d]
  /\ editing' = [editing EXCEPT ![d] =
       [kind |-> kind, article |-> a, copy |-> library[d][a], step |-> "row"]]
  /\ begun' = [begun EXCEPT ![d] = @ + 1]
  /\ UNCHANGED <<server, tables, outbox, run, queued, handled, buried>>

Optimistic(e) ==
  CASE e.kind = "pin"      -> [e.copy EXCEPT !.pinned = TRUE]
    [] e.kind = "unpin"    -> [e.copy EXCEPT !.pinned = FALSE]
    [] e.kind = "reenrich" -> [e.copy EXCEPT !.status = "working"]
    [] OTHER               -> Absent

\* The copy that was read is written back whole.
ApplyEdit(d) ==
  /\ editing[d] # NoEdit
  /\ editing[d].step = "row"
  /\ library' = [library EXCEPT ![d][editing[d].article] = Optimistic(editing[d])]
  /\ editing' = [editing EXCEPT ![d].step =
       IF editing[d].kind \in {"reenrich", "delete"} THEN "payload" ELSE "queue"]
  /\ UNCHANGED <<server, payload, cache, synced, outbox, run, past>>

\* A translation that is about to be replaced, or deleted, is dropped.
DropPayload(d) ==
  /\ editing[d] # NoEdit
  /\ editing[d].step = "payload"
  /\ payload' = [payload EXCEPT ![d][editing[d].article] = "none"]
  /\ editing' = [editing EXCEPT ![d].step = "queue"]
  /\ UNCHANGED <<server, library, cache, synced, outbox, run, past>>

\* enqueueOutbox
QueueEdit(d) ==
  /\ editing[d] # NoEdit
  /\ editing[d].step = "queue"
  /\ LET a == editing[d].article
         kind == editing[d].kind
     IN /\ outbox' = [outbox EXCEPT ![d] = @ \union
             {[seq |-> queued[d] + 1, kind |-> kind, article |-> a]}]
        /\ buried' = IF kind = "delete" /\ library[d][a] = Absent
                     THEN [buried EXCEPT ![d] = @ \union {a}] ELSE buried
  /\ queued' = [queued EXCEPT ![d] = @ + 1]
  /\ editing' = [editing EXCEPT ![d] = NoEdit]
  /\ UNCHANGED <<server, tables, run, begun, handled>>

-----------------------------------------------------------------------------
(* flushOutbox *)

Goto(d, label) == phase' = [phase EXCEPT ![d] = label]

BeginSync(d) ==
  /\ phase[d] = "idle"
  /\ Goto(d, "flush")
  /\ todo' = [todo EXCEPT ![d] = outbox[d]]
  /\ UNCHANGED <<server, tables, outbox, editing, listing, wanted, reply, past>>

IsHead(d, e) == e \in todo[d] /\ \A f \in todo[d] : e.seq <= f.seq

\* The request arrives and is handled.
Dispatch(d) ==
  /\ phase[d] = "flush"
  /\ \E e \in todo[d] :
       /\ IsHead(d, e)
       /\ server' = [server EXCEPT ![e.article] = Handle(@, e.kind)]
       /\ handled' = [handled EXCEPT ![d] = e.seq]
  /\ Goto(d, "answer")
  /\ UNCHANGED <<tables, outbox, editing, todo, listing, wanted, reply, begun,
                 queued, buried>>

\* Success, or a permanent refusal: the entry leaves the outbox.
Confirm(d) ==
  /\ phase[d] = "answer"
  /\ \E e \in todo[d] :
       /\ IsHead(d, e)
       /\ outbox' = [outbox EXCEPT ![d] = @ \ {e}]
       /\ todo' = [todo EXCEPT ![d] = @ \ {e}]
  /\ Goto(d, "flush")
  /\ UNCHANGED <<server, tables, editing, listing, wanted, reply, past>>

\* Mutant: a write that did not get through is passed over.
PassOver(d) ==
  /\ phase[d] \in {"flush", "answer"}
  /\ \E e \in todo[d] :
       IsHead(d, e) /\ todo' = [todo EXCEPT ![d] = @ \ {e}]
  /\ Goto(d, "flush")
  /\ UNCHANGED <<server, tables, outbox, editing, listing, wanted, reply, past>>

\* Mutant: a write that did not get through is given up.
GiveUp(d) ==
  /\ phase[d] \in {"flush", "answer"}
  /\ \E e \in todo[d] :
       IsHead(d, e) /\ outbox' = [outbox EXCEPT ![d] = @ \ {e}]
  /\ todo' = [todo EXCEPT ![d] = {}]
  /\ Goto(d, "pull")
  /\ UNCHANGED <<server, tables, editing, listing, wanted, reply, past>>

\* Offline, 429 or 5xx, before or after the write took effect: the drain
\* stops, the entry stays, and the pull is tried all the same.
StopFlush(d) ==
  /\ phase[d] \in {"flush", "answer"}
  /\ todo[d] # {}
  /\ todo' = [todo EXCEPT ![d] = {}]
  /\ Goto(d, "pull")
  /\ UNCHANGED <<server, tables, outbox, editing, listing, wanted, reply, past>>

EndFlush(d) ==
  /\ phase[d] = "flush"
  /\ todo[d] = {}
  /\ Goto(d, "pull")
  /\ UNCHANGED <<server, tables, outbox, editing, todo, listing, wanted, reply,
                 past>>

-----------------------------------------------------------------------------
(* pull *)

NoListing == [a \in Articles |-> Absent]

\* GET /api/config is answered.
RequestList(d) ==
  /\ phase[d] = "pull"
  /\ listing' = [listing EXCEPT ![d] = ListArticleMeta]
  /\ Goto(d, "commit")
  /\ UNCHANGED <<server, tables, outbox, editing, todo, wanted, reply, past>>

PendingDeletes(d) == {e.article : e \in {f \in outbox[d] : f.kind = "delete"}}

\* Mutant: what is listed is stored, pending deletion or not.
UpsertAll(d) ==
  [a \in Articles |->
     IF listing[d][a] # Absent \/ ~synced[d] THEN listing[d][a] ELSE library[d][a]]

\* Mutant: a listed article is added, and a known one is left as it is.
InsertNew(d) ==
  [a \in Articles |->
     IF a \in PendingDeletes(d) \/ library[d][a] # Absent THEN library[d][a]
                                                         ELSE listing[d][a]]

\* What the transaction leaves in articles_meta: the listed articles that are
\* not about to be deleted; the others only go on the first, full sync.
Upserted(d) ==
  [a \in Articles |->
     IF a \in PendingDeletes(d) \/ (synced[d] /\ listing[d][a] = Absent)
     THEN library[d][a] ELSE listing[d][a]]

\* The transaction of pull.
CommitPull(d) ==
  /\ phase[d] = "commit"
  /\ library' = [library EXCEPT ![d] = Upserted(d)]
  /\ payload' = [payload EXCEPT ![d] =
       [a \in Articles |->
          IF library[d][a] # Absent /\ Upserted(d)[a] = Absent THEN "none" ELSE @[a]]]
  /\ synced' = [synced EXCEPT ![d] = TRUE]
  /\ wanted' = [wanted EXCEPT ![d] =
       {a \in Articles : listing[d][a].status = "enriched"}]
  /\ listing' = [listing EXCEPT ![d] = NoListing]
  /\ Goto(d, "fetch")
  /\ UNCHANGED <<server, cache, outbox, editing, todo, reply, past>>

\* isPayloadFresh: the enrichment version is the same, and updated_at, which
\* the listing does not carry, is undefined on both sides.
isPayloadFresh(d, a) == payload[d][a] # "none"

SkipPayload(d, a) ==
  /\ phase[d] = "fetch"
  /\ a \in wanted[d]
  /\ isPayloadFresh(d, a)
  /\ wanted' = [wanted EXCEPT ![d] = @ \ {a}]
  /\ UNCHANGED <<server, tables, outbox, editing, phase, todo, listing, reply,
                 past>>

\* GET /api/articles/:id, cache first; only an enriched article is cached.
FetchPayload(d, a) ==
  /\ phase[d] = "fetch"
  /\ a \in wanted[d]
  /\ ~isPayloadFresh(d, a)
  /\ cache[d][a] # "none" \/ server[a].status = "enriched"
  /\ LET copy == IF cache[d][a] # "none" THEN cache[d][a] ELSE "current"
     IN /\ cache' = [cache EXCEPT ![d][a] = copy]
        /\ reply' = [reply EXCEPT ![d] = [article |-> a, copy |-> copy]]
  /\ Goto(d, "store")
  /\ UNCHANGED <<server, library, payload, synced, outbox, editing, todo, listing,
                 wanted, past>>

\* 404, 409 or a server error: on to the next article.
MissPayload(d, a) ==
  /\ phase[d] = "fetch"
  /\ a \in wanted[d]
  /\ ~isPayloadFresh(d, a)
  /\ wanted' = [wanted EXCEPT ![d] = @ \ {a}]
  /\ UNCHANGED <<server, tables, outbox, editing, phase, todo, listing, reply,
                 past>>

StorePayload(d) ==
  /\ phase[d] = "store"
  /\ payload' = [payload EXCEPT ![d][reply[d].article] = reply[d].copy]
  /\ wanted' = [wanted EXCEPT ![d] = @ \ {reply[d].article}]
  /\ reply' = [reply EXCEPT ![d] = NoReply]
  /\ Goto(d, "fetch")
  /\ UNCHANGED <<server, library, cache, synced, outbox, editing, todo, listing,
                 past>>

\* The run is over: nothing is left to fetch, or the network is gone.
EndSync(d) ==
  /\ phase[d] \in {"pull", "fetch"}
  /\ wanted' = [wanted EXCEPT ![d] = {}]
  /\ Goto(d, "idle")
  /\ UNCHANGED <<server, tables, outbox, editing, todo, listing, reply, past>>

\* The page is closed and opened again: IndexedDB and the caches stay.
Reload(d) ==
  /\ editing' = [editing EXCEPT ![d] = NoEdit]
  /\ phase' = [phase EXCEPT ![d] = "idle"]
  /\ todo' = [todo EXCEPT ![d] = {}]
  /\ listing' = [listing EXCEPT ![d] = NoListing]
  /\ wanted' = [wanted EXCEPT ![d] = {}]
  /\ reply' = [reply EXCEPT ![d] = NoReply]
  /\ UNCHANGED <<server, tables, outbox, past>>

-----------------------------------------------------------------------------

\* A server in use, and devices that see it for the first time.
Init ==
  /\ server \in [Articles -> {[status |-> "working", pinned |-> FALSE],
                              [status |-> "enriched", pinned |-> FALSE]}]
  /\ library = [d \in Devices |-> NoListing]
  /\ payload = [d \in Devices |-> [a \in Articles |-> "none"]]
  /\ cache = [d \in Devices |-> [a \in Articles |-> "none"]]
  /\ outbox = [d \in Devices |-> {}]
  /\ synced = [d \in Devices |-> FALSE]
  /\ editing = [d \in Devices |-> NoEdit]
  /\ phase = [d \in Devices |-> "idle"]
  /\ todo = [d \in Devices |-> {}]
  /\ listing = [d \in Devices |-> NoListing]
  /\ wanted = [d \in Devices |-> {}]
  /\ reply = [d \in Devices |-> NoReply]
  /\ begun = [d \in Devices |-> 0]
  /\ queued = [d \in Devices |-> 0]
  /\ handled = [d \in Devices |-> 0]
  /\ buried = [d \in Devices |-> {}]

Write(d) == ApplyEdit(d) \/ DropPayload(d) \/ QueueEdit(d)
Flush(d) == Dispatch(d) \/ Confirm(d) \/ StopFlush(d) \/ EndFlush(d)
Fetch(d) == StorePayload(d) \/ \E a \in Articles :
              SkipPayload(d, a) \/ FetchPayload(d, a) \/ MissPayload(d, a)
Pull(d)  == RequestList(d) \/ CommitPull(d) \/ Fetch(d)
Run(d)   == BeginSync(d) \/ Flush(d) \/ Pull(d) \/ EndSync(d)

Next ==
  \/ \E a \in Articles : Enrich(a)
  \/ \E d \in Devices :
       \/ \E a \in Articles, kind \in Kinds : BeginEdit(d, a, kind)
       \/ Write(d) \/ Run(d) \/ Reload(d)

Spec == Init /\ [][Next]_vars

(***************************************************************************)
(* The minute timer starts runs, and the pipeline finishes (module         *)
(* Pipeline).  A network that fails again and again lets each request      *)
(* through at some point, and a page that is closed again and again stays  *)
(* open long enough at some point for each step of a run.                  *)
(***************************************************************************)
OnlineSpec ==
  /\ Spec
  /\ \A a \in Articles : WF_vars(Enrich(a))
  /\ \A d \in Devices :
       /\ WF_vars(Run(d)) /\ WF_vars(Write(d))
       /\ SF_vars(Dispatch(d)) /\ SF_vars(Confirm(d)) /\ SF_vars(EndFlush(d))
       /\ SF_vars(RequestList(d)) /\ SF_vars(CommitPull(d))
       /\ \A a \in Articles : SF_vars(FetchPayload(d, a))
       /\ SF_vars(StorePayload(d))

-----------------------------------------------------------------------------

\* Type correctness of the tables and of the run's locals.
TypeOK ==
  /\ server \in [Articles -> Row]
  /\ library \in [Devices -> [Articles -> Meta \union {Absent}]]
  /\ payload \in [Devices -> [Articles -> Copies]]
  /\ cache \in [Devices -> [Articles -> Copies]]
  /\ outbox \in [Devices -> SUBSET Entry]
  /\ synced \in [Devices -> BOOLEAN]
  /\ editing \in [Devices -> Edit \union {NoEdit}]
  /\ phase \in [Devices -> {"idle", "flush", "answer", "pull", "commit", "fetch",
                            "store"}]
  /\ todo \in [Devices -> SUBSET Entry]
  /\ listing \in [Devices -> [Articles -> Meta \union {Absent}]]
  /\ wanted \in [Devices -> SUBSET Articles]
  /\ reply \in [Devices -> Reply \union {NoReply}]
  /\ \A d \in Devices : phase[d] = "store" => reply[d] \in Reply
  /\ begun \in [Devices -> Nat]
  /\ queued \in [Devices -> Nat]
  /\ handled \in [Devices -> Nat]
  /\ buried \in [Devices -> SUBSET Articles]

\* Once the deletion of an article is queued it never comes back on that
\* device: not from an answer that was on its way, not from a pull while the
\* deletion cannot be delivered, and not from one right after its delivery
\* (the pendingDeleteIds filter, flush before pull, and syncChain together).
BuriedStaysBuried == \A d \in Devices : \A a \in buried[d] : library[d][a] = Absent

\* The server sees the writes of a device in the order they were made: none
\* is skipped, and after an answer was lost only the last one is repeated.
WritesInOrder ==
  [][\A d \in Devices : handled'[d] \in {handled[d], handled[d] + 1}]_vars

\* No write is lost: what the server has not handled is still queued.
NothingLost ==
  \A d \in Devices : \A n \in handled[d] + 1 .. queued[d] :
    \E e \in outbox[d] : e.seq = n

\* Once the user rests, every device shows each article as the server has it,
\* whatever optimistic values, stale copies and old answers were written over
\* one another, and can open each enriched one offline.
LibrariesConverge ==
  <>[](\A d \in Devices : \A a \in Articles :
         Alive(a) => /\ library[d][a] = ListArticleMeta[a]
                     /\ server[a].status = "enriched" => payload[d][a] # "none")

\* A re-enriched article is shown in its new translation in the end, on the
\* device that asked for it (engine.ts:681) and on the others (73-76).
TranslationsRefresh ==
  <>[](\A d \in Devices : \A a \in Articles :
         server[a].status = "enriched" => payload[d][a] = "current")

\* "pull() reconciles deletions by removing local articles absent from the
\* server response" (engine.ts:532): an article that was deleted, here or on
\* another device, goes with the next pull.
PullReconciles ==
  [][\A d \in Devices : CommitPull(d) =>
       \A a \in Articles :
         listing[d][a] = Absent /\ a \notin PendingDeletes(d)
           => library'[d][a] = Absent]_vars

=============================================================================
