------------------------------ MODULE Progress ------------------------------
(***************************************************************************)
(* The reading position of an article: written on any device, queued in    *)
(* its outbox, merged by the server and by every pull with the rule that   *)
(* the last write wins (frontend/src/lib/sync/engine.ts, putProgress of    *)
(* internal/api/handlers.go, UpsertProgress of internal/store/store.go).   *)
(*                                                                         *)
(* Covered: the awaits of enqueueProgress, at each of which the page may   *)
(* be closed; drains with lost answers and retries; pulls applied late;    *)
(* the deletion of the article by somebody else; and times that devices    *)
(* compare exactly but the server keeps in whole seconds.                  *)
(*                                                                         *)
(* Abstracted: one article, as articles do not interact but in the outbox; *)
(* a position is the number of the write that set it.  A second has        *)
(* Fraction instants.  What else an outbox holds is not modelled: a head   *)
(* that is refused for ever stands for all that is queued behind it.       *)
(***************************************************************************)
EXTENDS Integers, Sequences, SequencesExt

CONSTANTS
  Devices,
  Skew,       \* how far the clock of a device is ahead
  Fraction,   \* instants the clients tell apart within a second
  MaxWrites,  \* bound: writes on each device
  MaxTime,    \* bound: instants that pass
  MaxReloads  \* bound: pages closed

ASSUME ProgressAssumption ==
  /\ Skew \in [Devices -> Nat]
  /\ Fraction \in Nat \ {0}
  /\ MaxWrites \in [Devices -> Nat]
  /\ MaxTime \in Nat
  /\ MaxReloads \in Nat

VARIABLES
  alive,    \* the article exists
  server,   \* its progress row
  local,    \* the progress table of a device
  outbox,   \* queued writes, in the order of their ids
  editing,  \* the call of enqueueProgress under way
  sent,     \* the head of the outbox was handled and its answer is under way
  reply,    \* progress of an answer of GET /api/config not yet applied
  now,
  written,  \* history: every write begun on a device, oldest first
  handled,  \* history: writes the server was asked for
  torn,     \* history: writes that reached the table and not the outbox
  reloads

client  == <<local, outbox, editing, sent, reply>>
history == <<written, handled, torn>>
vars    == <<alive, server, client, now, history, reloads>>

\* Instant 0 is that of a row that does not exist.
Write == [by : Devices, number : Nat, at : Nat]
None  == [by |-> "none", number |-> 0, at |-> 0]
Row   == Write \union {None}

isNewer(candidate, existing) == candidate.at > existing.at

Second(at) == at \div Fraction

\* fmtTime keeps the second.
Stored(w) == [w EXCEPT !.at = Second(@) * Fraction]

NoEdit  == [step |-> "none"]
NoReply == [row |-> None, full |-> FALSE]

TypeOK ==
  /\ alive \in BOOLEAN
  /\ server \in Row
  /\ local \in [Devices -> Row]
  /\ outbox \in [Devices -> Seq(Write)]
  /\ editing \in [Devices -> {NoEdit} \union
                                [step : {"put", "skip", "queue"}, write : Write]]
  /\ sent \in [Devices -> BOOLEAN]
  /\ reply \in [Devices -> [row : Row, full : BOOLEAN]]
  /\ now \in 0 .. MaxTime
  /\ written \in [Devices -> Seq(Write)]
  /\ handled \subseteq Write
  /\ torn \in [Devices -> SUBSET Write]
  /\ reloads \in 0 .. MaxReloads

Init ==
  /\ alive = TRUE
  /\ server = None
  /\ local = [d \in Devices |-> None]
  /\ outbox = [d \in Devices |-> <<>>]
  /\ editing = [d \in Devices |-> NoEdit]
  /\ sent = [d \in Devices |-> FALSE]
  /\ reply = [d \in Devices |-> NoReply]
  /\ now = 0
  /\ written = [d \in Devices |-> <<>>]
  /\ handled = {}
  /\ torn = [d \in Devices |-> {}]
  /\ reloads = 0

-----------------------------------------------------------------------------
(* enqueueProgress *)

\* The reader stamps the position, and the row of the device is read.
Begin(d) ==
  /\ editing[d] = NoEdit
  /\ Len(written[d]) < MaxWrites[d]
  /\ LET w == [by |-> d, number |-> Len(written[d]) + 1,
               at |-> Fraction + now + Skew[d]]
     IN /\ editing' = [editing EXCEPT ![d] =
             [step |-> IF isNewer(local[d], w) THEN "skip" ELSE "put", write |-> w]]
        /\ written' = [written EXCEPT ![d] = Append(@, w)]
  /\ UNCHANGED <<alive, server, local, outbox, sent, reply, now, handled, torn,
                 reloads>>

Put(d) ==
  /\ editing[d] # NoEdit
  /\ editing[d].step \in {"put", "skip"}
  /\ local' = IF editing[d].step = "put"
              THEN [local EXCEPT ![d] = editing[d].write] ELSE local
  /\ editing' = [editing EXCEPT ![d].step = "queue"]
  /\ UNCHANGED <<alive, server, outbox, sent, reply, now, history, reloads>>

Queue(d) ==
  /\ editing[d] # NoEdit
  /\ editing[d].step = "queue"
  /\ outbox' = [outbox EXCEPT ![d] = Append(@, editing[d].write)]
  /\ editing' = [editing EXCEPT ![d] = NoEdit]
  /\ UNCHANGED <<alive, server, local, sent, reply, now, history, reloads>>

-----------------------------------------------------------------------------
(* flushOutbox *)

\* dispatchEntry: a write the device has a newer row for is not sent.
Superseded(d) == isNewer(local[d], Head(outbox[d]))

Drop(d) == outbox' = [outbox EXCEPT ![d] = Tail(@)]

Skip(d) ==
  /\ outbox[d] # <<>>
  /\ ~sent[d]
  /\ Superseded(d)
  /\ Drop(d)
  /\ UNCHANGED <<alive, server, local, editing, sent, reply, now, history,
                 reloads>>

\* Mutant: the last to arrive wins.
UpsertAlways(w) == server' = Stored(w)

\* UpsertProgress: the instant that comes in against the second that is kept.
UpsertProgress(w) == server' = IF isNewer(w, server) THEN Stored(w) ELSE server

\* PUT /api/articles/:id/progress.  Without the article the insert breaks a
\* foreign key and the answer is a 500, after which the entry stays, as it does
\* when the request does not arrive.
Dispatch(d) ==
  /\ outbox[d] # <<>>
  /\ ~sent[d]
  /\ ~Superseded(d)
  /\ alive
  /\ UpsertProgress(Head(outbox[d]))
  /\ handled' = handled \union {Head(outbox[d])}
  /\ sent' = [sent EXCEPT ![d] = TRUE]
  /\ UNCHANGED <<alive, local, outbox, editing, reply, now, written, torn,
                 reloads>>

\* Mutant: an entry is only taken out when the server took the write.
ConfirmApplied(d) ==
  /\ sent[d]
  /\ Head(outbox[d]).number = server.number
  /\ Drop(d)
  /\ sent' = [sent EXCEPT ![d] = FALSE]
  /\ UNCHANGED <<alive, server, local, editing, reply, now, history, reloads>>

Confirm(d) ==
  /\ sent[d]
  /\ Drop(d)
  /\ sent' = [sent EXCEPT ![d] = FALSE]
  /\ UNCHANGED <<alive, server, local, editing, reply, now, history, reloads>>

\* Mutant: a request that did not get through is given up.
GiveUp(d) ==
  /\ outbox[d] # <<>>
  /\ Drop(d)
  /\ sent' = [sent EXCEPT ![d] = FALSE]
  /\ UNCHANGED <<alive, server, local, editing, reply, now, history, reloads>>

\* The answer is lost, and the entry is sent again by a later run.
Lose(d) ==
  /\ sent[d]
  /\ sent' = [sent EXCEPT ![d] = FALSE]
  /\ UNCHANGED <<alive, server, local, outbox, editing, reply, now, history,
                 reloads>>

-----------------------------------------------------------------------------
(* pull *)

ListProgress(d) ==
  /\ ~reply[d].full
  /\ ~sent[d]
  /\ reply' = [reply EXCEPT ![d] = [row |-> server, full |-> TRUE]]
  /\ UNCHANGED <<alive, server, local, outbox, editing, sent, now, history,
                 reloads>>

\* Mutant: a device that has a row keeps it.
KeepOwn(d) == IF local[d] = None THEN reply[d].row ELSE local[d]

\* A row the answer does not have is left alone.
Merged(d) == IF isNewer(reply[d].row, local[d]) THEN reply[d].row ELSE local[d]

Merge(d) ==
  /\ reply[d].full
  /\ local' = [local EXCEPT ![d] = Merged(d)]
  /\ reply' = [reply EXCEPT ![d] = NoReply]
  /\ UNCHANGED <<alive, server, outbox, editing, sent, now, history, reloads>>

-----------------------------------------------------------------------------
(* The environment *)

Tick ==
  /\ now < MaxTime
  /\ now' = now + 1
  /\ UNCHANGED <<alive, server, client, history, reloads>>

\* DeleteArticle, asked for by another device; the row goes with it.
Delete ==
  /\ alive
  /\ alive' = FALSE
  /\ server' = None
  /\ UNCHANGED <<client, now, history, reloads>>

\* The page is closed.  What it had written to its tables stays.
Reload(d) ==
  /\ reloads < MaxReloads
  /\ reloads' = reloads + 1
  /\ torn' = IF editing[d] # NoEdit
             THEN [torn EXCEPT ![d] = @ \union {editing[d].write}] ELSE torn
  /\ editing' = [editing EXCEPT ![d] = NoEdit]
  /\ sent' = [sent EXCEPT ![d] = FALSE]
  /\ reply' = [reply EXCEPT ![d] = NoReply]
  /\ UNCHANGED <<alive, server, local, outbox, now, written, handled>>

Enqueue(d) == Put(d) \/ Queue(d)
Flush(d)   == Skip(d) \/ Dispatch(d) \/ Confirm(d) \/ Lose(d)
Pull(d)    == ListProgress(d) \/ Merge(d)

Next ==
  \/ \E d \in Devices : Begin(d) \/ Enqueue(d) \/ Flush(d) \/ Pull(d)
  \/ \E d \in Devices : Reload(d)
  \/ Tick
  \/ Delete

Spec == Init /\ [][Next]_vars

\* A run starts every minute while the page is visible, and a network that
\* fails now and then lets each kind of step through again and again.
Fairness ==
  \A d \in Devices :
    /\ WF_vars(Enqueue(d))
    /\ WF_vars(Skip(d) \/ Dispatch(d))
    /\ SF_vars(Confirm(d))
    /\ SF_vars(ListProgress(d))
    /\ WF_vars(Merge(d))

OnlineSpec == Spec /\ Fairness

-----------------------------------------------------------------------------
(* Properties *)

Pending(d) ==
  Range(outbox[d]) \union
  (IF editing[d] = NoEdit THEN {} ELSE {editing[d].write})

\* In the order the server was asked, whatever answers were lost and whichever
\* device retried: no write it handled is from a later second than the row.
LastSecondWins ==
  alive => \A w \in handled : Second(w.at) <= Second(server.at)

\* A position is not lost on its way: it is waiting, or the server has one that
\* is as recent, or a more recent one of that device waits or was cut off by a
\* closed page (the superseded check of dispatchEntry relies on it).
NoProgressLost ==
  alive =>
    \A d \in Devices : \A w \in Range(written[d]) :
      \/ Second(w.at) <= Second(server.at)
      \/ \E v \in Pending(d) \union torn[d] : v.at >= w.at

SameSecond(d) == Second(local[d].at) = Second(server.at)

\* Devices that go on synchronising end with positions of the same second as
\* the server's, if no page was closed half way through a write.
DevicesAgree ==
  <>[](alive /\ \A d \in Devices : torn[d] = {} => SameSecond(d)) \/ <>(~alive)

\* The queue drains, unless its head is about an article that is gone.
OutboxMoves == \A d \in Devices : []<>(outbox[d] = <<>> \/ ~alive)

\* Violated: "existing record had a newer-or-equal UpdatedAt" (store.go:1022-
\* 1028).  The row forgets the fraction, and within one second an older write
\* replaces a newer one.
NewestInstantWins ==
  \A v, w \in handled :
    server.by = w.by /\ server.number = w.number => v.at <= w.at

\* Violated: a permanent client error is dropped "to avoid infinite retry"
\* (engine.ts:327); the answer for a deleted article is a 500, and its progress
\* is sent for ever, ahead of everything else.
OutboxDrains == \A d \in Devices : []<>(outbox[d] = <<>>)

=============================================================================
