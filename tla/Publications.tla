---------------------------- MODULE Publications ----------------------------
(***************************************************************************)
(* Share links: internal/publish, internal/store/publications.go and the   *)
(* handlers around them.  A link is two things kept in two places: a row   *)
(* of the publications table, the gate, and a page file <token>.html.      *)
(* Requests write the one and then the other, the sweeper goes over both,  *)
(* and the process can die between any two steps.                          *)
(*                                                                         *)
(* Covered: publishing, publishing again, unpublishing and deleting an     *)
(* article, each at the grain of its database and file operations;         *)
(* expiry; the hourly sweeper and the failures that cut a pass of it       *)
(* short; failed writes; restarts.                                         *)
(*                                                                         *)
(* Abstracted: a page is its presence, a title and a description are       *)
(* acceptable, and the reads before the first write are one step, as       *)
(* nothing is kept of them but the token and the deadline.  A server       *)
(* without a page directory refuses to publish and is left out, and so is  *)
(* articles.updated_at, which every publication moves: nothing here reads  *)
(* it, and a device's pull lists every article.                            *)
(***************************************************************************)
EXTENDS Integers, FiniteSets

CONSTANTS
  Articles,
  Requests,    \* requests the server handles at the same time
  Lifetimes,   \* values of settings.public_page_ttl_hours, 0 for no expiry
  MaxTokens,   \* bound: links minted
  MaxTime,     \* bound: hours that pass
  MaxCrashes,  \* bound: restarts of the server
  NoArticle

ASSUME PublicationsAssumption ==
  /\ Lifetimes \subseteq Nat
  /\ MaxTokens \in Nat
  /\ MaxTime \in Nat
  /\ MaxCrashes \in Nat
  /\ NoArticle \notin Articles

VARIABLES
  present,   \* articles in the library
  enriched,  \* those that have a translation to show
  ttl,       \* settings.public_page_ttl_hours
  rows,      \* the publications table
  pages,     \* tokens with a file in the page directory
  minted,    \* tokens handed out so far are 1 .. minted
  req,       \* where each request is
  sweep,     \* where the sweeper is
  now,       \* the clock, in hours
  crashes

library == <<present, enriched, ttl>>
vars    == <<library, rows, pages, minted, req, sweep, now, crashes>>

Token   == 1 .. MaxTokens
NoToken == 0
Never   == 0

Row == [token : Token, article : Articles, expires : Nat]

Step == {"idle", "write", "record", "touch", "delete", "drop"}

Request ==
  [step : Step, article : Articles \union {NoArticle},
   token : Token \union {NoToken}, expires : Nat]

Idle == [step |-> "idle", article |-> NoArticle, token |-> NoToken,
         expires |-> Never]

Sweep == [step : {"idle", "list", "purge"}, live : SUBSET Token]

SweepIdle == [step |-> "idle", live |-> {}]

-----------------------------------------------------------------------------
(* The table *)

Expired(row) == row.expires # Never /\ now >= row.expires

expiryFor(hours) == IF hours = 0 THEN Never ELSE now + hours

RowOf(a) == {row \in rows : row.article = a}

TokenOf(a) ==
  IF RowOf(a) = {} THEN NoToken ELSE (CHOOSE row \in RowOf(a) : TRUE).token

\* servePublicPage: the row is the gate, the file the page.
Served == {row.token : row \in {r \in rows : ~Expired(r) /\ r.token \in pages}}

\* wmu: DeletePublicationByArticle holds it over two statements.
WriteLock == \A r \in Requests : req[r].step # "touch"

Finish(r)     == req' = [req EXCEPT ![r] = Idle]
Drop(r, t)    == req' = [req EXCEPT ![r] = [Idle EXCEPT !.step = "drop", !.token = t]]

\* Mutant: the page of the request goes, not the one it superseded.
RemovingOwn(r, t) == IF t = NoToken THEN Finish(r) ELSE Drop(r, req[r].token)

Removing(r, t) == IF t = NoToken THEN Finish(r) ELSE Drop(r, t)

-----------------------------------------------------------------------------
(* POST /api/articles/:id/publish *)

PublishStart(r, a) ==
  /\ req[r].step = "idle"
  /\ a \in present \intersect enriched
  /\ minted < MaxTokens
  /\ minted' = minted + 1
  /\ req' = [req EXCEPT ![r] =
       [step |-> "write", article |-> a, token |-> minted + 1,
        expires |-> expiryFor(ttl)]]
  /\ UNCHANGED <<library, rows, pages, sweep, now, crashes>>

\* A write that fails may leave the file behind it.
PublishWrite(r) ==
  /\ req[r].step = "write"
  /\ \/ /\ pages' = pages \union {req[r].token}
        /\ req' = [req EXCEPT ![r].step = "record"]
     \/ /\ pages' \in {pages, pages \union {req[r].token}}
        /\ Finish(r)
  /\ UNCHANGED <<library, rows, minted, sweep, now, crashes>>

ReplacePublication(a, row) == rows' = (rows \ RowOf(a)) \union {row}

\* The superseded page goes, or the new one when the row cannot be written:
\* its article is gone, or the statement failed.
PublishRecord(r) ==
  LET a   == req[r].article
      row == [token |-> req[r].token, article |-> a, expires |-> req[r].expires]
  IN /\ req[r].step = "record"
     /\ WriteLock
     /\ \/ /\ a \in present
           /\ ReplacePublication(a, row)
           /\ Removing(r, TokenOf(a))
        \/ /\ UNCHANGED rows
           /\ Drop(r, row.token)
     /\ UNCHANGED <<library, pages, minted, sweep, now, crashes>>

\* Publisher.Remove; a failure is logged.
RemovePage(r) ==
  /\ req[r].step = "drop"
  /\ pages' \in {pages, pages \ {req[r].token}}
  /\ Finish(r)
  /\ UNCHANGED <<library, rows, minted, sweep, now, crashes>>

-----------------------------------------------------------------------------
(* DELETE /api/articles/:id/publish and DELETE /api/articles/:id *)

Unpublish(r, a) ==
  /\ req[r].step = "idle"
  /\ WriteLock
  /\ RowOf(a) # {}
  /\ req' = [req EXCEPT ![r] =
       [Idle EXCEPT !.step = "touch", !.article = a, !.token = TokenOf(a)]]
  /\ rows' = rows \ RowOf(a)
  /\ UNCHANGED <<library, pages, minted, sweep, now, crashes>>

\* The statement after the deletion, outside any transaction, moves the
\* article's updated_at.  When it fails the handler answers 500 and the page
\* stays.
UnpublishTouch(r) ==
  /\ req[r].step = "touch"
  /\ Drop(r, req[r].token) \/ Finish(r)
  /\ UNCHANGED <<library, rows, pages, minted, sweep, now, crashes>>

\* The token is read first, because the row goes with the article.
DeleteLookup(r, a) ==
  /\ req[r].step = "idle"
  /\ a \in present
  /\ req' = [req EXCEPT ![r] =
       [Idle EXCEPT !.step = "delete", !.article = a, !.token = TokenOf(a)]]
  /\ UNCHANGED <<library, rows, pages, minted, sweep, now, crashes>>

\* ON DELETE CASCADE takes the publication; an article that is already gone
\* is answered 404.
DeleteArticle(r) ==
  LET a == req[r].article
  IN /\ req[r].step = "delete"
     /\ WriteLock
     /\ \/ /\ a \in present
           /\ present' = present \ {a}
           /\ rows' = rows \ RowOf(a)
           /\ Removing(r, req[r].token)
        \/ /\ a \notin present
           /\ UNCHANGED <<present, rows>>
           /\ Finish(r)
     /\ UNCHANGED <<enriched, ttl, pages, minted, sweep, now, crashes>>

-----------------------------------------------------------------------------
(* The sweeper *)

\* PruneExpiredPublications, then the removal of the pages it names, each of
\* which may fail; when the statement does, the pass is over.
SweepExpired ==
  /\ sweep.step = "idle"
  /\ WriteLock
  /\ LET gone == {row \in rows : Expired(row)}
     IN /\ rows' = rows \ gone
        /\ \E out \in SUBSET {row.token : row \in gone} : pages' = pages \ out
  /\ sweep' = [sweep EXCEPT !.step = "list"]
  /\ UNCHANGED <<library, minted, req, now, crashes>>

ListPublicationTokens ==
  /\ sweep.step = "list"
  /\ sweep' = [step |-> "purge", live |-> {row.token : row \in rows}]
  /\ UNCHANGED <<library, rows, pages, minted, req, now, crashes>>

\* Without the list the pass is over.
SweepList ==
  \/ ListPublicationTokens
  \/ /\ sweep.step = "list"
     /\ sweep' = SweepIdle
     /\ UNCHANGED <<library, rows, pages, minted, req, now, crashes>>

\* Mutant: only expired pages are removed.
RemoveExpiredOnly(left) ==
  /\ sweep.step = "purge"
  /\ left = {}
  /\ sweep' = SweepIdle
  /\ UNCHANGED <<library, rows, pages, minted, req, now, crashes>>

\* What is in the directory now and was not in the list then, but for the
\* pages left when the directory cannot be read or a file cannot be removed.
RemoveOrphans(left) ==
  /\ sweep.step = "purge"
  /\ left \subseteq pages \ sweep.live
  /\ pages' = (pages \intersect sweep.live) \union left
  /\ sweep' = SweepIdle
  /\ UNCHANGED <<library, rows, minted, req, now, crashes>>

SweepPurge == \E left \in SUBSET pages : RemoveOrphans(left)

-----------------------------------------------------------------------------
(* Around them *)

\* The pipeline finishes an article, or starts over on the user's request.
Enriched(a) ==
  /\ a \in present
  /\ enriched' = (enriched \ {a}) \union ({a} \ enriched)
  /\ UNCHANGED <<present, ttl, rows, pages, minted, req, sweep, now, crashes>>

\* Mutant: the new lifetime applies to the links already handed out.
SetLifetimeOfAll ==
  /\ \E hours \in Lifetimes \ {ttl} :
       /\ ttl' = hours
       /\ rows' = {[row EXCEPT !.expires = expiryFor(hours)] : row \in rows}
  /\ UNCHANGED <<present, enriched, pages, minted, req, sweep, now, crashes>>

\* PATCH /api/settings.  The TTL is read when a link is made.
SetLifetime ==
  /\ \E hours \in Lifetimes \ {ttl} : ttl' = hours
  /\ UNCHANGED <<present, enriched, rows, pages, minted, req, sweep, now, crashes>>

Tick ==
  /\ now < MaxTime
  /\ now' = now + 1
  /\ UNCHANGED <<library, rows, pages, minted, req, sweep, crashes>>

\* Rows and files survive a restart, requests do not.
Crash ==
  /\ crashes < MaxCrashes
  /\ crashes' = crashes + 1
  /\ req' = [r \in Requests |-> Idle]
  /\ sweep' = SweepIdle
  /\ UNCHANGED <<library, rows, pages, minted, now>>

-----------------------------------------------------------------------------
Init ==
  /\ present = Articles
  /\ enriched = Articles
  /\ ttl \in Lifetimes
  /\ rows = {}
  /\ pages = {}
  /\ minted = 0
  /\ req = [r \in Requests |-> Idle]
  /\ sweep = SweepIdle
  /\ now = 1
  /\ crashes = 0

Publish(r)  == \/ \E a \in Articles : PublishStart(r, a)
               \/ PublishWrite(r)
               \/ PublishRecord(r)
               \/ RemovePage(r)
Revoke(r)   == \/ \E a \in Articles : Unpublish(r, a)
               \/ UnpublishTouch(r)
Delete(r)   == \/ \E a \in Articles : DeleteLookup(r, a)
               \/ DeleteArticle(r)
Sweeper     == SweepExpired \/ SweepList \/ SweepPurge
Environment == \/ \E a \in Articles : Enriched(a)
               \/ SetLifetime
               \/ Tick
               \/ Crash

Next ==
  \/ \E r \in Requests : Publish(r) \/ Revoke(r) \/ Delete(r)
  \/ Sweeper
  \/ Environment

\* RunPublicationSweeper runs at every start and then every hour, whatever the
\* requests do, and a request that holds the write lock gives it back.  No
\* other request is promised to finish.  The list is read, and a purge goes
\* through, in one of so many passes: no file resists removal for ever.
Fairness ==
  /\ WF_vars(Sweeper)
  /\ SF_vars(ListPublicationTokens) /\ SF_vars(RemoveOrphans({}))
  /\ \A r \in Requests : WF_vars(UnpublishTouch(r))

Spec == Init /\ [][Next]_vars /\ Fairness

-----------------------------------------------------------------------------
(* Properties *)

\* The states have the types above, and a token is the key of one row.
TypeOK ==
  /\ present \subseteq Articles
  /\ enriched \subseteq Articles
  /\ ttl \in Lifetimes
  /\ rows \subseteq Row
  /\ \A row, other \in rows :
       row.token = other.token \/ row.article = other.article => row = other
  /\ pages \subseteq 1 .. minted
  /\ minted \in 0 .. MaxTokens
  /\ req \in [Requests -> Request]
  /\ sweep \in Sweep
  /\ now \in Nat
  /\ crashes \in 0 .. MaxCrashes

\* A token some publish request may still record.
InFlight(t) == \E r \in Requests : req[r].token = t /\ req[r].step \in {"write", "record"}

\* A link that has stopped working, by expiry, by unpublishing or because the
\* article was published again or deleted, never works again: no later
\* setting, republication or clock brings it back.
DeadLinksStayDead ==
  [][\A t \in 1 .. minted : ~InFlight(t) /\ t \notin Served => t \notin Served']_vars

\* Of everything that removes pages - a publish request that failed, the one
\* that supersedes a link, unpublishing, deleting an article whose link was
\* replaced since its token was read - only a sweep can take the page of a live
\* link, and only when its list is older than the link.
OnlyAnOlderListTakesALivePage ==
  [][\A t \in Served : t \notin pages' /\ (\E row \in rows' : row.token = t)
        => sweep.step = "purge" /\ t \notin sweep.live]_vars

\* A page that no link can reach any more is removed in the end, whichever
\* request died, failed or was overtaken before it could, and whichever passes
\* of the sweeper were cut short.
OrphansCollected ==
  \A t \in Token :
    (t \in pages /\ (\A row \in rows : row.token # t) /\ ~InFlight(t)) ~> (t \notin pages)

\* "A record with no page would hand out a link that 404s", so the file is
\* written first: every live link has its page.
LiveLinkHasPage == \A row \in rows : ~Expired(row) => row.token \in pages

=============================================================================
