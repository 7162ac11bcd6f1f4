----------------------------- MODULE Extraction -----------------------------
(***************************************************************************)
(* Fetching the text of an article: internal/markdown, internal/extract    *)
(* and the budget table of internal/store/store.go.  Workers of the        *)
(* pipeline run Chain.Extract at the same time.  Each reserves units of    *)
(* the day's budget, asks the conversion service, returns the units when   *)
(* that fails, and then reads the page itself, over redirects, behind a    *)
(* guard that keeps it from connecting to addresses inside the network.    *)
(*                                                                         *)
(* Covered: the budget across midnight, failed writes and restarts; the    *)
(* two name lookups of the guard and the dialer's own, any of which may be *)
(* answered differently; the redirect limit.                               *)
(*                                                                         *)
(* Abstracted: an address is the range it lies in, a page is an outcome.   *)
(* A URL has passed NormalizeURL, so its scheme is http or https.  Slots   *)
(* stand for extractions under way.                                        *)
(***************************************************************************)
EXTENDS Integers, FiniteSets

CONSTANTS
  Slots,        \* extractions that can be under way at the same time
  Cost,         \* MARKDOWN_COST_PER_ARTICLE
  DailyLimit,   \* MARKDOWN_DAILY_LIMIT, 0 for no limit
  Ranges,       \* ranges an address can be answered from
  MaxRedirects, \* hops the client follows: 10 in the code
  MaxDays,      \* bound: days that pass
  MaxRestarts   \* bound: restarts of the server

AddressRange ==
  {"public", "unspecified", "loopback", "private", "cgnat", "linkLocal",
   "linkLocalMulticast", "uniqueLocal", "metadata"}

ASSUME ExtractionAssumption ==
  /\ IsFiniteSet(Slots)
  /\ Cost \in Nat \ {0}
  /\ DailyLimit \in Nat
  /\ Ranges \subseteq AddressRange
  /\ MaxRedirects \in Nat
  /\ MaxDays \in Nat \ {0}
  /\ MaxRestarts \in Nat

VARIABLES
  today,      \* the UTC day
  used,       \* markdown_usage.units_used of each day
  slot,       \* where each extraction is
  converted,  \* history: conversions that succeeded on units of a day
  unreturned, \* history: reservations of a day that failed and stayed charged
  strays,     \* history: refunds a day received for another day's units
  restarts

budget  == <<used, converted, unreturned, strays>>
vars    == <<today, budget, slot, restarts>>

Day == 1 .. MaxDays

\* A host is a name, or an address written out.
Host == {"name"} \union Ranges

Step == {"idle", "reserve", "convert", "refund", "read", "dial", "answer"}

Slot == [step : Step, host : Host \union {"none"}, day : Day \union {0},
         hops : 0 .. MaxRedirects]

Free == [step |-> "idle", host |-> "none", day |-> 0, hops |-> 0]

TypeOK ==
  /\ today \in Day
  /\ used \in [Day -> Nat]
  /\ slot \in [Slots -> Slot]
  /\ converted \in [Day -> Nat]
  /\ unreturned \in [Day -> Nat]
  /\ strays \in [Day -> Nat]
  /\ restarts \in 0 .. MaxRestarts

Init ==
  /\ today = 1
  /\ used = [d \in Day |-> 0]
  /\ slot = [s \in Slots |-> Free]
  /\ converted = [d \in Day |-> 0]
  /\ unreturned = [d \in Day |-> 0]
  /\ strays = [d \in Day |-> 0]
  /\ restarts = 0

-----------------------------------------------------------------------------
(* The guard *)

checkIP(range) ==
  range \notin {"unspecified", "loopback", "private", "cgnat", "linkLocal",
                "linkLocalMulticast", "uniqueLocal", "metadata"}

\* What a resolver may say of a host: addresses, or nothing.
Answers(host) == IF host = "name" THEN SUBSET Ranges ELSE {{host}}

\* A name that does not resolve passes, and the dialer fails on it.
checkHost(addresses) == \A range \in addresses : checkIP(range)

\* dialer.Control, on the address the socket is about to connect to.
checkConnectAddr(range) == checkIP(range)

-----------------------------------------------------------------------------
(* The budget *)

\* Mutant: the reservation must find the day's limit unspent, not fit in it.
SomeLeft(units) == DailyLimit = 0 \/ units < DailyLimit

Fits(units) == DailyLimit = 0 \/ units + Cost <= DailyLimit

\* RefundMarkdownUnits goes to the day it runs on, clamped at zero.
Refunded(units) == IF units > Cost THEN units - Cost ELSE 0

Read(s) == slot' = [slot EXCEPT ![s].step = "read", ![s].day = 0]

Leave(s) == slot' = [slot EXCEPT ![s] = Free]

Start(s, host) ==
  /\ slot[s].step = "idle"
  /\ slot' = [slot EXCEPT ![s].step = "reserve", ![s].host = host]
  /\ UNCHANGED <<today, budget, restarts>>

\* TryConsumeMarkdownUnits: read and charge under the write lock.  A budget
\* that cannot be read or is spent sends the article to the fallback.
Reserve(s) ==
  /\ slot[s].step = "reserve"
  /\ \/ /\ Fits(used[today])
        /\ used' = [used EXCEPT ![today] = @ + Cost]
        /\ slot' = [slot EXCEPT ![s].step = "convert", ![s].day = today]
     \/ Read(s) /\ UNCHANGED used
  /\ UNCHANGED <<today, converted, unreturned, strays, restarts>>

\* Mutant: the refund is deferred, and runs after a conversion that succeeded too.
AlwaysRefund(s) ==
  /\ slot[s].step = "convert"
  /\ \/ /\ converted' = [converted EXCEPT ![slot[s].day] = @ + 1]
        /\ used' = [used EXCEPT ![today] = Refunded(@)]
        /\ Leave(s)
     \/ /\ slot' = [slot EXCEPT ![s].step = "refund"]
        /\ UNCHANGED <<used, converted>>
  /\ UNCHANGED <<today, unreturned, strays, restarts>>

\* Client.Extract: a status other than 2xx, success = false, a body that is no
\* JSON and an empty text are errors like any other.
Convert(s) ==
  /\ slot[s].step = "convert"
  /\ \/ /\ converted' = [converted EXCEPT ![slot[s].day] = @ + 1]
        /\ Leave(s)
     \/ /\ slot' = [slot EXCEPT ![s].step = "refund"]
        /\ UNCHANGED converted
  /\ UNCHANGED <<today, used, unreturned, strays, restarts>>

\* Mutant: what a failed conversion was charged stays charged.
KeepCharge(s) ==
  /\ slot[s].step = "refund"
  /\ Read(s)
  /\ UNCHANGED <<today, budget, restarts>>

Refund(s) ==
  /\ slot[s].step = "refund"
  /\ \/ /\ used' = [used EXCEPT ![today] = Refunded(@)]
        /\ IF slot[s].day = today
             THEN UNCHANGED <<unreturned, strays>>
             ELSE /\ unreturned' = [unreturned EXCEPT ![slot[s].day] = @ + 1]
                  /\ strays' = [strays EXCEPT ![today] = @ + 1]
     \/ /\ unreturned' = [unreturned EXCEPT ![slot[s].day] = @ + 1]
        /\ UNCHANGED <<used, strays>>
  /\ Read(s)
  /\ UNCHANGED <<today, converted, restarts>>

-----------------------------------------------------------------------------
(* The fallback *)

\* The check before the request, on one answer of the resolver.
Preflight(s) ==
  /\ slot[s].step = "read"
  /\ \E addresses \in Answers(slot[s].host) :
       IF checkHost(addresses)
         THEN slot' = [slot EXCEPT ![s].step = "dial"]
         ELSE Leave(s)
  /\ UNCHANGED <<today, budget, restarts>>

\* DialContext checks the name again, and the dialer looks it up once more and
\* connects to the first of its addresses that Control lets it connect to.
Dial(s) ==
  /\ slot[s].step = "dial"
  /\ \E checked, addresses \in Answers(slot[s].host) :
       \/ /\ checkHost(checked)
          /\ \E range \in addresses : checkConnectAddr(range)
          /\ slot' = [slot EXCEPT ![s].step = "answer"]
       \/ /\ \/ ~checkHost(checked)
             \/ \A range \in addresses : ~checkConnectAddr(range)
          /\ Leave(s)
  /\ UNCHANGED <<today, budget, restarts>>

\* CheckRedirect
Follow(s) ==
  /\ slot[s].step = "answer"
  /\ slot[s].hops < MaxRedirects
  /\ \E host \in Host, addresses \in SUBSET Ranges :
       /\ addresses \in Answers(host)
       /\ checkHost(addresses)
       /\ slot' = [slot EXCEPT ![s].step = "dial", ![s].host = host,
                               ![s].hops = @ + 1]
  /\ UNCHANGED <<today, budget, restarts>>

\* A text, or an error: no answer in time, a redirect refused, a body over the
\* limit, nothing readable in it.  The status of the answer is not looked at.
Finish(s) ==
  /\ slot[s].step \in {"dial", "answer"}
  /\ Leave(s)
  /\ UNCHANGED <<today, budget, restarts>>

-----------------------------------------------------------------------------
(* The environment *)

Midnight ==
  /\ today < MaxDays
  /\ today' = today + 1
  /\ UNCHANGED <<budget, slot, restarts>>

Held(d) == {s \in Slots : slot[s].day = d}

\* A stop at any point, and the cancelled requests of a shutdown, whose refunds
\* run under a context that is done.
Restart ==
  /\ restarts < MaxRestarts
  /\ restarts' = restarts + 1
  /\ slot' = [s \in Slots |-> Free]
  /\ unreturned' = [d \in Day |-> unreturned[d] + Cardinality(Held(d))]
  /\ UNCHANGED <<today, used, converted, strays>>

Advance(s) ==
  \/ Reserve(s) \/ Convert(s) \/ Refund(s)
  \/ Preflight(s) \/ Dial(s) \/ Follow(s) \/ Finish(s)

Next ==
  \/ \E s \in Slots : (\E host \in Host : Start(s, host)) \/ Advance(s)
  \/ Midnight
  \/ Restart

Spec == Init /\ [][Next]_vars

-----------------------------------------------------------------------------
(* Properties *)

\* Extractions that run at the same time never charge a day more than its
\* limit, however reservations, refunds and midnights interleave
\* (TryConsumeMarkdownUnits).
WithinLimit == DailyLimit > 0 => \A d \in Day : used[d] <= DailyLimit

\* The counter of a day that received no other day's refund is the cost of
\* what is being converted, was converted and could not be returned: failed
\* conversions cost nothing, and no conversion is free (Chain.Extract).
BooksBalance ==
  \A d \in Day :
    strays[d] = 0 =>
      used[d] = Cost * (Cardinality(Held(d)) + converted[d] + unreturned[d])

\* The worst a midnight between a reservation and its refund can do: a day is
\* used for one conversion more than it is charged, for each stray refund.
\* With BooksBalance it says what the counter of any day is worth.
StraysBoundTheLoss ==
  \A d \in Day :
    used[d] + Cost * strays[d] >=
      Cost * (Cardinality(Held(d)) + converted[d] + unreturned[d])

\* Violated: the budget mirrors the limit of the service (markdown.go:15-17), so
\* a day sees no more conversions than the limit pays for.  A refund after
\* midnight gives the new day units that were the old day's.
DayPaysForItsConversions ==
  DailyLimit > 0 => \A d \in Day : Cost * converted[d] <= DailyLimit

=============================================================================
