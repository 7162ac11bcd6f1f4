----------------------------- MODULE Annotation -----------------------------
(***************************************************************************)
(* One article's enrichment at the level of tokens: how internal/enrich    *)
(* cuts the article into chunks, what it keeps of an answer of the LLM,    *)
(* how it merges that into what it already has, and what a top-up asks     *)
(* for.  Module Pipeline has the scheduling around it and sees a chunk     *)
(* only as covered or not.                                                 *)
(*                                                                         *)
(* Covered: runs that resume over what an interrupted or partly failed     *)
(* run left, with a chunk size the user may have changed in between; any   *)
(* answer, in or out of the span asked for, in or out of the article; the  *)
(* hard cap that cuts a sentence.                                          *)
(*                                                                         *)
(* Abstracted: a sentence is the range it annotates.  Words, phrases and   *)
(* glossary items are merged the same way by their keys, and completeness  *)
(* never looks at them.  The behaviour of one epoch is described, from the *)
(* reset of the enrichment to the next.                                    *)
(***************************************************************************)
EXTENDS Integers, SequencesExt

CONSTANTS
  N,         \* tokens of the article
  Sizes,     \* values chunkTokens can return: the setting, or the default
  MaxOffers  \* bound: sentences in one answer

ASSUME AnnotationAssumption ==
  /\ N \in Nat \ {0}
  /\ Sizes \subseteq Nat \ {0}
  /\ MaxOffers \in Nat

VARIABLES
  ends,       \* tokens followed by a sentence-ending mark
  mode,       \* "rest", "cut" (inside chunkSpans) or "run" (its chunks)
  size,       \* maxTokens of the run
  start,      \* chunkSpans: first token of the chunk to close next
  spans,      \* chunkSpans: the chunks closed so far
  left,       \* chunks the loop of runEnrich has not visited
  sentences   \* the enrichment

plan == <<size, start, spans, left>>
vars == <<ends, mode, plan, sentences>>

Tokens == 0 .. N - 1
Span   == [first : Tokens, last : Tokens]

\* What an answer may hold: -1 and N stand for indices outside the article.
RawSpan == [first : -1 .. N, last : -1 .. N]

TokensOf(s) == s.first .. s.last

Overlap(s, t) == s.first <= t.last /\ t.first <= s.last

\* The tokens tokenCovered finds in some sentence.
Covered(set) == UNION {TokensOf(s) : s \in set}

Uncovered == Tokens \ Covered(sentences)

-----------------------------------------------------------------------------
(* chunkSpans, one turn of its outer loop at a time *)

isSentenceEnd(i) == i >= N - 1 \/ i \in ends

hardCap == size + size \div 2

\* Where the inner loop may stop.
Closes(end) ==
  LET length == end - start + 1
  IN \/ end = N - 1
     \/ length >= size /\ isSentenceEnd(end)
     \/ length >= hardCap

ChunkEnd(end) ==
  /\ end \in Tokens
  /\ start <= end
  /\ Closes(end)
  /\ \A e \in start .. end - 1 : ~Closes(e)

\* A first run, a resume after an interruption, or a retry.
BeginRun ==
  /\ mode = "rest"
  /\ mode' = "cut"
  /\ size' \in Sizes
  /\ start' = 0
  /\ spans' = {}
  /\ left' = {}
  /\ UNCHANGED <<ends, sentences>>

\* Mutant: the next chunk starts on the token that closed this one.
CutOverlapping ==
  /\ mode = "cut"
  /\ start < N
  /\ \E end \in Tokens :
       /\ ChunkEnd(end)
       /\ spans' = spans \union {[first |-> start, last |-> end]}
       /\ start' = IF end = N - 1 THEN N ELSE end
  /\ UNCHANGED <<ends, mode, size, left, sentences>>

CutChunk ==
  /\ mode = "cut"
  /\ start < N
  /\ \E end \in Tokens :
       /\ ChunkEnd(end)
       /\ spans' = spans \union {[first |-> start, last |-> end]}
       /\ start' = end + 1
  /\ UNCHANGED <<ends, mode, size, left, sentences>>

CutDone ==
  /\ mode = "cut"
  /\ start = N
  /\ mode' = "run"
  /\ left' = spans
  /\ UNCHANGED <<ends, size, start, spans, sentences>>

-----------------------------------------------------------------------------
(* What is kept of an answer *)

\* sanitizeEnrichment: an entry that is no range of the article is dropped.
sanitizeEnrichment(answer) ==
  {s \in answer : s.first \in Tokens /\ s.last \in Tokens /\ s.first <= s.last}

\* Mutant: an addition is compared with the existing sentences only.
KeepsAgainstExisting(existing, addition, kept) ==
  kept = {s \in addition : \A t \in existing : ~Overlap(s, t)}

\* mergeEnrichment goes through the addition in the order of the answer and
\* skips what has a token that is covered by then.
mergeEnrichment(existing, addition) ==
  LET merged[i \in 0 .. Len(addition)] ==
        IF i = 0 THEN existing
        ELSE IF TokensOf(addition[i]) \intersect Covered(merged[i - 1]) = {}
        THEN merged[i - 1] \union {addition[i]}
        ELSE merged[i - 1]
  IN merged[Len(addition)]

\* What mergeEnrichment keeps of a set of sentences, over all orders they may
\* come in: any choice that is disjoint and cannot be extended (proved as
\* MergeKeepsAChoice and ChoicesAreMerged in EnrichmentProofs).
Keeps(existing, addition, kept) ==
  /\ kept \subseteq addition
  /\ \A s \in kept : \A t \in (existing \union kept) \ {s} : ~Overlap(s, t)
  /\ \A s \in addition \ kept : \E t \in existing \union kept : Overlap(s, t)

\* The answer is sanitized and merged, and the result is saved.
Merge(answer) ==
  \E kept \in SUBSET sanitizeEnrichment(answer) :
    /\ Keeps(sentences, sanitizeEnrichment(answer), kept)
    /\ sentences' = sentences \union kept

Answers == {{offered[i] : i \in 1 .. MaxOffers} :
              offered \in [1 .. MaxOffers -> RawSpan]}

-----------------------------------------------------------------------------
(* runEnrich over the chunks, in order *)

IsNext(s) == s \in left /\ \A t \in left : s.first <= t.first

spanCovered(s) == TokensOf(s) \subseteq Covered(sentences)

SkipChunk(s) ==
  /\ mode = "run"
  /\ IsNext(s)
  /\ spanCovered(s)
  /\ left' = left \ {s}
  /\ UNCHANGED <<ends, mode, size, start, spans, sentences>>

AnnotateChunk(s, answers) ==
  /\ mode = "run"
  /\ IsNext(s)
  /\ ~spanCovered(s)
  /\ \E answer \in answers : Merge(answer)
  /\ left' = left \ {s}
  /\ UNCHANGED <<ends, mode, size, start, spans>>

\* enrichChunk gave up on it.
FailChunk(s) ==
  /\ mode = "run"
  /\ IsNext(s)
  /\ ~spanCovered(s)
  /\ left' = left \ {s}
  /\ UNCHANGED <<ends, mode, size, start, spans, sentences>>

\* The loop is over, or a crash or a shutdown ends it early: every merge is
\* saved by SaveEnrichmentProgress before the next chunk is begun.
EndRun ==
  /\ mode = "run"
  /\ mode' = "rest"
  /\ start' = 0
  /\ spans' = {}
  /\ left' = {}
  /\ UNCHANGED <<ends, size, sentences>>

-----------------------------------------------------------------------------
(* The incremental top-up *)

\* The maximal runs of consecutive tokens of a set.
Runs(tokens) ==
  {s \in Span :
     /\ s.first <= s.last
     /\ TokensOf(s) \subseteq tokens
     /\ s.first - 1 \notin tokens
     /\ s.last + 1 \notin tokens}

uncoveredSpans == Runs(Uncovered)

SentenceStart(i) ==
  CHOOSE j \in 0 .. i :
    /\ j = 0 \/ isSentenceEnd(j - 1)
    /\ \A k \in j .. i - 1 : ~isSentenceEnd(k)

SentenceEnd(i) ==
  CHOOSE j \in i .. N - 1 :
    /\ isSentenceEnd(j)
    /\ \A k \in i .. j - 1 : ~isSentenceEnd(k)

\* Mutant: a gap that ends inside a sentence is widened to the left only.
WidenLeft(s) == [first |-> SentenceStart(s.first), last |-> s.last]

Widen(s) == [first |-> SentenceStart(s.first), last |-> SentenceEnd(s.last)]

\* The span that is sorted behind all others; only the starts are compared.
LastStarting(set) == CHOOSE s \in set : \A t \in set : t.first <= s.first

\* A span that overlaps or touches the last one kept extends it.
Extended(out, s) ==
  IF out = <<>> \/ s.first > Last(out).last + 1 THEN Append(out, s)
  ELSE [out EXCEPT ![Len(out)].last = Max({@, s.last})]

coalesceSpans(set) ==
  LET merged[part \in SUBSET set] ==
        IF part = {} THEN <<>>
        ELSE Extended(merged[part \ {LastStarting(part)}], LastStarting(part))
  IN merged[set]

expandSpansToSentences(set) == ToSet(coalesceSpans({Widen(s) : s \in set}))

\* What runTopUp sends.
Request == expandSpansToSentences(uncoveredSpans)

TopUp(answers) ==
  /\ mode = "rest"
  /\ uncoveredSpans # {}
  /\ \E answer \in answers : Merge(answer)
  /\ UNCHANGED <<ends, mode, plan>>

-----------------------------------------------------------------------------

Init ==
  /\ ends \in SUBSET Tokens
  /\ mode = "rest"
  /\ size \in Sizes
  /\ start = 0
  /\ spans = {}
  /\ left = {}
  /\ sentences = {}

Next ==
  \/ BeginRun \/ CutChunk \/ CutDone \/ EndRun \/ TopUp(Answers)
  \/ \E s \in left : SkipChunk(s) \/ AnnotateChunk(s, Answers) \/ FailChunk(s)

Spec == Init /\ [][Next]_vars

(***************************************************************************)
(* An LLM that does what the prompt asks: a translation of each sentence   *)
(* it is sent, and of the piece it is sent where a chunk cuts one.  Calls  *)
(* still fail; once something is translated the user only asks for top-ups *)
(* and does so as long as they add anything.                               *)
(***************************************************************************)
Pieces(s) ==
  {[first |-> Max({SentenceStart(i), s.first}), last |-> Min({SentenceEnd(i), s.last})] :
     i \in TokensOf(s)}

FaithfulTopUp == TopUp({UNION {Pieces(s) : s \in Request}})

FaithfulNext ==
  \/ sentences = {} /\ BeginRun
  \/ CutChunk \/ CutDone \/ EndRun \/ FaithfulTopUp
  \/ \E s \in left : SkipChunk(s) \/ AnnotateChunk(s, {Pieces(s)}) \/ FailChunk(s)

FaithfulSpec ==
  /\ Init /\ [][FaithfulNext]_vars
  /\ WF_vars(FaithfulNext) /\ SF_vars(FaithfulTopUp)

-----------------------------------------------------------------------------

\* Type correctness; that indices stay inside the article is what the reader
\* and the coverage column rely on.
TypeOK ==
  /\ ends \in SUBSET Tokens
  /\ mode \in {"rest", "cut", "run"}
  /\ size \in Nat \ {0}
  /\ start \in 0 .. N
  /\ spans \in SUBSET Span
  /\ left \in SUBSET spans
  /\ sentences \in SUBSET Span
  /\ \A s \in sentences : s.first <= s.last

\* chunkSpans (chunk.go:18-21): the chunks cover every token up to the cursor
\* exactly once, none is longer than the hard cap, and a sentence is cut in
\* two only where the cap forces it; so one chunk is one bounded call.
PlanTiles ==
  /\ Covered(spans) = 0 .. start - 1
  /\ \A s, t \in spans : s # t => ~Overlap(s, t)
  /\ \A s \in spans :
       LET length == s.last - s.first + 1
       IN /\ length \in 1 .. hardCap
          /\ isSentenceEnd(s.last) \/ length = hardCap
  /\ mode = "run" => start = N

\* The reader maps a token to a single sentence: whatever the answers of any
\* number of runs and top-ups held, no two sentences kept share a token
\* (mergeEnrichment).
OneSentencePerToken == \A s, t \in sentences : s # t => ~Overlap(s, t)

\* What a top-up sends contains every token that is missing, consists of
\* whole sentences, and is no longer in pieces than it must be (chunk.go
\* expandSpansToSentences and coalesceSpans).
TopUpAsksWholeSentences ==
  LET request == Request
  IN /\ Uncovered \subseteq Covered(request)
     /\ \A s \in request : \A i \in TokensOf(s) :
          SentenceStart(i) .. SentenceEnd(i) \subseteq TokensOf(s)
     /\ \A s, t \in request : s # t => ~Overlap(s, t) /\ s.last + 1 # t.first

\* Whatever an answer leaves uncovered is picked up by a later top-up
\* (enrich.go:945, 360): the article is complete in the end.
GapsAreFilled == <>(Uncovered = {})

=============================================================================
