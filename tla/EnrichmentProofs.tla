-------------------------- MODULE EnrichmentProofs --------------------------
(***************************************************************************)
(* Proofs about the two things internal/enrich is made of: what it does    *)
(* with the tokens of an article (module Annotation) and the calls of a    *)
(* language model behind it (module LLMClient).  They hold for articles of *)
(* every length, every set of chunk sizes and answers of every size; for   *)
(* any number of callers, attempts, profiles and restarts.                 *)
(***************************************************************************)
EXTENDS Annotation, LLMClient, FiniteSetTheorems, WellFoundedInduction, TLAPS

\* Every answer offers ranges, and a merge keeps only valid ones of them.
LEMMA MergeKeeps ==
  ASSUME NEW answer \in Answers, Merge(answer)
  PROVE  \E kept \in SUBSET Span :
           /\ \A s \in kept : s.first <= s.last
           /\ Keeps(sentences, sanitizeEnrichment(answer), kept)
           /\ sentences' = sentences \union kept
<1>1. \A s \in answer : s \in RawSpan
  <2>1. PICK offered \in [1 .. MaxOffers -> RawSpan] :
          answer = {offered[i] : i \in 1 .. MaxOffers}
    BY Zenon DEF Answers
  <2>2. \A i \in 1 .. MaxOffers : offered[i] \in RawSpan
    BY <2>1
  <2> QED BY <2>1, <2>2
<1>2. PICK kept \in SUBSET sanitizeEnrichment(answer) :
        /\ Keeps(sentences, sanitizeEnrichment(answer), kept)
        /\ sentences' = sentences \union kept
  BY DEF Merge
<1>3. \A s \in kept : s \in Span /\ s.first <= s.last
  BY <1>1 DEF sanitizeEnrichment, RawSpan, Span
<1> QED BY <1>2, <1>3

\* Type correctness, for every value of the constants: no run, resumed or
\* not, and no top-up leaves an index outside the article in the enrichment.
THEOREM TypeCorrect == Spec => []TypeOK
<1>1. Init => TypeOK
  BY AnnotationAssumption DEF Init, TypeOK, Tokens
<1>2. TypeOK /\ [Next]_vars => TypeOK'
  <2> SUFFICES ASSUME TypeOK, [Next]_vars PROVE TypeOK'
    OBVIOUS
  <2> USE DEF TypeOK
  <2>1. CASE BeginRun
    BY <2>1, AnnotationAssumption DEF BeginRun
  <2>2. CASE CutChunk
    <3>1. PICK end \in Tokens :
            /\ start < N
            /\ ChunkEnd(end)
            /\ spans' = spans \union {[first |-> start, last |-> end]}
            /\ start' = end + 1
      BY <2>2 DEF CutChunk
    <3>2. start \in Tokens /\ start' \in 0 .. N
      BY <3>1, AnnotationAssumption DEF Tokens
    <3>3. [first |-> start, last |-> end] \in Span
      BY <3>2 DEF Span
    <3> QED BY <2>2, <3>1, <3>2, <3>3 DEF CutChunk
  <2>3. CASE CutDone
    BY <2>3 DEF CutDone
  <2>4. CASE EndRun
    BY <2>4, AnnotationAssumption DEF EndRun
  <2>5. CASE TopUp(Answers)
    <3>1. PICK answer \in Answers : Merge(answer)
      BY <2>5 DEF TopUp
    <3>2. sentences' \in SUBSET Span /\ \A s \in sentences' : s.first <= s.last
      BY <3>1, MergeKeeps
    <3> QED BY <2>5, <3>2 DEF TopUp, plan
  <2>6. ASSUME NEW s \in left, AnnotateChunk(s, Answers) PROVE TypeOK'
    <3>1. PICK answer \in Answers : Merge(answer)
      BY <2>6 DEF AnnotateChunk
    <3>2. sentences' \in SUBSET Span /\ \A t \in sentences' : t.first <= t.last
      BY <3>1, MergeKeeps
    <3> QED BY <2>6, <3>2 DEF AnnotateChunk
  <2>7. ASSUME NEW s \in left, SkipChunk(s) \/ FailChunk(s) PROVE TypeOK'
    BY <2>7 DEF SkipChunk, FailChunk
  <2>8. CASE UNCHANGED vars
    BY <2>8 DEF vars, plan
  <2> QED BY <2>1, <2>2, <2>3, <2>4, <2>5, <2>6, <2>7, <2>8 DEF Next
<1> QED BY <1>1, <1>2, PTL DEF Spec

-----------------------------------------------------------------------------
(* The plan *)

\* The cap of a positive chunk size leaves room for a token.
LEMMA HardCapPositive ==
  ASSUME size \in Nat \ {0}
  PROVE  hardCap \in Nat \ {0} /\ size <= hardCap
<1>1. size \div 2 \in Nat
  OBVIOUS
<1> QED BY <1>1 DEF hardCap

\* Closing a chunk extends a tiling of the tokens before it to the cursor.
LEMMA CutTiles ==
  ASSUME TypeOK, PlanTiles, CutChunk PROVE PlanTiles'
<1>1. PICK end \in Tokens :
        /\ start < N
        /\ ChunkEnd(end)
        /\ spans' = spans \union {[first |-> start, last |-> end]}
        /\ start' = end + 1
  BY DEF CutChunk
<1> DEFINE new == [first |-> start, last |-> end]
           length == end - start + 1
<1>2. /\ start \in Nat /\ end \in Nat /\ start <= end /\ size \in Nat \ {0}
      /\ hardCap \in Nat \ {0}
  BY <1>1, AnnotationAssumption, HardCapPositive DEF TypeOK, ChunkEnd, Tokens
<1>3. Covered(spans') = 0 .. start' - 1
  <2>1. Covered(spans') = Covered(spans) \union TokensOf(new)
    BY <1>1 DEF Covered
  <2>2. TokensOf(new) = start .. end
    BY DEF TokensOf
  <2>3. (0 .. start - 1) \union (start .. end) = 0 .. end
    BY <1>2
  <2>4. start' - 1 = end
    BY <1>1, <1>2
  <2> QED BY <2>1, <2>2, <2>3, <2>4 DEF PlanTiles
<1>4. \A s, t \in spans' : s # t => ~Overlap(s, t)
  <2>1. ASSUME NEW s \in spans PROVE ~Overlap(s, new) /\ ~Overlap(new, s)
    <3>1. s \in Span /\ s.first <= s.last
      <4>1. s \in Span /\ s.first \in Int /\ s.last \in Int
        BY AnnotationAssumption DEF TypeOK, Span, Tokens
      <4>2. s.last - s.first + 1 \in 1 .. hardCap
        BY DEF PlanTiles
      <4>3. \A f, l \in Int, h \in Nat : l - f + 1 \in 1 .. h => f <= l
        OBVIOUS
      <4> QED BY <1>2, <4>1, <4>2, <4>3
    <3>2. s.last \in Covered(spans)
      BY <3>1 DEF Covered, TokensOf, Span, Tokens
    <3>3. s.last < start
      BY <1>2, <3>2 DEF PlanTiles
    <3> QED BY <1>2, <3>1, <3>3 DEF Overlap, Span, Tokens
  <2> QED BY <1>1, <2>1 DEF PlanTiles
<1>5. length \in 1 .. hardCap /\ (isSentenceEnd(end) \/ length = hardCap)
  <2>1. Closes(end) /\ \A e \in start .. end - 1 : ~Closes(e)
    BY <1>1 DEF ChunkEnd
  <2>2. ASSUME length > hardCap PROVE FALSE
    <3>1. end - 1 \in start .. end - 1
      BY <1>2, <2>2
    <3>2. Closes(end - 1)
      BY <1>2, <2>2 DEF Closes
    <3> QED BY <2>1, <3>1, <3>2
  <2>3. length \in 1 .. hardCap
    BY <1>2, <2>2
  <2> QED BY <1>2, <2>1, <2>3, AnnotationAssumption DEF Closes, isSentenceEnd
<1>6. size' = size /\ ends' = ends /\ mode' = "cut" /\ hardCap' = hardCap
  BY DEF CutChunk, hardCap
<1>7. \A s \in spans' :
        LET len == s.last - s.first + 1
        IN len \in 1 .. hardCap' /\ (isSentenceEnd(s.last)' \/ len = hardCap')
  BY <1>1, <1>5, <1>6 DEF PlanTiles, isSentenceEnd
<1> QED BY <1>3, <1>4, <1>6, <1>7 DEF PlanTiles

\* The chunks of every run tile the article up to the cursor, whatever the
\* sentence ends and the chunk size.
THEOREM ChunksTile == Spec => []PlanTiles
<1>1. ASSUME spans = {}, start = 0, mode # "run" PROVE PlanTiles
  BY <1>1 DEF PlanTiles, Covered
<1>2. Init => PlanTiles
  BY <1>1 DEF Init
<1>3. TypeOK /\ PlanTiles /\ [Next]_vars => PlanTiles'
  <2> SUFFICES ASSUME TypeOK, PlanTiles, [Next]_vars PROVE PlanTiles'
    OBVIOUS
  <2>1. ASSUME spans' = {}, start' = 0, mode' # "run" PROVE PlanTiles'
    BY <2>1 DEF PlanTiles, Covered
  <2>2. ASSUME UNCHANGED <<ends, size, start, spans>>, mode' = "run" => start = N
        PROVE  PlanTiles'
    BY <2>2 DEF PlanTiles, Covered, TokensOf, Overlap, hardCap, isSentenceEnd
  <2>3. CASE BeginRun
    BY <2>1, <2>3 DEF BeginRun
  <2>4. CASE CutChunk
    BY <2>4, CutTiles
  <2>5. CASE CutDone
    BY <2>2, <2>5 DEF CutDone
  <2>6. CASE EndRun
    BY <2>1, <2>6 DEF EndRun
  <2>7. CASE TopUp(Answers)
    BY <2>2, <2>7 DEF TopUp, plan, PlanTiles
  <2>8. ASSUME NEW s \in left,
               AnnotateChunk(s, Answers) \/ SkipChunk(s) \/ FailChunk(s)
        PROVE  PlanTiles'
    BY <2>2, <2>8 DEF AnnotateChunk, SkipChunk, FailChunk, PlanTiles
  <2>9. CASE UNCHANGED vars
    BY <2>2, <2>9 DEF vars, plan, PlanTiles
  <2> QED BY <2>3, <2>4, <2>5, <2>6, <2>7, <2>8, <2>9 DEF Next
<1> QED BY <1>2, <1>3, TypeCorrect, PTL DEF Spec

-----------------------------------------------------------------------------
(* The merge *)

\* A step merges an answer, or leaves the enrichment alone.
LEMMA MergeOrStay ==
  ASSUME [Next]_vars
  PROVE  (\E answer \in Answers : Merge(answer)) \/ UNCHANGED sentences
BY DEF Next, vars, BeginRun, CutChunk, CutDone, EndRun, TopUp, AnnotateChunk, SkipChunk,
       FailChunk

\* Runs, resumes and top-ups never leave a token in two sentences.
THEOREM SentencesDisjoint == Spec => []OneSentencePerToken
<1>1. Init => OneSentencePerToken
  BY DEF Init, OneSentencePerToken
<1>2. OneSentencePerToken /\ [Next]_vars => OneSentencePerToken'
  <2> SUFFICES ASSUME OneSentencePerToken, [Next]_vars,
                      NEW answer \in Answers, Merge(answer)
               PROVE  OneSentencePerToken'
    BY MergeOrStay DEF OneSentencePerToken
  <2>1. PICK kept \in SUBSET Span :
          /\ Keeps(sentences, sanitizeEnrichment(answer), kept)
          /\ sentences' = sentences \union kept
    BY MergeKeeps
  <2>2. \A s \in kept : \A t \in (sentences \union kept) \ {s} :
          ~Overlap(s, t) /\ ~Overlap(t, s)
    BY <2>1 DEF Keeps, Overlap
  <2> QED BY <2>1, <2>2 DEF OneSentencePerToken
<1> QED BY <1>1, <1>2, PTL DEF Spec

-----------------------------------------------------------------------------
(* What a top-up asks for *)

\* A set of natural numbers has a least one; all induction below rests on it.
LEMMA LeastNatural ==
  ASSUME NEW S \in SUBSET Nat, S # {}
  PROVE  \E n \in S : \A m \in S : n <= m
<1>1. PICK n \in S : \A m \in S : ~(<<m, n>> \in OpToRel(<, Nat))
  BY WFMin, NatLessThanWellFounded
<1>2. \A m, k \in Nat : k < m => <<k, m>> \in OpToRel(<, Nat)
  BY DEF OpToRel
<1>3. \A m \in S : ~(m < n)
  BY <1>1, <1>2, Zenon
<1> QED BY <1>3

\* Every token is in a run of its set, which reaches as far as it can.
LEMMA RunsCover ==
  ASSUME NEW U \in SUBSET Tokens, NEW i \in U
  PROVE  \E s \in Runs(U) : i \in TokensOf(s)
<1> DEFINE Before == {n \in Nat : i - n - 1 \notin U}
           After == {n \in Nat : i + n + 1 \notin U}
<1>1. i \in Nat /\ i <= N - 1 /\ N \in Nat
  BY AnnotationAssumption DEF Tokens
<1>2. \A j \in U : j \in Int /\ 0 <= j /\ j <= N - 1
  BY AnnotationAssumption DEF Tokens
<1>3. i \in Before /\ N - 1 - i \in After
  BY <1>1, <1>2
<1>4. PICK m \in Before : \A n \in Before : m <= n
  BY <1>3, LeastNatural
<1>5. PICK l \in After : \A n \in After : l <= n
  BY <1>3, LeastNatural
<1> DEFINE s == [first |-> i - m, last |-> i + l]
<1>6. \A k \in i - m .. i + l : k \in U
  <2> SUFFICES ASSUME NEW k \in i - m .. i + l PROVE k \in U
    OBVIOUS
  <2>1. CASE k < i
    <3>1. i - k - 1 \in Nat /\ i - k - 1 < m /\ i - (i - k - 1) - 1 = k
      BY <1>1, <2>1
    <3> QED BY <1>4, <3>1
  <2>2. CASE k > i
    <3>1. k - i - 1 \in Nat /\ k - i - 1 < l /\ i + (k - i - 1) + 1 = k
      BY <1>1, <2>2
    <3> QED BY <1>5, <3>1
  <2> QED BY <1>1, <2>1, <2>2
<1>7. i - m \in U /\ i + l \in U /\ i - m <= i /\ i <= i + l
  BY <1>1, <1>6
<1>8. s.first - 1 \notin U /\ s.last + 1 \notin U
  BY <1>4, <1>5
<1>9. s \in Span /\ TokensOf(s) \subseteq U /\ i \in TokensOf(s) /\ s.first <= s.last
  BY <1>1, <1>6, <1>7 DEF Span, TokensOf
<1> QED BY <1>8, <1>9 DEF Runs

\* The last token ends a sentence, so every token has a sentence around it.
LEMMA SentenceBounds ==
  ASSUME NEW i \in Tokens
  PROVE  /\ SentenceStart(i) \in 0 .. i
         /\ SentenceStart(i) = 0 \/ isSentenceEnd(SentenceStart(i) - 1)
         /\ \A k \in SentenceStart(i) .. i - 1 : ~isSentenceEnd(k)
         /\ SentenceEnd(i) \in i .. N - 1
         /\ isSentenceEnd(SentenceEnd(i))
         /\ \A k \in i .. SentenceEnd(i) - 1 : ~isSentenceEnd(k)
<1>1. i \in Nat /\ i <= N - 1 /\ N \in Nat
  BY AnnotationAssumption DEF Tokens
<1>2. \E j \in 0 .. i : /\ j = 0 \/ isSentenceEnd(j - 1)
                        /\ \A k \in j .. i - 1 : ~isSentenceEnd(k)
  <2> DEFINE S == {n \in Nat : n <= i /\ (i - n = 0 \/ isSentenceEnd(i - n - 1))}
  <2>1. i \in S
    BY <1>1
  <2>2. PICK n \in S : \A m \in S : n <= m
    BY <2>1, LeastNatural
  <2>3. ASSUME NEW k \in i - n .. i - 1, isSentenceEnd(k) PROVE FALSE
    <3>1. i - k - 1 \in Nat /\ i - k - 1 < n /\ i - k - 1 <= i /\ i - (i - k - 1) - 1 = k
      BY <1>1
    <3> QED BY <2>2, <2>3, <3>1
  <2> QED BY <1>1, <2>2, <2>3
<1>3. \E j \in i .. N - 1 : isSentenceEnd(j) /\ \A k \in i .. j - 1 : ~isSentenceEnd(k)
  <2> DEFINE S == {n \in Nat : i + n <= N - 1 /\ isSentenceEnd(i + n)}
  <2>1. N - 1 - i \in S
    BY <1>1 DEF isSentenceEnd
  <2>2. PICK n \in S : \A m \in S : n <= m
    BY <2>1, LeastNatural
  <2>3. ASSUME NEW k \in i .. i + n - 1, isSentenceEnd(k) PROVE FALSE
    <3>1. k - i \in Nat /\ k - i < n /\ i + (k - i) = k /\ k <= N - 1
      BY <1>1, <2>2
    <3> QED BY <2>2, <2>3, <3>1
  <2> QED BY <1>1, <2>2, <2>3
<1>4. /\ SentenceStart(i) \in 0 .. i
      /\ SentenceStart(i) = 0 \/ isSentenceEnd(SentenceStart(i) - 1)
      /\ \A k \in SentenceStart(i) .. i - 1 : ~isSentenceEnd(k)
  BY <1>2 DEF SentenceStart
<1>5. /\ SentenceEnd(i) \in i .. N - 1
      /\ isSentenceEnd(SentenceEnd(i))
      /\ \A k \in i .. SentenceEnd(i) - 1 : ~isSentenceEnd(k)
  BY <1>3 DEF SentenceEnd
<1> QED BY <1>4, <1>5

\* A span of whole sentences.
Whole(s) ==
  /\ s \in Span /\ s.first <= s.last
  /\ s.first = 0 \/ isSentenceEnd(s.first - 1)
  /\ isSentenceEnd(s.last)

LEMMA WidenedIsWhole ==
  ASSUME NEW s \in Span, s.first <= s.last
  PROVE  Whole(Widen(s)) /\ TokensOf(s) \subseteq TokensOf(Widen(s))
<1>1. s.first \in Tokens /\ s.last \in Tokens
  BY DEF Span
<1> DEFINE w == Widen(s)
<1>2. /\ w.first \in 0 .. s.first /\ w.last \in s.last .. N - 1
      /\ w.first = 0 \/ isSentenceEnd(w.first - 1)
      /\ isSentenceEnd(w.last)
  BY <1>1, SentenceBounds DEF Widen
<1>3. N \in Nat /\ s.first \in Nat /\ s.last \in Nat /\ s.last <= N - 1
  BY <1>1, AnnotationAssumption DEF Tokens
<1>4. w.first \in Tokens /\ w.last \in Tokens /\ w.first <= w.last
  BY <1>2, <1>3 DEF Tokens
<1>5. w \in Span
  BY <1>4 DEF Widen, Span
<1>6. TokensOf(s) \subseteq TokensOf(w)
  BY <1>2, <1>3 DEF TokensOf
<1> QED BY <1>2, <1>4, <1>5, <1>6 DEF Whole

LEMMA WholeSentences ==
  ASSUME NEW s, Whole(s), NEW i \in TokensOf(s)
  PROVE  SentenceStart(i) .. SentenceEnd(i) \subseteq TokensOf(s)
<1>1. /\ s.first \in Nat /\ s.last \in Nat /\ s.last <= N - 1 /\ N \in Nat
      /\ i \in Nat /\ s.first <= i /\ i <= s.last
  BY AnnotationAssumption DEF Whole, Span, Tokens, TokensOf
<1>2. i \in Tokens
  BY <1>1 DEF Tokens
<1>3. SentenceStart(i) \in 0 .. i /\ SentenceEnd(i) \in i .. N - 1
  BY <1>2, SentenceBounds
<1>4. s.first <= SentenceStart(i)
  <2> SUFFICES ASSUME SentenceStart(i) < s.first PROVE FALSE
    BY <1>1, <1>3
  <2>1. s.first - 1 \in SentenceStart(i) .. i - 1 /\ s.first # 0
    BY <1>1, <1>3
  <2> QED BY <1>2, <2>1, SentenceBounds DEF Whole
<1>5. SentenceEnd(i) <= s.last
  <2> SUFFICES ASSUME s.last < SentenceEnd(i) PROVE FALSE
    BY <1>1, <1>3
  <2>1. s.last \in i .. SentenceEnd(i) - 1
    BY <1>1, <1>3
  <2> QED BY <1>2, <2>1, SentenceBounds DEF Whole
<1> QED BY <1>1, <1>3, <1>4, <1>5 DEF TokensOf

\* There is a span that starts behind no other's start.
LEMMA LastStartingExists ==
  ASSUME NEW set \in SUBSET Span, set # {}
  PROVE  LastStarting(set) \in set /\ \A t \in set : t.first <= LastStarting(set).first
<1> DEFINE S == {N - s.first : s \in set}
<1>1. \A s \in set : s.first \in Nat /\ s.first <= N - 1 /\ N \in Nat
  BY AnnotationAssumption DEF Span, Tokens
<1>2. S \in SUBSET Nat /\ S # {}
  BY <1>1
<1>3. PICK n \in S : \A m \in S : n <= m
  BY <1>2, LeastNatural
<1>4. PICK s \in set : n = N - s.first
  OBVIOUS
<1>5. ASSUME NEW t \in set PROVE t.first <= s.first
  <2>1. n <= N - t.first
    BY <1>3
  <2> QED BY <1>1, <1>4, <2>1
<1> QED BY <1>4, <1>5 DEF LastStarting

\* What the loop has made of some of the spans: whole sentences with a gap
\* between them that hold all these spans, the last one from the start of one
\* of them.
Coalesced(out, part) ==
  /\ out \in Seq(Span)
  /\ \A i \in DOMAIN out : Whole(out[i])
  /\ \A i, j \in DOMAIN out : i < j => out[i].last + 1 < out[j].first
  /\ \A s \in part : \E i \in DOMAIN out :
       out[i].first <= s.first /\ s.last <= out[i].last
  /\ out # <<>> => \E s \in part : Last(out).first <= s.first

LEMMA ExtendedCoalesces ==
  ASSUME NEW part \in SUBSET Span, NEW s \in part, NEW out,
         Coalesced(out, part \ {s}), Whole(s), \A t \in part : t.first <= s.first
  PROVE  Coalesced(Extended(out, s), part)
<1> DEFINE n == Len(out)
           new == Extended(out, s)
<1>1. out \in Seq(Span) /\ n \in Nat /\ DOMAIN out = 1 .. n
  BY DEF Coalesced
<1>2. \A t \in Span : t.first \in Int /\ t.last \in Int
  BY AnnotationAssumption DEF Span, Tokens
<1>3. \A i \in 1 .. n : out[i] \in Span /\ Whole(out[i]) /\ out[i].first <= out[i].last
  BY <1>1 DEF Coalesced, Whole
<1>4. /\ \A i, j \in 1 .. n : i < j => out[i].last + 1 < out[j].first
      /\ \A t \in part \ {s} : \E i \in 1 .. n :
           out[i].first <= t.first /\ t.last <= out[i].last
  BY <1>1 DEF Coalesced
<1>5. CASE out = <<>> \/ s.first > Last(out).last + 1
  <2>1. new = Append(out, s)
    BY <1>5 DEF Extended
  <2>2. /\ new \in Seq(Span) /\ DOMAIN new = 1 .. n + 1 /\ Len(new) = n + 1
        /\ new[n + 1] = s /\ \A i \in 1 .. n : new[i] = out[i]
    BY <1>1, <2>1
  <2> HIDE DEF new
  <2>3. \A i \in DOMAIN new : Whole(new[i])
    BY <1>1, <1>3, <2>2
  <2>4. \A i \in 1 .. n : out[i].last + 1 < s.first
    <3> SUFFICES ASSUME NEW i \in 1 .. n PROVE out[i].last + 1 < s.first
      OBVIOUS
    <3>1. out[n].last + 1 < s.first
      BY <1>1, <1>2, <1>3, <1>5 DEF Last
    <3>2. CASE i = n
      BY <3>1, <3>2
    <3>3. CASE i # n
      <4>1. out[i].last + 1 < out[n].first /\ out[n].first <= out[n].last
        <5> HIDE DEF n
        <5>1. n \in 1 .. n /\ i < n
          BY <1>1, <3>3
        <5> QED BY <1>3, <1>4, <5>1
      <4> QED BY <1>1, <1>2, <1>3, <3>1, <4>1
    <3> QED BY <3>2, <3>3
  <2>5. \A i, j \in DOMAIN new : i < j => new[i].last + 1 < new[j].first
    <3> SUFFICES ASSUME NEW i \in DOMAIN new, NEW j \in DOMAIN new, i < j
                 PROVE  new[i].last + 1 < new[j].first
      OBVIOUS
    <3>1. i \in 1 .. n /\ new[i] = out[i]
      BY <1>1, <2>2
    <3>2. CASE j = n + 1
      BY <2>2, <2>4, <3>1, <3>2
    <3>3. CASE j # n + 1
      BY <1>1, <1>4, <2>2, <3>1, <3>3
    <3> QED BY <3>2, <3>3
  <2>6. \A t \in part : \E i \in DOMAIN new : new[i].first <= t.first /\ t.last <= new[i].last
    <3> SUFFICES ASSUME NEW t \in part
                 PROVE  \E i \in DOMAIN new :
                          new[i].first <= t.first /\ t.last <= new[i].last
      OBVIOUS
    <3>1. CASE t = s
      BY <1>1, <1>2, <2>2, <3>1
    <3>2. CASE t # s
      <4>1. PICK i \in 1 .. n : out[i].first <= t.first /\ t.last <= out[i].last
        BY <1>4, <3>2
      <4> QED BY <1>1, <2>2, <4>1
    <3> QED BY <3>1, <3>2
  <2>7. Last(new).first <= s.first
    BY <1>2, <2>2 DEF Last
  <2>8. Coalesced(new, part)
    BY <2>2, <2>3, <2>5, <2>6, <2>7 DEF Coalesced
  <2> QED BY <2>8 DEF new
<1>6. CASE out # <<>> /\ ~(s.first > Last(out).last + 1)
  <2> DEFINE m == Max({out[n].last, s.last})
             r == [out[n] EXCEPT !.last = m]
  <2>1. n \in 1 .. n /\ out[n] \in Span /\ s \in Span
    BY <1>1, <1>3, <1>6
  <2>2. m \in {out[n].last, s.last} /\ out[n].last <= m /\ s.last <= m
    <3>1. \E x \in {out[n].last, s.last} : \A y \in {out[n].last, s.last} : x >= y
      BY <1>2, <2>1
    <3>2. m \in {out[n].last, s.last} /\ \A y \in {out[n].last, s.last} : m >= y
      BY <3>1 DEF Max
    <3> QED BY <1>2, <2>1, <3>2
  <2> HIDE DEF m
  <2>3. r \in Span /\ r.first = out[n].first /\ r.last = m
    BY <2>1, <2>2 DEF Span
  <2>4. new = [out EXCEPT ![n] = r]
    BY <1>1, <1>6, <2>1 DEF Extended, Last, m
  <2> HIDE DEF new, r
  <2>5. /\ new \in Seq(Span) /\ DOMAIN new = 1 .. n /\ Len(new) = n
        /\ new[n] = r /\ \A i \in 1 .. n - 1 : new[i] = out[i]
    <3>1. /\ DOMAIN new = 1 .. n /\ new[n] = r /\ \A i \in 1 .. n : i # n => new[i] = out[i]
          /\ new = [i \in 1 .. n |-> new[i]]
      BY <1>1, <2>1, <2>4
    <3>2. \A i \in 1 .. n : new[i] \in Span
      BY <1>3, <2>3, <3>1
    <3>3. new \in Seq(Span) /\ Len(new) = n
      BY <1>1, <3>1, <3>2
    <3>4. ASSUME NEW i \in 1 .. n - 1 PROVE i \in 1 .. n /\ i # n
      <4> HIDE DEF n
      <4> QED BY <1>1
    <3> QED BY <3>1, <3>3, <3>4
  <2>6. Whole(r)
    <3>1. Whole(out[n])
      BY <1>3, <2>1
    <3>2. isSentenceEnd(m)
      BY <2>2, <3>1 DEF Whole
    <3>3. r.first <= r.last
      BY <1>2, <1>3, <2>1, <2>2, <2>3
    <3> QED BY <2>3, <3>1, <3>2, <3>3 DEF Whole
  <2>7. \A i \in DOMAIN new : Whole(new[i])
    BY <1>1, <1>3, <2>5, <2>6
  <2>8. \A i, j \in DOMAIN new : i < j => new[i].last + 1 < new[j].first
    <3> SUFFICES ASSUME NEW i \in DOMAIN new, NEW j \in DOMAIN new, i < j
                 PROVE  new[i].last + 1 < new[j].first
      OBVIOUS
    <3>1. i \in 1 .. n - 1 /\ new[i] = out[i] /\ new[j].first = out[j].first
      BY <1>1, <2>3, <2>5
    <3> QED BY <1>1, <1>4, <2>5, <3>1
  <2>9. out[n].first <= s.first
    <3>1. PICK t \in part \ {s} : out[n].first <= t.first
      BY <1>6 DEF Coalesced, Last
    <3> QED BY <1>2, <2>1, <3>1
  <2>10. \A t \in part : \E i \in DOMAIN new :
           new[i].first <= t.first /\ t.last <= new[i].last
    <3> SUFFICES ASSUME NEW t \in part
                 PROVE  \E i \in DOMAIN new :
                          new[i].first <= t.first /\ t.last <= new[i].last
      OBVIOUS
    <3>1. CASE t = s
      BY <2>1, <2>2, <2>3, <2>5, <2>9, <3>1
    <3>2. CASE t # s
      <4>1. PICK i \in 1 .. n : out[i].first <= t.first /\ t.last <= out[i].last
        BY <1>4, <3>2
      <4>2. CASE i = n
        BY <1>2, <2>1, <2>2, <2>3, <2>5, <4>1, <4>2
      <4>3. CASE i # n
        BY <1>1, <2>5, <4>1, <4>3
      <4> QED BY <4>2, <4>3
    <3> QED BY <3>1, <3>2
  <2>11. Last(new).first <= s.first
    BY <2>3, <2>5, <2>9 DEF Last
  <2>12. Coalesced(new, part)
    BY <2>5, <2>7, <2>8, <2>10, <2>11 DEF Coalesced
  <2> QED BY <2>12 DEF new
<1> QED BY <1>5, <1>6

\* A set of spans less its last one is smaller by one.
LEMMA OneLess ==
  ASSUME NEW set \in SUBSET Span, IsFiniteSet(set), NEW part \in SUBSET set
  PROVE  /\ Cardinality(part) \in Nat /\ Cardinality(part) <= Cardinality(set)
         /\ part # {} =>
              /\ LastStarting(part) \in part
              /\ part \ {LastStarting(part)} \in SUBSET set
              /\ Cardinality(part \ {LastStarting(part)}) = Cardinality(part) - 1
<1>1. IsFiniteSet(part) /\ Cardinality(part) <= Cardinality(set)
  BY FS_Subset
<1>2. Cardinality(part) \in Nat
  BY <1>1, FS_CardinalityType
<1>3. ASSUME part # {} PROVE LastStarting(part) \in part
  BY <1>3, LastStartingExists
<1>4. ASSUME part # {}
      PROVE  Cardinality(part \ {LastStarting(part)}) = Cardinality(part) - 1
  BY <1>1, <1>3, <1>4, FS_RemoveElement
<1> QED BY <1>1, <1>2, <1>3, <1>4

\* The recursion of coalesceSpans is well-founded: there is a function that
\* satisfies it.  A smallest size of the parts on which none does cannot exist.
LEMMA MergedExists ==
  ASSUME NEW set \in SUBSET Span, IsFiniteSet(set)
  PROVE  \E w : w = [part \in SUBSET set |->
                       IF part = {} THEN <<>>
                       ELSE Extended(w[part \ {LastStarting(part)}], LastStarting(part))]
<1> DEFINE Less(part) == part \ {LastStarting(part)}
           Body(w, part) == IF part = {} THEN <<>>
                            ELSE Extended(w[Less(part)], LastStarting(part))
           Fits(w, n) == \A part \in SUBSET set :
                           Cardinality(part) < n => w[part] = Body(w, part)
           Bad == {n \in Nat : ~ \E w : Fits(w, n)}
<1>1. \A part \in SUBSET set :
        /\ Cardinality(part) \in Nat /\ Cardinality(part) <= Cardinality(set)
        /\ part # {} => /\ Less(part) \in SUBSET set
                        /\ Cardinality(Less(part)) = Cardinality(part) - 1
  BY OneLess
<1>2. \A v, w, part : part = {} \/ v[Less(part)] = w[Less(part)] =>
        Body(v, part) = Body(w, part)
  OBVIOUS
<1> HIDE DEF Less, Body
<1>3. Bad = {}
  <2> SUFFICES ASSUME Bad # {} PROVE FALSE
    OBVIOUS
  <2>1. PICK n \in Bad : \A m \in Bad : n <= m
    <3>1. Bad \in SUBSET Nat
      OBVIOUS
    <3> HIDE DEF Bad
    <3> QED BY <3>1, LeastNatural
  <2>2. n \in Nat
    BY <2>1
  <2>3. n # 0
    <3>1. Fits({}, 0)
      BY <1>1
    <3> QED BY <2>1, <3>1
  <2>4. PICK w : Fits(w, n - 1)
    <3> DEFINE k == n - 1
    <3>1. k \in Nat /\ k < n
      BY <2>2, <2>3
    <3>2. k \notin Bad
      BY <2>1, <2>2, <3>1
    <3>3. \E w : Fits(w, k)
      BY <3>1, <3>2
    <3> QED BY <3>3
  <2> DEFINE v == [part \in SUBSET set |-> Body(w, part)]
  <2>5. ASSUME NEW part \in SUBSET set, Cardinality(part) < n
        PROVE  v[part] = Body(v, part)
    <3>1. v[part] = Body(w, part)
      OBVIOUS
    <3>2. part # {} => v[Less(part)] = Body(w, Less(part))
      BY <1>1
    <3>3. part # {} => w[Less(part)] = Body(w, Less(part))
      <4> SUFFICES ASSUME part # {} PROVE w[Less(part)] = Body(w, Less(part))
        OBVIOUS
      <4>1. Less(part) \in SUBSET set /\ Cardinality(Less(part)) < n - 1
        BY <1>1, <2>2, <2>5
      <4> QED BY <2>4, <4>1
    <3> HIDE DEF v
    <3>4. Body(v, part) = Body(w, part)
      BY <1>2, <3>2, <3>3
    <3> QED BY <3>1, <3>4
  <2>6. Fits(v, n)
    BY <2>5
  <2> QED BY <2>1, <2>6
<1>4. PICK w : Fits(w, Cardinality(set) + 1)
  <2> DEFINE k == Cardinality(set) + 1
  <2>1. k \in Nat
    BY <1>1
  <2>2. \E w : Fits(w, k)
    BY <1>3, <2>1
  <2> QED BY <2>2
<1> DEFINE v == [part \in SUBSET set |-> w[part]]
<1>5. ASSUME NEW part \in SUBSET set PROVE v[part] = Body(v, part)
  <2>1. w[part] = Body(w, part)
    <3>1. Cardinality(part) < Cardinality(set) + 1
      BY <1>1
    <3> QED BY <1>4, <3>1
  <2>2. part # {} => v[Less(part)] = w[Less(part)]
    BY <1>1
  <2>3. v[part] = w[part]
    OBVIOUS
  <2> HIDE DEF v
  <2> QED BY <1>2, <2>1, <2>2, <2>3
<1>6. v = [part \in SUBSET set |-> Body(v, part)]
  <2>1. v = [part \in SUBSET set |-> v[part]]
    OBVIOUS
  <2> HIDE DEF v
  <2> QED BY <1>5, <2>1
<1> HIDE DEF v
<1>7. \E x : x = [part \in SUBSET set |-> Body(x, part)]
  BY <1>6
<1> QED BY <1>7 DEF Body, Less

\* coalesceSpans turns a set of whole sentences into spans with gaps between
\* them that hold all of it: by its smallest part for which this fails.
LEMMA CoalesceSpans ==
  ASSUME NEW set \in SUBSET Span, IsFiniteSet(set), \A s \in set : Whole(s)
  PROVE  Coalesced(coalesceSpans(set), set)
<1> DEFINE Less(part) == part \ {LastStarting(part)}
           Merges(w) == w = [part \in SUBSET set |->
                               IF part = {} THEN <<>>
                               ELSE Extended(w[part \ {LastStarting(part)}],
                                             LastStarting(part))]
           merged == CHOOSE w : Merges(w)
           Bad == {part \in SUBSET set : ~Coalesced(merged[part], part)}
           Counts == {Cardinality(part) : part \in Bad}
<1>1. coalesceSpans(set) = merged[set]
  BY DEF coalesceSpans
<1>2. Merges(merged)
  <2>1. \E w : Merges(w)
    BY MergedExists
  <2> HIDE DEF Merges
  <2> QED BY <2>1
<1> HIDE DEF merged
<1>3. merged[{}] = <<>>
  BY <1>2
<1>4. ASSUME NEW part \in SUBSET set, part # {}
      PROVE  merged[part] = Extended(merged[Less(part)], LastStarting(part))
  BY <1>2, <1>4
<1>5. Bad = {}
  <2> SUFFICES ASSUME Bad # {} PROVE FALSE
    OBVIOUS
  <2>1. Counts \in SUBSET Nat /\ Counts # {}
    <3>1. \A part \in SUBSET set : Cardinality(part) \in Nat
      BY OneLess
    <3> QED BY <3>1
  <2>2. PICK part \in Bad : \A other \in Bad : Cardinality(part) <= Cardinality(other)
    <3>1. \E n \in Counts : \A m \in Counts : n <= m
      <4> HIDE DEF Counts
      <4> QED BY <2>1, LeastNatural
    <3> QED BY <3>1
  <2>3. part # {}
    <3>1. Coalesced(<<>>, {})
      BY DEF Coalesced
    <3> QED BY <1>3, <2>2, <3>1
  <2> DEFINE s == LastStarting(part)
  <2>4. s \in part /\ \A t \in part : t.first <= s.first
    BY <2>2, <2>3, LastStartingExists
  <2>5. Less(part) \in SUBSET set /\ ~(Cardinality(part) <= Cardinality(Less(part)))
    BY <2>2, <2>3, OneLess
  <2>6. Coalesced(merged[Less(part)], part \ {s})
    BY <2>2, <2>5
  <2>7. part \in SUBSET Span /\ Whole(s)
    BY <2>2, <2>4
  <2>8. Coalesced(Extended(merged[Less(part)], s), part)
    <3> HIDE DEF s, Less
    <3> QED BY <2>4, <2>6, <2>7, ExtendedCoalesces
  <2> QED BY <1>4, <2>2, <2>3, <2>8
<1> QED BY <1>1, <1>5

\* The article has finitely many spans.
LEMMA SpansFinite == IsFiniteSet(Span)
<1> DEFINE pairs == Tokens \X Tokens
           f == [p \in pairs |-> [first |-> p[1], last |-> p[2]]]
<1>1. IsFiniteSet(pairs)
  <2>1. IsFiniteSet(Tokens)
    BY AnnotationAssumption, FS_Interval DEF Tokens
  <2> QED BY <2>1, FS_Product
<1>2. f \in Surjection(pairs, Span)
  <2>1. \A p \in pairs : f[p] \in Span
    BY DEF Span
  <2>2. \A s \in Span : f[<<s.first, s.last>>] = s
    BY DEF Span
  <2>3. \A s \in Span : \E p \in pairs : f[p] = s
    BY <2>2 DEF Span
  <2>4. f \in [pairs -> Span]
    BY <2>1
  <2> HIDE DEF f
  <2> QED BY <2>3, <2>4 DEF Surjection
<1> QED BY <1>1, <1>2, FS_Surjection

\* A request leaves out no token that is missing and tears no sentence, and
\* no two of its spans could be one: whatever the enrichment holds, wherever
\* the sentences end.
LEMMA RequestIsWhole ==
  ASSUME TypeOK PROVE TopUpAsksWholeSentences
<1> DEFINE U == Uncovered
           wide == {Widen(s) : s \in Runs(U)}
           out == coalesceSpans(wide)
<1>1. U \in SUBSET Tokens
  BY DEF Uncovered
<1>2. \A s \in Runs(U) : /\ s \in Span /\ s.first <= s.last
                         /\ Whole(Widen(s)) /\ TokensOf(s) \subseteq TokensOf(Widen(s))
  BY WidenedIsWhole DEF Runs
<1>3. wide \in SUBSET Span /\ \A w \in wide : Whole(w)
  BY <1>2 DEF Whole
<1>4. IsFiniteSet(wide)
  BY <1>3, SpansFinite, FS_Subset
<1>5. Coalesced(out, wide)
  <2> HIDE DEF wide
  <2> QED BY <1>3, <1>4, CoalesceSpans
<1>6. Request = {out[i] : i \in DOMAIN out}
  BY DEF Request, expandSpansToSentences, uncoveredSpans, ToSet
<1> HIDE DEF out
<1>7. \A i \in DOMAIN out : Whole(out[i]) /\ out[i].first \in Int /\ out[i].last \in Int
  BY <1>5, AnnotationAssumption DEF Coalesced, Whole, Span, Tokens
<1>8. ASSUME NEW i \in U PROVE i \in Covered(Request)
  <2>1. PICK s \in Runs(U) : i \in TokensOf(s)
    BY <1>1, RunsCover
  <2>2. i \in TokensOf(Widen(s)) /\ Widen(s) \in wide
    BY <1>2, <2>1
  <2> DEFINE w == Widen(s)
  <2>3. PICK k \in DOMAIN out : out[k].first <= w.first /\ w.last <= out[k].last
    BY <1>5, <2>2 DEF Coalesced
  <2>4. w.first \in Int /\ w.last \in Int
    BY <1>3, <2>2, AnnotationAssumption DEF Span, Tokens
  <2> HIDE DEF w, wide
  <2>5. i \in TokensOf(out[k])
    BY <1>7, <2>2, <2>3, <2>4 DEF TokensOf, w
  <2> QED BY <1>6, <2>5 DEF Covered
<1>9. ASSUME NEW s \in Request, NEW i \in TokensOf(s)
      PROVE  SentenceStart(i) .. SentenceEnd(i) \subseteq TokensOf(s)
  BY <1>6, <1>7, WholeSentences
<1>10. ASSUME NEW s \in Request, NEW t \in Request, s # t
       PROVE  ~Overlap(s, t) /\ s.last + 1 # t.first
  <2>1. PICK i \in DOMAIN out, j \in DOMAIN out : s = out[i] /\ t = out[j]
    BY <1>6
  <2>2. i \in Int /\ j \in Int /\ i # j
    BY <1>5, <1>10, <2>1 DEF Coalesced
  <2>3. out[i].last + 1 < out[j].first \/ out[j].last + 1 < out[i].first
    BY <1>5, <2>2 DEF Coalesced
  <2>4. out[i].first <= out[i].last /\ out[j].first <= out[j].last
    BY <1>7 DEF Whole
  <2> QED BY <1>7, <2>1, <2>3, <2>4 DEF Overlap
<1> QED BY <1>8, <1>9, <1>10 DEF TopUpAsksWholeSentences

\* What a top-up sends contains every missing token, consists of whole
\* sentences and is in no more pieces than it must be (chunk.go
\* uncoveredSpans, expandSpansToSentences, coalesceSpans).
THEOREM TopUpsAskWholeSentences == Spec => []TopUpAsksWholeSentences
<1>1. TypeOK => TopUpAsksWholeSentences
  BY RequestIsWhole
<1> QED BY <1>1, TypeCorrect, PTL

-----------------------------------------------------------------------------
(* What a merge keeps *)

\* The ranges of the article, of which sanitizeEnrichment keeps an answer's.
Ranges == {s \in Span : s.first <= s.last}

LEMMA OverlapShares ==
  ASSUME NEW s \in Ranges, NEW set \in SUBSET Ranges
  PROVE  /\ TokensOf(s) \intersect Covered(set) = {} <=> \A t \in set : ~Overlap(s, t)
         /\ Overlap(s, s)
         /\ \A t \in Ranges : Overlap(s, t) <=> Overlap(t, s)
<1>1. \A t \in Ranges : t.first \in Int /\ t.last \in Int /\ t.first <= t.last
  BY AnnotationAssumption DEF Ranges, Span, Tokens
<1>2. ASSUME NEW t \in Ranges
      PROVE  /\ TokensOf(s) \intersect TokensOf(t) = {} <=> ~Overlap(s, t)
             /\ Overlap(s, t) <=> Overlap(t, s)
  <2>1. Overlap(s, t) => s.first \in TokensOf(t) \/ t.first \in TokensOf(s)
    BY <1>1 DEF Overlap, TokensOf
  <2>2. s.first \in TokensOf(s) /\ t.first \in TokensOf(t)
    BY <1>1 DEF TokensOf
  <2>3. ASSUME NEW i \in TokensOf(s), i \in TokensOf(t) PROVE Overlap(s, t)
    BY <1>1, <2>3 DEF Overlap, TokensOf
  <2>4. Overlap(s, t) <=> Overlap(t, s)
    BY <1>1 DEF Overlap
  <2> QED BY <2>1, <2>2, <2>3, <2>4
<1>3. TokensOf(s) \intersect Covered(set) = {} <=>
        \A t \in set : TokensOf(s) \intersect TokensOf(t) = {}
  BY DEF Covered
<1>4. Overlap(s, s)
  BY <1>1 DEF Overlap
<1> QED BY <1>2, <1>3, <1>4

\* The loop of mergeEnrichment, sentence by sentence.
Merges(w, existing, addition) ==
  /\ w[0] = existing
  /\ \A i \in 1 .. Len(addition) :
       w[i] = IF TokensOf(addition[i]) \intersect Covered(w[i - 1]) = {}
              THEN w[i - 1] \union {addition[i]}
              ELSE w[i - 1]

LEMMA MergeSteps ==
  ASSUME NEW existing, NEW addition \in Seq(Ranges)
  PROVE  \E w : /\ Merges(w, existing, addition)
                /\ mergeEnrichment(existing, addition) = w[Len(addition)]
<1> DEFINE n == Len(addition)
           Body(w, i) == IF i = 0 THEN existing
                         ELSE IF TokensOf(addition[i]) \intersect Covered(w[i - 1]) = {}
                         THEN w[i - 1] \union {addition[i]}
                         ELSE w[i - 1]
           IsMerged(w) == w = [i \in 0 .. n |-> Body(w, i)]
           Fits(w, k) == \A i \in 0 .. n : i < k => w[i] = Body(w, i)
           Bad == {k \in Nat : ~ \E w : Fits(w, k)}
<1>1. n \in Nat
  OBVIOUS
<1>2. \A v, w, i : i = 0 \/ v[i - 1] = w[i - 1] => Body(v, i) = Body(w, i)
  OBVIOUS
<1>3. mergeEnrichment(existing, addition) = (CHOOSE w : IsMerged(w))[n]
  BY DEF mergeEnrichment
<1>4. \A w : Merges(w, existing, addition) <=> \A i \in 0 .. n : w[i] = Body(w, i)
  <2> SUFFICES ASSUME NEW w
               PROVE  Merges(w, existing, addition) <=> \A i \in 0 .. n : w[i] = Body(w, i)
    OBVIOUS
  <2>1. 0 \in 0 .. n /\ \A i \in 1 .. n : i \in 0 .. n /\ i # 0
    BY <1>1
  <2>2. \A i \in 0 .. n : i = 0 \/ i \in 1 .. n
    BY <1>1
  <2> QED BY <2>1, <2>2 DEF Merges
<1> HIDE DEF n, Body
<1>5. Bad = {}
  <2> SUFFICES ASSUME Bad # {} PROVE FALSE
    OBVIOUS
  <2>1. PICK k \in Bad : \A m \in Bad : k <= m
    <3>1. Bad \in SUBSET Nat
      OBVIOUS
    <3> HIDE DEF Bad
    <3> QED BY <3>1, LeastNatural
  <2>2. k \in Nat
    BY <2>1
  <2>3. k # 0
    <3>1. Fits({}, 0)
      BY <1>1
    <3> QED BY <2>1, <3>1
  <2>4. PICK w : Fits(w, k - 1)
    <3> DEFINE m == k - 1
    <3>1. m \in Nat /\ m < k
      BY <2>2, <2>3
    <3>2. m \notin Bad
      <4> HIDE DEF m, Bad
      <4> QED BY <2>1, <2>2, <3>1
    <3>3. \E w : Fits(w, m)
      BY <3>1, <3>2
    <3> QED BY <3>3
  <2> DEFINE v == [i \in 0 .. n |-> Body(w, i)]
  <2>5. ASSUME NEW i \in 0 .. n, i < k PROVE v[i] = Body(v, i)
    <3>1. v[i] = Body(w, i)
      OBVIOUS
    <3>2. ASSUME i # 0 PROVE v[i - 1] = w[i - 1]
      <4>1. i - 1 \in 0 .. n /\ i - 1 < k - 1
        BY <1>1, <2>2, <2>5, <3>2
      <4>2. v[i - 1] = Body(w, i - 1)
        BY <4>1
      <4> QED BY <2>4, <4>1, <4>2
    <3> HIDE DEF v
    <3>3. Body(v, i) = Body(w, i)
      BY <1>2, <3>2
    <3> QED BY <3>1, <3>3
  <2>6. Fits(v, k)
    BY <2>5
  <2> QED BY <2>1, <2>6
<1>6. PICK w : \A i \in 0 .. n : w[i] = Body(w, i)
  <2> DEFINE k == n + 1
  <2>1. k \in Nat
    BY <1>1
  <2>2. PICK w : Fits(w, k)
    BY <1>5, <2>1
  <2>3. \A i \in 0 .. n : i < k
    BY <1>1
  <2> QED BY <2>2, <2>3
<1> DEFINE v == [i \in 0 .. n |-> w[i]]
<1>7. ASSUME NEW i \in 0 .. n PROVE v[i] = Body(v, i)
  <2>1. ASSUME i # 0 PROVE v[i - 1] = w[i - 1]
    <3>1. i - 1 \in 0 .. n
      BY <1>1, <2>1
    <3> QED BY <3>1
  <2>2. v[i] = w[i] /\ w[i] = Body(w, i)
    BY <1>6
  <2> HIDE DEF v
  <2> QED BY <1>2, <2>1, <2>2
<1>8. v = [i \in 0 .. n |-> Body(v, i)]
  <2>1. v = [i \in 0 .. n |-> v[i]]
    OBVIOUS
  <2> HIDE DEF v
  <2> QED BY <1>7, <2>1
<1> HIDE DEF v
<1>9. IsMerged(CHOOSE x : IsMerged(x))
  <2>1. IsMerged(v)
    BY <1>8
  <2> HIDE DEF IsMerged
  <2> QED BY <2>1
<1> DEFINE merged == CHOOSE x : IsMerged(x)
<1>10. merged = [i \in 0 .. n |-> Body(merged, i)]
  BY <1>9
<1> HIDE DEF merged
<1>11. \A i \in 0 .. n : merged[i] = Body(merged, i)
  BY <1>10
<1>12. Merges(merged, existing, addition)
  BY <1>4, <1>11
<1> QED BY <1>3, <1>12 DEF merged, n

\* What the loop has by each sentence: all it had before, nothing that was not
\* there or offered, no overlap with what it took, and of each sentence it has
\* passed either the sentence or one it overlaps.
MergedSoFar(m, existing, addition, i) ==
  /\ existing \subseteq m
  /\ m \subseteq existing \union {addition[j] : j \in 1 .. i}
  /\ \A s \in m \ existing : \A t \in m \ {s} : ~Overlap(s, t)
  /\ \A j \in 1 .. i : \E t \in m : t = addition[j] \/ Overlap(addition[j], t)

LEMMA MergeStepKeeps ==
  ASSUME NEW existing \in SUBSET Ranges, NEW addition \in Seq(Ranges),
         NEW i \in 1 .. Len(addition), NEW m, NEW new,
         MergedSoFar(m, existing, addition, i - 1),
         new = IF TokensOf(addition[i]) \intersect Covered(m) = {}
               THEN m \union {addition[i]} ELSE m
  PROVE  MergedSoFar(new, existing, addition, i)
<1> DEFINE s == addition[i]
           k == i - 1
<1>1. i \in Nat /\ k \in Nat /\ s \in Ranges /\ \A j \in 1 .. i : j \in 1 .. k \/ j = i
  OBVIOUS
<1>2. \A j \in 1 .. k : j \in 1 .. i /\ addition[j] \in Ranges
  OBVIOUS
<1>3. i \in 1 .. i
  OBVIOUS
<1>4. MergedSoFar(m, existing, addition, k)
  OBVIOUS
<1> HIDE DEF k, s
<1>5. m \in SUBSET Ranges
  BY <1>2, <1>4 DEF MergedSoFar
<1>6. new \subseteq m \union {s} /\ m \subseteq new
  BY DEF s
<1>7. existing \subseteq new
  BY <1>4, <1>6 DEF MergedSoFar
<1>8. new \subseteq existing \union {addition[j] : j \in 1 .. i}
  <2>1. m \subseteq existing \union {addition[j] : j \in 1 .. i}
    BY <1>2, <1>4 DEF MergedSoFar
  <2>2. s \in {addition[j] : j \in 1 .. i}
    BY <1>3 DEF s
  <2> QED BY <1>6, <2>1, <2>2
<1>9. \A t \in new \ existing : \A u \in new \ {t} : ~Overlap(t, u)
  <2>1. CASE TokensOf(s) \intersect Covered(m) = {}
    <3>1. new = m \union {s}
      BY <2>1 DEF s
    <3>2. \A t \in m : ~Overlap(s, t) /\ ~Overlap(t, s)
      BY <1>1, <1>5, <2>1, OverlapShares
    <3>3. \A t \in m \ existing : \A u \in m \ {t} : ~Overlap(t, u)
      BY <1>4 DEF MergedSoFar
    <3> QED BY <3>1, <3>2, <3>3
  <2>2. CASE ~(TokensOf(s) \intersect Covered(m) = {})
    <3>1. new = m
      BY <2>2 DEF s
    <3> QED BY <1>4, <3>1 DEF MergedSoFar
  <2> QED BY <2>1, <2>2
<1>10. ASSUME NEW j \in 1 .. i
       PROVE  \E t \in new : t = addition[j] \/ Overlap(addition[j], t)
  <2>1. CASE j \in 1 .. k
    <3>1. PICK t \in m : t = addition[j] \/ Overlap(addition[j], t)
      BY <1>4, <2>1 DEF MergedSoFar
    <3> QED BY <1>6, <3>1
  <2>2. CASE j = i
    <3>1. CASE TokensOf(s) \intersect Covered(m) = {}
      BY <2>2, <3>1 DEF s
    <3>2. CASE ~(TokensOf(s) \intersect Covered(m) = {})
      <4>1. \E t \in m : Overlap(s, t)
        BY <1>1, <1>5, <3>2, OverlapShares
      <4> QED BY <1>6, <2>2, <4>1 DEF s
    <3> QED BY <3>1, <3>2
  <2> QED BY <1>1, <2>1, <2>2
<1> QED BY <1>7, <1>8, <1>9, <1>10 DEF MergedSoFar

\* In whatever order an answer holds its sentences, mergeEnrichment keeps a
\* choice of them that Keeps describes.
THEOREM MergeKeepsAChoice ==
  ASSUME NEW existing \in SUBSET Ranges, NEW addition \in Seq(Ranges)
  PROVE  \E kept : /\ Keeps(existing, ToSet(addition), kept)
                   /\ mergeEnrichment(existing, addition) = existing \union kept
<1> DEFINE n == Len(addition)
           result == mergeEnrichment(existing, addition)
<1>1. n \in Nat /\ ToSet(addition) = {addition[j] : j \in 1 .. n}
  BY DEF ToSet
<1>2. PICK w : Merges(w, existing, addition) /\ result = w[n]
  BY MergeSteps
<1> HIDE DEF result
<1>3. MergedSoFar(result, existing, addition, n)
  <2> DEFINE Good(i) == MergedSoFar(w[i], existing, addition, i)
             Bad == {i \in 0 .. n : ~Good(i)}
  <2> SUFFICES Bad = {}
    BY <1>1, <1>2
  <2> SUFFICES ASSUME Bad # {} PROVE FALSE
    OBVIOUS
  <2>1. PICK i \in Bad : \A j \in Bad : i <= j
    <3>1. Bad \in SUBSET Nat
      BY <1>1
    <3> HIDE DEF Bad
    <3> QED BY <3>1, LeastNatural
  <2>2. Good(0)
    <3>1. w[0] = existing
      BY <1>2 DEF Merges
    <3> QED BY <3>1 DEF MergedSoFar
  <2>3. i \in 1 .. n /\ i # 0
    <3>1. i \in 0 .. n /\ i # 0
      BY <2>1, <2>2
    <3> QED BY <1>1, <3>1
  <2>4. Good(i - 1)
    <3> DEFINE k == i - 1
    <3>1. k \in 0 .. n /\ ~(i <= k)
      BY <1>1, <2>3
    <3>2. k \notin Bad
      <4> HIDE DEF k, Bad
      <4> QED BY <2>1, <3>1
    <3> QED BY <3>1, <3>2
  <2>5. w[i] = IF TokensOf(addition[i]) \intersect Covered(w[i - 1]) = {}
               THEN w[i - 1] \union {addition[i]} ELSE w[i - 1]
    BY <1>2, <2>3 DEF Merges
  <2>6. MergedSoFar(w[i], existing, addition, i)
    BY <2>3, <2>4, <2>5, MergeStepKeeps
  <2> QED BY <2>1, <2>6
<1> DEFINE kept == result \ existing
<1>4. result = existing \union kept /\ kept \subseteq ToSet(addition)
  BY <1>1, <1>3 DEF MergedSoFar
<1>5. \A s \in kept : \A t \in (existing \union kept) \ {s} : ~Overlap(s, t)
  BY <1>3, <1>4 DEF MergedSoFar
<1>6. ASSUME NEW s \in ToSet(addition) \ kept
      PROVE  \E t \in existing \union kept : Overlap(s, t)
  <2>1. PICK j \in 1 .. n : s = addition[j]
    BY <1>1
  <2>2. PICK t \in result : t = s \/ Overlap(s, t)
    BY <1>3, <2>1 DEF MergedSoFar
  <2>3. s \in Ranges
    BY <2>1
  <2>4. Overlap(s, s)
    BY <2>3, OverlapShares
  <2> QED BY <1>4, <2>2, <2>4
<1>7. Keeps(existing, ToSet(addition), kept)
  BY <1>4, <1>5, <1>6 DEF Keeps
<1> QED BY <1>4, <1>7 DEF result

\* An order of a set in which some of its elements come first.
LEMMA KeptFirst ==
  ASSUME NEW set \in SUBSET Ranges, NEW kept \in SUBSET set
  PROVE  \E addition \in Seq(Ranges) :
           /\ ToSet(addition) = set
           /\ \A i \in 1 .. Len(addition) : addition[i] \notin kept =>
                \A t \in kept : \E j \in 1 .. i - 1 : addition[j] = t
<1>1. IsFiniteSet(kept) /\ IsFiniteSet(set \ kept)
  <2>1. kept \subseteq Span /\ set \ kept \subseteq Span
    BY DEF Ranges
  <2> QED BY <2>1, SpansFinite, FS_Subset
<1>2. PICK m \in Nat : ExistsBijection(1 .. m, kept)
  BY <1>1, FS_NatBijection
<1>3. PICK l \in Nat : ExistsBijection(1 .. l, set \ kept)
  BY <1>1, FS_NatBijection
<1>4. PICK f \in [1 .. m -> kept] : \A t \in kept : \E j \in 1 .. m : f[j] = t
  BY <1>2 DEF ExistsBijection, Bijection, Surjection
<1>5. PICK g \in [1 .. l -> set \ kept] : \A t \in set \ kept : \E j \in 1 .. l : g[j] = t
  BY <1>3 DEF ExistsBijection, Bijection, Surjection
<1> DEFINE n == m + l
           addition == [i \in 1 .. n |-> IF i <= m THEN f[i] ELSE g[i - m]]
<1>6. n \in Nat
  OBVIOUS
<1>7. \A i \in 1 .. m : i \in 1 .. n /\ addition[i] = f[i]
  OBVIOUS
<1>8. ASSUME NEW i \in 1 .. l PROVE i + m \in 1 .. n /\ addition[i + m] = g[i]
  <2> DEFINE k == i + m
  <2>1. k \in 1 .. n /\ ~(k <= m) /\ k - m = i
    OBVIOUS
  <2>2. addition[k] = g[k - m]
    <3> HIDE DEF k
    <3> QED BY <2>1
  <2> QED BY <2>1, <2>2
<1>9. \A i \in 1 .. n : i \in 1 .. m \/ (~(i <= m) /\ i - m \in 1 .. l)
  OBVIOUS
<1>10. \A i \in 1 .. n :
         addition[i] \in set /\ (i <= m => addition[i] \in kept)
         /\ (~(i <= m) => addition[i] \notin kept)
  BY <1>9
<1>11. DOMAIN addition = 1 .. n
  OBVIOUS
<1> HIDE DEF addition, n
<1>12. addition \in Seq(Ranges) /\ Len(addition) = n
  <2>1. addition = [i \in 1 .. n |-> addition[i]]
    BY DEF addition
  <2>2. \A i \in 1 .. n : addition[i] \in set
    BY <1>10
  <2>3. \A i \in 1 .. n : addition[i] \in Ranges
    BY <2>2, Zenon
  <2>4. addition \in [1 .. n -> Ranges]
    BY <2>1, <2>3, Zenon
  <2>5. addition \in Seq(Ranges)
    BY <1>6, <2>4
  <2>6. Len(addition) = n
    BY <1>6, <1>11, <2>5
  <2> QED BY <2>5, <2>6
<1>13. ToSet(addition) = set
  <2>1. ToSet(addition) \subseteq set
    BY <1>10, <1>11 DEF ToSet
  <2>2. ASSUME NEW t \in set PROVE \E i \in 1 .. n : addition[i] = t
    BY <1>4, <1>5, <1>7, <1>8
  <2>3. set \subseteq ToSet(addition)
    BY <1>11, <2>2 DEF ToSet
  <2> QED BY <2>1, <2>3
<1>14. ASSUME NEW i \in 1 .. n, addition[i] \notin kept, NEW t \in kept
       PROVE  \E j \in 1 .. i - 1 : addition[j] = t
  <2>1. ~(i <= m)
    BY <1>10, <1>14
  <2>2. PICK j \in 1 .. m : f[j] = t
    BY <1>4
  <2>3. j \in 1 .. i - 1
    BY <1>6, <2>1
  <2> QED BY <1>7, <2>2, <2>3
<1> QED BY <1>12, <1>13, <1>14

\* Every choice that Keeps describes is what mergeEnrichment keeps for some
\* order of the sentences; so Merge leaves out no answer of the code and adds
\* none.
THEOREM ChoicesAreMerged ==
  ASSUME NEW existing \in SUBSET Ranges, NEW set \in SUBSET Ranges, NEW kept,
         Keeps(existing, set, kept)
  PROVE  \E addition \in Seq(Ranges) :
           /\ ToSet(addition) = set
           /\ mergeEnrichment(existing, addition) = existing \union kept
<1>1. kept \in SUBSET set
  BY DEF Keeps
<1>2. PICK addition \in Seq(Ranges) :
        /\ ToSet(addition) = set
        /\ \A i \in 1 .. Len(addition) : addition[i] \notin kept =>
             \A t \in kept : \E j \in 1 .. i - 1 : addition[j] = t
  BY <1>1, KeptFirst
<1> DEFINE n == Len(addition)
           result == mergeEnrichment(existing, addition)
<1>3. n \in Nat /\ set = {addition[j] : j \in 1 .. n}
  BY <1>2 DEF ToSet
<1>4. PICK w : Merges(w, existing, addition) /\ result = w[n]
  BY MergeSteps
<1> HIDE DEF result
<1> DEFINE Good(i) == /\ existing \subseteq w[i]
                      /\ w[i] \subseteq existing \union kept
                      /\ \A j \in 1 .. i : addition[j] \in kept => addition[j] \in w[i]
           Bad == {i \in 0 .. n : ~Good(i)}
<1>5. Good(0)
  BY <1>4 DEF Merges
<1>6. ASSUME NEW i \in 1 .. n, NEW k \in 0 .. n, k = i - 1, Good(k) PROVE Good(i)
  <2> DEFINE s == addition[i]
  <2>1. w[i] = IF TokensOf(s) \intersect Covered(w[k]) = {}
               THEN w[k] \union {s} ELSE w[k]
    BY <1>4, <1>6 DEF Merges
  <2>2. s \in set /\ s \in Ranges
    BY <1>3
  <2>3. w[k] \in SUBSET Ranges
    BY <1>1, <1>6
  <2>4. \A j \in 1 .. i : j \in 1 .. k \/ j = i
    BY <1>3, <1>6
  <2>5. \A t \in existing : t \in w[k]
    BY <1>6
  <2>6. CASE s \in kept
    <3>1. s \in w[i]
      <4>1. CASE TokensOf(s) \intersect Covered(w[k]) = {}
        BY <2>1, <4>1
      <4>2. CASE ~(TokensOf(s) \intersect Covered(w[k]) = {})
        <5>1. PICK t \in w[k] : Overlap(s, t)
          BY <2>2, <2>3, <4>2, OverlapShares
        <5>2. t \in existing \union kept
          BY <1>6
        <5>3. t = s
          BY <2>6, <5>1, <5>2 DEF Keeps
        <5> QED BY <2>1, <4>2, <5>3
      <4> QED BY <4>1, <4>2
    <3>2. w[k] \subseteq w[i] /\ w[i] \subseteq w[k] \union {s}
      BY <2>1
    <3>3. \A j \in 1 .. i : addition[j] \in kept => addition[j] \in w[i]
      BY <1>6, <2>4, <3>1, <3>2
    <3> HIDE DEF s
    <3> QED BY <1>6, <2>6, <3>2, <3>3
  <2>7. CASE s \notin kept
    <3>1. PICK t \in existing \union kept : Overlap(s, t)
      BY <2>2, <2>7 DEF Keeps
    <3>2. t \in w[k]
      <4>1. CASE t \in existing
        BY <2>5, <4>1
      <4>2. CASE t \in kept
        <5>1. PICK j \in 1 .. k : addition[j] = t
          BY <1>2, <1>6, <2>7, <4>2
        <5> QED BY <1>6, <4>2, <5>1
      <4> QED BY <4>1, <4>2
    <3>3. ~(TokensOf(s) \intersect Covered(w[k]) = {})
      BY <2>2, <2>3, <3>1, <3>2, OverlapShares
    <3>4. w[i] = w[k]
      BY <2>1, <3>3
    <3> QED BY <1>6, <2>4, <2>7, <3>4
  <2> QED BY <2>6, <2>7
<1>7. Bad = {}
  <2> SUFFICES ASSUME Bad # {} PROVE FALSE
    OBVIOUS
  <2>1. PICK i \in Bad : \A j \in Bad : i <= j
    <3>1. Bad \in SUBSET Nat
      BY <1>3
    <3> HIDE DEF Bad
    <3> QED BY <3>1, LeastNatural
  <2>2. i \in 0 .. n /\ ~Good(i)
    BY <2>1
  <2>3. i # 0
    BY <1>5, <2>2
  <2> DEFINE k == i - 1
  <2>4. i \in 1 .. n /\ k \in 0 .. n /\ ~(i <= k)
    BY <1>3, <2>2, <2>3
  <2> HIDE DEF k
  <2>5. Good(k)
    <3>1. k \notin Bad
      <4> HIDE DEF Bad
      <4> QED BY <2>1, <2>4
    <3> QED BY <2>4, <3>1
  <2> QED BY <1>6, <2>2, <2>4, <2>5 DEF k
<1>8. Good(n)
  BY <1>3, <1>7
<1>9. result = existing \union kept
  <2>1. kept \subseteq w[n]
    BY <1>1, <1>3, <1>8
  <2> QED BY <1>4, <1>8, <2>1
<1> QED BY <1>2, <1>9 DEF result

-----------------------------------------------------------------------------
(* The model client: types *)

\* A profile that is inserted is one, and what was there stays.
LEMMA InsertedIsTyped ==
  ASSUME LLMTypeOK, edition < MaxEditions, NEW conn \in Conn, Inserted(conn)
  PROVE  \E new \in Profile :
           /\ new.id = edition + 1
           /\ new.active = (profiles = {})
           /\ profiles' = profiles \union {new}
<1>1. PICK t \in NextMoments :
        profiles' = profiles \union
          {[id |-> edition + 1, created |-> t, active |-> profiles = {}, conn |-> conn]}
  BY DEF Inserted
<1> DEFINE new == [id |-> edition + 1, created |-> t, active |-> profiles = {},
                   conn |-> conn]
<1>2. edition + 1 \in Edition
  BY LLMClientAssumption DEF LLMTypeOK, Edition
<1>3. t \in Edition
  BY <1>1, <1>2 DEF NextMoments, Moments, LLMTypeOK, Profile
<1>4. new \in Profile
  BY <1>2, <1>3 DEF Profile
<1> QED BY <1>1, <1>4

\* Every connection the profile table can hand out is one, or none.
LEMMA ActiveConnections ==
  ASSUME LLMTypeOK
  PROVE  {p.conn : p \in Active} \union {NoConn} \subseteq Conn
<1>1. NoConn \in Conn
  BY DEF NoConn, Conn, Unset
<1>2. \A p \in Profile : p.conn \in Conn
  BY DEF Profile
<1> QED BY <1>1, <1>2 DEF LLMTypeOK, Active

\* A call that has just begun, or has never begun, is one.
LEMMA IdleIsTyped ==
  ASSUME NEW kind \in Kinds PROVE Idle(kind) \in Call
<1>1. NoConn \in Conn
  BY DEF NoConn, Conn, Unset
<1>2. 0 \in 0 .. MaxRetries
  BY LLMClientAssumption
<1>3. "idle" \in Steps /\ "none" \in Outcomes /\ "nothing" \in Replies \union {"nothing"}
  BY DEF Steps, Outcomes
<1> QED BY <1>1, <1>2, <1>3 DEF Idle, Call

\* How Begin, Resolve and Answer change the call of their caller: the other
\* calls stay, and the new one is a call.
LEMMA BeginTyped ==
  ASSUME LLMTypeOK, NEW c \in Callers, NEW kind \in Kinds, Begin(c, kind)
  PROVE  \E k \in Call :
           /\ call' = [call EXCEPT ![c] = k]
           /\ k.step = "resolve" /\ k.outcome = "none"
<1> DEFINE base == Idle(kind)
<1>1. base \in Call /\ base.outcome = "none"
  BY IdleIsTyped DEF Idle
<1>2. call' = [call EXCEPT ![c] = [base EXCEPT !.step = "resolve"]]
  BY DEF Begin
<1> HIDE DEF base
<1>3. [base EXCEPT !.step = "resolve"] \in Call
  BY <1>1 DEF Call, Steps
<1>4. /\ [base EXCEPT !.step = "resolve"].step = "resolve"
      /\ [base EXCEPT !.step = "resolve"].outcome = "none"
  BY <1>1 DEF Call
<1> QED BY <1>2, <1>3, <1>4

LEMMA ResolveTyped ==
  ASSUME LLMTypeOK, NEW c \in Callers, Resolve(c)
  PROVE  \E k \in Call :
           /\ call' = [call EXCEPT ![c] = k]
           /\ k.step = "first" /\ k.outcome = call[c].outcome
<1>1. PICK conn \in Conn : call' = [call EXCEPT ![c].step = "first", ![c].conn = conn]
  BY ActiveConnections DEF Resolve
<1> DEFINE k == [call[c] EXCEPT !.step = "first", !.conn = conn]
<1>2. call[c] \in Call
  BY DEF LLMTypeOK
<1>3. k \in Call /\ k.step = "first" /\ k.outcome = call[c].outcome
  BY <1>2 DEF Call, Steps
<1>4. call' = [call EXCEPT ![c] = k]
  BY <1>1, <1>2 DEF LLMTypeOK, Call
<1> QED BY <1>3, <1>4

\* An answer leaves the call at rest, in its second leg or before another
\* attempt, and only the end of a call has an outcome.
LEMMA AnswerTyped ==
  ASSUME LLMTypeOK, NEW c \in Callers, NEW answer \in Replies, Answer(c, answer)
  PROVE  \E k \in Call :
           /\ call' = [call EXCEPT ![c] = k]
           /\ \/ k.step = "idle"
              \/ /\ k.step = "second" /\ call[c].step = "first"
                 /\ k.outcome = call[c].outcome /\ k.conn = call[c].conn
              \/ k.step = "resolve" /\ k.outcome = call[c].outcome
           /\ k.kind = call[c].kind
           /\ k.step = "idle" =>
                /\ k.attempt = call[c].attempt /\ k.heard = answer
                /\ LET err == Decoded(k.kind, answer)
                   IN \/ err = "ok" /\ k.outcome = Succeed(k.kind, answer)
                      \/ err # "ok" /\ ~(isRetryable(Errors(c, err)) /\ MayRetry(c))
<1> DEFINE old == call[c]
           err == Decoded(old.kind, answer)
<1>1. old \in Call /\ call = [call EXCEPT ![c] = old]
  BY DEF LLMTypeOK
<1>2. ASSUME NEW outcome \in Outcomes, End(c, answer, outcome)
      PROVE  \E k \in Call :
               /\ call' = [call EXCEPT ![c] = k]
               /\ k.step = "idle" /\ k.kind = old.kind /\ k.attempt = old.attempt
               /\ k.heard = answer /\ k.outcome = outcome
  <2> DEFINE k == [old EXCEPT !.step = "idle", !.conn = NoConn, !.heard = answer,
                              !.outcome = outcome]
  <2>1. call' = [call EXCEPT ![c] = k]
    BY <1>2, <1>1 DEF End, LLMTypeOK, Call
  <2>2. NoConn \in Conn
    BY DEF NoConn, Conn, Unset
  <2>3. k \in Call
    BY <1>1, <2>2 DEF Call, Steps
  <2>4. /\ k.step = "idle" /\ k.kind = old.kind /\ k.attempt = old.attempt
        /\ k.heard = answer /\ k.outcome = outcome
    BY <1>1 DEF Call
  <2> QED BY <2>1, <2>3, <2>4
<1>3. CASE err = "ok" /\ End(c, answer, Succeed(old.kind, answer))
  <2>1. Succeed(old.kind, answer) \in Outcomes
    BY DEF Succeed, Outcomes
  <2> QED BY <1>2, <1>3, <2>1
<1>4. CASE err # "ok" /\ old.step = "first" /\ FallBack(c)
  <2> DEFINE k == [old EXCEPT !.step = "second"]
  <2>1. call' = [call EXCEPT ![c] = k]
    BY <1>4, <1>1 DEF FallBack, LLMTypeOK, Call
  <2>2. /\ k \in Call /\ k.step = "second" /\ k.kind = old.kind
        /\ k.outcome = old.outcome /\ k.conn = old.conn
    BY <1>1 DEF Call, Steps
  <2> QED BY <1>4, <2>1, <2>2
<1>5. CASE err # "ok" /\ MayRetry(c) /\ TryAgain(c)
  <2> DEFINE k == [old EXCEPT !.step = "resolve", !.attempt = old.attempt + 1]
  <2>1. call' = [call EXCEPT ![c] = k]
    BY <1>5, <1>1 DEF TryAgain, LLMTypeOK, Call
  <2>2. old.attempt + 1 \in 0 .. MaxRetries
    BY <1>1, <1>5, LLMClientAssumption DEF MayRetry, Call
  <2>3. k \in Call /\ k.step = "resolve" /\ k.kind = old.kind /\ k.outcome = old.outcome
    BY <1>1, <2>2 DEF Call, Steps
  <2> QED BY <2>1, <2>3
<1>6. CASE /\ err # "ok" /\ ~(isRetryable(Errors(c, err)) /\ MayRetry(c))
           /\ End(c, answer, GiveUp(old.kind))
  <2>1. GiveUp(old.kind) \in Outcomes
    BY DEF GiveUp, Outcomes
  <2> QED BY <1>2, <1>6, <2>1
<1> QED BY <1>3, <1>4, <1>5, <1>6 DEF Answer

\* Which profiles there are after an operation on them.
LEMMA SettingsTyped ==
  ASSUME LLMTypeOK, Settings
  PROVE  /\ profiles' \subseteq Profile /\ edition' \in Edition
         /\ Changed
<1>1. CASE CreateLLMProvider
  <2>1. PICK key \in {Unset, edition + 1}, force \in BOOLEAN :
          Inserted([base |-> edition + 1, key |-> key, force |-> force])
    BY <1>1 DEF CreateLLMProvider
  <2>2. edition + 1 \in Edition
    BY <1>1, LLMClientAssumption DEF CreateLLMProvider, LLMTypeOK, Edition
  <2>3. [base |-> edition + 1, key |-> key, force |-> force] \in Conn
    BY <2>2 DEF Conn
  <2>4. \E new \in Profile : profiles' = profiles \union {new}
    BY <1>1, <2>1, <2>3, InsertedIsTyped DEF CreateLLMProvider
  <2> QED BY <1>1, <2>2, <2>4 DEF CreateLLMProvider, LLMTypeOK
<1>2. ASSUME NEW p \in profiles, UpdateLLMProvider(p)
      PROVE  /\ profiles' \subseteq Profile /\ edition' \in Edition
             /\ Changed
  <2>1. PICK key \in {p.conn.key, edition + 1}, force \in BOOLEAN :
          profiles' = (profiles \ {p}) \union
            {[p EXCEPT !.conn = [base |-> edition + 1, key |-> key, force |-> force]]}
    BY <1>2 DEF UpdateLLMProvider
  <2> DEFINE conn == [base |-> edition + 1, key |-> key, force |-> force]
  <2>2. edition + 1 \in Edition
    BY <1>2, LLMClientAssumption DEF UpdateLLMProvider, LLMTypeOK, Edition
  <2>3. p \in Profile /\ p.conn.key \in Edition \union {Unset}
    BY DEF LLMTypeOK, Profile, Conn
  <2>4. conn \in Conn
    BY <2>2, <2>3 DEF Conn
  <2> HIDE DEF conn
  <2>5. [p EXCEPT !.conn = conn] \in Profile
    BY <2>3, <2>4 DEF Profile
  <2>6. profiles' = (profiles \ {p}) \union {[p EXCEPT !.conn = conn]}
    BY <2>1 DEF conn
  <2> QED BY <1>2, <2>2, <2>5, <2>6 DEF UpdateLLMProvider, LLMTypeOK
<1>3. \A p \in Profile, b \in BOOLEAN : [p EXCEPT !.active = b] \in Profile
  BY DEF Profile
<1>4. ASSUME NEW p \in profiles, DeleteLLMProvider(p)
      PROVE  /\ profiles' \subseteq Profile /\ edition' \in Edition
             /\ Changed
  BY <1>3, <1>4 DEF DeleteLLMProvider, LLMTypeOK, Newest, Activated
<1>5. ASSUME NEW p \in profiles, SetActiveLLMProvider(p)
      PROVE  /\ profiles' \subseteq Profile /\ edition' \in Edition
             /\ Changed
  BY <1>3, <1>5 DEF SetActiveLLMProvider, LLMTypeOK
<1> QED BY <1>1, <1>2, <1>4, <1>5 DEF Settings

\* A start leaves no call under way and seeds at most one profile.
LEMMA RestartTyped ==
  ASSUME LLMTypeOK, Restart
  PROVE  /\ call' = [c \in Callers |-> Idle("chunk")]
         /\ late' = [c \in Callers |-> 0]
         /\ edition' \in Edition
         /\ \/ UNCHANGED <<profiles, edition>>
            \/ /\ profiles = {} /\ edition' = edition + 1
               /\ \E new \in Profile : /\ new.id = edition + 1 /\ new.active = TRUE
                                       /\ profiles' = {new}
<1>1. CASE EnvConfigured /\ profiles = {} /\ edition < MaxEditions
  <2>1. Inserted([base |-> 1, key |-> 1, force |-> FALSE]) /\ edition' = edition + 1
    BY <1>1 DEF Restart, Seed
  <2>2. [base |-> 1, key |-> 1, force |-> FALSE] \in Conn
    BY LLMClientAssumption DEF Conn, Edition
  <2>3. edition + 1 \in Edition
    BY <1>1, LLMClientAssumption DEF LLMTypeOK, Edition
  <2> QED BY <1>1, <2>1, <2>2, <2>3, InsertedIsTyped DEF Restart
<1>2. CASE ~(EnvConfigured /\ profiles = {} /\ edition < MaxEditions)
  BY <1>2 DEF Restart, Seed, LLMTypeOK
<1> QED BY <1>1, <1>2

\* Types, for any number of callers, profiles and attempts: no call is tried
\* more than LLM_MAX_RETRIES times again.
THEOREM LLMTypeCorrect == LLMSpec => []LLMTypeOK
<1>1. LLMInit => LLMTypeOK
  <2> SUFFICES ASSUME LLMInit PROVE LLMTypeOK
    OBVIOUS
  <2>1. call \in [Callers -> Call]
    BY IdleIsTyped DEF LLMInit, Kinds
  <2>2. 1 \in Edition
    BY LLMClientAssumption DEF Edition
  <2>3. [base |-> 1, key |-> 1, force |-> FALSE] \in Conn
    BY <2>2 DEF Conn
  <2>4. \A conn \in Conn :
          [id |-> 1, created |-> 1, active |-> TRUE, conn |-> conn] \in Profile
    BY <2>2 DEF Profile
  <2>5. profiles \subseteq Profile
    BY <2>3, <2>4 DEF LLMInit
  <2> QED BY <2>1, <2>2, <2>5, LLMClientAssumption DEF LLMInit, LLMTypeOK
<1>2. LLMTypeOK /\ [LLMNext]_llmVars => LLMTypeOK'
  <2> SUFFICES ASSUME LLMTypeOK, [LLMNext]_llmVars PROVE LLMTypeOK'
    OBVIOUS
  <2>1. CASE Settings
    BY <2>1, SettingsTyped DEF LLMTypeOK, Changed
  <2>2. ASSUME NEW c \in Callers, NEW kind \in Kinds, Begin(c, kind) PROVE LLMTypeOK'
    BY <2>2, BeginTyped DEF LLMTypeOK, Begin
  <2>3. ASSUME NEW c \in Callers, Resolve(c) PROVE LLMTypeOK'
    BY <2>3, ResolveTyped DEF LLMTypeOK, Resolve
  <2>4. ASSUME NEW c \in Callers, NEW answer \in Replies, Answer(c, answer)
        PROVE  LLMTypeOK'
    <3>1. call' \in [Callers -> Call]
      BY <2>4, AnswerTyped DEF LLMTypeOK
    <3>2. late' \in [Callers -> Nat]
      BY <2>4 DEF LLMTypeOK, Answer
    <3> QED BY <2>4, <3>1, <3>2 DEF LLMTypeOK, Answer
  <2>5. CASE Restart
    <3>1. call' \in [Callers -> Call] /\ late' \in [Callers -> Nat]
      BY <2>5, RestartTyped, IdleIsTyped DEF Kinds
    <3>2. restarts' \in 0 .. MaxRestarts
      BY <2>5, LLMClientAssumption DEF Restart, LLMTypeOK
    <3>3. profiles' \subseteq Profile /\ edition' \in Edition
      BY <2>5, RestartTyped DEF LLMTypeOK
    <3> QED BY <3>1, <3>2, <3>3 DEF LLMTypeOK
  <2>6. CASE UNCHANGED llmVars
    BY <2>6 DEF LLMTypeOK, llmVars
  <2> QED BY <2>1, <2>2, <2>3, <2>4, <2>5, <2>6 DEF LLMNext, Work
<1> QED BY <1>1, <1>2, PTL DEF LLMSpec

-----------------------------------------------------------------------------
(* The model client: one active profile *)

\* Ids are handed out once, and of any profiles one is active: what every
\* operation on the table needs to find in order to leave it so.
ProfilesInv ==
  /\ \A p \in profiles : p.id <= edition
  /\ \A p, q \in profiles : p.id = q.id => p = q
  /\ profiles # {} => \E p \in profiles : Active = {p}

LEMMA CreateKeepsProfiles ==
  ASSUME LLMTypeOK, ProfilesInv, CreateLLMProvider PROVE ProfilesInv'
<1>1. PICK key \in {Unset, edition + 1}, force \in BOOLEAN :
        Inserted([base |-> edition + 1, key |-> key, force |-> force])
  BY DEF CreateLLMProvider
<1>2. edition + 1 \in Edition /\ edition \in Nat
  BY LLMClientAssumption DEF CreateLLMProvider, LLMTypeOK, Edition
<1>3. [base |-> edition + 1, key |-> key, force |-> force] \in Conn
  BY <1>2 DEF Conn
<1>4. PICK new \in Profile : /\ new.id = edition + 1
                             /\ new.active = (profiles = {})
                             /\ profiles' = profiles \union {new}
  BY <1>1, <1>3, InsertedIsTyped DEF CreateLLMProvider
<1>5. edition' = edition + 1
  BY DEF CreateLLMProvider
<1>6. \A p \in profiles : p.id \in Nat /\ p.id <= edition
  BY DEF LLMTypeOK, ProfilesInv, Profile, Edition
<1>7. \A p \in profiles' : p.id <= edition'
  BY <1>2, <1>4, <1>5, <1>6
<1>8. \A p, q \in profiles' : p.id = q.id => p = q
  <2>1. \A p \in profiles : p.id # new.id
    <3>1. ~(edition + 1 <= edition)
      BY <1>2
    <3> QED BY <1>4, <1>6, <3>1
  <2>2. \A p, q \in profiles : p.id = q.id => p = q
    BY DEF ProfilesInv
  <2>3. profiles' = profiles \union {new}
    BY <1>4
  <2> QED BY <2>1, <2>2, <2>3
<1>9. \E p \in profiles' : Active' = {p}
  <2> SUFFICES \E p \in profiles \union {new} :
                 {q \in profiles \union {new} : q.active} = {p}
    BY <1>4 DEF Active
  <2>1. CASE profiles = {}
    <3>1. profiles \union {new} = {new} /\ new.active = TRUE
      BY <2>1, <1>4
    <3>2. {q \in {new} : q.active} = {new}
      BY <3>1
    <3> QED BY <3>1, <3>2
  <2>2. CASE profiles # {}
    <3>1. PICK p \in profiles : Active = {p}
      BY <2>2 DEF ProfilesInv
    <3>2. new.active = FALSE
      BY <2>2, <1>4
    <3>3. {q \in profiles \union {new} : q.active} = {p}
      BY <3>1, <3>2 DEF Active
    <3> QED BY <3>3
  <2> QED BY <2>1, <2>2
<1> QED BY <1>7, <1>8, <1>9 DEF ProfilesInv

LEMMA UpdateKeepsProfiles ==
  ASSUME LLMTypeOK, ProfilesInv, NEW p \in profiles, UpdateLLMProvider(p)
  PROVE  ProfilesInv'
<1>1. PICK conn : profiles' = (profiles \ {p}) \union {[p EXCEPT !.conn = conn]}
  BY DEF UpdateLLMProvider
<1> DEFINE new == [p EXCEPT !.conn = conn]
<1>2. new.id = p.id /\ new.active = p.active
  BY DEF LLMTypeOK, Profile
<1>3. edition' = edition + 1 /\ edition \in Nat /\ \A q \in profiles : q.id \in Nat
  BY DEF UpdateLLMProvider, LLMTypeOK, Edition, Profile
<1> HIDE DEF new
<1>4. profiles' = (profiles \ {p}) \union {new}
  BY <1>1 DEF new
<1>5. \A q \in profiles' : q.id <= edition'
  BY <1>2, <1>3, <1>4 DEF ProfilesInv
<1>6. \A q, r \in profiles' : q.id = r.id => q = r
  BY <1>2, <1>4 DEF ProfilesInv
<1>7. \E q \in profiles' : Active' = {q}
  <2>1. PICK q \in profiles : Active = {q}
    BY DEF ProfilesInv
  <2>2. CASE q = p
    BY <2>1, <2>2, <1>2, <1>4 DEF Active
  <2>3. CASE q # p
    BY <2>1, <2>3, <1>2, <1>4 DEF Active
  <2> QED BY <2>2, <2>3
<1> QED BY <1>5, <1>6, <1>7 DEF ProfilesInv

LEMMA DeleteKeepsProfiles ==
  ASSUME LLMTypeOK, ProfilesInv, NEW p \in profiles, DeleteLLMProvider(p)
  PROVE  ProfilesInv'
<1> DEFINE rest == profiles \ {p}
<1>1. edition' = edition /\ edition \in Nat
  BY DEF DeleteLLMProvider, LLMTypeOK, Edition
<1>2. PICK q \in profiles : Active = {q}
  BY DEF ProfilesInv
<1>3. CASE (~p.active \/ rest = {}) /\ profiles' = rest
  <2>1. profiles' # {} => p \notin Active
    BY <1>3 DEF Active
  <2>2. profiles' # {} => q # p
    BY <2>1, <1>2
  <2>3. profiles' # {} => q \in profiles' /\ Active' = {q}
    BY <2>2, <1>2, <1>3 DEF Active
  <2> QED BY <1>1, <1>3, <2>3 DEF ProfilesInv
<1>4. ASSUME p.active, NEW heir \in Newest(rest), profiles' = Activated(rest, heir)
      PROVE  ProfilesInv'
  <2> DEFINE new == [heir EXCEPT !.active = TRUE]
  <2>1. heir \in rest /\ heir \in Profile
    BY DEF Newest, LLMTypeOK
  <2>2. new.id = heir.id /\ new.active = TRUE
    BY <2>1 DEF Profile
  <2>3. profiles' = (rest \ {heir}) \union {new}
    BY <1>4 DEF Activated
  <2> HIDE DEF new
  <2>4. q = p
    BY <1>2, <1>4 DEF Active
  <2>5. \A r \in rest : ~r.active
    BY <1>2, <2>4 DEF Active
  <2>6. Active' = {new}
    BY <2>2, <2>3, <2>5 DEF Active
  <2>7. \A r \in profiles' : r.id <= edition'
    BY <1>1, <2>1, <2>2, <2>3 DEF ProfilesInv
  <2>8. \A r, s \in profiles' : r.id = s.id => r = s
    BY <2>1, <2>2, <2>3 DEF ProfilesInv
  <2> QED BY <2>3, <2>6, <2>7, <2>8 DEF ProfilesInv
<1> QED BY <1>3, <1>4 DEF DeleteLLMProvider

LEMMA SetActiveKeepsProfiles ==
  ASSUME LLMTypeOK, ProfilesInv, NEW p \in profiles, SetActiveLLMProvider(p)
  PROVE  ProfilesInv'
<1> DEFINE set(q) == [q EXCEPT !.active = (q.id = p.id)]
<1>1. profiles' = {set(q) : q \in profiles} /\ edition' = edition
  BY DEF SetActiveLLMProvider
<1>2. \A q \in profiles : set(q).id = q.id /\ set(q).active = (q.id = p.id)
  BY DEF LLMTypeOK, Profile
<1> HIDE DEF set
<1>3. \A q \in profiles' : q.id <= edition'
  BY <1>1, <1>2 DEF ProfilesInv
<1>4. \A q, r \in profiles' : q.id = r.id => q = r
  BY <1>1, <1>2 DEF ProfilesInv
<1>5. Active' = {set(p)}
  <2>1. set(p) \in profiles' /\ set(p).active
    BY <1>1, <1>2
  <2>2. \A q \in profiles : set(q).active => q = p
    BY <1>2 DEF ProfilesInv
  <2>3. \A r \in profiles' : r.active => r = set(p)
    BY <1>1, <2>2
  <2> QED BY <2>1, <2>3 DEF Active
<1> QED BY <1>1, <1>3, <1>4, <1>5 DEF ProfilesInv

\* "An active connection always exists while any profile remains", and never
\* two, through any sequence of creations, updates, deletions, activations
\* and restarts.
THEOREM OneActiveProfile == LLMSpec => []OneActive
<1>1. LLMInit => ProfilesInv
  <2> SUFFICES ASSUME LLMInit PROVE ProfilesInv
    OBVIOUS
  <2>1. CASE EnvConfigured
    <3> DEFINE seeded == [id |-> 1, created |-> 1, active |-> TRUE,
                          conn |-> [base |-> 1, key |-> 1, force |-> FALSE]]
    <3>1. profiles = {seeded} /\ seeded.id = 1 /\ seeded.active = TRUE /\ edition = 1
      BY <2>1 DEF LLMInit
    <3> HIDE DEF seeded
    <3> QED BY <3>1 DEF ProfilesInv, Active
  <2>2. CASE ~EnvConfigured
    BY <2>2 DEF LLMInit, ProfilesInv
  <2> QED BY <2>1, <2>2
<1>2. LLMTypeOK /\ ProfilesInv /\ [LLMNext]_llmVars => ProfilesInv'
  <2> SUFFICES ASSUME LLMTypeOK, ProfilesInv, [LLMNext]_llmVars PROVE ProfilesInv'
    OBVIOUS
  <2>1. ASSUME UNCHANGED <<profiles, edition>> PROVE ProfilesInv'
    BY <2>1 DEF ProfilesInv, Active
  <2>2. CASE Settings
    BY <2>2, CreateKeepsProfiles, UpdateKeepsProfiles, DeleteKeepsProfiles,
       SetActiveKeepsProfiles DEF Settings
  <2>3. ASSUME NEW c \in Callers, Work(c) \/ \E kind \in Kinds : Begin(c, kind)
        PROVE  ProfilesInv'
    BY <2>1, <2>3 DEF Work, Resolve, Answer, Begin
  <2>4. CASE Restart
    <3>1. ASSUME profiles = {}, edition' = edition + 1,
                 NEW new \in Profile, new.id = edition + 1, new.active = TRUE,
                 profiles' = {new}
          PROVE  ProfilesInv'
      <4>1. edition \in Nat
        BY DEF LLMTypeOK, Edition
      <4> QED BY <3>1, <4>1 DEF ProfilesInv, Active
    <3> QED BY <2>1, <2>4, <3>1, RestartTyped
  <2>5. CASE UNCHANGED llmVars
    BY <2>1, <2>5 DEF llmVars
  <2> QED BY <2>2, <2>3, <2>4, <2>5 DEF LLMNext
<1>3. ProfilesInv => OneActive
  BY FS_Singleton DEF ProfilesInv, OneActive
<1> QED BY <1>1, <1>2, <1>3, LLMTypeCorrect, PTL DEF LLMSpec

-----------------------------------------------------------------------------
(* The model client: calls *)

\* The connection of a call is an active one, or none could be read.
Current(conn) == conn \in {p.conn : p \in Active} \union {NoConn}

\* A call that goes on has no outcome yet.
CallsInv == \A c \in Callers : call[c].step # "idle" => call[c].outcome = "none"

\* A connection that is no longer active is used once in each leg of the call
\* that has read it.
LateInv ==
  \A c \in Callers :
    /\ late[c] <= 2
    /\ call[c].step = "first" /\ ~Current(call[c].conn) => late[c] = 0
    /\ call[c].step = "second" /\ ~Current(call[c].conn) => late[c] <= 1

\* What is left of an answer that is no good: of those that are not worth
\* another attempt, none is a rate limit, an outage or a torn answer.
LEMMA FinalErrors ==
  ASSUME NEW c \in Callers, NEW answer \in Replies, call[c].kind # "translate",
         Decoded(call[c].kind, answer) # "ok",
         ~isRetryable(Errors(c, Decoded(call[c].kind, answer)))
  PROVE  answer \in FinalAnswers \union {"lost"}
<1> DEFINE err == Decoded(call[c].kind, answer)
           errs == Errors(c, err)
<1>1. err = answer /\ answer # "good"
  BY DEF Decoded
<1>2. 1 \in DOMAIN errs /\ errs[1] = err
  BY DEF Errors
<1>3. err \notin Retryable
  BY <1>2 DEF isRetryable
<1> QED BY <1>1, <1>3 DEF Retryable, Replies, Contents, FinalAnswers

\* How a step changes the calls: not at all, by one caller's step, or by
\* ending all of them.
LEMMA CallSteps ==
  ASSUME LLMTypeOK, [LLMNext]_llmVars
  PROVE  \/ UNCHANGED call
         \/ \E c \in Callers, kind \in Kinds : Begin(c, kind)
         \/ \E c \in Callers : Resolve(c)
         \/ \E c \in Callers, answer \in Replies : Answer(c, answer)
         \/ Restart
BY SettingsTyped DEF LLMNext, Work, llmVars, Changed

LEMMA CallsInvKept ==
  ASSUME LLMTypeOK, CallsInv, [LLMNext]_llmVars PROVE CallsInv'
<1>1. CASE UNCHANGED call
  BY <1>1 DEF CallsInv
<1>2. ASSUME NEW c \in Callers, NEW kind \in Kinds, Begin(c, kind) PROVE CallsInv'
  BY <1>2, BeginTyped DEF CallsInv, Begin, LLMTypeOK
<1>3. ASSUME NEW c \in Callers, Resolve(c) PROVE CallsInv'
  <2>1. call[c].outcome = "none"
    BY <1>3 DEF Resolve, CallsInv
  <2> QED BY <1>3, <2>1, ResolveTyped DEF CallsInv, LLMTypeOK
<1>4. ASSUME NEW c \in Callers, NEW answer \in Replies, Answer(c, answer)
      PROVE  CallsInv'
  <2>1. PICK k \in Call :
          /\ call' = [call EXCEPT ![c] = k]
          /\ \/ k.step = "idle"
             \/ /\ k.step = "second" /\ call[c].step = "first"
                /\ k.outcome = call[c].outcome
             \/ k.step = "resolve" /\ k.outcome = call[c].outcome
    BY <1>4, AnswerTyped
  <2>2. call[c].outcome = "none" /\ call[c].step \in {"first", "second"}
    BY <1>4 DEF Answer, CallsInv
  <2>3. call'[c] = k /\ \A d \in Callers \ {c} : call'[d] = call[d]
    BY <2>1 DEF LLMTypeOK
  <2> QED BY <2>1, <2>2, <2>3 DEF CallsInv
<1>5. CASE Restart
  BY <1>5, RestartTyped DEF CallsInv, Idle
<1> QED BY <1>1, <1>2, <1>3, <1>4, <1>5, CallSteps

LEMMA LateInvKept ==
  ASSUME LLMTypeOK, LateInv, [LLMNext]_llmVars PROVE LateInv'
<1> DEFINE Lates(c) ==
             /\ late[c] <= 2
             /\ call[c].step = "first" /\ ~Current(call[c].conn) => late[c] = 0
             /\ call[c].step = "second" /\ ~Current(call[c].conn) => late[c] <= 1
<1> SUFFICES ASSUME NEW d \in Callers PROVE Lates(d)'
  BY DEF LateInv
<1>1. Lates(d) /\ late[d] \in Nat
  BY DEF LateInv, LLMTypeOK
<1>2. CASE Settings \/ Restart
  <2>1. late'[d] = 0
    BY <1>2, SettingsTyped, RestartTyped DEF Changed
  <2> QED BY <2>1
<1>3. ASSUME UNCHANGED profiles PROVE \A conn : Current(conn)' = Current(conn)
  BY <1>3 DEF Current, Active
<1>4. ASSUME UNCHANGED profiles, call'[d] = call[d], late'[d] = late[d] PROVE Lates(d)'
  BY <1>1, <1>3, <1>4
<1>5. ASSUME NEW c \in Callers, NEW kind \in Kinds, Begin(c, kind) PROVE Lates(d)'
  <2>1. UNCHANGED <<profiles, late>>
    BY <1>5 DEF Begin
  <2>2. call'[d] = call[d] \/ call'[d].step = "resolve"
    BY <1>5 DEF Begin, Idle, LLMTypeOK
  <2> QED BY <1>1, <1>4, <2>1, <2>2
<1>6. ASSUME NEW c \in Callers, Resolve(c) PROVE Lates(d)'
  <2>1. PICK conn \in {p.conn : p \in Active} \union {NoConn} :
          call' = [call EXCEPT ![c].step = "first", ![c].conn = conn]
    BY <1>6 DEF Resolve
  <2>2. UNCHANGED <<profiles, late>>
    BY <1>6 DEF Resolve
  <2>3. CASE d = c
    <3>1. call'[c].step = "first" /\ call'[c].conn = conn
      BY <2>1 DEF LLMTypeOK, Call
    <3>2. Current(conn)'
      BY <1>3, <2>2 DEF Current
    <3> QED BY <1>1, <2>2, <2>3, <3>1, <3>2
  <2>4. CASE d # c
    <3>1. call'[d] = call[d]
      BY <2>1, <2>4 DEF LLMTypeOK
    <3> QED BY <1>4, <2>2, <3>1
  <2> QED BY <2>3, <2>4
<1>7. ASSUME NEW c \in Callers, NEW answer \in Replies, Answer(c, answer)
      PROVE  Lates(d)'
  <2>1. /\ UNCHANGED profiles /\ call[c].step \in {"first", "second"}
        /\ late' = IF Current(call[c].conn) THEN late ELSE [late EXCEPT ![c] = @ + 1]
    BY <1>7 DEF Answer, Current
  <2>2. PICK k \in Call :
          /\ call' = [call EXCEPT ![c] = k]
          /\ \/ k.step \in {"idle", "resolve"}
             \/ k.step = "second" /\ call[c].step = "first" /\ k.conn = call[c].conn
    BY <1>7, AnswerTyped
  <2>3. CASE d = c
    <3>1. call'[c] = k
      BY <2>2 DEF LLMTypeOK
    <3>2. late'[c] = IF Current(call[c].conn) THEN late[c] ELSE late[c] + 1
      BY <2>1 DEF LLMTypeOK
    <3>3. Current(k.conn)' = Current(k.conn)
      BY <1>3, <2>1
    <3>4. CASE Current(call[c].conn)
      BY <1>1, <2>2, <2>3, <3>1, <3>2, <3>3, <3>4
    <3>5. CASE ~Current(call[c].conn)
      <4>1. late'[c] <= 2 /\ (call[c].step = "first" => late'[c] <= 1)
        BY <1>1, <2>1, <2>3, <3>2, <3>5
      <4> QED BY <2>2, <2>3, <3>1, <4>1
    <3> QED BY <3>4, <3>5
  <2>4. CASE d # c
    <3>1. call'[d] = call[d] /\ late'[d] = late[d]
      BY <2>1, <2>2, <2>4 DEF LLMTypeOK
    <3> QED BY <1>4, <2>1, <3>1
  <2> QED BY <2>3, <2>4
<1>8. CASE UNCHANGED llmVars
  BY <1>4, <1>8 DEF llmVars
<1> QED BY <1>2, <1>5, <1>6, <1>7, <1>8 DEF LLMNext, Work

\* "A profile edited in the UI takes effect on the next call": however many
\* callers, attempts and calls there are, the table is followed after two more
\* requests.
THEOREM ReplacedConnectionsFade == LLMSpec => []ReplacedConnectionFadesOut
<1>1. LLMInit => LateInv
  BY DEF LLMInit, LateInv, Idle
<1>2. LateInv => ReplacedConnectionFadesOut
  BY DEF LateInv, ReplacedConnectionFadesOut
<1> QED BY <1>1, <1>2, LateInvKept, LLMTypeCorrect, PTL DEF LLMSpec

\* A text is given up only for an answer that would come again, for none at all
\* or after the last attempt, also behind a rejected schema and whatever was
\* done to the profiles between the attempts.
THEOREM GiveUpsAreJustified == LLMSpec => []GivesUpForAReason
<1>1. LLMInit => CallsInv /\ GivesUpForAReason
  BY DEF LLMInit, CallsInv, GivesUpForAReason, Idle
<1>2. LLMTypeOK /\ CallsInv /\ GivesUpForAReason /\ [LLMNext]_llmVars
        => GivesUpForAReason'
  <2> SUFFICES ASSUME LLMTypeOK, CallsInv, GivesUpForAReason, [LLMNext]_llmVars
               PROVE  GivesUpForAReason'
    OBVIOUS
  <2>1. ASSUME NEW c \in Callers, NEW k \in Call, call' = [call EXCEPT ![c] = k],
               k.outcome \notin {"without", "failed"}
        PROVE  GivesUpForAReason'
    BY <2>1 DEF GivesUpForAReason, LLMTypeOK
  <2>2. CASE UNCHANGED call
    BY <2>2 DEF GivesUpForAReason
  <2>3. ASSUME NEW c \in Callers, NEW kind \in Kinds, Begin(c, kind)
        PROVE  GivesUpForAReason'
    BY <2>1, <2>3, BeginTyped
  <2>4. ASSUME NEW c \in Callers, Resolve(c) PROVE GivesUpForAReason'
    <3>1. call[c].outcome = "none"
      BY <2>4 DEF Resolve, CallsInv
    <3> QED BY <2>1, <2>4, <3>1, ResolveTyped
  <2>5. ASSUME NEW c \in Callers, NEW answer \in Replies, Answer(c, answer)
        PROVE  GivesUpForAReason'
    <3> DEFINE err == Decoded(call[c].kind, answer)
    <3>1. PICK k \in Call :
            /\ call' = [call EXCEPT ![c] = k]
            /\ k.step = "idle" \/ k.outcome = call[c].outcome
            /\ k.kind = call[c].kind
            /\ k.step = "idle" =>
                 /\ k.attempt = call[c].attempt /\ k.heard = answer
                 /\ \/ err = "ok" /\ k.outcome = Succeed(k.kind, answer)
                    \/ err # "ok" /\ ~(isRetryable(Errors(c, err)) /\ MayRetry(c))
      BY <2>5, AnswerTyped
    <3>2. call[c].outcome = "none"
      BY <2>5 DEF Answer, CallsInv
    <3>3. call[c].attempt \in 0 .. MaxRetries
      BY DEF LLMTypeOK, Call
    <3>4. ASSUME k.outcome \in {"without", "failed"}, k.kind # "translate"
          PROVE  \/ k.attempt = MaxRetries
                 \/ k.heard \in FinalAnswers \union {"lost"}
      <4>1. k.step = "idle"
        BY <3>1, <3>2, <3>4
      <4>2. CASE err = "ok" /\ k.outcome = Succeed(k.kind, answer)
        BY <3>1, <3>4, <4>1, <4>2 DEF Succeed, Decoded, FinalAnswers, Contents
      <4>3. CASE err # "ok" /\ ~isRetryable(Errors(c, err))
        BY <3>1, <3>4, <4>1, <4>3, FinalErrors
      <4>4. CASE ~MayRetry(c)
        BY <3>1, <3>3, <3>4, <4>1, <4>4, LLMClientAssumption DEF MayRetry
      <4> QED BY <3>1, <4>1, <4>2, <4>3, <4>4
    <3>5. call'[c] = k /\ \A d \in Callers \ {c} : call'[d] = call[d]
      BY <3>1 DEF LLMTypeOK
    <3> QED BY <3>4, <3>5 DEF GivesUpForAReason
  <2>6. CASE Restart
    BY <2>6, RestartTyped DEF GivesUpForAReason, Idle
  <2> QED BY <2>2, <2>3, <2>4, <2>5, <2>6, CallSteps
<1> QED BY <1>1, <1>2, CallsInvKept, LLMTypeCorrect, PTL DEF LLMSpec

=============================================================================
