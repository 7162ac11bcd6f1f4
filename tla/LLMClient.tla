----------------------------- MODULE LLMClient -----------------------------
(***************************************************************************)
(* Calls of a language model: the profile table of                         *)
(* internal/store/llm_providers.go, the client of internal/llm that        *)
(* resolves the active profile for every call, and the callers that retry: *)
(* the summary, normalisation and chunk loops of internal/enrich and the   *)
(* single translation of a request.                                        *)
(*                                                                         *)
(* Covered: every operation on the profiles, at any point of a call; the   *)
(* one fallback from json_schema to json_object; the classification of     *)
(* every kind of answer, a joined error included; attempts and giving up;  *)
(* seeding from the environment at each start.                             *)
(*                                                                         *)
(* Abstracted: a connection is the edition of the profile its address and  *)
(* model come from and the edition its key comes from; an answer is one of *)
(* the classes the code tells apart; prompts, usage and the length of the  *)
(* pause between two attempts never steer a call.                          *)
(***************************************************************************)
EXTENDS Integers, FiniteSets, Sequences

CONSTANTS
  Callers,        \* goroutines with a call under way: workers and requests
  MaxRetries,     \* LLM_MAX_RETRIES
  EnvConfigured,  \* LLM_API_BASE_URL and LLM_MODEL are both set
  MaxEditions,    \* bound: profiles created or updated, seeding included
  MaxRestarts     \* bound: restarts of the server

ASSUME LLMClientAssumption ==
  /\ MaxRetries \in Nat
  /\ EnvConfigured \in BOOLEAN
  /\ MaxEditions \in Nat \ {0}
  /\ MaxRestarts \in Nat

VARIABLES
  profiles,  \* the llm_providers table
  edition,   \* creations and updates so far; numbers the profiles too
  call,      \* where each caller is
  late,      \* history: a caller's requests to a connection that is not active,
             \* since the table was last operated on
  restarts

llmVars == <<profiles, edition, call, late, restarts>>

Edition == 1 .. MaxEditions
Unset   == 0

Conn   == [base : Edition \union {Unset}, key : Edition \union {Unset},
           force : BOOLEAN]
NoConn == [base |-> Unset, key |-> Unset, force |-> FALSE]

Profile == [id : Edition, created : Edition, active : BOOLEAN, conn : Conn]

-----------------------------------------------------------------------------
(* The profile table *)

Active == {p \in profiles : p.active}

\* created_at is kept in whole seconds.
Moments == {p.created : p \in profiles}
NextMoments == {edition + 1} \union {m \in Moments : \A n \in Moments : n <= m}

\* created_at DESC, id DESC; an id is random.
Newest(rest) == {p \in rest : \A q \in rest : q.created <= p.created}

Activated(rest, p) == (rest \ {p}) \union {[p EXCEPT !.active = TRUE]}

\* An operation on the table comes between the steps of the calls.
Changed ==
  /\ late' = [c \in Callers |-> 0]
  /\ UNCHANGED <<call, restarts>>

Inserted(conn) ==
  \E t \in NextMoments :
    profiles' = profiles \union
      {[id |-> edition + 1, created |-> t, active |-> profiles = {}, conn |-> conn]}

\* The key may be left out.
CreateLLMProvider ==
  /\ edition < MaxEditions
  /\ \E key \in {Unset, edition + 1}, force \in BOOLEAN :
       Inserted([base |-> edition + 1, key |-> key, force |-> force])
  /\ edition' = edition + 1
  /\ Changed

\* A nil api_key leaves the stored one.
UpdateLLMProvider(p) ==
  /\ edition < MaxEditions
  /\ \E key \in {p.conn.key, edition + 1}, force \in BOOLEAN :
       profiles' = (profiles \ {p}) \union
         {[p EXCEPT !.conn = [base |-> edition + 1, key |-> key, force |-> force]]}
  /\ edition' = edition + 1
  /\ Changed

\* Mutant: the deletion does not look whether the profile was active.
DeleteWithoutPromoting(p) ==
  /\ profiles' = profiles \ {p}
  /\ UNCHANGED edition
  /\ Changed

\* One transaction: the newest of the others takes over.
DeleteLLMProvider(p) ==
  LET rest == profiles \ {p}
  IN /\ \/ /\ ~p.active \/ rest = {}
           /\ profiles' = rest
        \/ /\ p.active
           /\ \E heir \in Newest(rest) : profiles' = Activated(rest, heir)
     /\ UNCHANGED edition
     /\ Changed

SetActiveLLMProvider(p) ==
  /\ profiles' = {[q EXCEPT !.active = (q.id = p.id)] : q \in profiles}
  /\ UNCHANGED edition
  /\ Changed

-----------------------------------------------------------------------------
(* One request *)

\* The active profile is the only source of the connection.
resolveConn(conn) ==
  IF Active = {} THEN conn = NoConn ELSE \E p \in Active : conn = p.conn

Kinds == {"summary", "normalize", "chunk", "translate"}

\* Normalize asks for plain text.
schemaResponseFormat(kind, conn) ==
  IF kind = "normalize" THEN "text"
  ELSE IF conn.force THEN "json_object"
  ELSE "json_schema"

\* "lost": no answer, or none within the client's timeout.  "unsupported": the
\* 400 and 404 of isSchemaUnsupported; "refused": any other 4xx.  "truncated":
\* an envelope without a choice in it.  The last four carry content: none, not
\* the JSON asked for, JSON with an empty answer in it, and a good answer.
Contents == {"blank", "garbled", "hollow", "good"}
Replies  == {"lost", "oversized", "limited", "broken", "unsupported",
             "refused", "truncated"} \union Contents

\* Without a base URL no request can be made.
postChat(conn) == IF conn.base = Unset THEN {"lost"} ELSE Replies

\* What is wrong with an answer, once it is read for its kind.
Decoded(kind, answer) ==
  IF kind = "normalize" /\ answer \in Contents THEN "ok"
  ELSE IF kind = "translate" /\ answer = "hollow" THEN "blank"
  ELSE IF answer \in {"hollow", "good"} THEN "ok"
  ELSE answer

\* APIError.Retryable and DecodeError.Retryable.
Retryable == {"limited", "broken", "oversized", "truncated", "blank"}

\* errors.As takes the first error of a joined one that can be asked; a
\* failure of the connection cannot.
isRetryable(errs) ==
  \E i \in DOMAIN errs :
    /\ errs[i] \in Retryable
    /\ \A j \in 1 .. i - 1 : errs[j] = "lost"

isSchemaUnsupported(err) == err = "unsupported"

\* Mutant: the rejection of the schema is joined first.
RejectionFirst(c, err) ==
  IF call[c].step = "second" /\ call[c].kind = "chunk"
  THEN <<"unsupported", err>> ELSE <<err>>

\* complete joins the errors of both legs, the later one first.
Errors(c, err) ==
  IF call[c].step = "second" /\ call[c].kind = "chunk"
  THEN <<err, "unsupported">> ELSE <<err>>

-----------------------------------------------------------------------------
(* The callers *)

Steps    == {"idle", "resolve", "first", "second"}
Outcomes == {"none", "done", "without", "failed"}

Call == [step : Steps, kind : Kinds, attempt : 0 .. MaxRetries, conn : Conn,
         heard : Replies \union {"nothing"}, outcome : Outcomes]

Idle(kind) ==
  [step |-> "idle", kind |-> kind, attempt |-> 0, conn |-> NoConn,
   heard |-> "nothing", outcome |-> "none"]

Begin(c, kind) ==
  /\ call[c].step = "idle"
  /\ call' = [call EXCEPT ![c] = [Idle(kind) EXCEPT !.step = "resolve"]]
  /\ UNCHANGED <<profiles, edition, late, restarts>>

\* Mutant: a retry goes where the first attempt went.
ResolveOnce(c) ==
  /\ call[c].step = "resolve"
  /\ \E conn \in Conn :
       /\ IF call[c].attempt = 0 THEN resolveConn(conn) ELSE conn = call[c].conn
       /\ call' = [call EXCEPT ![c].step = "first", ![c].conn = conn]
  /\ UNCHANGED <<profiles, edition, late, restarts>>

\* The read can fail, which leaves the call without a connection.
Resolve(c) ==
  /\ call[c].step = "resolve"
  /\ \E conn \in {p.conn : p \in Active} \union {NoConn} :
       /\ resolveConn(conn) \/ conn = NoConn
       /\ call' = [call EXCEPT ![c].step = "first", ![c].conn = conn]
  /\ UNCHANGED <<profiles, edition, late, restarts>>

\* Summary and normalisation are not worth failing an article for.
GiveUp(kind) == IF kind \in {"summary", "normalize"} THEN "without" ELSE "failed"

\* An empty summary is none.
Succeed(kind, answer) ==
  IF kind = "summary" /\ answer = "hollow" THEN "without" ELSE "done"

End(c, answer, outcome) ==
  call' = [call EXCEPT ![c].step = "idle", ![c].conn = NoConn,
                       ![c].heard = answer, ![c].outcome = outcome]

\* Mutant: a failed attempt does not count.
TryForEver(c) ==
  call' = [call EXCEPT ![c].step = "resolve"]

\* After the pause the call is made anew, from its first leg.
TryAgain(c) ==
  call' = [call EXCEPT ![c].step = "resolve", ![c].attempt = @ + 1]

\* Mutant: one attempt too many.
MayRetryOnceMore(c) == call[c].kind # "translate" /\ call[c].attempt <= MaxRetries

MayRetry(c) == call[c].kind # "translate" /\ call[c].attempt < MaxRetries

FallBack(c) == call' = [call EXCEPT ![c].step = "second"]

\* The request is sent and answered.
Answer(c, answer) ==
  LET k   == call[c]
      err == Decoded(k.kind, answer)
      falls == /\ k.step = "first"
               /\ schemaResponseFormat(k.kind, k.conn) = "json_schema"
               /\ isSchemaUnsupported(err)
      again == isRetryable(Errors(c, err)) /\ MayRetry(c)
  IN /\ k.step \in {"first", "second"}
     /\ answer \in postChat(k.conn)
     /\ late' = IF k.conn \in {p.conn : p \in Active} \union {NoConn}
                THEN late ELSE [late EXCEPT ![c] = @ + 1]
     /\ \/ err = "ok" /\ End(c, answer, Succeed(k.kind, answer))
        \/ err # "ok" /\ falls /\ FallBack(c)
        \/ err # "ok" /\ ~falls /\ again /\ TryAgain(c)
        \/ err # "ok" /\ ~falls /\ ~again /\ End(c, answer, GiveUp(k.kind))
     /\ UNCHANGED <<profiles, edition, restarts>>

-----------------------------------------------------------------------------
\* seedLLMProvider: a table without a profile gets one from the environment.
Seed ==
  IF EnvConfigured /\ profiles = {} /\ edition < MaxEditions
  THEN /\ Inserted([base |-> 1, key |-> 1, force |-> FALSE])
       /\ edition' = edition + 1
  ELSE UNCHANGED <<profiles, edition>>

\* A shutdown cancels the calls, or a crash loses them.
Restart ==
  /\ restarts < MaxRestarts
  /\ restarts' = restarts + 1
  /\ call' = [c \in Callers |-> Idle("chunk")]
  /\ late' = [c \in Callers |-> 0]
  /\ Seed

\* The first start has seeded the table; edition 1 is the environment's.
LLMInit ==
  /\ edition = 1
  /\ profiles = IF EnvConfigured
                THEN {[id |-> 1, created |-> 1, active |-> TRUE,
                       conn |-> [base |-> 1, key |-> 1, force |-> FALSE]]}
                ELSE {}
  /\ call = [c \in Callers |-> Idle("chunk")]
  /\ late = [c \in Callers |-> 0]
  /\ restarts = 0

Settings ==
  \/ CreateLLMProvider
  \/ \E p \in profiles :
       UpdateLLMProvider(p) \/ DeleteLLMProvider(p) \/ SetActiveLLMProvider(p)

Work(c) == Resolve(c) \/ (\E answer \in Replies : Answer(c, answer))

LLMNext ==
  \/ Settings
  \/ \E c \in Callers : Work(c) \/ (\E kind \in Kinds : Begin(c, kind))
  \/ Restart

\* Every request has a timeout and every pause an end.
LLMSpec == LLMInit /\ [][LLMNext]_llmVars /\ \A c \in Callers : WF_llmVars(Work(c))

-----------------------------------------------------------------------------
(* Properties *)

\* The states have the types above; no call is tried more than MaxRetries
\* times again.
LLMTypeOK ==
  /\ profiles \subseteq Profile
  /\ edition \in Edition
  /\ call \in [Callers -> Call]
  /\ late \in [Callers -> Nat]
  /\ restarts \in 0 .. MaxRestarts

\* "An active connection always exists while any profile remains", and never
\* two: the partial unique index would refuse every later activation.
OneActive == profiles # {} => Cardinality(Active) = 1

\* "A profile edited in the UI takes effect on the next call": once the table
\* is left alone, a caller sends two more requests at most, the two legs of the
\* call that had read it, to a connection that was edited, deleted or switched
\* off, however many attempts and calls it goes on to make.
ReplacedConnectionFadesOut == \A c \in Callers : late[c] <= 2

\* Answers that the same request would be given again.
FinalAnswers == {"unsupported", "refused", "garbled", "hollow"}

\* The pool gives a text up after its last attempt, for an answer that would
\* come again, or, at once, because no answer came: a rate limit, an outage or
\* a torn answer costs an attempt in either leg, also behind a rejected schema.
GivesUpForAReason ==
  \A c \in Callers :
    LET k == call[c]
    IN k.outcome \in {"without", "failed"} /\ k.kind # "translate" =>
         k.attempt = MaxRetries \/ k.heard \in FinalAnswers \union {"lost"}

\* "A network/gateway truncation or a dropped stream, which a re-send commonly
\* fixes" is tried again: an answer that did not come is not final.
LostAnswersRetried ==
  \A c \in Callers :
    LET k == call[c]
    IN k.outcome \in {"without", "failed"} /\ k.kind # "translate" =>
         k.attempt = MaxRetries \/ k.heard \in FinalAnswers

\* Whatever the provider answers and whoever edits the profiles meanwhile, a
\* call comes to its end: the fallback and the retries cannot feed each other.
EveryCallEnds ==
  \A c \in Callers : (call[c].step # "idle") ~> (call[c].step = "idle")

\* "The LLM_* env vars are only a first-boot seed for the provider table": a
\* later start leaves the table as it is.
RestartKeepsProfiles == [][restarts' # restarts => profiles' = profiles]_llmVars

=============================================================================
