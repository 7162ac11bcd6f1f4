-------------------------- MODULE PublicationsProofs --------------------------
(***************************************************************************)
(* Proofs about Publications, for any number of articles, requests, links  *)
(* and restarts: its types, that a dead link stays dead, and who may take  *)
(* a live page.                                                            *)
(*                                                                         *)
(* They rest on one more invariant, Tokens: what the requests may know of  *)
(* the tokens of the table.  A publish request alone knows the one         *)
(* it writes, and a request that is to remove a page has seen its row go.  *)
(***************************************************************************)
EXTENDS Publications, TLAPS

Writing(q) == q.step \in {"write", "record"}

Listed(t) == \E row \in rows : row.token = t

\* What a request may know of the tokens of the table.
Knows(r) ==
  /\ req[r].token <= minted
  /\ req[r].step \in {"write", "record", "touch", "delete"} => req[r].article \in Articles
  /\ Writing(req[r]) =>
       /\ req[r].token # NoToken
       /\ ~Listed(req[r].token)
       /\ \A s \in Requests : req[s].token = req[r].token => s = r
  /\ req[r].step \in {"touch", "drop"} => ~Listed(req[r].token)
  /\ req[r].step = "delete" =>
       \A row \in rows : row.token = req[r].token => row.article = req[r].article

Tokens ==
  /\ \A row \in rows : row.token <= minted
  /\ \A r \in Requests : Knows(r)

-----------------------------------------------------------------------------
(* Types and tokens *)

\* The token of an article is that of its only row.
LEMMA OneRow ==
  ASSUME TypeOK, NEW a \in Articles
  PROVE  /\ RowOf(a) = {} => TokenOf(a) = NoToken
         /\ RowOf(a) # {} => \E row \in rows : /\ RowOf(a) = {row}
                                               /\ TokenOf(a) = row.token
                                               /\ row.token \in Token
<1>1. CASE RowOf(a) = {}
  BY <1>1 DEF TokenOf
<1>2. CASE RowOf(a) # {}
  <2>1. PICK row \in rows : row = (CHOOSE other \in RowOf(a) : TRUE) /\ row \in RowOf(a)
    BY <1>2 DEF RowOf
  <2>2. RowOf(a) = {row} /\ row.token \in Token
    BY <2>1 DEF RowOf, TypeOK, Row
  <2>3. TokenOf(a) = row.token
    BY <1>2, <2>1 DEF TokenOf
  <2> QED BY <1>2, <2>2, <2>3
<1> QED BY <1>1, <1>2

\* So a row with that token is the article's, and goes with its rows.
LEMMA RowsOfToken ==
  ASSUME TypeOK, Tokens, NEW a \in Articles
  PROVE  /\ TokenOf(a) \in Token \union {NoToken}
         /\ TokenOf(a) <= minted
         /\ \A row \in rows : row.token = TokenOf(a) => row.article = a
         /\ \A row \in rows \ RowOf(a) : row.token # TokenOf(a)
         /\ TokenOf(a) # NoToken => Listed(TokenOf(a))
<1>1. minted \in Nat /\ \A row \in rows : row.token \in Token /\ row.token # NoToken
  BY PublicationsAssumption DEF TypeOK, Row, Token, NoToken
<1>2. CASE RowOf(a) = {}
  <2>1. TokenOf(a) = NoToken
    BY <1>2, OneRow
  <2> QED BY <1>1, <2>1 DEF NoToken
<1>3. CASE RowOf(a) # {}
  <2>1. PICK row \in rows : RowOf(a) = {row} /\ TokenOf(a) = row.token
    BY <1>3, OneRow
  <2>2. \A other \in rows : other.token = row.token => other = row
    BY DEF TypeOK
  <2>3. row.article = a /\ row \in RowOf(a)
    BY <2>1 DEF RowOf
  <2> QED BY <1>1, <2>1, <2>2, <2>3 DEF Tokens, Listed
<1> QED BY <1>2, <1>3

\* A request that moves on while no row appears.
LEMMA Moves ==
  ASSUME TypeOK, Tokens, rows' \subseteq rows, minted <= minted', minted' \in Nat,
         NEW r \in Requests, NEW q \in Request, req' = [req EXCEPT ![r] = q],
         q.token <= minted',
         q.step \in {"write", "record", "touch", "delete"} => q.article \in Articles,
         \A s \in Requests \ {r} :
           Writing(q) \/ Writing(req[s]) => req[s].token # q.token,
         Writing(q) => q.token # NoToken /\ ~Listed(q.token),
         q.step \in {"touch", "drop"} => \A row \in rows' : row.token # q.token,
         q.step = "delete" => \A row \in rows' : row.token = q.token => row.article = q.article
  PROVE  Tokens'
<1>1. /\ minted \in Nat
      /\ \A row \in rows : row.token \in Nat
      /\ \A s \in Requests : req[s] \in Request /\ req[s].token \in Nat
  BY PublicationsAssumption DEF TypeOK, Row, Request, Token, NoToken
<1>2. \A row \in rows' : row.token <= minted'
  BY <1>1 DEF Tokens
<1>3. /\ req'[r] = q
      /\ \A s \in Requests : s # r => req'[s] = req[s]
  BY DEF TypeOK
<1>4. ASSUME NEW s \in Requests PROVE Knows(s)'
  <2>1. CASE s = r
    BY <1>3, <2>1 DEF Knows, Listed
  <2>2. CASE s # r
    <3>1. Knows(s)
      BY DEF Tokens
    <3>2. req[s].token <= minted'
      BY <1>1, <3>1 DEF Knows
    <3> QED BY <1>3, <2>2, <3>1, <3>2 DEF Knows, Listed, Writing
  <2> QED BY <2>1, <2>2
<1> QED BY <1>2, <1>4 DEF Tokens

\* Requests made from the idle one.
LEMMA IdleType ==
  /\ Idle \in Request /\ Idle.step = "idle" /\ Idle.token = NoToken
  /\ \A t \in Token \union {NoToken} :
       LET q == [Idle EXCEPT !.step = "drop", !.token = t]
       IN  q \in Request /\ q.step = "drop" /\ q.token = t
  /\ \A a \in Articles, t \in Token \union {NoToken}, step \in {"delete", "touch"} :
       LET q == [Idle EXCEPT !.step = step, !.article = a, !.token = t]
       IN  q \in Request /\ q.step = step /\ q.article = a /\ q.token = t
<1>1. Idle \in Request /\ Idle.step = "idle" /\ Idle.token = NoToken
  BY DEF Idle, Request, Step, Never, NoToken
<1>2. {"drop", "delete", "touch"} \subseteq Step
  BY DEF Step
<1>3. ASSUME NEW t \in Token \union {NoToken}
      PROVE  LET q == [Idle EXCEPT !.step = "drop", !.token = t]
             IN  q \in Request /\ q.step = "drop" /\ q.token = t
  BY <1>1, <1>2 DEF Request
<1>4. ASSUME NEW a \in Articles, NEW t \in Token \union {NoToken},
             NEW step \in {"delete", "touch"}
      PROVE  LET q == [Idle EXCEPT !.step = step, !.article = a, !.token = t]
             IN  q \in Request /\ q.step = step /\ q.article = a /\ q.token = t
  BY <1>1, <1>2 DEF Request
<1> QED BY <1>1, <1>3, <1>4

\* A request that is over.
LEMMA Finishes ==
  ASSUME TypeOK, Tokens, rows' \subseteq rows, minted' = minted,
         NEW r \in Requests, Finish(r)
  PROVE  Tokens' /\ req' \in [Requests -> Request]
<1>1. req' = [req EXCEPT ![r] = Idle] /\ minted' \in Nat /\ 0 <= minted'
  BY DEF Finish, TypeOK
<1>2. ASSUME NEW s \in Requests, Writing(req[s]) PROVE req[s].token # NoToken
  BY <1>2 DEF Tokens, Knows
<1>3. Tokens'
  <2> DEFINE q == Idle
  <2>0. minted <= minted' /\ NoToken <= minted'
    BY <1>1 DEF TypeOK, NoToken
  <2>1. /\ q \in Request /\ q.token <= minted' /\ q.step = "idle" /\ q.token = NoToken
    BY <2>0, IdleType
  <2>2. ~Writing(q)
    BY <2>1 DEF Writing
  <2> HIDE DEF q
  <2> QED BY <1>1, <1>2, <2>0, <2>1, <2>2, Moves DEF q
<1> QED BY <1>1, <1>3, IdleType DEF TypeOK

\* A request that goes on to remove the page of a row that is gone.
LEMMA Drops ==
  ASSUME TypeOK, Tokens, rows' \subseteq rows, minted' = minted,
         NEW r \in Requests, NEW t \in Token \union {NoToken}, Drop(r, t), t <= minted,
         \A row \in rows' : row.token # t,
         \A s \in Requests \ {r} : Writing(req[s]) => req[s].token # t
  PROVE  Tokens' /\ req' \in [Requests -> Request]
<1> DEFINE q == [Idle EXCEPT !.step = "drop", !.token = t]
<1>1. /\ q \in Request /\ q.step = "drop" /\ q.token = t
      /\ req' = [req EXCEPT ![r] = q]
  BY IdleType DEF Drop
<1> HIDE DEF q
<1>2. ~Writing(q) /\ minted' \in Nat /\ minted <= minted'
  BY <1>1 DEF Writing, TypeOK
<1>3. /\ q.token <= minted'
      /\ \A row \in rows' : row.token # q.token
      /\ \A s \in Requests \ {r} : Writing(q) \/ Writing(req[s]) => req[s].token # q.token
      /\ q.step \notin {"write", "record", "touch", "delete"}
  BY <1>1, <1>2
<1>4. Tokens'
  BY <1>1, <1>2, <1>3, Moves
<1> QED BY <1>1, <1>4 DEF TypeOK

-----------------------------------------------------------------------------
(* The steps *)

Inv == TypeOK /\ Tokens

\* Publishing: a token of its own, the file, then the row.
LEMMA StartKeeps ==
  ASSUME Inv, NEW r \in Requests, NEW a \in Articles, PublishStart(r, a)
  PROVE  Inv'
<1> USE DEF Inv, library
<1> DEFINE q == [step |-> "write", article |-> a, token |-> minted + 1,
                 expires |-> expiryFor(ttl)]
<1>1. expiryFor(ttl) \in Nat
  BY PublicationsAssumption DEF expiryFor, TypeOK, Never
<1>2. minted + 1 \in Token /\ minted + 1 \in 0 .. MaxTokens
  BY PublicationsAssumption DEF PublishStart, TypeOK, Token
<1>3. /\ q \in Request /\ q.step = "write" /\ q.token = minted + 1 /\ q.article = a
      /\ req' = [req EXCEPT ![r] = q]
  BY <1>1, <1>2 DEF PublishStart, Request, Step
<1> HIDE DEF q
<1>4. minted' = minted + 1 /\ rows' = rows
  BY DEF PublishStart
<1>5. minted + 1 # NoToken /\ ~Listed(minted + 1)
  <2>1. minted \in Nat /\ \A row \in rows : row.token <= minted /\ row.token \in Nat
    BY DEF TypeOK, Tokens, Row, Token
  <2> QED BY <2>1 DEF Listed, NoToken
<1>6. \A s \in Requests : req[s].token # minted + 1
  <2>1. ASSUME NEW s \in Requests PROVE req[s].token <= minted /\ req[s].token \in Nat
    BY DEF TypeOK, Tokens, Knows, Request, Token, NoToken
  <2> QED BY <2>1 DEF TypeOK
<1>7. Tokens'
  <2>1. minted' \in Nat /\ minted <= minted'
    BY <1>4 DEF TypeOK
  <2>2. /\ q.token <= minted' /\ rows' \subseteq rows /\ q.article \in Articles
        /\ q.token # NoToken /\ ~Listed(q.token)
        /\ \A s \in Requests \ {r} : req[s].token # q.token
        /\ q.step \notin {"touch", "drop"} /\ q.step # "delete"
    BY <1>3, <1>4, <1>5, <1>6, <2>1
  <2>3. req' = [req EXCEPT ![r] = q] /\ q \in Request /\ TypeOK /\ Tokens
    BY <1>3
  <2> HIDE DEF Inv
  <2> QED BY <2>1, <2>2, <2>3, Moves
<1>8. TypeOK'
  <2>1. pages' \subseteq 1 .. minted'
    BY <1>4 DEF PublishStart, TypeOK
  <2> QED BY <1>2, <1>3, <1>4, <2>1 DEF PublishStart, TypeOK
<1> QED BY <1>7, <1>8

LEMMA WriteKeeps ==
  ASSUME Inv, NEW r \in Requests, PublishWrite(r)
  PROVE  Inv'
<1> USE DEF Inv, library
<1>1. /\ req[r] \in Request /\ req[r].step = "write" /\ req[r].token \in 1 .. minted
      /\ Knows(r)
  BY DEF PublishWrite, TypeOK, Tokens, Knows, Request, Token, NoToken, Writing
<1>2. pages' \subseteq 1 .. minted /\ rows' = rows /\ minted' = minted
  BY <1>1 DEF PublishWrite, TypeOK
<1>3. CASE req' = [req EXCEPT ![r].step = "record"]
  <2> DEFINE q == [req[r] EXCEPT !.step = "record"]
  <2>1. /\ q \in Request /\ q.step = "record" /\ q.token = req[r].token
        /\ q.article = req[r].article /\ req' = [req EXCEPT ![r] = q]
    BY <1>1, <1>3 DEF Request, Step
  <2> HIDE DEF q
  <2>2. /\ minted' \in Nat /\ minted <= minted' /\ q.token <= minted' /\ q.article \in Articles
        /\ q.token # NoToken /\ ~Listed(q.token)
        /\ \A s \in Requests \ {r} : req[s].token # q.token
    BY <1>1, <1>2, <2>1 DEF Knows, Writing, TypeOK
  <2>3. Tokens'
    <3>1. /\ TypeOK /\ Tokens /\ rows' \subseteq rows
          /\ q.step \notin {"touch", "drop"} /\ q.step # "delete"
      BY <1>2, <2>1
    <3> HIDE DEF Inv
    <3> QED BY <2>1, <2>2, <3>1, Moves
  <2> QED BY <1>2, <2>1, <2>3 DEF PublishWrite, TypeOK
<1>4. CASE Finish(r)
  BY <1>2, <1>4, Finishes DEF PublishWrite, TypeOK
<1> QED BY <1>3, <1>4 DEF PublishWrite

\* A step that leaves the requests and the tokens, and may take rows away.
LEMMA Rest ==
  ASSUME Inv, rows' \subseteq rows, minted' = minted, req' = req
  PROVE  Tokens'
  BY DEF Inv, Tokens, Knows, Listed, Writing

\* A token that leaves the hands of its publish request becomes that of a row.
LEMMA RecordKeeps ==
  ASSUME Inv, NEW r \in Requests, PublishRecord(r)
  PROVE  Inv'
<1> USE DEF Inv, library
<1> DEFINE a   == req[r].article
           row == [token |-> req[r].token, article |-> a, expires |-> req[r].expires]
<1>1. /\ req[r] \in Request /\ req[r].step = "record" /\ a \in Articles /\ Knows(r)
      /\ req[r].token \in Token /\ ~Listed(req[r].token)
      /\ \A s \in Requests \ {r} : req[s].token # req[r].token
  BY DEF PublishRecord, TypeOK, Tokens, Knows, Request, NoToken, Writing
<1>2. row \in Row /\ row.token = req[r].token /\ row.article = a
  BY <1>1 DEF Row, Request
<1> HIDE DEF row
<1>3. minted' = minted /\ minted \in Nat /\ req[r].token <= minted
  BY <1>1 DEF PublishRecord, Knows, TypeOK
<1>4. CASE a \in present /\ ReplacePublication(a, row) /\ Removing(r, TokenOf(a))
  <2> DEFINE t == TokenOf(a)
             q == req'[r]
  <2>1. rows' = (rows \ RowOf(a)) \union {row}
    BY <1>4 DEF ReplacePublication
  <2>2. /\ t \in Token \union {NoToken} /\ t <= minted
        /\ \A other \in rows \ RowOf(a) : other.token # t
        /\ t # NoToken => Listed(t)
    BY <1>1, RowsOfToken
  <2> HIDE DEF t
  <2>3. /\ req'[r] \in Request /\ req'[r].step \in {"idle", "drop"}
        /\ req'[r].token \in {NoToken, t} /\ (req'[r].step = "drop" => t # NoToken)
        /\ (req'[r].step = "drop" => req'[r].token = t)
        /\ req'[r].token <= minted
        /\ \A s \in Requests : s # r => req'[s] = req[s]
        /\ req' \in [Requests -> Request]
    <3>0. NoToken <= minted /\ req \in [Requests -> Request]
      BY <1>3 DEF NoToken, TypeOK
    <3>1. CASE t = NoToken
      <4>1. req' = [req EXCEPT ![r] = Idle]
        BY <1>4, <3>1 DEF Removing, Finish, t
      <4>2. req'[r] = Idle
        BY <3>0, <4>1
      <4>3. Idle \in Request /\ Idle.step = "idle" /\ Idle.token = NoToken /\ Idle.token <= minted
        BY <3>0, IdleType
      <4>4. req' \in [Requests -> Request] /\ \A s \in Requests : s # r => req'[s] = req[s]
        BY <3>0, <4>1, <4>3
      <4> QED BY <4>2, <4>3, <4>4
    <3>2. CASE t # NoToken
      <4>1. req' = [req EXCEPT ![r] = [Idle EXCEPT !.step = "drop", !.token = t]]
        BY <1>4, <3>2 DEF Removing, Drop, t
      <4> DEFINE dropping == [Idle EXCEPT !.step = "drop", !.token = t]
      <4>2. dropping \in Request /\ dropping.step = "drop" /\ dropping.token = t
        BY <2>2, IdleType
      <4> HIDE DEF dropping
      <4>3. req' = [req EXCEPT ![r] = dropping]
        BY <4>1 DEF dropping
      <4> QED BY <2>2, <3>0, <3>2, <4>2, <4>3
    <3> QED BY <3>1, <3>2
  <2>4. t # NoToken => t # req[r].token
    BY <1>1, <2>2
  <2>5. \A s \in Requests : Writing(req[s]) => req[s].token # t
    BY <2>2 DEF Tokens, Knows, Writing
  <2>6. \A other \in rows' : other.token <= minted' /\ (other = row \/ other \in rows \ RowOf(a))
    BY <1>2, <1>3, <2>1 DEF Tokens
  <2>7. Knows(r)'
    <3>1. ASSUME req'[r].step = "drop", NEW other \in rows' PROVE other.token # t
      BY <1>2, <2>2, <2>3, <2>4, <2>6, <3>1
    <3> QED BY <1>3, <2>3, <3>1 DEF Knows, Listed, Writing
  <2>8. ASSUME NEW s \in Requests, s # r PROVE Knows(s)'
    <3>1. Knows(s) /\ req'[s] = req[s] /\ req[s].token # row.token
      BY <1>1, <1>2, <2>3, <2>8 DEF Tokens
    <3>2. Writing(req[s]) => req'[r].token # req[s].token
      BY <2>3, <2>5, <3>1 DEF Knows
    <3>3. Listed(req[s].token)' => Listed(req[s].token)
      BY <2>6, <3>1 DEF Listed
    <3>4. Writing(req[s]) => \A u \in Requests : req'[u].token = req[s].token => u = s
      BY <2>3, <3>1, <3>2 DEF Knows
    <3> QED BY <1>3, <2>6, <3>1, <3>3, <3>4 DEF Knows, Listed
  <2>9. Tokens'
    BY <2>6, <2>7, <2>8 DEF Tokens
  <2>10. /\ rows' \subseteq Row
         /\ \A one, other \in rows' :
              one.token = other.token \/ one.article = other.article => one = other
    <3>1. \A other \in rows \ RowOf(a) : other.token # row.token /\ other.article # row.article
      BY <1>1, <1>2 DEF RowOf, Listed
    <3> QED BY <1>2, <2>1, <3>1 DEF TypeOK
  <2> QED BY <1>1, <1>4, <2>1, <2>3, <2>9, <2>10 DEF PublishRecord, TypeOK
<1>5. CASE UNCHANGED rows /\ Drop(r, req[r].token)
  <2>1. Tokens' /\ req' \in [Requests -> Request]
    BY <1>1, <1>3, <1>5, Drops DEF Listed
  <2> QED BY <1>5, <2>1 DEF PublishRecord, TypeOK
<1> QED BY <1>2, <1>4, <1>5 DEF PublishRecord, row

LEMMA RemoveKeeps ==
  ASSUME Inv, NEW r \in Requests, RemovePage(r)
  PROVE  Inv'
<1>1. Tokens' /\ req' \in [Requests -> Request]
  BY Finishes DEF RemovePage, Inv
<1> QED BY <1>1 DEF RemovePage, Inv, TypeOK, library

\* Revoking: the row is gone before the request holds the token of its page.
LEMMA UnpublishKeeps ==
  ASSUME Inv, NEW r \in Requests, NEW a \in Articles, Unpublish(r, a)
  PROVE  Inv'
<1> USE DEF Inv, library
<1> DEFINE t == TokenOf(a)
           q == [Idle EXCEPT !.step = "touch", !.article = a, !.token = t]
<1>1. /\ t \in Token \union {NoToken} /\ t <= minted /\ Listed(t)
      /\ \A row \in rows \ RowOf(a) : row.token # t
  <2>1. RowOf(a) # {}
    BY DEF Unpublish
  <2> QED BY <2>1, OneRow, RowsOfToken DEF Listed
<1>2. /\ q \in Request /\ q.step = "touch" /\ q.article = a /\ q.token = t
      /\ req' = [req EXCEPT ![r] = q]
  <2>1. "touch" \in {"delete", "touch"}
    OBVIOUS
  <2>2. q \in Request /\ q.step = "touch" /\ q.article = a /\ q.token = t
    BY <1>1, <2>1, IdleType
  <2>3. req' = [req EXCEPT ![r] = q]
    BY DEF Unpublish
  <2> QED BY <2>2, <2>3
<1> HIDE DEF t, q
<1>3. /\ rows' = rows \ RowOf(a) /\ minted' = minted /\ minted' \in Nat /\ minted <= minted'
      /\ ~Writing(q) /\ q.token <= minted'
  BY <1>1, <1>2 DEF Unpublish, TypeOK, Writing
<1>4. \A s \in Requests : Writing(req[s]) => req[s].token # q.token
  BY <1>1, <1>2 DEF Tokens, Knows
<1>5. \A row \in rows' : row.token # q.token
  BY <1>1, <1>2, <1>3
<1>6. Tokens'
  BY <1>2, <1>3, <1>4, <1>5, Moves
<1> QED BY <1>2, <1>3, <1>6 DEF Unpublish, TypeOK

LEMMA TouchKeeps ==
  ASSUME Inv, NEW r \in Requests, UnpublishTouch(r)
  PROVE  Inv'
<1> USE DEF Inv, library
<1>1. /\ Knows(r) /\ req[r] \in Request /\ req[r].step = "touch" /\ minted' = minted
      /\ rows' = rows
  BY DEF UnpublishTouch, Tokens, TypeOK
<1>2. \A s \in Requests \ {r} : Writing(req[s]) => req[s].token # req[r].token
  BY DEF Tokens, Knows
<1>3. Tokens' /\ req' \in [Requests -> Request]
  <2>1. CASE Drop(r, req[r].token)
    BY <1>1, <1>2, <2>1, Drops DEF Knows, Listed, Request
  <2>2. CASE Finish(r)
    BY <1>1, <2>2, Finishes
  <2> QED BY <2>1, <2>2 DEF UnpublishTouch
<1> QED BY <1>3 DEF UnpublishTouch, TypeOK

\* Deleting: the token is read while its row is there, and the rows of the
\* article go before the page does.
LEMMA LookupKeeps ==
  ASSUME Inv, NEW r \in Requests, NEW a \in Articles, DeleteLookup(r, a)
  PROVE  Inv'
<1> USE DEF Inv, library
<1> DEFINE t == TokenOf(a)
           q == [Idle EXCEPT !.step = "delete", !.article = a, !.token = t]
<1>1. /\ t \in Token \union {NoToken} /\ t <= minted /\ (t # NoToken => Listed(t))
      /\ \A row \in rows : row.token = t => row.article = a
  BY RowsOfToken
<1>2. /\ q \in Request /\ q.step = "delete" /\ q.article = a /\ q.token = t
      /\ req' = [req EXCEPT ![r] = q]
  <2>1. "delete" \in {"delete", "touch"}
    OBVIOUS
  <2>2. q \in Request /\ q.step = "delete" /\ q.article = a /\ q.token = t
    BY <1>1, <2>1, IdleType
  <2>3. req' = [req EXCEPT ![r] = q]
    BY DEF DeleteLookup
  <2> QED BY <2>2, <2>3
<1> HIDE DEF t, q
<1>3. /\ rows' = rows /\ minted' = minted /\ minted' \in Nat /\ minted <= minted'
      /\ ~Writing(q) /\ q.token <= minted'
  BY <1>1, <1>2 DEF DeleteLookup, TypeOK, Writing
<1>4. \A s \in Requests : Writing(req[s]) => req[s].token # q.token
  BY <1>1, <1>2 DEF Tokens, Knows
<1>5. \A row \in rows' : row.token = q.token => row.article = q.article
  BY <1>1, <1>2, <1>3
<1>6. Tokens'
  BY <1>2, <1>3, <1>4, <1>5, Moves
<1> QED BY <1>2, <1>3, <1>6 DEF DeleteLookup, TypeOK

LEMMA DeleteKeeps ==
  ASSUME Inv, NEW r \in Requests, DeleteArticle(r)
  PROVE  Inv'
<1> USE DEF Inv, library
<1> DEFINE a == req[r].article
           t == req[r].token
<1>1. /\ Knows(r) /\ req[r] \in Request /\ req[r].step = "delete" /\ minted' = minted
      /\ rows' \subseteq rows
  BY DEF DeleteArticle, Tokens, TypeOK
<1>2. \A s \in Requests \ {r} : Writing(req[s]) => req[s].token # t
  BY DEF Tokens, Knows
<1>3. Tokens' /\ req' \in [Requests -> Request]
  <2>1. CASE Finish(r)
    BY <1>1, <2>1, Finishes
  <2>2. CASE rows' = rows \ RowOf(a) /\ Drop(r, t)
    <3>1. \A row \in rows' : row.token # t
      BY <1>1, <2>2 DEF Knows, RowOf
    <3> QED BY <1>1, <1>2, <2>2, <3>1, Drops DEF Knows, Request
  <2> QED BY <2>1, <2>2 DEF DeleteArticle, Removing
<1> QED BY <1>1, <1>3 DEF DeleteArticle, TypeOK

LEMMA CrashKeeps ==
  ASSUME Inv, Crash
  PROVE  Inv'
<1> USE DEF Inv, library
<1>1. /\ \A s \in Requests : req'[s] = Idle
      /\ req' = [s \in Requests |-> Idle] /\ rows' = rows /\ minted' = minted
  BY DEF Crash
<1>2. /\ Idle \in Request /\ Idle.step = "idle" /\ Idle.token <= minted
  <2>1. 0 <= minted
    BY PublicationsAssumption DEF TypeOK
  <2> QED BY <2>1, IdleType DEF NoToken
<1>3. Tokens'
  BY <1>1, <1>2 DEF Tokens, Knows, Writing
<1>4. req' \in [Requests -> Request] /\ SweepIdle \in Sweep
  BY <1>1, <1>2 DEF SweepIdle, Sweep
<1>5. crashes' \in 0 .. MaxCrashes
  BY PublicationsAssumption DEF Crash, TypeOK
<1> QED BY <1>3, <1>4, <1>5 DEF Crash, TypeOK

\* The sweeper, the settings, the pipeline and the clock.
LEMMA OthersKeep ==
  ASSUME Inv, Sweeper \/ (\E a \in Articles : Enriched(a)) \/ SetLifetime \/ Tick
              \/ UNCHANGED vars
  PROVE  Inv'
<1> USE DEF Inv, library
<1>1. rows' \subseteq rows /\ minted' = minted /\ req' = req
  BY DEF Sweeper, SweepExpired, SweepList, ListPublicationTokens, SweepPurge,
     RemoveOrphans, Enriched, SetLifetime, Tick, vars
<1>2. Tokens'
  BY <1>1, Rest
<1>3. CASE SweepExpired
  <2>1. [sweep EXCEPT !.step = "list"] \in Sweep
    BY DEF Sweep, TypeOK
  <2> QED BY <1>2, <1>3, <2>1 DEF SweepExpired, TypeOK
<1>4. CASE SweepList
  <2>1. {row.token : row \in rows} \subseteq Token
    BY DEF TypeOK, Row
  <2>2. sweep' \in Sweep
    BY <1>4, <2>1 DEF SweepList, ListPublicationTokens, Sweep, SweepIdle
  <2> QED BY <1>2, <1>4, <2>2 DEF SweepList, ListPublicationTokens, TypeOK
<1>5. CASE SweepPurge
  <2>1. SweepIdle \in Sweep
    BY DEF SweepIdle, Sweep
  <2> QED BY <1>2, <1>5, <2>1 DEF SweepPurge, RemoveOrphans, TypeOK
<1>6. ASSUME NEW a \in Articles, Enriched(a) PROVE TypeOK'
  BY <1>6 DEF Enriched, TypeOK
<1>7. CASE SetLifetime \/ Tick \/ UNCHANGED vars
  <2>1. CASE SetLifetime
    BY <1>2, <2>1 DEF SetLifetime, TypeOK
  <2>2. CASE Tick
    BY <1>2, <2>2 DEF Tick, TypeOK
  <2>3. CASE UNCHANGED vars
    BY <1>2, <2>3 DEF vars, TypeOK
  <2> QED BY <1>7, <2>1, <2>2, <2>3
<1> QED BY <1>2, <1>3, <1>4, <1>5, <1>6, <1>7 DEF Sweeper

LEMMA NextKeeps == Inv /\ [Next]_vars => Inv'
<1> SUFFICES ASSUME Inv, [Next]_vars PROVE Inv'
  OBVIOUS
<1>1. ASSUME NEW r \in Requests, Publish(r) PROVE Inv'
  BY <1>1, StartKeeps, WriteKeeps, RecordKeeps, RemoveKeeps DEF Publish
<1>2. ASSUME NEW r \in Requests, Revoke(r) PROVE Inv'
  BY <1>2, UnpublishKeeps, TouchKeeps DEF Revoke
<1>3. ASSUME NEW r \in Requests, Delete(r) PROVE Inv'
  BY <1>3, LookupKeeps, DeleteKeeps DEF Delete
<1>4. CASE Sweeper \/ Environment \/ UNCHANGED vars
  BY <1>4, OthersKeep, CrashKeeps DEF Environment
<1> QED BY <1>1, <1>2, <1>3, <1>4 DEF Next

LEMMA Invariant == Spec => []Inv
<1>1. Init => Inv
  <2> SUFFICES ASSUME Init PROVE Inv
    OBVIOUS
  <2>1. req = [r \in Requests |-> Idle] /\ rows = {} /\ minted = 0
    BY DEF Init
  <2>2. Idle \in Request /\ Idle.step = "idle" /\ Idle.token = 0
    BY IdleType DEF NoToken
  <2>3. Tokens
    BY <2>1, <2>2 DEF Tokens, Knows, Writing
  <2>4. minted \in 0 .. MaxTokens /\ crashes \in 0 .. MaxCrashes /\ sweep \in Sweep
    BY PublicationsAssumption DEF Init, SweepIdle, Sweep
  <2>5. req \in [Requests -> Request]
    BY <2>1, <2>2
  <2> QED BY <2>1, <2>3, <2>4, <2>5 DEF Init, Inv, TypeOK
<1> QED BY <1>1, NextKeeps, PTL DEF Spec

\* The states have their types, and a token or an article is the key of one row.
THEOREM TypeCorrect == Spec => []TypeOK
<1>1. Inv => TypeOK
  BY DEF Inv
<1> QED BY <1>1, Invariant, PTL

-----------------------------------------------------------------------------
(* Dead links *)

\* Time does not bring a row back.
LEMMA StaysLive ==
  ASSUME TypeOK, [Next]_vars, NEW row \in rows, ~Expired(row)'
  PROVE  ~Expired(row)
<1>1. now' = now \/ now' = now + 1
  BY DEF Next, Publish, PublishStart, PublishWrite, PublishRecord, RemovePage, Revoke,
     Unpublish, UnpublishTouch, Delete, DeleteLookup, DeleteArticle, Sweeper, SweepExpired,
     SweepList, ListPublicationTokens, SweepPurge,
     RemoveOrphans, Environment, Enriched, SetLifetime, Tick, Crash, vars,
     library
<1>2. now \in Nat /\ row.expires \in Nat
  BY DEF TypeOK, Row
<1> QED BY <1>1, <1>2 DEF Expired

\* A link that has stopped working is served by no later step: a token gets a
\* row only from the request that minted it, and a row never expires later.
THEOREM DeadStaysDead == Spec => DeadLinksStayDead
<1> DEFINE Dead == \A t \in 1 .. minted : ~InFlight(t) /\ t \notin Served => t \notin Served'
<1>1. ASSUME Inv, [Next]_vars PROVE Dead
  <2> SUFFICES ASSUME NEW t \in 1 .. minted, ~InFlight(t), t \in Served'
               PROVE  t \in Served
    OBVIOUS
  <2> USE DEF Inv, library
  <2>1. PICK row \in rows' : ~Expired(row)' /\ row.token = t /\ t \in pages'
    BY DEF Served
  <2>2. CASE row \in rows
    <3>1. ~Expired(row)
      BY <1>1, <2>1, <2>2, StaysLive
    <3>2. t \in pages
      <4>1. ASSUME NEW r \in Requests, PublishWrite(r) PROVE pages' \subseteq pages \union {req[r].token}
        BY <4>1 DEF PublishWrite
      <4>2. CASE \E r \in Requests : PublishWrite(r)
        BY <2>1, <4>1, <4>2 DEF InFlight, PublishWrite
      <4>3. CASE ~\E r \in Requests : PublishWrite(r)
        <5>1. pages' \subseteq pages
          BY <1>1, <4>3 DEF Next, Publish, PublishStart, PublishRecord, RemovePage,
             Revoke, Unpublish, UnpublishTouch, Delete, DeleteLookup, DeleteArticle, Sweeper,
             SweepExpired, SweepList, ListPublicationTokens, SweepPurge,
     RemoveOrphans, Environment, Enriched, SetLifetime, Tick,
             Crash, vars
        <5> QED BY <2>1, <5>1
      <4> QED BY <4>2, <4>3
    <3> QED BY <2>1, <2>2, <3>1, <3>2 DEF Served
  <2>3. CASE row \notin rows
    <3>1. PICK r \in Requests : PublishRecord(r)
      BY <1>1, <2>1, <2>3 DEF Next, Publish, PublishStart, PublishWrite, RemovePage,
         Revoke, Unpublish, UnpublishTouch, Delete, DeleteLookup, DeleteArticle, Sweeper,
         SweepExpired, SweepList, ListPublicationTokens, SweepPurge,
     RemoveOrphans, Environment, Enriched, SetLifetime, Tick,
         Crash, vars
    <3>2. row.token = req[r].token /\ req[r].step = "record"
      BY <2>1, <2>3, <3>1 DEF PublishRecord, ReplacePublication
    <3> QED BY <2>1, <3>1, <3>2 DEF InFlight
  <2> QED BY <2>2, <2>3
<1>2. Inv /\ [Next]_vars => Dead
  BY <1>1
<1>3. Inv /\ [Next]_vars => [Dead]_vars
  BY <1>2
<1> QED BY <1>3, Invariant, PTL DEF Spec, DeadLinksStayDead

-----------------------------------------------------------------------------
(* Live pages *)

\* Of everything that removes pages, only a sweep whose list is older than a
\* link takes the page of a link that works.
THEOREM OnlyASweepTakesALivePage == Spec => OnlyAnOlderListTakesALivePage
<1> DEFINE Taken == \A t \in Served :
                      t \notin pages' /\ (\E row \in rows' : row.token = t)
                        => sweep.step = "purge" /\ t \notin sweep.live
<1>1. ASSUME Inv, [Next]_vars PROVE Taken
  <2> SUFFICES ASSUME NEW t \in Served, t \notin pages', NEW row \in rows', row.token = t
               PROVE  sweep.step = "purge" /\ t \notin sweep.live
    OBVIOUS
  <2> USE DEF library
  <2>1. t \in pages /\ Listed(t)
    BY DEF Served, Listed
  <2>2. ASSUME NEW r \in Requests, RemovePage(r) PROVE FALSE
    <3>1. ~Listed(req[r].token) /\ pages \subseteq pages' \union {req[r].token}
      BY <1>1, <2>2 DEF RemovePage, Inv, Tokens, Knows
    <3> QED BY <2>1, <3>1
  <2>3. CASE SweepExpired
    <3>1. PICK gone \in rows : gone.token = t /\ gone \notin rows'
      BY <2>1, <2>3 DEF SweepExpired
    <3>2. row \in rows
      BY <2>3 DEF SweepExpired
    <3> QED BY <1>1, <3>1, <3>2 DEF Inv, TypeOK
  <2>4. CASE SweepPurge
    BY <2>1, <2>4 DEF SweepPurge, RemoveOrphans
  <2> QED BY <1>1, <2>1, <2>2, <2>3, <2>4 DEF Next, Publish, PublishStart, PublishWrite,
       PublishRecord, Revoke, Unpublish, UnpublishTouch, Delete, DeleteLookup, DeleteArticle,
       Sweeper, SweepList, ListPublicationTokens, Environment, Enriched, SetLifetime, Tick, Crash, vars
<1>2. Inv /\ [Next]_vars => [Taken]_vars
  BY <1>1
<1> QED BY <1>2, Invariant, PTL DEF Spec, OnlyAnOlderListTakesALivePage

=============================================================================
