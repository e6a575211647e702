-------------------------- MODULE IdempotencyProofs --------------------------
(***************************************************************************)
(* Proofs about replay protection: all successful answers under one key    *)
(* show one response, the stored one, and it is the response to the        *)
(* payload it was asked for.                                               *)
(*                                                                         *)
(* Neither fact is inductive: what a request carries between its lookup,   *)
(* its claim and its save has to be true of the rows (RequestsTrue), and   *)
(* so has the stored record (RecordTrue).                                  *)
(***************************************************************************)
EXTENDS Idempotency, SequenceTheorems, TLAPS

RequestType == [phase : Phases, payload : Payloads \cup {None}, body : Nat]

\* Enrollment row n was created under the key for this payload.
Claimed(n, payload) ==
  n \in DOMAIN rows /\ rows[n].payload = payload /\ rows[n].keyed

\* What the stored record says is true.
RecordTrue == record # None => Claimed(record.body, record.payload)

\* What a request in flight has learnt stays true: its payload is known, the row
\* it is about to save is its own, and who lost the race has somebody to replay.
RequestsTrue ==
  \A r \in Requests :
    /\ requests[r].phase # "free" => requests[r].payload \in Payloads
    /\ requests[r].phase \in {"save", "lost"} => Claimed(requests[r].body, requests[r].payload)
    /\ requests[r].phase = "lost" => record # None

\* The answers are those of the record.
AnswersRecorded ==
  \A a \in answers : record # None /\ a.body = record.body /\ a.payload = record.payload

IInv == TypeOK /\ RecordTrue /\ RequestsTrue /\ AnswersRecorded
-----------------------------------------------------------------------------
\* A request moves to another phase.
LEMMA RequestUpdate ==
  ASSUME NEW q \in RequestType, NEW phase \in Phases
  PROVE  /\ [q EXCEPT !.phase = phase] \in RequestType
         /\ [q EXCEPT !.phase = phase].phase = phase
         /\ [q EXCEPT !.phase = phase].payload = q.payload
         /\ [q EXCEPT !.phase = phase].body = q.body
<1>1. [q EXCEPT !.phase = phase] \in RequestType
  BY Zenon DEF RequestType
<1> QED
  BY <1>1 DEF RequestType

\* A free slot is well typed.
LEMMA FreeType == Free \in RequestType /\ Free.phase = "free"
BY DEF Free, RequestType, Phases

\* What the type invariant says of one request and of the record.
LEMMA Types ==
  ASSUME TypeOK
  PROVE  /\ requests \in [Requests -> RequestType]
         /\ \A r \in Requests : requests[r].body \in Nat
         /\ record # None => /\ record.payload \in Payloads
                             /\ record.body \in Nat \ {0} /\ record.expiresAt \in Nat
BY DEF TypeOK, RequestType

\* An answer frees the slot and is on record.
LEMMA AnswerEffect ==
  ASSUME TypeOK, NEW r \in Requests, NEW body \in Nat \ {0},
         requests[r].payload \in Payloads, Answer(r, body)
  PROVE  /\ requests' \in [Requests -> RequestType]
         /\ requests'[r].phase = "free"
         /\ \A q \in Requests \ {r} : requests'[q] = requests[q]
         /\ answers' = answers \cup {[payload |-> requests[r].payload, body |-> body]}
         /\ answers' \subseteq [payload : Payloads, body : Nat \ {0}]
<1>1. /\ requests' = [requests EXCEPT ![r] = Free]
      /\ answers' = answers \cup {[payload |-> requests[r].payload, body |-> body]}
  BY DEF Answer
<1>2. requests' \in [Requests -> RequestType] /\ requests'[r] = Free
  BY <1>1, Types, FreeType
<1>3. answers' \subseteq [payload : Payloads, body : Nat \ {0}]
  BY <1>1 DEF TypeOK
<1> QED
  BY <1>1, <1>2, <1>3, FreeType, Types

\* The end of a request without an answer.
LEMMA FailEffect ==
  ASSUME TypeOK, NEW r \in Requests, Fail(r)
  PROVE  /\ requests' \in [Requests -> RequestType]
         /\ requests'[r].phase = "free"
         /\ \A q \in Requests \ {r} : requests'[q] = requests[q]
         /\ answers' = answers
<1>1. requests' = [requests EXCEPT ![r] = Free] /\ answers' = answers
  BY DEF Fail
<1>2. requests' \in [Requests -> RequestType] /\ requests'[r] = Free
  BY <1>1, Types, FreeType
<1> QED
  BY <1>1, <1>2, FreeType, Types

\* A claim adds a row and touches no other.
LEMMA ClaimEffect ==
  ASSUME TypeOK, NEW payload \in Payloads, NEW keyed \in BOOLEAN, Claim(payload, keyed)
  PROVE  /\ rows' \in Seq(Row) /\ Len(rows) \in Nat
         /\ DOMAIN rows' = DOMAIN rows \cup {Len(rows) + 1}
         /\ \A i \in DOMAIN rows : rows'[i] = rows[i]
         /\ rows'[Len(rows) + 1].payload = payload
         /\ rows'[Len(rows) + 1].keyed = keyed
<1> DEFINE row == [payload |-> payload, keyed |-> keyed, live |-> TRUE]
<1>1. rows \in Seq(Row) /\ Len(rows) \in Nat /\ DOMAIN rows = 1..Len(rows)
  BY LenProperties DEF TypeOK
<1>2. row \in Row /\ row.payload = payload /\ row.keyed = keyed
  BY DEF Row
<1>3. rows' = Append(rows, row)
  BY DEF Claim
<1> HIDE DEF row
<1>4. /\ rows' \in Seq(Row) /\ Len(rows') = Len(rows) + 1
      /\ \A i \in 1..Len(rows) : rows'[i] = rows[i]
      /\ rows'[Len(rows) + 1] = row
  BY <1>1, <1>2, <1>3, AppendProperties
<1>5. DOMAIN rows' = 1..(Len(rows) + 1)
  BY <1>1, <1>4
<1> QED
  BY <1>1, <1>2, <1>4, <1>5

\* A drop changes neither the payload nor the key of a row.
LEMMA DropEffect ==
  ASSUME TypeOK, NEW i \in DOMAIN rows, Drop(i)
  PROVE  /\ rows' \in Seq(Row) /\ DOMAIN rows' = DOMAIN rows
         /\ \A n \in DOMAIN rows : rows'[n].payload = rows[n].payload /\ rows'[n].keyed = rows[n].keyed
<1>1. rows \in Seq(Row) /\ rows' = [rows EXCEPT ![i].live = FALSE]
  BY DEF TypeOK, Drop
<1>2. rows[i] \in Row
  BY <1>1
<1> DEFINE row == [rows[i] EXCEPT !.live = FALSE]
<1>3. row \in Row
  BY <1>2, Zenon DEF Row
<1>4. row.payload = rows[i].payload /\ row.keyed = rows[i].keyed
  BY <1>2 DEF Row
<1>5. rows' = [rows EXCEPT ![i] = row]
  BY <1>1
<1> HIDE DEF row
<1>6. rows \in Seq(Row) /\ i \in 1..Len(rows) /\ DOMAIN rows = 1..Len(rows)
  BY <1>1, LenProperties
<1>7. rows' \in Seq(Row) /\ Len(rows') = Len(rows)
  BY <1>3, <1>5, <1>6, ExceptSeq
<1>8. \A n \in DOMAIN rows : rows'[n] = IF n = i THEN row ELSE rows[n]
  BY <1>5
<1>9. DOMAIN rows' = DOMAIN rows
  BY <1>6, <1>7, LenProperties
<1> QED
  BY <1>4, <1>7, <1>8, <1>9
-----------------------------------------------------------------------------
(* One step. *)

\* Row n is so after the step.
StillClaimed(n, payload) ==
  n \in DOMAIN rows' /\ rows'[n].payload = payload /\ rows'[n].keyed

\* Rows are added and dropped, and what was claimed stays claimed.
LEMMA ClaimedStays ==
  ASSUME TypeOK, rows' \in Seq(Row), DOMAIN rows \subseteq DOMAIN rows',
         \A n \in DOMAIN rows : rows'[n].payload = rows[n].payload /\ rows'[n].keyed = rows[n].keyed,
         NEW n, NEW payload, Claimed(n, payload)
  PROVE  StillClaimed(n, payload)
BY DEF Claimed, StillClaimed

\* A step of request r that leaves the record alone and keeps the rows keeps the
\* invariant, if what r knows afterwards is true and it adds no answer but the
\* record's.
LEMMA RequestStep ==
  ASSUME IInv, NEW r \in Requests, record' = record, now' = now,
         rows' \in Seq(Row), DOMAIN rows \subseteq DOMAIN rows',
         \A n \in DOMAIN rows : rows'[n].payload = rows[n].payload /\ rows'[n].keyed = rows[n].keyed,
         requests' \in [Requests -> RequestType],
         \A q \in Requests \ {r} : requests'[q] = requests[q],
         requests'[r].phase # "free" => requests'[r].payload \in Payloads,
         requests'[r].phase \in {"save", "lost"} =>
           StillClaimed(requests'[r].body, requests'[r].payload),
         requests'[r].phase = "lost" => record # None,
         answers' \subseteq [payload : Payloads, body : Nat \ {0}],
         \A a \in answers' \ answers :
           record # None /\ a.body = record.body /\ a.payload = record.payload
  PROVE  IInv'
<1>0. TypeOK /\ RecordTrue /\ RequestsTrue /\ AnswersRecorded
  BY DEF IInv
<1>1. TypeOK'
  BY <1>0 DEF TypeOK, RequestType
<1>2. RecordTrue'
  BY <1>0, ClaimedStays DEF RecordTrue, Claimed, StillClaimed
<1>3. RequestsTrue'
  <2>1. SUFFICES ASSUME NEW q \in Requests
                 PROVE  /\ requests'[q].phase # "free" => requests'[q].payload \in Payloads
                        /\ requests'[q].phase \in {"save", "lost"} =>
                             StillClaimed(requests'[q].body, requests'[q].payload)
                        /\ requests'[q].phase = "lost" => record' # None
    BY DEF RequestsTrue, Claimed, StillClaimed
  <2>2. CASE q = r
    BY <2>2
  <2>3. CASE q # r
    <3>1. requests'[q] = requests[q]
      BY <2>3
    <3>2. requests[q].phase \in {"save", "lost"} => Claimed(requests[q].body, requests[q].payload)
      BY <1>0 DEF RequestsTrue
    <3>3. requests'[q].phase \in {"save", "lost"} => StillClaimed(requests'[q].body, requests'[q].payload)
      BY <1>0, <3>1, <3>2, ClaimedStays
    <3> QED
      BY <1>0, <3>1, <3>3 DEF RequestsTrue
  <2> QED
    BY <2>2, <2>3
<1>4. AnswersRecorded'
  BY <1>0 DEF AnswersRecorded
<1> QED
  BY <1>1, <1>2, <1>3, <1>4 DEF IInv

\* A step that leaves the requests, the record and the answers alone.
LEMMA RowsStep ==
  ASSUME IInv, record' = record, requests' = requests, answers' = answers, now' \in Nat,
         rows' \in Seq(Row), DOMAIN rows \subseteq DOMAIN rows',
         \A n \in DOMAIN rows : rows'[n].payload = rows[n].payload /\ rows'[n].keyed = rows[n].keyed
  PROVE  IInv'
<1>0. TypeOK /\ RecordTrue /\ RequestsTrue /\ AnswersRecorded
  BY DEF IInv
<1>1. TypeOK'
  BY <1>0 DEF TypeOK
<1>2. RecordTrue'
  BY <1>0, ClaimedStays DEF RecordTrue, Claimed, StillClaimed
<1>3. RequestsTrue'
  <2>1. \A n, payload : Claimed(n, payload) => StillClaimed(n, payload)
    BY <1>0, ClaimedStays
  <2> QED
    BY <1>0, <2>1 DEF RequestsTrue, Claimed, StillClaimed
<1>4. AnswersRecorded'
  BY <1>0 DEF AnswersRecorded
<1> QED
  BY <1>1, <1>2, <1>3, <1>4 DEF IInv

\* The invariant is inductive.
LEMMA Inductive ==
  ASSUME IInv, [Next]_vars
  PROVE  IInv'
<1>0. /\ TypeOK /\ RecordTrue /\ RequestsTrue /\ AnswersRecorded
      /\ rows \in Seq(Row) /\ now \in Nat
      /\ requests \in [Requests -> RequestType]
      /\ answers \subseteq [payload : Payloads, body : Nat \ {0}]
  BY DEF IInv, TypeOK, RequestType
<1>1. ASSUME NEW r \in Requests, NEW payload \in Payloads, Arrive(r, payload) PROVE IInv'
  <2> DEFINE q == [phase |-> "lookup", payload |-> payload, body |-> 0]
  <2>1. q \in RequestType /\ q.phase = "lookup" /\ q.payload = payload
    BY DEF RequestType, Phases
  <2>2. /\ requests' = [requests EXCEPT ![r] = q]
        /\ record' = record /\ rows' = rows /\ answers' = answers /\ now' = now
    BY <1>1 DEF Arrive
  <2> HIDE DEF q
  <2> QED
    BY <1>0, <2>1, <2>2, RequestStep
<1>2. ASSUME NEW r \in Requests, Lookup(r) PROVE IInv'
  <2>1. /\ requests[r].phase = "lookup" /\ requests[r].payload \in Payloads
        /\ record' = record /\ rows' = rows /\ now' = now
    BY <1>0, <1>2 DEF Lookup, RequestsTrue
  <2>2. CASE requests' = [requests EXCEPT ![r].phase = "claim"] /\ answers' = answers
    <3> DEFINE q == [requests[r] EXCEPT !.phase = "claim"]
    <3>1. q \in RequestType /\ q.phase = "claim" /\ q.payload = requests[r].payload
      BY <1>0, RequestUpdate DEF Phases
    <3>2. requests' = [requests EXCEPT ![r] = q]
      BY <2>2
    <3> HIDE DEF q
    <3> QED
      BY <1>0, <2>1, <2>2, <3>1, <3>2, RequestStep
  <2>3. CASE Fail(r)
    <3>1. /\ requests' \in [Requests -> RequestType] /\ requests'[r].phase = "free"
          /\ \A q \in Requests \ {r} : requests'[q] = requests[q]
          /\ answers' = answers
      BY <1>0, <2>3, FailEffect
    <3> QED
      BY <1>0, <2>1, <3>1, RequestStep
  <2>4. CASE record # None /\ record.payload = requests[r].payload /\ Answer(r, record.body)
    <3>1. record.body \in Nat \ {0}
      BY <1>0, <2>4, Types
    <3>2. /\ requests' \in [Requests -> RequestType] /\ requests'[r].phase = "free"
          /\ \A q \in Requests \ {r} : requests'[q] = requests[q]
          /\ answers' = answers \cup {[payload |-> requests[r].payload, body |-> record.body]}
          /\ answers' \subseteq [payload : Payloads, body : Nat \ {0}]
      BY <1>0, <2>1, <2>4, <3>1, AnswerEffect
    <3>3. \A a \in answers' \ answers :
            record # None /\ a.body = record.body /\ a.payload = record.payload
      BY <2>4, <3>2
    <3> QED
      BY <1>0, <2>1, <3>2, <3>3, RequestStep
  <2> QED
    BY <1>2, <2>2, <2>3, <2>4 DEF Lookup, FingerprintMatches
<1>3. ASSUME NEW r \in Requests, RunClaim(r) PROVE IInv'
  <2>1. /\ requests[r].phase = "claim" /\ requests[r].payload \in Payloads
        /\ record' = record /\ now' = now
    BY <1>0, <1>3 DEF RunClaim, RequestsTrue
  <2>2. CASE /\ Claim(requests[r].payload, TRUE)
             /\ requests' = [requests EXCEPT ![r].phase = "save", ![r].body = Len(rows) + 1]
             /\ answers' = answers
    <3> DEFINE n == Len(rows) + 1
               q == [requests[r] EXCEPT !.phase = "save", !.body = n]
    <3>1. /\ rows' \in Seq(Row) /\ Len(rows) \in Nat
          /\ DOMAIN rows' = DOMAIN rows \cup {n}
          /\ \A i \in DOMAIN rows : rows'[i] = rows[i]
          /\ rows'[n].payload = requests[r].payload /\ rows'[n].keyed = TRUE
      BY <1>0, <2>1, <2>2, ClaimEffect
    <3>2. n \in Nat /\ requests[r] \in RequestType /\ "save" \in Phases
      BY <1>0, <3>1 DEF Phases
    <3> HIDE DEF n
    <3>3. /\ q \in RequestType /\ q.phase = "save"
          /\ q.payload = requests[r].payload /\ q.body = n
      <4>1. q \in RequestType
        BY <3>2, Zenon DEF RequestType
      <4>2. q.phase = "save" /\ q.payload = requests[r].payload /\ q.body = n
        BY <3>2 DEF RequestType
      <4> QED
        BY <4>1, <4>2
    <3>4. requests' = [requests EXCEPT ![r] = q]
      BY <2>2 DEF n
    <3> HIDE DEF q
    <3>5. /\ requests' \in [Requests -> RequestType] /\ requests'[r] = q
          /\ \A p \in Requests \ {r} : requests'[p] = requests[p]
      BY <1>0, <3>3, <3>4
    <3>6. StillClaimed(requests'[r].body, requests'[r].payload)
      BY <3>1, <3>3, <3>5 DEF StillClaimed
    <3>7. /\ requests'[r].phase = "save" /\ requests'[r].payload \in Payloads
          /\ DOMAIN rows \subseteq DOMAIN rows'
          /\ answers' \subseteq [payload : Payloads, body : Nat \ {0}] /\ answers' \ answers = {}
      BY <1>0, <2>1, <2>2, <3>1, <3>3, <3>5
    <3>8. /\ rows' \in Seq(Row)
          /\ \A i \in DOMAIN rows : rows'[i].payload = rows[i].payload /\ rows'[i].keyed = rows[i].keyed
      BY <3>1
    <3> QED
      BY <2>1, <3>5, <3>6, <3>7, <3>8, RequestStep
  <2>3. CASE Fail(r) /\ rows' = rows
    <3>1. /\ requests' \in [Requests -> RequestType] /\ requests'[r].phase = "free"
          /\ \A q \in Requests \ {r} : requests'[q] = requests[q]
          /\ answers' = answers
      BY <1>0, <2>3, FailEffect
    <3> QED
      BY <1>0, <2>1, <2>3, <3>1, RequestStep
  <2> QED
    BY <1>3, <2>2, <2>3 DEF RunClaim
<1>4. ASSUME NEW r \in Requests, Save(r) PROVE IInv'
  <2> DEFINE mine == requests[r].payload
             n == requests[r].body
  <2>1. /\ requests[r].phase = "save" /\ mine \in Payloads /\ Claimed(n, mine)
        /\ rows' = rows /\ now' = now /\ record = None /\ Answer(r, n)
        /\ record' = [payload |-> mine, body |-> n, expiresAt |-> now + IdempotencyTTL]
    BY <1>0, <1>4 DEF Save, RequestsTrue, SaveIdempotencyRecord
  <2>2. n \in Nat \ {0}
    <3>1. n \in DOMAIN rows /\ DOMAIN rows = 1..Len(rows)
      BY <1>0, <2>1, LenProperties DEF Claimed
    <3>2. Len(rows) \in Nat
      BY <1>0, LenProperties
    <3> QED
      BY <3>1, <3>2
  <2>3. /\ requests' \in [Requests -> RequestType] /\ requests'[r].phase = "free"
        /\ \A q \in Requests \ {r} : requests'[q] = requests[q]
        /\ answers' = answers \cup {[payload |-> mine, body |-> n]}
        /\ answers' \subseteq [payload : Payloads, body : Nat \ {0}]
    BY <1>0, <2>1, <2>2, AnswerEffect
  <2> HIDE DEF mine, n
  <2>4. /\ record' \in [payload : Payloads, body : Nat \ {0}, expiresAt : Nat]
        /\ record' # None /\ record'.payload = mine /\ record'.body = n
    <3>1. now + IdempotencyTTL \in Nat
      BY <1>0, IdempotencyAssumption
    <3> QED
      BY <2>1, <2>2, <3>1, IdempotencyAssumption
  <2>5. TypeOK'
    BY <1>0, <2>1, <2>3, <2>4 DEF TypeOK, RequestType
  <2>6. RecordTrue'
    BY <2>1, <2>4 DEF RecordTrue, Claimed
  <2>7. RequestsTrue'
    BY <1>0, <2>1, <2>3, <2>4 DEF RequestsTrue, Claimed
  <2>8. AnswersRecorded'
    <3>1. answers = {}
      BY <1>0, <2>1 DEF AnswersRecorded
    <3> QED
      BY <2>3, <2>4, <3>1 DEF AnswersRecorded
  <2> QED
    BY <2>5, <2>6, <2>7, <2>8 DEF IInv
<1>5. ASSUME NEW r \in Requests, SaveConflicts(r) PROVE IInv'
  <2> DEFINE q == [requests[r] EXCEPT !.phase = "lost"]
  <2>1. /\ requests[r].phase = "save" /\ requests[r].payload \in Payloads
        /\ Claimed(requests[r].body, requests[r].payload) /\ record # None
        /\ record' = record /\ rows' = rows /\ now' = now /\ answers' = answers
    BY <1>0, <1>5 DEF SaveConflicts, RequestsTrue
  <2>2. /\ q \in RequestType /\ q.phase = "lost" /\ q.payload = requests[r].payload
        /\ q.body = requests[r].body
    BY <1>0, RequestUpdate DEF Phases
  <2>3. requests' = [requests EXCEPT ![r] = q]
    BY <1>5 DEF SaveConflicts
  <2> HIDE DEF q
  <2>4. /\ requests' \in [Requests -> RequestType] /\ requests'[r] = q
        /\ \A p \in Requests \ {r} : requests'[p] = requests[p]
    BY <1>0, <2>2, <2>3
  <2>5. StillClaimed(requests'[r].body, requests'[r].payload)
    BY <2>1, <2>2, <2>4 DEF Claimed, StillClaimed
  <2> QED
    BY <1>0, <2>1, <2>2, <2>4, <2>5, RequestStep
<1>6. ASSUME NEW r \in Requests, ReplayWinner(r) PROVE IInv'
  <2>1. /\ requests[r].phase = "lost" /\ requests[r].payload \in Payloads /\ record # None
        /\ record' = record /\ rows' = rows /\ now' = now
    BY <1>0, <1>6 DEF ReplayWinner, RequestsTrue
  <2>2. CASE record.payload = requests[r].payload
    <3>1. Answer(r, record.body) /\ record.body \in Nat \ {0}
      BY <1>0, <1>6, <2>1, <2>2, Types DEF ReplayWinner, FingerprintMatches, ReplayedBody
    <3>2. /\ requests' \in [Requests -> RequestType] /\ requests'[r].phase = "free"
          /\ \A q \in Requests \ {r} : requests'[q] = requests[q]
          /\ answers' = answers \cup {[payload |-> requests[r].payload, body |-> record.body]}
          /\ answers' \subseteq [payload : Payloads, body : Nat \ {0}]
      BY <1>0, <2>1, <3>1, AnswerEffect
    <3>3. \A a \in answers' \ answers :
            record # None /\ a.body = record.body /\ a.payload = record.payload
      BY <2>1, <2>2, <3>2
    <3> QED
      BY <1>0, <2>1, <3>2, <3>3, RequestStep
  <2>3. CASE record.payload # requests[r].payload
    <3>1. Fail(r)
      BY <1>6, <2>3 DEF ReplayWinner, FingerprintMatches
    <3>2. /\ requests' \in [Requests -> RequestType] /\ requests'[r].phase = "free"
          /\ \A q \in Requests \ {r} : requests'[q] = requests[q]
          /\ answers' = answers
      BY <1>0, <3>1, FailEffect
    <3> QED
      BY <1>0, <2>1, <3>2, RequestStep
  <2> QED
    BY <2>2, <2>3
<1>7. ASSUME NEW r \in Requests, Interrupt(r) PROVE IInv'
  <2>1. record' = record /\ rows' = rows /\ now' = now /\ Fail(r)
    BY <1>7 DEF Interrupt
  <2>2. /\ requests' \in [Requests -> RequestType] /\ requests'[r].phase = "free"
        /\ \A q \in Requests \ {r} : requests'[q] = requests[q]
        /\ answers' = answers
    BY <1>0, <2>1, FailEffect
  <2> QED
    BY <1>0, <2>1, <2>2, RequestStep
<1>8. ASSUME NEW payload \in Payloads, ExecuteWithoutKey(payload) PROVE IInv'
  <2>1. /\ rows' \in Seq(Row) /\ DOMAIN rows \subseteq DOMAIN rows'
        /\ \A i \in DOMAIN rows : rows'[i] = rows[i]
    BY <1>0, <1>8, ClaimEffect DEF ExecuteWithoutKey
  <2> QED
    BY <1>0, <1>8, <2>1, RowsStep DEF ExecuteWithoutKey
<1>9. ASSUME NEW i \in DOMAIN rows, Drop(i) PROVE IInv'
  BY <1>0, <1>9, DropEffect, RowsStep DEF Drop
<1>10. CASE Tick
  BY <1>0, <1>10, RowsStep DEF Tick
<1>11. CASE UNCHANGED vars
  BY <1>0, <1>11, RowsStep DEF vars
<1> QED
  BY <1>1, <1>2, <1>3, <1>4, <1>5, <1>6, <1>7, <1>8, <1>9, <1>10, <1>11 DEF Next

\* The inductive invariant holds of every behaviour.
LEMMA Invariance == Spec => []IInv
<1>1. Init => IInv
  <2>1. SUFFICES ASSUME Init PROVE IInv
    OBVIOUS
  <2>2. TypeOK
    BY <2>1, FreeType, EmptySeq DEF Init, TypeOK, RequestType
  <2>3. RecordTrue /\ AnswersRecorded
    BY <2>1 DEF Init, RecordTrue, AnswersRecorded
  <2>4. RequestsTrue
    BY <2>1, FreeType DEF Init, RequestsTrue
  <2> QED
    BY <2>2, <2>3, <2>4 DEF IInv
<1>2. IInv /\ [Next]_vars => IInv'
  BY Inductive
<1> QED
  BY <1>1, <1>2, PTL DEF Spec

\* Every reachable state is well typed.
THEOREM TypeCorrect == Spec => []TypeOK
<1>1. IInv => TypeOK
  BY DEF IInv
<1> QED
  BY <1>1, Invariance, PTL

\* However many requests race, crash or are retried under one key, the successful
\* answers all show the stored response.
THEOREM OneResponse == Spec => []AnswersAgree
<1>1. IInv => AnswersAgree
  BY DEF IInv, AnswersRecorded, AnswersAgree
<1> QED
  BY <1>1, Invariance, PTL

\* Every answer shows a row that was created under the key for the payload of the
\* request answered, although the row may have been another request's.
THEOREM ResponseOfOwnPayload == Spec => []AnswerMatchesPayload
<1>1. IInv => AnswerMatchesPayload
  BY DEF IInv, RecordTrue, AnswersRecorded, Claimed, AnswerMatchesPayload
<1> QED
  BY <1>1, Invariance, PTL
=============================================================================
