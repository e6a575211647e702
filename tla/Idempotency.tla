----------------------------- MODULE Idempotency -----------------------------
(***************************************************************************)
(* Replay protection of a claim (service/idempotency.go Execute around     *)
(* EnrollmentService.Claim in httpapi/enrollment_handlers.go), for one     *)
(* scope: one actor, method, path and key.  Scopes are independent, they   *)
(* are the primary key of the table.                                       *)
(*                                                                         *)
(* Execute is no transaction: it looks the record up, runs the claim in    *)
(* the claim's own transaction, and saves the response in a further        *)
(* statement.  The claims of module Enrollment are reduced to what matters *)
(* here: a claim may be refused, and is refused while the student holds    *)
(* the section.  The response is identified by the enrollment row it       *)
(* shows.  PurgeExpired has no caller, so records are never removed.       *)
(***************************************************************************)
EXTENDS Integers, Sequences, FiniteSets

CONSTANTS
  Requests,        \* slots for requests in flight
  Payloads,        \* request bodies, by their bytes
  SectionOf,       \* [Payloads -> the section a body asks for]
  None,            \* no record, no answer
  IdempotencyTTL,  \* how long a response can be replayed
  MaxRows,         \* bound on the enrollment rows ever created
  MaxTime          \* bound on the clock

ASSUME IdempotencyAssumption ==
  /\ None \notin Nat /\ None \notin [payload : Payloads, body : Nat, expiresAt : Nat]
  /\ IdempotencyTTL \in Nat \ {0} /\ MaxRows \in Nat /\ MaxTime \in Nat

VARIABLES
  record,    \* the row of the scope: None or [payload, body, expiresAt]
  rows,      \* enrollments in id order: [payload, keyed, live]
  requests,  \* [Requests -> [phase, payload, body]]
  answers,   \* history: the successful answers, as [payload, body]
  now        \* the wall clock

vars == <<record, rows, requests, answers, now>>

\* A request is free, about to look the record up, about to run the claim,
\* about to save the response, or has lost the race to save it.
Phases == {"free", "lookup", "claim", "save", "lost"}

Free == [phase |-> "free", payload |-> None, body |-> 0]

Init ==
  /\ record = None
  /\ rows = <<>>
  /\ requests = [r \in Requests |-> Free]
  /\ answers = {}
  /\ now = 0

\* The request ends with a response, with an error, or with no answer at all.
Answer(r, body) ==
  /\ answers' = answers \cup {[payload |-> requests[r].payload, body |-> body]}
  /\ requests' = [requests EXCEPT ![r] = Free]

Fail(r) ==
  /\ requests' = [requests EXCEPT ![r] = Free]
  /\ UNCHANGED answers
-----------------------------------------------------------------------------
\* EnrollmentService.Claim: a student holds a section once at a time.
Claim(payload, keyed) ==
  /\ Len(rows) < MaxRows
  /\ \A i \in DOMAIN rows : rows[i].live => SectionOf[rows[i].payload] # SectionOf[payload]
  /\ rows' = Append(rows, [payload |-> payload, keyed |-> keyed, live |-> TRUE])

\* A request without a key runs the claim and nothing else.
ExecuteWithoutKey(payload) ==
  /\ Claim(payload, FALSE)
  /\ UNCHANGED <<record, requests, answers, now>>

\* EnrollmentService.Drop.
Drop(i) ==
  /\ rows[i].live
  /\ rows' = [rows EXCEPT ![i].live = FALSE]
  /\ UNCHANGED <<record, requests, answers, now>>

Arrive(r, payload) ==
  /\ requests[r].phase = "free"
  /\ requests' = [requests EXCEPT ![r] = [phase |-> "lookup", payload |-> payload, body |-> 0]]
  /\ UNCHANGED <<record, rows, answers, now>>

\* Mutant: the payload bound to the key is not compared.
FingerprintIgnored(payload) == TRUE

FingerprintMatches(payload) == record.payload = payload

\* Execute up to fn: no record, a record of another payload, a record that
\* expired, or a response to replay.
Lookup(r) ==
  /\ requests[r].phase = "lookup"
  /\ \/ /\ record = None
        /\ requests' = [requests EXCEPT ![r].phase = "claim"]
        /\ UNCHANGED answers
     \/ /\ record # None
        /\ ~FingerprintMatches(requests[r].payload) \/ now >= record.expiresAt
        /\ Fail(r)
     \/ /\ record # None
        /\ FingerprintMatches(requests[r].payload) /\ now < record.expiresAt
        /\ Answer(r, record.body)
  /\ UNCHANGED <<record, rows, now>>

\* fn: the claim commits, or is refused and nothing is stored for the key.
RunClaim(r) ==
  /\ requests[r].phase = "claim"
  /\ \/ /\ Claim(requests[r].payload, TRUE)
        /\ requests' = [requests EXCEPT ![r].phase = "save", ![r].body = Len(rows) + 1]
        /\ UNCHANGED answers
     \/ Fail(r) /\ UNCHANGED rows
  /\ UNCHANGED <<record, now>>

\* The INSERT, which the primary key refuses when there is a row.
SaveIdempotencyRecord(payload, body) ==
  /\ record = None
  /\ record' = [payload |-> payload, body |-> body, expiresAt |-> now + IdempotencyTTL]

Save(r) ==
  /\ requests[r].phase = "save"
  /\ SaveIdempotencyRecord(requests[r].payload, requests[r].body)
  /\ Answer(r, requests[r].body)
  /\ UNCHANGED <<rows, now>>

SaveConflicts(r) ==
  /\ requests[r].phase = "save"
  /\ record # None
  /\ requests' = [requests EXCEPT ![r].phase = "lost"]
  /\ UNCHANGED <<record, rows, answers, now>>

\* Mutant: the loser has nothing to answer with.
ReplayedNoBody(r) == 0

\* Mutant: the loser answers with the response of its own claim.
ReplayedOwnBody(r) == requests[r].body

\* The response the loser of the race replays.
ReplayedBody(r) == record.body

\* The loser looks the record up again and replays it if the payload is the
\* same; its expiry is not looked at.
ReplayWinner(r) ==
  /\ requests[r].phase = "lost"
  /\ IF FingerprintMatches(requests[r].payload) THEN Answer(r, ReplayedBody(r)) ELSE Fail(r)
  /\ UNCHANGED <<record, rows, now>>

\* The process dies, the request times out or a statement fails: the client
\* learns nothing and what has been committed stays.
Interrupt(r) ==
  /\ requests[r].phase # "free"
  /\ Fail(r)
  /\ UNCHANGED <<record, rows, now>>

Tick ==
  /\ now < MaxTime
  /\ now' = now + 1
  /\ UNCHANGED <<record, rows, requests, answers>>

Next ==
  \/ \E r \in Requests :
       \/ \E payload \in Payloads : Arrive(r, payload)
       \/ Lookup(r) \/ RunClaim(r) \/ Save(r) \/ SaveConflicts(r) \/ ReplayWinner(r) \/ Interrupt(r)
  \/ \E payload \in Payloads : ExecuteWithoutKey(payload)
  \/ \E i \in DOMAIN rows : Drop(i)
  \/ Tick

Spec == Init /\ [][Next]_vars
-----------------------------------------------------------------------------
Row == [payload : Payloads, keyed : BOOLEAN, live : BOOLEAN]

TypeOK ==
  /\ record \in [payload : Payloads, body : Nat \ {0}, expiresAt : Nat] \cup {None}
  /\ rows \in Seq(Row)
  /\ requests \in [Requests -> [phase : Phases, payload : Payloads \cup {None}, body : Nat]]
  /\ answers \subseteq [payload : Payloads, body : Nat \ {0}]
  /\ now \in Nat

\* However many requests with the key race, crash or are retried, every
\* successful answer the clients ever get shows one and the same response, and
\* that response is durably stored for the next retry.
AnswersAgree ==
  \A a \in answers : record # None /\ a.body = record.body

\* Nobody is answered with the response to another payload, nor with that of a
\* claim made without the key.
AnswerMatchesPayload ==
  \A a \in answers : rows[a.body].payload = a.payload /\ rows[a.body].keyed

\* idempotency.go:54 "Execute runs fn at most once per scope": the claims that
\* committed under the key are at most one.
AtMostOnce == Cardinality({i \in DOMAIN rows : rows[i].keyed}) <= 1
=============================================================================
