------------------------------- MODULE Claims -------------------------------
(***************************************************************************)
(* Claim requests as the API serves them (BatchClaim and Claim of          *)
(* service/enrollment.go, recordRejection of service/service.go): a batch  *)
(* claims its sections one transaction after the other, a claim rejected   *)
(* by its transaction is put on the audit trail in a second one, and the   *)
(* request's context may expire, or the database refuse a statement,       *)
(* between any two of them.  The ids a client sends are not checked before *)
(* the loop: an item may name no section, or be no id at all.  A single    *)
(* claim is a batch of one.  The roster, and what else happens to it       *)
(* meanwhile, is module Enrollment's.                                      *)
(***************************************************************************)
EXTENDS Enrollment

CONSTANTS
  Clients,   \* requests, each served once
  Orders,    \* the lists of ids a request may ask for
  Unknown,   \* positive ids that are no section's
  Invalid    \* ids that are zero or negative

Ids == Sections \cup Unknown \cup Invalid

ASSUME OrdersAssumption ==
  /\ Unknown \cap Sections = {} /\ Invalid \cap (Sections \cup Unknown) = {}
  /\ \A order \in Orders : order \in Seq(Ids) /\ Len(order) > 0

VARIABLES
  request,     \* [Clients -> the request's progress]
  author,      \* history: the client of each enrollment row
  rejections   \* the rejected audit entries: Seq([client, section])
               \* request[c].refused counts the entries that the database refused
               \* to take while the request still had time

claimVars == <<request, author, rejections>>

NotSent ==
  [phase |-> "none", actor |-> NoOne, student |-> NoOne, todo |-> <<>>, results |-> <<>>,
   expired |-> FALSE, refused |-> 0, failed |-> FALSE]

ClaimsInit ==
  /\ Init
  /\ request = [c \in Clients |-> NotSent]
  /\ author = <<>>
  /\ rejections = <<>>

\* The outcome of the current item is added to the results.
Settled(c, outcome, row) ==
  [request[c] EXCEPT !.phase = "next", !.todo = Tail(@),
                     !.results = Append(@, [section |-> Head(request[c].todo),
                                            outcome |-> outcome, row |-> row])]

Update(c, state) == request' = [request EXCEPT ![c] = state]

\* BatchClaim up to its loop.  An empty list, or a client that may not act on the
\* student, is answered at once and nothing is written.
Send(c, actor, student, order) ==
  /\ request[c].phase = "none"
  /\ CanActOnStudent(actor, student)
  /\ Update(c, [NotSent EXCEPT !.phase = "next", !.actor = actor, !.student = student,
                               !.todo = order])
  /\ UNCHANGED <<vars, author, rejections>>

\* Mutant: the loop does not ask for the context.
AtItemUnchecked(c) == request[c].phase = "next" /\ request[c].todo # <<>>

\* The loop turns to the next item: the context has not expired.
AtItem(c) == request[c].phase = "next" /\ request[c].todo # <<>> /\ ~request[c].expired

\* EnrollmentRequest.Validate.
Validate(id) == id \notin Invalid

\* Claim returns what Validate says of an id that is not positive.  The item is
\* answered as a validation failure; recordRejection is not reached.
ClaimInvalid(c) ==
  /\ AtItem(c) /\ ~Validate(Head(request[c].todo))
  /\ Update(c, Settled(c, "invalid", 0))
  /\ UNCHANGED <<vars, author, rejections>>

\* claimOnce finds no section of that id, or has nothing to give for it.
Rejected(student, s) ==
  s \in Sections =>
    \/ ~Eligible(now, student, s, sections[s], Verified(student, TermOf[s]), Held(student, TermOf[s]))
    \/ MustWaitlist(s, sections[s]) /\ ~WaitlistRoom(s, sections[s])

\* A positive id reaches the database and is granted,
ClaimGranted(c) ==
  LET s == Head(request[c].todo) IN
  /\ AtItem(c) /\ s \in Sections
  /\ \/ ClaimSeat(request[c].actor, request[c].student, s)
     \/ ClaimWaitlistPlace(request[c].actor, request[c].student, s)
  /\ Update(c, Settled(c, "ok", Len(enrollments) + 1))
  /\ author' = Append(author, c)
  /\ UNCHANGED rejections

\* Mutant: the batch gives up at the first claim that is rejected.
AfterRejectionGivesUp(c) == [request[c] EXCEPT !.phase = "answered", !.failed = TRUE]

AfterRejection(c) == [request[c] EXCEPT !.phase = "auditing"]

\* or is rejected, which rolls the transaction back.
ClaimRejected(c) ==
  /\ AtItem(c) /\ Validate(Head(request[c].todo))
  /\ Rejected(request[c].student, Head(request[c].todo))
  /\ Update(c, AfterRejection(c))
  /\ UNCHANGED <<vars, author, rejections>>

\* The claim's transaction fails, because the context expires after the check
\* at the head of the loop or because the database refuses it.  The item is
\* answered as an internal error, which recordRejection passes over.
ClaimFails(c) ==
  /\ AtItem(c) /\ Validate(Head(request[c].todo))
  /\ \E late \in BOOLEAN : Update(c, [Settled(c, "internal", 0) EXCEPT !.expired = late])
  /\ UNCHANGED <<vars, author, rejections>>

RejectionEntry(c) == Append(rejections, [client |-> c, section |-> Head(request[c].todo)])

\* recordRejection commits,
RecordRejection(c) ==
  /\ request[c].phase = "auditing" /\ ~request[c].expired
  /\ rejections' = RejectionEntry(c)
  /\ Update(c, Settled(c, "rejected", 0))
  /\ UNCHANGED <<vars, author>>

\* or fails, because it runs under the request's context or because the database
\* refuses it, which is logged and does not change the answer.
RejectionUnrecorded(c) ==
  /\ request[c].phase = "auditing"
  /\ Update(c, [Settled(c, "rejected", 0) EXCEPT
                  !.refused = IF request[c].expired THEN @ ELSE @ + 1])
  /\ UNCHANGED <<vars, author, rejections>>

\* The check at the head of the loop: the handler answers with an error and the
\* results are thrown away.
Interrupted(c) ==
  /\ request[c].phase = "next" /\ request[c].todo # <<>> /\ request[c].expired
  /\ Update(c, [request[c] EXCEPT !.phase = "answered", !.failed = TRUE])
  /\ UNCHANGED <<vars, author, rejections>>

\* The handler answers with one result for each item.
Answer(c) ==
  /\ request[c].phase = "next" /\ request[c].todo = <<>>
  /\ Update(c, [request[c] EXCEPT !.phase = "answered"])
  /\ UNCHANGED <<vars, author, rejections>>

\* The client goes away or the request's time budget ends.
Expire(c) ==
  /\ request[c].phase \in {"next", "auditing"} /\ ~request[c].expired
  /\ Update(c, [request[c] EXCEPT !.expired = TRUE])
  /\ UNCHANGED <<vars, author, rejections>>

ClaimsNext ==
  \/ \E c \in Clients :
       \/ \E actor, student \in Users, order \in Orders : Send(c, actor, student, order)
       \/ ClaimInvalid(c) \/ ClaimGranted(c) \/ ClaimRejected(c) \/ ClaimFails(c)
       \/ RecordRejection(c) \/ RejectionUnrecorded(c)
       \/ Interrupted(c) \/ Answer(c) \/ Expire(c)
  \/ /\ \/ Paperwork \/ JobAction \/ Tooling \/ Tick
        \/ \E actor \in Users, i \in Rows, at \in (now - LockWait)..now : Drop(actor, i, at)
     /\ UNCHANGED claimVars

ClaimsSpec == ClaimsInit /\ [][ClaimsNext]_<<vars, claimVars>>
-----------------------------------------------------------------------------
Answered(c) == request[c].phase = "answered"

\* Whoever asked for a row knows of it: once a request is answered, every seat or
\* waitlist place it was given, in whatever interleaving with other requests and
\* with rejections in between, is in the answer as an item of that section; only
\* a client that went away or ran out of time may own rows no answer told it of.
ClientsKnowTheirRows ==
  \A i \in Rows : LET c == author[i] IN
    Answered(c) /\ ~request[c].expired =>
      /\ ~request[c].failed
      /\ \E k \in DOMAIN request[c].results :
           request[c].results[k] = [section |-> enrollments[i].section, outcome |-> "ok", row |-> i]

\* The sections of the entries at some places of a log, in order.
SectionsAt(log, places) ==
  LET upTo[n \in 0..Len(log)] ==
        IF n = 0 THEN <<>>
        ELSE IF n \in places THEN Append(upTo[n - 1], log[n].section) ELSE upTo[n - 1]
  IN  upTo[Len(log)]

\* The ids request c was told its claims were rejected for, and those the audit
\* trail says it was rejected for.  Items that Validate refuses are not among them.
Told(c) ==
  SectionsAt(request[c].results,
             {k \in DOMAIN request[c].results : request[c].results[k].outcome = "rejected"})

OnRecord(c) == SectionsAt(rejections, {k \in DOMAIN rejections : rejections[k].client = c})

\* Rejections are on record, in the second transaction, although the first was
\* rolled back: the audit trail never holds more entries than a request was told
\* rejections, it holds exactly those, in order, when nothing went wrong, and what
\* is missing is accounted for.  A request that runs out of time loses at most the
\* one entry being written, however many of its items are left, because the loop
\* asks for the context again; every other loss is an entry the database refused.
\* It is about the items a claim's transaction rejected; an id that is not positive
\* is refused by Validate and is told, but never recorded.
RejectionsOnRecord ==
  \A c \in Clients :
    /\ Len(OnRecord(c)) <= Len(Told(c))
    /\ Len(Told(c)) <= Len(OnRecord(c)) + request[c].refused + (IF request[c].expired THEN 1 ELSE 0)
    /\ ~request[c].expired /\ request[c].refused = 0 => OnRecord(c) = Told(c)
=============================================================================
