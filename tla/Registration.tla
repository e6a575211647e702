---------------------------- MODULE Registration ----------------------------
(***************************************************************************)
(* Orientation paperwork: one record per student and term, submitted by    *)
(* the student (or a registrar for the student) and decided by a           *)
(* registrar.  A student without a row is in "draft", the status the code  *)
(* gives the record it builds when none is found.                          *)
(*                                                                         *)
(* Each operation reads, checks and writes inside one immediate            *)
(* transaction, so it is one step here; the version column cannot conflict *)
(* under that serialisation and is left out, and so are the form fields.   *)
(***************************************************************************)
EXTENDS Catalog

CONSTANT NoOne      \* the NULL of decided_by_user_id

ASSUME NoOneAssumption == NoOne \notin Users

VARIABLE registration   \* [Users -> [Terms -> [status, decidedBy]]]

RegistrationType ==
  [Users -> [Terms -> [status : RegistrationStatuses, decidedBy : Users \cup {NoOne}]]]

RegistrationInit ==
  registration = [u \in Users |-> [t \in Terms |-> [status |-> "draft", decidedBy |-> NoOne]]]

Verified(u, t) == registration[u][t].status = "verified"

\* Mutant: the previous decision's author survives a resubmission.
SubmittedKeepsAuthor(row) == [row EXCEPT !.status = "submitted"]

\* Registration.Submit: the decision columns are wiped.
Submitted(row) == [status |-> "submitted", decidedBy |-> NoOne]

\* Registration.Decide: the decision is stamped with its author.
Decided(row, target, actor) == [status |-> target, decidedBy |-> actor]

\* The one row of a student and term is inserted, or updated in place.
UpsertRegistration(student, t, row) ==
  registration' = [registration EXCEPT ![student][t] = row]

\* RegistrationService.Submit: creates or resubmits the record.
Submit(actor, student, t) ==
  /\ CanActOnStudent(actor, student)
  /\ t \notin Archived
  /\ <<registration[student][t].status, "submitted">> \in RegistrationTransitions
  /\ UpsertRegistration(student, t, Submitted(registration[student][t]))

\* RegistrationService.Decide: a registrar verifies or rejects the record.
Decide(actor, student, t, target) ==
  /\ actor \in Registrars
  /\ target \in {"verified", "rejected"}
  /\ <<registration[student][t].status, target>> \in RegistrationTransitions
  /\ UpsertRegistration(student, t, Decided(registration[student][t], target, actor))

RegistrationNext ==
  \E actor, student \in Users, t \in Terms :
    \/ Submit(actor, student, t)
    \/ \E target \in RegistrationStatuses : Decide(actor, student, t, target)

RegistrationSpec == RegistrationInit /\ [][RegistrationNext]_registration
-----------------------------------------------------------------------------
\* The decision columns always belong to the current decision: a record that
\* is verified or rejected names the registrar who decided it, and a record
\* that is waiting for a decision (resubmitted after a rejection included)
\* names nobody, although Submit and Decide write them in different requests.
DecisionAttributed ==
  \A u \in Users, t \in Terms :
    registration[u][t].decidedBy \in
      (IF registration[u][t].status \in {"verified", "rejected"} THEN Registrars ELSE {NoOne})

\* No sequence of submissions and decisions takes a verification back: the
\* comment of Submit (service/registration.go:36-37) promises that verified
\* paperwork is terminal, and the seats claimed on the strength of it rely on
\* that; the registrar who verified it stays on record.
VerificationIsFinal ==
  [][\A u \in Users, t \in Terms :
       Verified(u, t) => registration'[u][t] = registration[u][t]]_registration
=============================================================================
