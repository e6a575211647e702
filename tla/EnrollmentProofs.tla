-------------------------- MODULE EnrollmentProofs --------------------------
(***************************************************************************)
(* Machine-checked proofs about modules Registration, Enrollment and       *)
(* Claims, each of which extends the one before, for every catalogue,      *)
(* every number of users, sections, rows and requests and every value of   *)
(* the bounds.                                                             *)
(***************************************************************************)
EXTENDS Claims, Recursion, FiniteSetTheorems, SequenceTheorems, TLAPS

-----------------------------------------------------------------------------
(* Paperwork. *)

\* Submissions and decisions keep the type of the paperwork.
LEMMA RegistrationKeepsType ==
  ASSUME registration \in RegistrationType, RegistrationNext
  PROVE  registration' \in RegistrationType
<1>1. ASSUME NEW u \in Users, NEW t \in Terms, NEW st \in RegistrationStatuses,
             NEW by \in Users \cup {NoOne},
             registration' = [registration EXCEPT ![u][t] = [status |-> st, decidedBy |-> by]]
      PROVE  registration' \in RegistrationType
  BY <1>1 DEF RegistrationType
<1>2. PICK actor \in Users, u \in Users, t \in Terms :
        \/ Submit(actor, u, t)
        \/ \E target \in RegistrationStatuses : Decide(actor, u, t, target)
  BY DEF RegistrationNext
<1>3. CASE Submit(actor, u, t)
  BY <1>1, <1>3 DEF Submit, Submitted, UpsertRegistration, RegistrationStatuses
<1>4. CASE \E target \in RegistrationStatuses : Decide(actor, u, t, target)
  BY <1>1, <1>4 DEF Decide, Decided, UpsertRegistration
<1> QED
  BY <1>2, <1>3, <1>4

\* DecisionAttributed at every step of RegistrationNext.
LEMMA DecisionStep ==
  ASSUME registration \in RegistrationType, DecisionAttributed, RegistrationNext
  PROVE  DecisionAttributed'
<1>1. ASSUME NEW u \in Users, NEW t \in Terms, NEW st, NEW by,
             by \in (IF st \in {"verified", "rejected"} THEN Registrars ELSE {NoOne}),
             registration' = [registration EXCEPT ![u][t] = [status |-> st, decidedBy |-> by]]
      PROVE  DecisionAttributed'
  <2>1. ASSUME NEW v \in Users, NEW x \in Terms
        PROVE  registration'[v][x] = IF v = u /\ x = t THEN [status |-> st, decidedBy |-> by]
                                                      ELSE registration[v][x]
    BY <1>1 DEF RegistrationType
  <2> QED
    BY <1>1, <2>1 DEF DecisionAttributed
<1>2. PICK actor \in Users, u \in Users, t \in Terms :
        \/ Submit(actor, u, t)
        \/ \E target \in RegistrationStatuses : Decide(actor, u, t, target)
  BY DEF RegistrationNext
<1>3. CASE Submit(actor, u, t)
  BY <1>1, <1>3 DEF Submit, Submitted, UpsertRegistration
<1>4. CASE \E target \in RegistrationStatuses : Decide(actor, u, t, target)
  BY <1>1, <1>4 DEF Decide, Decided, UpsertRegistration
<1> QED
  BY <1>2, <1>3, <1>4

\* A verified record is not moved by any submission or decision.
LEMMA VerifiedStep ==
  ASSUME registration \in RegistrationType, RegistrationNext,
         NEW v \in Users, NEW x \in Terms, Verified(v, x)
  PROVE  registration'[v][x] = registration[v][x]
<1>1. PICK actor \in Users, u \in Users, t \in Terms :
        \/ Submit(actor, u, t)
        \/ \E target \in RegistrationStatuses : Decide(actor, u, t, target)
  BY DEF RegistrationNext
<1>2. registration[u][t].status # "verified"
  BY <1>1 DEF Submit, Decide, RegistrationTransitions
<1>3. \E row : registration' = [registration EXCEPT ![u][t] = row]
  BY <1>1 DEF Submit, Decide, UpsertRegistration
<1> QED
  BY <1>2, <1>3 DEF Verified, RegistrationType

RegistrationTypeOK == registration \in RegistrationType

\* The paperwork always has the type of the registrations table.
LEMMA RegistrationTypeCorrect == RegistrationSpec => []RegistrationTypeOK
<1>1. RegistrationInit => RegistrationTypeOK
  BY DEF RegistrationTypeOK, RegistrationInit, RegistrationType, RegistrationStatuses
<1>2. RegistrationTypeOK /\ [RegistrationNext]_registration
        => RegistrationTypeOK'
  BY RegistrationKeepsType DEF RegistrationTypeOK
<1> QED
  BY <1>1, <1>2, PTL DEF RegistrationSpec
-----------------------------------------------------------------------------
\* A decided record names the registrar who decided it and an undecided one
\* names nobody, after any history of submissions and decisions.
THEOREM DecisionsAttributed == RegistrationSpec => []DecisionAttributed
<1>1. RegistrationInit => DecisionAttributed
  BY DEF RegistrationInit, DecisionAttributed
<1>2. RegistrationTypeOK /\ DecisionAttributed /\ [RegistrationNext]_registration
        => DecisionAttributed'
  <2>1. ASSUME UNCHANGED registration, DecisionAttributed PROVE DecisionAttributed'
    BY <2>1 DEF DecisionAttributed
  <2> QED
    BY <2>1, DecisionStep DEF RegistrationTypeOK
<1> QED
  BY <1>1, <1>2, RegistrationTypeCorrect, PTL DEF RegistrationSpec

\* Verified paperwork is terminal: Submit and Decide never move it again.
THEOREM VerificationFinal == RegistrationSpec => VerificationIsFinal
<1>1. RegistrationTypeOK /\ [RegistrationNext]_registration
        => [\A u \in Users, t \in Terms :
              Verified(u, t) => registration'[u][t] = registration[u][t]]_registration
  BY VerifiedStep DEF RegistrationTypeOK
<1> QED
  BY <1>1, RegistrationTypeCorrect, PTL DEF RegistrationSpec, VerificationIsFinal

-----------------------------------------------------------------------------
(* Facts about sets of naturals. *)

\* A non-empty bounded set of naturals has the maximum NextWaitlistRank takes.
LEMMA MaxExists ==
  ASSUME NEW S, S \subseteq Nat, S # {}, NEW b \in Nat, \A x \in S : x <= b
  PROVE  Max(S) \in S /\ \A x \in S : Max(S) >= x
<1> DEFINE T == {n \in Nat : \A x \in S : x <= n}
<1>1. PICK m \in T : \A n \in T : m <= n
  <2>1. T \subseteq Nat /\ T # {}
    OBVIOUS
  <2> QED
    BY <2>1, Smallest
<1>2. m \in S
  <2>1. SUFFICES ASSUME m \notin S PROVE FALSE
    OBVIOUS
  <2>2. \A x \in S : x < m
    BY <1>1, <2>1
  <2>3. m \in Nat /\ m > 0 /\ m - 1 \in Nat
    <3>1. PICK x \in S : x \in Nat
      OBVIOUS
    <3> QED
      BY <1>1, <2>2, <3>1
  <2>4. \A x \in S : x <= m - 1
    BY <2>2, <2>3
  <2>5. m - 1 \in T
    BY <2>3, <2>4
  <2> QED
    BY <1>1, <2>3, <2>5
<1>3. \A x \in S : m >= x
  BY <1>1
<1> QED
  BY <1>2, <1>3 DEF Max
-----------------------------------------------------------------------------
(* What the two row writes do to the roster. *)

\* The rows of a section with a status are finitely many row ids.
LEMMA RowsFinite ==
  ASSUME TypeOK, NEW s, NEW q
  PROVE  /\ Rows = 1..Len(enrollments) /\ Len(enrollments) \in Nat
         /\ RowsIn(s, q) \subseteq Rows
         /\ IsFiniteSet(RowsIn(s, q))
         /\ Cardinality(RowsIn(s, q)) \in Nat
<1>1. Rows = 1..Len(enrollments) /\ Len(enrollments) \in Nat
  BY DEF TypeOK, Rows
<1>2. RowsIn(s, q) \subseteq Rows
  BY DEF RowsIn
<1>3. IsFiniteSet(Rows)
  BY <1>1, FS_Interval
<1>4. IsFiniteSet(RowsIn(s, q))
  BY <1>2, <1>3, FS_Subset
<1> QED
  BY <1>1, <1>2, <1>4, FS_CardinalityType

\* The columns of a row have the types of the row.
LEMMA RowTypes ==
  ASSUME TypeOK, NEW i \in Rows
  PROVE  /\ enrollments[i] \in EnrollmentRow
         /\ enrollments[i].student \in Users /\ enrollments[i].section \in Sections
         /\ enrollments[i].status \in EnrollmentStatuses /\ enrollments[i].rank \in Nat
<1>1. enrollments \in Seq(EnrollmentRow) /\ i \in 1..Len(enrollments)
  BY DEF TypeOK, Rows
<1>2. enrollments[i] \in EnrollmentRow
  BY <1>1
<1> QED
  BY <1>2 DEF EnrollmentRow

\* CreateEnrollment adds one row at the end and touches no other.
LEMMA CreateRow ==
  ASSUME TypeOK, NEW u \in Users, NEW s \in Sections, NEW st \in {"enrolled", "waitlisted"},
         NEW r \in Nat, NEW a \in AuditActions, CreateEnrollment(u, s, st, r, a)
  PROVE  /\ enrollments' \in Seq(EnrollmentRow) /\ Len(enrollments') = Len(enrollments) + 1
         /\ trail' \in Seq(Seq(AuditActions)) /\ Len(trail') = Len(enrollments')
         /\ \A i \in Rows : i \in Rows' /\ enrollments'[i] = enrollments[i]
         /\ Rows' = Rows \cup {Len(enrollments) + 1}
         /\ enrollments'[Len(enrollments) + 1] =
              [student |-> u, section |-> s, status |-> st, rank |-> RankAfter(st, r)]
<1> DEFINE row == [student |-> u, section |-> s, status |-> st, rank |-> RankAfter(st, r)]
<1>1. row \in EnrollmentRow
  BY DEF EnrollmentRow, RankAfter, EnrollmentStatuses
<1>2. enrollments \in Seq(EnrollmentRow) /\ trail \in Seq(Seq(AuditActions))
      /\ Len(trail) = Len(enrollments)
  BY DEF TypeOK
<1>3. enrollments' = Append(enrollments, row) /\ trail' = Append(trail, <<a>>)
  BY DEF CreateEnrollment
<1>4. <<a>> \in Seq(AuditActions)
  OBVIOUS
<1> HIDE DEF row
<1>5. /\ enrollments' \in Seq(EnrollmentRow) /\ Len(enrollments') = Len(enrollments) + 1
      /\ trail' \in Seq(Seq(AuditActions)) /\ Len(trail') = Len(trail) + 1
  BY <1>1, <1>2, <1>3, <1>4, AppendProperties
<1>6. /\ \A i \in 1..Len(enrollments) : enrollments'[i] = enrollments[i]
      /\ enrollments'[Len(enrollments) + 1] = row
  BY <1>1, <1>2, <1>3, AppendProperties
<1>7. Rows = 1..Len(enrollments) /\ Rows' = 1..(Len(enrollments) + 1) /\ Len(enrollments) \in Nat
  BY <1>2, <1>5 DEF Rows
<1> QED
  BY <1>2, <1>5, <1>6, <1>7 DEF row

\* So exactly one section and status gain one row.
LEMMA CreateCount ==
  ASSUME TypeOK, NEW u \in Users, NEW s \in Sections, NEW st \in {"enrolled", "waitlisted"},
         NEW r \in Nat, NEW a \in AuditActions, CreateEnrollment(u, s, st, r, a),
         NEW x \in Sections, NEW q
  PROVE  /\ x = s /\ q = st =>
              /\ RowsIn(x, q)' = RowsIn(x, q) \cup {Len(enrollments) + 1}
              /\ Cardinality(RowsIn(x, q)') = Cardinality(RowsIn(x, q)) + 1
         /\ ~(x = s /\ q = st) => RowsIn(x, q)' = RowsIn(x, q)
<1> DEFINE new == Len(enrollments) + 1
<1>1. /\ \A i \in Rows : i \in Rows' /\ enrollments'[i] = enrollments[i]
      /\ Rows' = Rows \cup {new}
      /\ enrollments'[new].section = s /\ enrollments'[new].status = st
  <2>1. /\ \A i \in Rows : i \in Rows' /\ enrollments'[i] = enrollments[i]
        /\ Rows' = Rows \cup {Len(enrollments) + 1}
        /\ enrollments'[Len(enrollments) + 1] =
             [student |-> u, section |-> s, status |-> st, rank |-> RankAfter(st, r)]
    BY CreateRow, Zenon
  <2> QED
    BY <2>1
<1>2. new \notin Rows
  BY RowsFinite
<1>3. RowsIn(x, q)' = {i \in Rows' : enrollments'[i].section = x /\ enrollments'[i].status = q}
  BY DEF RowsIn
<1>4. CASE x = s /\ q = st
  <2>1. RowsIn(x, q)' = RowsIn(x, q) \cup {new}
    BY <1>1, <1>2, <1>3, <1>4 DEF RowsIn
  <2>2. IsFiniteSet(RowsIn(x, q)) /\ new \notin RowsIn(x, q)
    BY <1>2, RowsFinite
  <2>3. Cardinality(RowsIn(x, q) \cup {new}) = Cardinality(RowsIn(x, q)) + 1
    BY <2>2, FS_AddElement
  <2> QED
    BY <1>4, <2>1, <2>3
<1>5. CASE ~(x = s /\ q = st)
  <2>1. RowsIn(x, q)' = RowsIn(x, q)
    BY <1>1, <1>2, <1>3, <1>5 DEF RowsIn
  <2> QED
    BY <1>5, <2>1
<1> QED
  BY <1>4, <1>5

\* Transition and UpdateEnrollment rewrite one row and touch no other.
LEMMA MoveRow ==
  ASSUME TypeOK, NEW i \in Rows, NEW target \in EnrollmentStatuses, NEW a \in AuditActions,
         MoveEnrollment(i, target, a)
  PROVE  /\ enrollments' \in Seq(EnrollmentRow) /\ Len(enrollments') = Len(enrollments)
         /\ trail' \in Seq(Seq(AuditActions)) /\ Len(trail') = Len(enrollments')
         /\ Rows' = Rows
         /\ \A j \in Rows : j # i => enrollments'[j] = enrollments[j]
         /\ enrollments'[i].student = enrollments[i].student
         /\ enrollments'[i].section = enrollments[i].section
         /\ enrollments'[i].status = target
         /\ enrollments'[i].rank = RankAfter(target, enrollments[i].rank)
         /\ enrollments[i].status # target
<1> DEFINE row == [enrollments[i] EXCEPT !.status = target,
                                        !.rank = RankAfter(target, enrollments[i].rank)]
<1> DEFINE log == Append(trail[i], a)
<1>1. enrollments \in Seq(EnrollmentRow) /\ trail \in Seq(Seq(AuditActions))
      /\ Len(trail) = Len(enrollments)
  BY DEF TypeOK
<1>2. Rows = 1..Len(enrollments) /\ Len(enrollments) \in Nat
  BY <1>1 DEF Rows
<1>3. enrollments[i] \in EnrollmentRow /\ trail[i] \in Seq(AuditActions)
  BY <1>1, <1>2
<1>4. /\ row \in EnrollmentRow
      /\ row.student = enrollments[i].student /\ row.section = enrollments[i].section
      /\ row.status = target /\ row.rank = RankAfter(target, enrollments[i].rank)
  BY <1>3 DEF EnrollmentRow, RankAfter
<1>5. log \in Seq(AuditActions)
  BY <1>3, AppendProperties
<1>6. enrollments' = [enrollments EXCEPT ![i] = row] /\ trail' = [trail EXCEPT ![i] = log]
  BY <1>1, <1>2, <1>3 DEF MoveEnrollment, EnrollmentRow
<1> HIDE DEF row, log
<1>7. /\ enrollments' \in Seq(EnrollmentRow) /\ Len(enrollments') = Len(enrollments)
      /\ trail' \in Seq(Seq(AuditActions)) /\ Len(trail') = Len(trail)
  BY <1>1, <1>2, <1>4, <1>5, <1>6, ExceptSeq
<1>8. Rows' = Rows
  BY <1>2, <1>7 DEF Rows
<1>9. enrollments'[i] = row /\ \A j \in Rows : j # i => enrollments'[j] = enrollments[j]
  BY <1>1, <1>2, <1>6
<1>10. <<enrollments[i].status, target>> \in EnrollmentTransitions
  BY DEF MoveEnrollment
<1>11. enrollments[i].status # target
  BY <1>10 DEF EnrollmentTransitions
<1> QED
  BY <1>1, <1>4, <1>7, <1>8, <1>9, <1>11

\* So one section's old status loses the row and its new status gains it.
LEMMA MoveCount ==
  ASSUME TypeOK, NEW i \in Rows, NEW target \in EnrollmentStatuses, NEW a \in AuditActions,
         MoveEnrollment(i, target, a), NEW x \in Sections, NEW q
  PROVE  /\ x = enrollments[i].section /\ q = target =>
              /\ RowsIn(x, q)' = RowsIn(x, q) \cup {i}
              /\ Cardinality(RowsIn(x, q)') = Cardinality(RowsIn(x, q)) + 1
         /\ x = enrollments[i].section /\ q = enrollments[i].status =>
              /\ RowsIn(x, q)' = RowsIn(x, q) \ {i}
              /\ Cardinality(RowsIn(x, q)') = Cardinality(RowsIn(x, q)) - 1
         /\ ~(x = enrollments[i].section /\ q \in {target, enrollments[i].status}) =>
              RowsIn(x, q)' = RowsIn(x, q)
<1>1. /\ Rows' = Rows
      /\ \A j \in Rows : j # i => enrollments'[j] = enrollments[j]
      /\ enrollments'[i].section = enrollments[i].section
      /\ enrollments'[i].status = target
      /\ enrollments[i].status # target
  BY MoveRow, Zenon
<1>2. RowsIn(x, q)' = {j \in Rows' : enrollments'[j].section = x /\ enrollments'[j].status = q}
  BY DEF RowsIn
<1>3. IsFiniteSet(RowsIn(x, q))
  BY RowsFinite
<1>4. ASSUME x = enrollments[i].section, q = target
      PROVE  /\ RowsIn(x, q)' = RowsIn(x, q) \cup {i}
             /\ Cardinality(RowsIn(x, q)') = Cardinality(RowsIn(x, q)) + 1
  <2>1. RowsIn(x, q)' = RowsIn(x, q) \cup {i} /\ i \notin RowsIn(x, q)
    BY <1>1, <1>2, <1>4 DEF RowsIn
  <2> QED
    BY <1>3, <2>1, FS_AddElement
<1>5. ASSUME x = enrollments[i].section, q = enrollments[i].status
      PROVE  /\ RowsIn(x, q)' = RowsIn(x, q) \ {i}
             /\ Cardinality(RowsIn(x, q)') = Cardinality(RowsIn(x, q)) - 1
  <2>1. RowsIn(x, q)' = RowsIn(x, q) \ {i} /\ i \in RowsIn(x, q)
    BY <1>1, <1>2, <1>5 DEF RowsIn
  <2> QED
    BY <1>3, <2>1, FS_RemoveElement
<1>6. ASSUME ~(x = enrollments[i].section /\ q \in {target, enrollments[i].status})
      PROVE  RowsIn(x, q)' = RowsIn(x, q)
  BY <1>1, <1>2, <1>6 DEF RowsIn
<1> QED
  BY <1>4, <1>5, <1>6
-----------------------------------------------------------------------------
(* The order of a waitlist. *)

\* Ranks never exceed the number of rows, and a waiting row has one.  Without
\* the bound the set NextWaitlistRank takes the maximum of need not have one.
RanksBounded ==
  \A i \in Rows : /\ enrollments[i].rank <= Len(enrollments)
                  /\ enrollments[i].status = "waitlisted" => enrollments[i].rank > 0

\* NextWaitlistRank is past every rank in use for the section.
LEMMA NextRank ==
  ASSUME TypeOK, RanksBounded, NEW s
  PROVE  /\ NextWaitlistRank(s) \in Nat
         /\ 0 < NextWaitlistRank(s) /\ NextWaitlistRank(s) <= Len(enrollments) + 1
         /\ \A i \in Waiting(s) : enrollments[i].rank < NextWaitlistRank(s)
<1> DEFINE R == {enrollments[i].rank : i \in Waiting(s)}
<1>1. Waiting(s) \subseteq Rows /\ Len(enrollments) \in Nat
  BY RowsFinite DEF Waiting
<1>2. \A i \in Rows : enrollments[i].rank \in Nat
  BY RowTypes
<1>3. CASE Waiting(s) = {}
  BY <1>1, <1>3 DEF NextWaitlistRank
<1>4. CASE Waiting(s) # {}
  <2>1. R \subseteq Nat /\ R # {} /\ \A x \in R : x <= Len(enrollments)
    BY <1>1, <1>2, <1>4 DEF RanksBounded
  <2>2. Max(R) \in R /\ \A x \in R : Max(R) >= x
    <3> HIDE DEF R
    <3> QED
      BY <1>1, <2>1, MaxExists
  <2>3. NextWaitlistRank(s) = Max(R) + 1
    BY <1>4 DEF NextWaitlistRank
  <2>4. \A i \in Waiting(s) : enrollments[i].rank \in R
    OBVIOUS
  <2> HIDE DEF R
  <2>5. \A x \in R : x \in Nat /\ x <= Len(enrollments) /\ x < Max(R) + 1
    <3>1. Max(R) \in Nat
      BY <2>1, <2>2
    <3>2. ASSUME NEW x \in R PROVE x \in Nat /\ x <= Len(enrollments) /\ Max(R) >= x
      BY <2>1, <2>2
    <3> QED
      BY <3>1, <3>2
  <2> QED
    BY <1>1, <2>2, <2>3, <2>4, <2>5
<1> QED
  BY <1>3, <1>4

\* HeadOfWaitlist of a non-empty waitlist is its earliest row.
LEMMA HeadIsEarliest ==
  ASSUME TypeOK, RanksFollowArrival, NEW s \in Sections, Waiting(s) # {}
  PROVE  /\ HeadOfWaitlist(s) \in Waiting(s)
         /\ \A j \in Waiting(s) : HeadOfWaitlist(s) <= j
<1> DEFINE First(i) == \A j \in Waiting(s) :
                         \/ enrollments[i].rank < enrollments[j].rank
                         \/ enrollments[i].rank = enrollments[j].rank /\ i <= j
<1>1. Waiting(s) \subseteq Nat /\ Waiting(s) \subseteq Rows
  BY RowsFinite DEF Waiting
<1>2. \A i \in Waiting(s) : enrollments[i].rank \in Nat
  BY <1>1, RowTypes
<1>3. PICK m \in Waiting(s) : \A j \in Waiting(s) : m <= j
  BY <1>1, Smallest
<1>4. \A i, j \in Waiting(s) : i < j => enrollments[i].rank < enrollments[j].rank
  BY DEF RanksFollowArrival
<1>5. First(m)
  BY <1>1, <1>2, <1>3, <1>4
<1>6. HeadOfWaitlist(s) \in Waiting(s) /\ First(HeadOfWaitlist(s))
  BY <1>5 DEF HeadOfWaitlist
<1>7. ASSUME NEW j \in Waiting(s), ~(HeadOfWaitlist(s) <= j) PROVE FALSE
  <2> DEFINE h == HeadOfWaitlist(s)
  <2>1. h \in Waiting(s) /\ h \in Nat /\ j \in Nat /\ j < h
    BY <1>1, <1>6, <1>7
  <2>2. enrollments[j].rank < enrollments[h].rank
    BY <1>4, <2>1
  <2>3. enrollments[h].rank < enrollments[j].rank \/ h <= j
    BY <1>6
  <2> QED
    BY <1>2, <1>7, <2>1, <2>2, <2>3
<1> QED
  BY <1>6, <1>7

\* A new row keeps the order: it waits with the next rank or does not wait.
LEMMA CreateKeepsRanks ==
  ASSUME TypeOK, RanksFollowArrival, RanksBounded,
         NEW u \in Users, NEW s \in Sections, NEW st \in {"enrolled", "waitlisted"},
         NEW r \in Nat, NEW a \in AuditActions, CreateEnrollment(u, s, st, r, a),
         st = "waitlisted" => r = NextWaitlistRank(s)
  PROVE  RanksFollowArrival' /\ RanksBounded'
<1> DEFINE new == Len(enrollments) + 1
<1>1. /\ Len(enrollments') = Len(enrollments) + 1
      /\ \A i \in Rows : i \in Rows' /\ enrollments'[i] = enrollments[i]
      /\ Rows' = Rows \cup {Len(enrollments) + 1}
      /\ enrollments'[Len(enrollments) + 1] =
           [student |-> u, section |-> s, status |-> st, rank |-> RankAfter(st, r)]
  BY CreateRow, Zenon
<1>2. Rows = 1..Len(enrollments) /\ Len(enrollments) \in Nat
  BY RowsFinite
<1>3. \A i \in Rows : enrollments[i].rank \in Nat
  BY RowTypes
<1>4. enrollments'[new].status = st /\ enrollments'[new].rank = RankAfter(st, r)
  BY <1>1
<1>5. RanksBounded'
  <2>1. st = "waitlisted" => r > 0 /\ r <= Len(enrollments) + 1
    BY NextRank
  <2>2. ASSUME NEW i \in Rows'
        PROVE  /\ enrollments'[i].rank <= Len(enrollments')
               /\ enrollments'[i].status = "waitlisted" => enrollments'[i].rank > 0
    <3>1. CASE i \in Rows
      BY <1>1, <1>2, <1>3, <3>1 DEF RanksBounded
    <3>2. CASE i = new
      BY <1>1, <1>2, <1>4, <2>1, <3>2 DEF RankAfter
    <3> QED
      BY <1>1, <3>1, <3>2
  <2> QED
    BY <2>2 DEF RanksBounded
<1>6. ASSUME NEW x \in Sections, NEW i \in Waiting(x)', NEW j \in Waiting(x)', i < j
      PROVE  0 < enrollments'[i].rank /\ enrollments'[i].rank < enrollments'[j].rank
  <2>1. /\ x = s /\ st = "waitlisted" => Waiting(x)' = Waiting(x) \cup {new}
        /\ ~(x = s /\ st = "waitlisted") => Waiting(x)' = Waiting(x)
    BY CreateCount DEF Waiting
  <2>2. Waiting(x) \subseteq Rows
    BY RowsFinite DEF Waiting
  <2>3. i \in Waiting(x)
    BY <1>2, <1>6, <2>1, <2>2
  <2>4. CASE j \in Waiting(x)
    BY <1>1, <1>6, <2>2, <2>3, <2>4 DEF RanksFollowArrival
  <2>5. CASE j = new /\ x = s /\ st = "waitlisted"
    <3>1. enrollments[i].rank < r /\ enrollments[i].rank > 0
      BY <2>2, <2>3, <2>5, NextRank DEF RanksBounded, Waiting, RowsIn
    <3> QED
      BY <1>1, <1>4, <2>2, <2>3, <2>5, <3>1 DEF RankAfter
  <2> QED
    BY <1>6, <2>1, <2>4, <2>5
<1>7. RanksFollowArrival'
  BY <1>6 DEF RanksFollowArrival
<1> QED
  BY <1>5, <1>7

\* A row that leaves the waitlist keeps the order of those that stay.
LEMMA MoveKeepsRanks ==
  ASSUME TypeOK, RanksFollowArrival, RanksBounded,
         NEW i \in Rows, NEW target \in {"enrolled", "dropped", "withdrawn"},
         NEW a \in AuditActions, MoveEnrollment(i, target, a)
  PROVE  RanksFollowArrival' /\ RanksBounded'
<1>1. target \in EnrollmentStatuses
  BY DEF EnrollmentStatuses
<1>2. /\ Len(enrollments') = Len(enrollments) /\ Rows' = Rows
      /\ \A j \in Rows : j # i => enrollments'[j] = enrollments[j]
      /\ enrollments'[i].status = target
      /\ enrollments'[i].rank = RankAfter(target, enrollments[i].rank)
  BY <1>1, MoveRow, Zenon
<1>3. enrollments'[i].rank = 0 /\ enrollments'[i].status # "waitlisted"
  BY <1>2 DEF RankAfter
<1>4. Len(enrollments) \in Nat
  BY RowsFinite
<1>5. RanksBounded'
  BY <1>2, <1>3, <1>4 DEF RanksBounded
<1>6. ASSUME NEW x \in Sections, NEW j \in Waiting(x)'
      PROVE  j \in Waiting(x) /\ enrollments'[j] = enrollments[j]
  BY <1>2, <1>3 DEF Waiting, RowsIn
<1>7. RanksFollowArrival'
  BY <1>6 DEF RanksFollowArrival
<1> QED
  BY <1>5, <1>7
-----------------------------------------------------------------------------
(* The inductive invariant.  CountersMatchRoster needs TypeOK for its counts *)
(* to be finite; FreeSeatsCovered needs CountersMatchRoster, since Drop      *)
(* looks at the counter and not at the rows; the head of a waitlist is found *)
(* by rank, so which row a promotion moves rests on RanksFollowArrival, and  *)
(* that in turn on RanksBounded.                                             *)
IInv ==
  /\ TypeOK
  /\ CountersMatchRoster
  /\ RanksFollowArrival
  /\ RanksBounded
  /\ FreeSeatsCovered

SectionRow == [status : SectionStatuses, seatsTaken : Nat, waitlistLength : Nat]

\* The counters of a section are naturals, and a seat is free exactly when
\* SeatsAvailable says so.
LEMMA SectionFacts ==
  ASSUME TypeOK, CountersMatchRoster, NEW s \in Sections
  PROVE  /\ sections[s] \in SectionRow
         /\ sections[s].seatsTaken \in Nat /\ sections[s].waitlistLength \in Nat
         /\ Capacity[s] \in Nat /\ WaitlistLimit[s] \in Nat
         /\ SeatsAvailable(s, sections[s]) = Capacity[s] - sections[s].seatsTaken
         /\ Waiting(s) # {} <=> sections[s].waitlistLength > 0
<1>1. /\ sections[s] \in SectionRow
      /\ sections[s].seatsTaken \in Nat /\ sections[s].waitlistLength \in Nat
  BY DEF TypeOK, SectionRow
<1>2. Capacity[s] \in Nat /\ WaitlistLimit[s] \in Nat
  BY SectionAssumption
<1>3. SeatsAvailable(s, sections[s]) = Capacity[s] - sections[s].seatsTaken
  BY <1>1, <1>2 DEF SeatsAvailable, CountersMatchRoster
<1>4. sections[s].waitlistLength = Cardinality(Waiting(s)) /\ IsFiniteSet(Waiting(s))
  BY RowsFinite DEF CountersMatchRoster, Waiting
<1>5. Cardinality(Waiting(s)) = 0 <=> Waiting(s) = {}
  BY <1>4, FS_EmptySet
<1> QED
  BY <1>1, <1>2, <1>3, <1>4, <1>5

\* Rewriting one section's row leaves the others alone.
LEMMA SectionUpdate ==
  ASSUME TypeOK, NEW s \in Sections, NEW row \in SectionRow, sections' = [sections EXCEPT ![s] = row]
  PROVE  /\ sections' \in [Sections -> SectionRow]
         /\ sections'[s] = row
         /\ \A x \in Sections : x # s => sections'[x] = sections[x]
<1>1. sections \in [Sections -> SectionRow]
  BY DEF TypeOK, SectionRow
<1> QED
  BY <1>1

\* The jobs and the forfeits of a section are naturals.
LEMMA JobFacts ==
  ASSUME TypeOK, NEW s \in Sections
  PROVE  promotionJobs[s] \in Nat /\ forfeited[s] \in Nat
BY DEF TypeOK

\* The invariant holds before any request.
LEMMA InitIInv == Init => IInv
<1> SUFFICES ASSUME Init PROVE IInv
  OBVIOUS
<1> USE DEF Init
<1>1. TypeOK
  <2>1. registration \in RegistrationType
    BY DEF RegistrationInit, RegistrationType, RegistrationStatuses
  <2>2. sections \in [Sections -> SectionRow]
    BY BoundsAssumption DEF SectionRow
  <2>3. enrollments \in Seq(EnrollmentRow) /\ trail \in Seq(Seq(AuditActions))
        /\ Len(trail) = Len(enrollments)
    OBVIOUS
  <2> QED
    BY <2>1, <2>2, <2>3 DEF TypeOK, SectionRow
<1>2. Rows = {}
  BY DEF Rows
<1>3. \A s, q : RowsIn(s, q) = {} /\ Waiting(s) = {}
  BY <1>2 DEF RowsIn, Waiting
<1>4. CountersMatchRoster
  <2>1. ASSUME NEW s \in Sections
        PROVE  /\ sections[s].seatsTaken = 0 /\ sections[s].waitlistLength = 0
               /\ Capacity[s] >= 0 /\ WaitlistLimit[s] >= 0
    BY SectionAssumption
  <2> QED
    BY <1>3, <2>1, FS_EmptySet DEF CountersMatchRoster
<1>5. RanksFollowArrival /\ RanksBounded /\ FreeSeatsCovered
  BY <1>2, <1>3 DEF RanksFollowArrival, RanksBounded, FreeSeatsCovered
<1> QED
  BY <1>1, <1>4, <1>5 DEF IInv

\* A claim that takes a seat.
LEMMA ClaimSeatIInv ==
  ASSUME IInv, NEW actor \in Users, NEW u \in Users, NEW s \in Sections, ClaimSeat(actor, u, s)
  PROVE  IInv'
<1> USE DEF IInv
<1>1. CreateEnrollment(u, s, "enrolled", 0, "claim") /\ "claim" \in AuditActions
  BY DEF ClaimSeat, AuditActions
<1>2. /\ sections' = [sections EXCEPT ![s].seatsTaken = @ + 1]
      /\ sections[s].seatsTaken < Capacity[s]
      /\ UNCHANGED <<registration, promotionJobs, settled, forfeited, now>>
  BY DEF ClaimSeat, SeatClaimable
<1>3. /\ sections' \in [Sections -> SectionRow]
      /\ sections'[s] = [sections[s] EXCEPT !.seatsTaken = @ + 1]
      /\ \A x \in Sections : x # s => sections'[x] = sections[x]
  <2> DEFINE row == [sections[s] EXCEPT !.seatsTaken = @ + 1]
  <2>1. sections[s] \in SectionRow
    BY SectionFacts
  <2>2. row \in SectionRow
    BY <2>1 DEF SectionRow
  <2>3. sections' = [sections EXCEPT ![s] = row]
    BY <1>2
  <2> QED
    BY <2>2, <2>3, SectionUpdate
<1>4. TypeOK'
  <2>1. /\ enrollments' \in Seq(EnrollmentRow)
        /\ trail' \in Seq(Seq(AuditActions)) /\ Len(trail') = Len(enrollments')
    BY <1>1, CreateRow
  <2> QED
    BY <1>2, <1>3, <2>1 DEF TypeOK, SectionRow
<1>5. RanksFollowArrival' /\ RanksBounded'
  BY <1>1, CreateKeepsRanks
<1>6. ASSUME NEW x \in Sections
      PROVE  /\ Waiting(x)' = Waiting(x)
             /\ x = s => Cardinality(RowsIn(x, "enrolled")') = Cardinality(RowsIn(x, "enrolled")) + 1
             /\ x # s => RowsIn(x, "enrolled")' = RowsIn(x, "enrolled")
  BY <1>1, CreateCount DEF Waiting
<1>7. ASSUME NEW x \in Sections
      PROVE  /\ sections'[x].waitlistLength = sections[x].waitlistLength
             /\ sections'[x].seatsTaken =
                  IF x = s THEN sections[x].seatsTaken + 1 ELSE sections[x].seatsTaken
  <2>1. sections[s] \in SectionRow
    BY SectionFacts
  <2> QED
    BY <1>3, <2>1 DEF SectionRow
<1>8. CountersMatchRoster'
  BY <1>2, <1>6, <1>7, SectionFacts DEF CountersMatchRoster
<1>9. FreeSeatsCovered'
  BY <1>2, <1>6, <1>7, SectionFacts, JobFacts DEF FreeSeatsCovered
<1> QED
  BY <1>4, <1>5, <1>8, <1>9

\* A claim that takes a waitlist place: the section is full, so nothing is free.
LEMMA ClaimWaitlistPlaceIInv ==
  ASSUME IInv, NEW actor \in Users, NEW u \in Users, NEW s \in Sections,
         ClaimWaitlistPlace(actor, u, s)
  PROVE  IInv'
<1> USE DEF IInv
<1>1. PICK r \in Nat : r = NextWaitlistRank(s)
  BY NextRank
<1>2. CreateEnrollment(u, s, "waitlisted", r, "waitlist") /\ "waitlist" \in AuditActions
  BY <1>1 DEF ClaimWaitlistPlace, AuditActions
<1>3. /\ sections' = [sections EXCEPT ![s].waitlistLength = @ + 1]
      /\ SeatsAvailable(s, sections[s]) = 0
      /\ sections[s].waitlistLength < WaitlistLimit[s]
      /\ UNCHANGED <<registration, promotionJobs, settled, forfeited, now>>
  BY DEF ClaimWaitlistPlace, MustWaitlist, WaitlistRoom
<1>4. /\ sections' \in [Sections -> SectionRow]
      /\ sections'[s] = [sections[s] EXCEPT !.waitlistLength = @ + 1]
      /\ \A x \in Sections : x # s => sections'[x] = sections[x]
  <2> DEFINE row == [sections[s] EXCEPT !.waitlistLength = @ + 1]
  <2>1. sections[s] \in SectionRow
    BY SectionFacts
  <2>2. row \in SectionRow
    BY <2>1 DEF SectionRow
  <2>3. sections' = [sections EXCEPT ![s] = row]
    BY <1>3
  <2> QED
    BY <2>2, <2>3, SectionUpdate
<1>5. TypeOK'
  <2>1. /\ enrollments' \in Seq(EnrollmentRow)
        /\ trail' \in Seq(Seq(AuditActions)) /\ Len(trail') = Len(enrollments')
    BY <1>2, CreateRow
  <2> QED
    BY <1>3, <1>4, <2>1 DEF TypeOK, SectionRow
<1>6. RanksFollowArrival' /\ RanksBounded'
  BY <1>1, <1>2, CreateKeepsRanks
<1>7. ASSUME NEW x \in Sections
      PROVE  /\ RowsIn(x, "enrolled")' = RowsIn(x, "enrolled")
             /\ x = s => Cardinality(Waiting(x)') = Cardinality(Waiting(x)) + 1
             /\ x # s => Waiting(x)' = Waiting(x)
  BY <1>2, CreateCount DEF Waiting
<1>8. ASSUME NEW x \in Sections
      PROVE  /\ sections'[x].seatsTaken = sections[x].seatsTaken
             /\ sections'[x].waitlistLength =
                  IF x = s THEN sections[x].waitlistLength + 1 ELSE sections[x].waitlistLength
  <2>1. sections[s] \in SectionRow
    BY SectionFacts
  <2> QED
    BY <1>4, <2>1 DEF SectionRow
<1>9. CountersMatchRoster'
  BY <1>3, <1>7, <1>8, SectionFacts DEF CountersMatchRoster
<1>10. FreeSeatsCovered'
  BY <1>3, <1>7, <1>8, SectionFacts, JobFacts DEF FreeSeatsCovered
<1> QED
  BY <1>5, <1>6, <1>9, <1>10

\* A drop: of a seat, which frees it and covers it with a job when somebody
\* waits; of a waitlist place; or of a pending row.
LEMMA DropIInv ==
  ASSUME IInv, NEW actor \in Users, NEW i \in Rows, NEW at, Drop(actor, i, at)
  PROVE  IInv'
<1> USE DEF IInv
<1>1. PICK s \in Sections, p \in EnrollmentStatuses :
        s = enrollments[i].section /\ p = enrollments[i].status
  BY RowTypes
<1> DEFINE target == IF HoldsSeat(p) THEN "dropped" ELSE "withdrawn"
           releases == SeatDelta(p, target) < 0
           row == [sections[s] EXCEPT !.seatsTaken = IF releases THEN @ - 1 ELSE @,
                                      !.waitlistLength = IF p = "waitlisted" THEN @ - 1 ELSE @]
<1>2. MoveEnrollment(i, target, "drop") /\ "drop" \in AuditActions
  BY <1>1 DEF Drop, DropRow, AuditActions
<1>3. /\ releases => sections[s].seatsTaken > 0
      /\ p = "waitlisted" => sections[s].waitlistLength > 0
      /\ promotionJobs' = [promotionJobs EXCEPT ![s] =
                             IF HoldsSeat(p) /\ EnqueuesPromotion(s) THEN @ + 1 ELSE @]
      /\ UNCHANGED <<registration, settled, forfeited, now>>
  BY <1>1, SectionFacts DEF Drop, DropRow, FreesSeat, WaitlistMayMove, SeatReleasable
<1>4. sections' = [sections EXCEPT ![s] = row]
  BY <1>1 DEF Drop, DropRow
<1>5. /\ p \in {"enrolled", "waitlisted", "pending"}
      /\ p = "enrolled" => releases /\ target = "dropped"
      /\ p # "enrolled" => ~releases /\ target = "withdrawn"
  <2>1. <<p, target>> \in EnrollmentTransitions
    BY <1>1, <1>2 DEF MoveEnrollment
  <2>2. p \in {"enrolled", "waitlisted", "pending"}
    BY <2>1 DEF EnrollmentTransitions, HoldsSeat
  <2>3. CASE p = "enrolled"
    BY <2>3 DEF HoldsSeat, SeatDelta
  <2>4. CASE p # "enrolled"
    BY <2>2, <2>4 DEF HoldsSeat, SeatDelta
  <2> QED
    BY <2>2, <2>3, <2>4
<1>6. row \in SectionRow
  <2> DEFINE seats == IF releases THEN sections[s].seatsTaken - 1 ELSE sections[s].seatsTaken
             waits == IF p = "waitlisted" THEN sections[s].waitlistLength - 1
                                          ELSE sections[s].waitlistLength
  <2>1. /\ sections[s] \in SectionRow
        /\ sections[s].seatsTaken \in Nat /\ sections[s].waitlistLength \in Nat
    BY SectionFacts
  <2>2. seats \in Nat /\ waits \in Nat
    <3> HIDE DEF releases
    <3> QED
      BY <1>3, <2>1
  <2>3. row = [sections[s] EXCEPT !.seatsTaken = seats, !.waitlistLength = waits]
    BY <2>1 DEF SectionRow
  <2> HIDE DEF seats, waits, row
  <2> QED
    BY <2>1, <2>2, <2>3 DEF SectionRow
<1>7. /\ sections' \in [Sections -> SectionRow] /\ sections'[s] = row
      /\ \A x \in Sections : x # s => sections'[x] = sections[x]
  BY <1>4, <1>6, SectionUpdate
<1>8. /\ row.seatsTaken = IF p = "enrolled" THEN sections[s].seatsTaken - 1
                                             ELSE sections[s].seatsTaken
      /\ row.waitlistLength = IF p = "waitlisted" THEN sections[s].waitlistLength - 1
                                                  ELSE sections[s].waitlistLength
  <2>1. sections[s] \in SectionRow
    BY SectionFacts
  <2> QED
    BY <1>5, <2>1 DEF SectionRow
<1>9. /\ promotionJobs' \in [Sections -> Nat]
      /\ \A x \in Sections : x # s => promotionJobs'[x] = promotionJobs[x]
      /\ promotionJobs'[s] >= promotionJobs[s]
      /\ p = "enrolled" /\ sections[s].waitlistLength > 0 => promotionJobs'[s] = promotionJobs[s] + 1
  BY <1>3, <1>5 DEF TypeOK, EnqueuesPromotion, HoldsSeat
<1>10. target \in {"dropped", "withdrawn"} /\ target \in EnrollmentStatuses
  BY DEF EnrollmentStatuses
<1> HIDE DEF target, releases, row
<1>11. TypeOK'
  <2>1. /\ enrollments' \in Seq(EnrollmentRow)
        /\ trail' \in Seq(Seq(AuditActions)) /\ Len(trail') = Len(enrollments')
    BY <1>2, <1>10, MoveRow
  <2> QED
    BY <1>3, <1>7, <1>9, <2>1 DEF TypeOK, SectionRow
<1>12. RanksFollowArrival' /\ RanksBounded'
  BY <1>2, <1>10, MoveKeepsRanks
<1>13. ASSUME NEW x \in Sections
       PROVE  /\ IF x = s /\ p = "enrolled"
                    THEN Cardinality(RowsIn(x, "enrolled")') = Cardinality(RowsIn(x, "enrolled")) - 1
                    ELSE RowsIn(x, "enrolled")' = RowsIn(x, "enrolled")
              /\ IF x = s /\ p = "waitlisted"
                    THEN Cardinality(Waiting(x)') = Cardinality(Waiting(x)) - 1
                    ELSE Waiting(x)' = Waiting(x)
              /\ Waiting(x)' \subseteq Waiting(x)
  BY <1>1, <1>2, <1>10, MoveCount DEF Waiting
<1>14. ASSUME NEW x \in Sections
       PROVE  /\ sections'[x].seatsTaken = IF x = s /\ p = "enrolled"
                   THEN sections[x].seatsTaken - 1 ELSE sections[x].seatsTaken
              /\ sections'[x].waitlistLength = IF x = s /\ p = "waitlisted"
                   THEN sections[x].waitlistLength - 1 ELSE sections[x].waitlistLength
  BY <1>7, <1>8
<1>15. CountersMatchRoster'
  BY <1>13, <1>14, SectionFacts DEF CountersMatchRoster
<1>16. FreeSeatsCovered'
  <2>1. ASSUME NEW x \in Sections, Waiting(x)' # {}
        PROVE  Capacity[x] - sections'[x].seatsTaken <= promotionJobs'[x] + forfeited'[x]
    <3>1. /\ Waiting(x) # {} /\ sections[x].waitlistLength > 0
          /\ Capacity[x] - sections[x].seatsTaken <= promotionJobs[x] + forfeited[x]
      BY <1>13, <2>1, SectionFacts DEF FreeSeatsCovered
    <3>2. CASE x = s /\ p = "enrolled"
      BY <1>3, <1>9, <1>14, <3>1, <3>2, SectionFacts, JobFacts
    <3>3. CASE ~(x = s /\ p = "enrolled")
      <4>1. promotionJobs'[x] >= promotionJobs[x] /\ promotionJobs'[x] \in Nat
        BY <1>9, JobFacts
      <4> QED
        BY <1>3, <1>14, <3>1, <3>3, <4>1, SectionFacts, JobFacts
    <3> QED
      BY <3>2, <3>3
  <2> QED
    BY <2>1 DEF FreeSeatsCovered
<1> QED
  BY <1>11, <1>12, <1>15, <1>16

\* What PromoteWaitlist does to everything but the jobs: it keeps the rest of
\* the invariant, and either takes one free seat or finds none to offer.
LEMMA PromoteWaitlistStep ==
  ASSUME IInv, NEW s \in Sections, PromoteWaitlist(s)
  PROVE  /\ sections' \in [Sections -> SectionRow]
         /\ enrollments' \in Seq(EnrollmentRow)
         /\ trail' \in Seq(Seq(AuditActions)) /\ Len(trail') = Len(enrollments')
         /\ RanksFollowArrival' /\ RanksBounded' /\ CountersMatchRoster'
         /\ \A x \in Sections : Waiting(x)' \subseteq Waiting(x)
         /\ \A x \in Sections : x # s => sections'[x] = sections[x]
         /\ CanPromote(s) => sections'[s].seatsTaken = sections[s].seatsTaken + 1
         /\ ~CanPromote(s) => sections'[s] = sections[s] /\ Waiting(s)' = Waiting(s)
<1> USE DEF IInv
<1>1. CASE CanPromote(s)
  <2>1. PICK i \in Waiting(s) : i = HeadOfWaitlist(s)
    BY <1>1, HeadIsEarliest DEF CanPromote
  <2>2. i \in Rows /\ enrollments[i].section = s /\ enrollments[i].status = "waitlisted"
    BY <2>1 DEF Waiting, RowsIn
  <2>3. /\ MoveEnrollment(i, "enrolled", "promote") /\ "promote" \in AuditActions
        /\ "enrolled" \in EnrollmentStatuses
        /\ sections[s].seatsTaken < Capacity[s] /\ sections[s].waitlistLength > 0
        /\ sections' = [sections EXCEPT ![s] = PromotedSection(sections[s])]
    BY <1>1, <2>1, SectionFacts DEF PromoteWaitlist, AuditActions, EnrollmentStatuses,
      WaitlistMayMove, SeatClaimable
  <2>4. /\ PromotedSection(sections[s]) \in SectionRow
        /\ PromotedSection(sections[s]).seatsTaken = sections[s].seatsTaken + 1
        /\ PromotedSection(sections[s]).waitlistLength = sections[s].waitlistLength - 1
    <3> DEFINE seats == sections[s].seatsTaken + 1
               waits == sections[s].waitlistLength - 1
    <3>1. sections[s] \in SectionRow /\ seats \in Nat /\ waits \in Nat
      BY <2>3, SectionFacts
    <3>2. PromotedSection(sections[s]) =
            [sections[s] EXCEPT !.seatsTaken = seats, !.waitlistLength = waits]
      BY <3>1 DEF PromotedSection, SectionRow
    <3>3. /\ PromotedSection(sections[s]) \in SectionRow
          /\ PromotedSection(sections[s]).seatsTaken = seats
          /\ PromotedSection(sections[s]).waitlistLength = waits
      <4> HIDE DEF seats, waits
      <4> QED
        BY <3>1, <3>2 DEF SectionRow
    <3> QED
      BY <3>3
  <2>5. /\ sections' \in [Sections -> SectionRow]
        /\ sections'[s] = PromotedSection(sections[s])
        /\ \A x \in Sections : x # s => sections'[x] = sections[x]
    BY <2>3, <2>4, SectionUpdate
  <2>6. /\ enrollments' \in Seq(EnrollmentRow)
        /\ trail' \in Seq(Seq(AuditActions)) /\ Len(trail') = Len(enrollments')
    BY <2>2, <2>3, MoveRow
  <2>7. RanksFollowArrival' /\ RanksBounded'
    BY <2>2, <2>3, MoveKeepsRanks
  <2>8. ASSUME NEW x \in Sections
        PROVE  /\ Waiting(x)' \subseteq Waiting(x)
               /\ x # s => RowsIn(x, "enrolled")' = RowsIn(x, "enrolled") /\ Waiting(x)' = Waiting(x)
               /\ x = s =>
                    /\ Cardinality(RowsIn(x, "enrolled")') = Cardinality(RowsIn(x, "enrolled")) + 1
                    /\ Cardinality(Waiting(x)') = Cardinality(Waiting(x)) - 1
    BY <2>2, <2>3, MoveCount DEF Waiting
  <2>9. CountersMatchRoster'
    BY <2>3, <2>4, <2>5, <2>8, SectionFacts DEF CountersMatchRoster
  <2> QED
    BY <1>1, <2>4, <2>5, <2>6, <2>7, <2>8, <2>9
<1>2. CASE ~CanPromote(s)
  <2>1. UNCHANGED <<enrollments, trail, sections>>
    BY <1>2 DEF PromoteWaitlist
  <2>2. sections' \in [Sections -> SectionRow] /\ enrollments' \in Seq(EnrollmentRow)
        /\ trail' \in Seq(Seq(AuditActions)) /\ Len(trail') = Len(enrollments')
    BY <2>1 DEF TypeOK, SectionRow
  <2>3. \A x : Waiting(x)' = Waiting(x) /\ RowsIn(x, "enrolled")' = RowsIn(x, "enrolled")
    BY <2>1 DEF Waiting, RowsIn, Rows
  <2>4. RanksFollowArrival' /\ RanksBounded' /\ CountersMatchRoster'
    <3>1. RanksFollowArrival'
      BY <2>1, <2>3 DEF RanksFollowArrival
    <3>2. RanksBounded'
      BY <2>1 DEF RanksBounded, Rows
    <3>3. CountersMatchRoster'
      BY <2>1, <2>3 DEF CountersMatchRoster
    <3> QED
      BY <3>1, <3>2, <3>3
  <2> QED
    BY <1>2, <2>1, <2>2, <2>3, <2>4
<1> QED
  BY <1>1, <1>2

\* A promotion job carried out for the first time: the seat it takes, or the
\* forfeit it records, pays for the job that is no longer to be carried out.
LEMMA RunPromotionJobIInv ==
  ASSUME IInv, NEW s \in Sections, RunPromotionJob(s)
  PROVE  IInv'
<1> USE DEF IInv
<1>1. /\ promotionJobs[s] > 0 /\ PromoteWaitlist(s)
      /\ promotionJobs' = [promotionJobs EXCEPT ![s] = @ - 1]
      /\ settled' = [settled EXCEPT ![s] = TRUE]
      /\ forfeited' = [forfeited EXCEPT ![s] = IF AcceptsEnrollment(sections[s]) THEN @ ELSE @ + 1]
      /\ UNCHANGED <<registration, now>>
  BY DEF RunPromotionJob
<1>2. /\ promotionJobs' \in [Sections -> Nat] /\ forfeited' \in [Sections -> Nat]
      /\ \A x \in Sections : x # s => promotionJobs'[x] = promotionJobs[x] /\ forfeited'[x] = forfeited[x]
      /\ promotionJobs'[s] = promotionJobs[s] - 1
      /\ forfeited'[s] = IF AcceptsEnrollment(sections[s]) THEN forfeited[s] ELSE forfeited[s] + 1
  BY <1>1 DEF TypeOK
<1>3. TypeOK' /\ RanksFollowArrival' /\ RanksBounded' /\ CountersMatchRoster'
  BY <1>1, <1>2, PromoteWaitlistStep DEF TypeOK, SectionRow
<1>4. ASSUME NEW x \in Sections, Waiting(x)' # {}
      PROVE  Capacity[x] - sections'[x].seatsTaken <= promotionJobs'[x] + forfeited'[x]
  <2>1. Waiting(x) # {} /\ Capacity[x] - sections[x].seatsTaken <= promotionJobs[x] + forfeited[x]
    BY <1>1, <1>4, PromoteWaitlistStep DEF FreeSeatsCovered
  <2>2. CASE x # s
    BY <1>1, <1>2, <2>1, <2>2, PromoteWaitlistStep
  <2>3. CASE x = s /\ CanPromote(s)
    <3>1. AcceptsEnrollment(sections[s]) /\ sections'[s].seatsTaken = sections[s].seatsTaken + 1
      BY <1>1, <2>3, PromoteWaitlistStep DEF CanPromote
    <3> QED
      BY <1>2, <2>1, <2>3, <3>1, SectionFacts, JobFacts
  <2>4. CASE x = s /\ ~CanPromote(s)
    <3>1. sections'[s] = sections[s]
      BY <1>1, <2>4, PromoteWaitlistStep
    <3>2. ~AcceptsEnrollment(sections[s]) \/ Capacity[s] - sections[s].seatsTaken <= 0
      BY <2>1, <2>4, SectionFacts DEF CanPromote
    <3>3. /\ sections[s].seatsTaken \in Nat /\ Capacity[s] \in Nat
          /\ promotionJobs[s] \in Nat /\ forfeited[s] \in Nat
          /\ promotionJobs'[s] \in Nat /\ forfeited'[s] \in Nat
      BY <1>2, SectionFacts, JobFacts
    <3> QED
      BY <1>2, <2>1, <2>4, <3>1, <3>2, <3>3
  <2> QED
    BY <2>2, <2>3, <2>4
<1> QED
  BY <1>3, <1>4 DEF FreeSeatsCovered

\* A promotion by a job that is already settled only takes a seat more.
LEMMA RerunPromotionJobIInv ==
  ASSUME IInv, NEW s \in Sections, RerunPromotionJob(s)
  PROVE  IInv'
<1> USE DEF IInv
<1>1. PromoteWaitlist(s) /\ UNCHANGED <<registration, promotionJobs, settled, forfeited, now>>
  BY DEF RerunPromotionJob
<1>2. TypeOK' /\ RanksFollowArrival' /\ RanksBounded' /\ CountersMatchRoster'
  BY <1>1, PromoteWaitlistStep DEF TypeOK, SectionRow
<1>3. ASSUME NEW x \in Sections, Waiting(x)' # {}
      PROVE  Capacity[x] - sections'[x].seatsTaken <= promotionJobs'[x] + forfeited'[x]
  <2>1. Waiting(x) # {} /\ Capacity[x] - sections[x].seatsTaken <= promotionJobs[x] + forfeited[x]
    BY <1>1, <1>3, PromoteWaitlistStep DEF FreeSeatsCovered
  <2>2. sections'[x].seatsTaken \in {sections[x].seatsTaken, sections[x].seatsTaken + 1}
    BY <1>1, PromoteWaitlistStep
  <2> QED
    BY <1>1, <2>1, <2>2, SectionFacts, JobFacts
<1> QED
  BY <1>2, <1>3 DEF FreeSeatsCovered

\* A job that exhausts its retries becomes a forfeit.
LEMMA AbandonPromotionJobIInv ==
  ASSUME IInv, NEW s \in Sections, AbandonPromotionJob(s)
  PROVE  IInv'
<1> USE DEF IInv
<1>1. /\ promotionJobs[s] > 0
      /\ promotionJobs' = [promotionJobs EXCEPT ![s] = @ - 1]
      /\ settled' = [settled EXCEPT ![s] = TRUE]
      /\ forfeited' = [forfeited EXCEPT ![s] = @ + 1]
      /\ UNCHANGED <<registration, sections, enrollments, trail, now>>
  BY DEF AbandonPromotionJob
<1>2. /\ promotionJobs' \in [Sections -> Nat] /\ forfeited' \in [Sections -> Nat]
      /\ \A x \in Sections : promotionJobs'[x] + forfeited'[x] = promotionJobs[x] + forfeited[x]
  <2>1. /\ promotionJobs' \in [Sections -> Nat] /\ forfeited' \in [Sections -> Nat]
        /\ promotionJobs'[s] = promotionJobs[s] - 1 /\ forfeited'[s] = forfeited[s] + 1
        /\ \A x \in Sections : x # s => /\ promotionJobs'[x] = promotionJobs[x]
                                        /\ forfeited'[x] = forfeited[x]
    BY <1>1 DEF TypeOK
  <2> QED
    BY <2>1, JobFacts
<1>3. \A x : Waiting(x)' = Waiting(x) /\ RowsIn(x, "enrolled")' = RowsIn(x, "enrolled")
  BY <1>1 DEF Waiting, RowsIn, Rows
<1>4. TypeOK'
  BY <1>1, <1>2 DEF TypeOK
<1>5. CountersMatchRoster'
  BY <1>1, <1>3 DEF CountersMatchRoster
<1>6. RanksFollowArrival'
  BY <1>1, <1>3 DEF RanksFollowArrival
<1>7. RanksBounded'
  BY <1>1 DEF RanksBounded, Rows
<1>8. FreeSeatsCovered'
  BY <1>1, <1>2, <1>3 DEF FreeSeatsCovered
<1> QED
  BY <1>4, <1>5, <1>6, <1>7, <1>8

\* The steps that touch neither rows, counters nor jobs.
LEMMA FrameIInv ==
  ASSUME IInv, UNCHANGED <<enrollments, trail, promotionJobs, settled, forfeited>>,
         registration' \in RegistrationType, now' \in Nat,
         sections' \in [Sections -> SectionRow],
         \A s \in Sections : /\ sections'[s].seatsTaken = sections[s].seatsTaken
                             /\ sections'[s].waitlistLength = sections[s].waitlistLength
  PROVE  IInv'
<1> USE DEF IInv
<1>1. \A x : Waiting(x)' = Waiting(x) /\ RowsIn(x, "enrolled")' = RowsIn(x, "enrolled")
  BY DEF Waiting, RowsIn, Rows
<1>2. TypeOK'
  BY DEF TypeOK, SectionRow
<1>3. CountersMatchRoster'
  BY <1>1 DEF CountersMatchRoster
<1>4. RanksFollowArrival'
  BY <1>1 DEF RanksFollowArrival
<1>5. RanksBounded'
  BY DEF RanksBounded, Rows
<1>6. FreeSeatsCovered'
  BY <1>1 DEF FreeSeatsCovered
<1> QED
  BY <1>2, <1>3, <1>4, <1>5, <1>6

\* Every step keeps the invariant.
LEMMA NextIInv == IInv /\ [Next]_vars => IInv'
<1> SUFFICES ASSUME IInv, [Next]_vars PROVE IInv'
  OBVIOUS
<1>0. /\ TypeOK /\ registration \in RegistrationType /\ now \in Nat
      /\ sections \in [Sections -> SectionRow]
  BY DEF IInv, TypeOK, SectionRow
<1>1. CASE Paperwork
  BY <1>0, <1>1, FrameIInv, RegistrationKeepsType DEF Paperwork
<1>2. CASE StudentAction
  BY <1>2, ClaimSeatIInv, ClaimWaitlistPlaceIInv, DropIInv DEF StudentAction
<1>3. CASE JobAction
  BY <1>3, RunPromotionJobIInv, RerunPromotionJobIInv, AbandonPromotionJobIInv DEF JobAction
<1>4. CASE Tooling
  <2>1. PICK s \in Sections, status \in ToolingStatuses : SetSectionStatus(s, status)
    BY <1>4 DEF Tooling
  <2>2. status \in SectionStatuses
    BY BoundsAssumption
  <2>3. /\ sections' = [sections EXCEPT ![s].status = status]
        /\ UNCHANGED <<registration, enrollments, trail, promotionJobs, settled, forfeited, now>>
    BY <2>1 DEF SetSectionStatus
  <2>4. /\ sections' \in [Sections -> SectionRow]
        /\ \A x \in Sections : /\ sections'[x].seatsTaken = sections[x].seatsTaken
                               /\ sections'[x].waitlistLength = sections[x].waitlistLength
    BY <1>0, <2>2, <2>3 DEF SectionRow
  <2> QED
    BY <1>0, <2>3, <2>4, FrameIInv
<1>5. CASE Tick
  BY <1>0, <1>5, FrameIInv DEF Tick
<1>6. CASE UNCHANGED vars
  BY <1>0, <1>6, FrameIInv DEF vars
<1> QED
  BY <1>1, <1>2, <1>3, <1>4, <1>5, <1>6 DEF Next

\* The inductive invariant holds in every reachable state.
LEMMA Invariance == Spec => []IInv
<1>1. Init => IInv
  BY InitIInv
<1>2. IInv /\ [Next]_vars => IInv'
  BY NextIInv
<1> QED
  BY <1>1, <1>2, PTL DEF Spec
-----------------------------------------------------------------------------
\* Every reachable state has the types of the schema: in particular no counter
\* goes negative and every row has its audit trail.
THEOREM TypeCorrect == Spec => []TypeOK
<1>1. IInv => TypeOK
  BY DEF IInv
<1> QED
  BY <1>1, Invariance, PTL

\* In every catalogue and for any number of students, the seat and waitlist
\* counters equal the rows they count: a section is never oversold and its
\* waitlist never exceeds its limit.
THEOREM NeverOversold == Spec => []CountersMatchRoster
<1>1. IInv => CountersMatchRoster
  BY DEF IInv
<1> QED
  BY <1>1, Invariance, PTL

\* Waitlist ranks follow the order of arrival although ranks are reused.
THEOREM RanksInOrder == Spec => []RanksFollowArrival
<1>1. IInv => RanksFollowArrival
  BY DEF IInv
<1> QED
  BY <1>1, Invariance, PTL

\* No released seat is forgotten: while somebody waits, each free seat of a
\* section has a live promotion job or a job that ended without an offer.
THEOREM NoSeatForgotten == Spec => []FreeSeatsCovered
<1>1. IInv => FreeSeatsCovered
  BY DEF IInv
<1> QED
  BY <1>1, Invariance, PTL

\* PromoteWaitlist always seats the earliest claim waiting for the section.
THEOREM EarliestFirst == Spec => PromotionTakesEarliest
<1> DEFINE Earliest ==
      \A i \in Rows :
        enrollments[i].status = "waitlisted" /\ enrollments'[i].status = "enrolled"
          => \A j \in Waiting(enrollments[i].section) : i <= j
<1>1. ASSUME IInv, [Next]_vars PROVE [Earliest]_vars
  <2>0. TypeOK /\ RanksFollowArrival /\ RanksBounded
    BY <1>1 DEF IInv
  <2>1. ASSUME NEW i \in Rows, enrollments[i].status = "waitlisted",
               enrollments'[i].status = "enrolled", Next
        PROVE  \A j \in Waiting(enrollments[i].section) : i <= j
    <3>1. ASSUME enrollments' = enrollments PROVE FALSE
      BY <2>1, <3>1
    <3>2. ASSUME NEW u \in Users, NEW s \in Sections, NEW st \in {"enrolled", "waitlisted"},
                 NEW r \in Nat, NEW a \in AuditActions, CreateEnrollment(u, s, st, r, a)
          PROVE  FALSE
      BY <2>0, <2>1, <3>2, CreateRow
    <3>3. CASE Paperwork \/ Tooling \/ Tick
      BY <3>1, <3>3 DEF Paperwork, Tooling, SetSectionStatus, Tick
    <3>4. ASSUME NEW actor \in Users, NEW u \in Users, NEW s \in Sections,
                 ClaimSeat(actor, u, s) \/ ClaimWaitlistPlace(actor, u, s)
          PROVE  FALSE
      <4>1. PICK r \in Nat : r = NextWaitlistRank(s)
        BY <2>0, NextRank
      <4>2. \/ CreateEnrollment(u, s, "enrolled", 0, "claim")
            \/ CreateEnrollment(u, s, "waitlisted", r, "waitlist")
        BY <3>4, <4>1 DEF ClaimSeat, ClaimWaitlistPlace
      <4> QED
        BY <3>2, <4>2 DEF AuditActions
    <3>5. ASSUME NEW actor \in Users, NEW k \in Rows, NEW at, Drop(actor, k, at)
          PROVE  FALSE
      <4>1. PICK target \in {"dropped", "withdrawn"} : MoveEnrollment(k, target, "drop")
        BY <3>5 DEF Drop, DropRow
      <4>2. target \in EnrollmentStatuses /\ "drop" \in AuditActions
        BY DEF EnrollmentStatuses, AuditActions
      <4>3. /\ \A j \in Rows : j # k => enrollments'[j] = enrollments[j]
            /\ enrollments'[k].status = target
        BY <2>0, <4>1, <4>2, MoveRow
      <4> QED
        BY <2>1, <4>3
    <3>6. ASSUME NEW s \in Sections, PromoteWaitlist(s)
          PROVE  \A j \in Waiting(enrollments[i].section) : i <= j
      <4>1. CanPromote(s) /\ MoveEnrollment(HeadOfWaitlist(s), "enrolled", "promote")
        BY <3>1, <3>6 DEF PromoteWaitlist
      <4>2. PICK h \in Waiting(s) : h = HeadOfWaitlist(s) /\ \A j \in Waiting(s) : h <= j
        BY <2>0, <4>1, HeadIsEarliest DEF CanPromote
      <4>3. /\ MoveEnrollment(h, "enrolled", "promote") /\ h \in Rows
            /\ enrollments[h].section = s
        BY <4>1, <4>2 DEF Waiting, RowsIn
      <4>4. "enrolled" \in EnrollmentStatuses /\ "promote" \in AuditActions
        BY DEF EnrollmentStatuses, AuditActions
      <4>5. \A j \in Rows : j # h => enrollments'[j] = enrollments[j]
        BY <2>0, <4>3, <4>4, MoveRow
      <4>6. i = h
        BY <2>1, <4>5
      <4> QED
        BY <4>2, <4>3, <4>6
    <3>7. CASE StudentAction
      BY <3>4, <3>5, <3>7 DEF StudentAction
    <3>8. CASE JobAction
      BY <3>1, <3>6, <3>8 DEF JobAction, RunPromotionJob, RerunPromotionJob, AbandonPromotionJob
    <3> QED
      BY <2>1, <3>3, <3>7, <3>8 DEF Next
  <2> QED
    BY <1>1, <2>1
<1> QED
  BY <1>1, Invariance, PTL DEF Spec, PromotionTakesEarliest
-----------------------------------------------------------------------------
(* The audit trail. *)

\* What replaying a log does with each entry.
ReplaySteps(log) == [k \in 1..Len(log) |-> StatusAfter[log[k]]]

\* Replaying a log, entry by entry.
LEMMA ReplayRun ==
  ASSUME NEW S, NEW log \in Seq(S)
  PROVE  \E v : Runs(v, Len(log), "none", ReplaySteps(log)) /\ Replayed(log) = v[Len(log)]
<1> DEFINE N == Len(log)
           step == ReplaySteps(log)
           Replays(f) == f = [n \in 0..N |-> IF n = 0 THEN "none" ELSE StatusAfter[log[n]][f[n - 1]]]
           v == CHOOSE f : Replays(f)
<1>1. N \in Nat
  BY LenProperties
<1>2. Replayed(log) = v[N]
  BY Zenon DEF Replayed
<1>3. \A k \in 1..N : step[k] = StatusAfter[log[k]]
  BY DEF ReplaySteps
<1> HIDE DEF N, step
<1>4. PICK g : Runs(g, N, "none", step)
  BY <1>1, RecursionExists
<1>5. Replays(g)
  <2>1. ASSUME NEW n \in 0..N
        PROVE  g[n] = IF n = 0 THEN "none" ELSE StatusAfter[log[n]][g[n - 1]]
    <3>1. CASE n = 0
      BY <1>4, <3>1 DEF Runs
    <3>2. CASE n # 0
      <4>1. n \in 1..N
        BY <1>1, <3>2
      <4>2. g[n] = step[n][g[n - 1]]
        BY <1>4, <4>1 DEF Runs
      <4> QED
        BY <1>3, <3>2, <4>1, <4>2, Zenon
    <3> QED
      BY <3>1, <3>2
  <2>2. g = [n \in 0..N |-> g[n]]
    BY <1>4 DEF Runs
  <2>3. [n \in 0..N |-> g[n]] =
          [n \in 0..N |-> IF n = 0 THEN "none" ELSE StatusAfter[log[n]][g[n - 1]]]
    BY <2>1, Zenon
  <2> QED
    BY <2>2, <2>3, Zenon
<1>6. Replays(v)
  BY <1>5, Zenon
<1> HIDE DEF v
<1>7. ASSUME NEW n \in 0..N
      PROVE  v[n] = IF n = 0 THEN "none" ELSE StatusAfter[log[n]][v[n - 1]]
  BY <1>6, Zenon
<1>8. Runs(v, N, "none", step)
  <2>1. v[0] = "none"
    <3>1. 0 \in 0..N
      BY <1>1
    <3> QED
      BY <1>7, <3>1
  <2>2. ASSUME NEW k \in 1..N PROVE v[k] = step[k][v[k - 1]]
    <3>1. k \in 0..N /\ k # 0
      BY <1>1
    <3>2. v[k] = StatusAfter[log[k]][v[k - 1]]
      BY <1>7, <3>1, Zenon
    <3> QED
      BY <1>3, <3>2, Zenon
  <2>3. v = [n \in 0..N |-> v[n]]
    <3> DEFINE body == [n \in 0..N |-> IF n = 0 THEN "none" ELSE StatusAfter[log[n]][v[n - 1]]]
    <3>1. v = body
      BY <1>6
    <3>2. body = [n \in 0..N |-> body[n]]
      OBVIOUS
    <3> HIDE DEF body
    <3> QED
      BY <3>1, <3>2
  <2> QED
    BY <2>1, <2>2, <2>3 DEF Runs
<1> QED
  BY <1>2, <1>8 DEF N, step

\* One more entry takes the status one step on.
LEMMA ReplayAppend ==
  ASSUME NEW S, NEW log \in Seq(S), NEW a \in S
  PROVE  Replayed(Append(log, a)) = StatusAfter[a][Replayed(log)]
<1> DEFINE more == Append(log, a)
           M == Len(log)
<1>1. /\ more \in Seq(S) /\ M \in Nat /\ Len(more) = M + 1
      /\ more[M + 1] = a /\ \A k \in 1..M : more[k] = log[k]
  BY AppendProperties, LenProperties
<1> HIDE DEF more
<1>2. PICK v : Runs(v, M, "none", ReplaySteps(log)) /\ Replayed(log) = v[M]
  BY ReplayRun
<1>3. PICK w : Runs(w, M + 1, "none", ReplaySteps(more)) /\ Replayed(more) = w[M + 1]
  BY <1>1, ReplayRun
<1>4. \A k \in 1..M : ReplaySteps(log)[k] = ReplaySteps(more)[k]
  <2>1. \A k \in 1..Len(log) : ReplaySteps(log)[k] = StatusAfter[log[k]]
    BY DEF ReplaySteps
  <2>2. \A k \in 1..Len(more) : ReplaySteps(more)[k] = StatusAfter[more[k]]
    BY DEF ReplaySteps
  <2>3. \A k \in 1..M : k \in 1..Len(more)
    BY <1>1
  <2> QED
    BY <1>1, <2>1, <2>2, <2>3, Zenon
<1>5. v[M] = w[M]
  <2>1. M + 1 \in Nat /\ M <= M + 1
    BY <1>1
  <2> HIDE DEF M
  <2> QED
    BY <1>1, <1>2, <1>3, <1>4, <2>1, RecursionAgrees
<1>6. w[M + 1] = ReplaySteps(more)[M + 1][w[M]]
  <2>1. M + 1 \in 1..(M + 1) /\ (M + 1) - 1 = M
    BY <1>1
  <2> QED
    BY <1>3, <2>1 DEF Runs
<1>7. ReplaySteps(more)[M + 1] = StatusAfter[a]
  <2>1. M + 1 \in 1..Len(more)
    BY <1>1
  <2> QED
    BY <1>1, <2>1, Zenon DEF ReplaySteps
<1> QED
  BY <1>2, <1>3, <1>5, <1>6, <1>7, Zenon DEF more

\* A first entry.
LEMMA ReplayFirst ==
  ASSUME NEW S, NEW a \in S
  PROVE  Replayed(<<a>>) = StatusAfter[a]["none"]
<1>1. <<>> \in Seq(S) /\ Len(<<>>) = 0 /\ Append(<<>>, a) = <<a>>
  OBVIOUS
<1>2. Replayed(<<>>) = "none"
  <2>1. PICK v : Runs(v, Len(<<>>), "none", ReplaySteps(<<>>)) /\ Replayed(<<>>) = v[Len(<<>>)]
    BY <1>1, ReplayRun
  <2>2. v[0] = "none"
    BY <2>1 DEF Runs
  <2> QED
    BY <1>1, <2>1, <2>2, Zenon
<1>3. Replayed(Append(<<>>, a)) = StatusAfter[a][Replayed(<<>>)]
  BY <1>1, ReplayAppend
<1> QED
  BY <1>1, <1>2, <1>3, Zenon
-----------------------------------------------------------------------------
(* What any step does to the rows. *)

\* A row is created by an eligible claim,
RowClaimed ==
  /\ registration' = registration
  /\ \E u \in Users, s \in Sections, st \in {"enrolled", "waitlisted"}, r \in Nat :
       /\ Eligible(now, u, s, sections[s], Verified(u, TermOf[s]), Held(u, TermOf[s]))
       /\ CreateEnrollment(u, s, st, r, IF st = "enrolled" THEN "claim" ELSE "waitlist")

\* or moved by a drop or a promotion,
RowMoved ==
  /\ registration' = registration
  /\ \E i \in Rows, target \in EnrollmentStatuses, a \in AuditActions :
       /\ MoveEnrollment(i, target, a)
       /\ \/ a = "drop" /\ target = IF HoldsSeat(enrollments[i].status) THEN "dropped" ELSE "withdrawn"
          \/ a = "promote" /\ target = "enrolled" /\ enrollments[i].status = "waitlisted"

\* and nothing else happens to rows.  What is no claim adds none.
Unclaimed ==
  \/ Paperwork \/ JobAction \/ Tooling \/ Tick
  \/ \E actor \in Users, i \in Rows, at \in (now - LockWait)..now : Drop(actor, i, at)

\* Of the steps other than claims, drops and promotions move a row with its trail,
\* paperwork touches registrations only, and the rest touch neither.
LEMMA UnclaimedStep ==
  ASSUME IInv, Unclaimed
  PROVE  \/ RowMoved
         \/ /\ enrollments' = enrollments /\ trail' = trail
            /\ registration' = registration \/ RegistrationNext
<1>0. TypeOK /\ RanksFollowArrival /\ RanksBounded
  BY DEF IInv
<1>1. ASSUME NEW actor \in Users, NEW i \in Rows, NEW at, Drop(actor, i, at) PROVE RowMoved
  <2> DEFINE target == IF HoldsSeat(enrollments[i].status) THEN "dropped" ELSE "withdrawn"
  <2>1. registration' = registration /\ MoveEnrollment(i, target, "drop")
    BY <1>1 DEF Drop, DropRow
  <2>2. target \in EnrollmentStatuses /\ "drop" \in AuditActions
    BY DEF EnrollmentStatuses, AuditActions
  <2> QED
    BY <2>1, <2>2 DEF RowMoved
<1>2. ASSUME NEW s \in Sections, PromoteWaitlist(s), registration' = registration
      PROVE  RowMoved \/ (enrollments' = enrollments /\ trail' = trail)
  <2>1. CASE CanPromote(s)
    <3>1. MoveEnrollment(HeadOfWaitlist(s), "enrolled", "promote")
      BY <1>2, <2>1 DEF PromoteWaitlist
    <3>2. PICK h \in Waiting(s) : h = HeadOfWaitlist(s)
      BY <1>0, <2>1, HeadIsEarliest DEF CanPromote
    <3>3. h \in Rows /\ enrollments[h].status = "waitlisted" /\ MoveEnrollment(h, "enrolled", "promote")
      BY <3>1, <3>2 DEF Waiting, RowsIn
    <3>4. "enrolled" \in EnrollmentStatuses /\ "promote" \in AuditActions
      BY DEF EnrollmentStatuses, AuditActions
    <3> QED
      BY <1>2, <3>3, <3>4 DEF RowMoved
  <2>2. CASE ~CanPromote(s)
    BY <1>2, <2>2 DEF PromoteWaitlist
  <2> QED
    BY <2>1, <2>2
<1>3. CASE Paperwork
  BY <1>3 DEF Paperwork
<1>4. CASE JobAction
  BY <1>2, <1>4 DEF JobAction, RunPromotionJob, RerunPromotionJob, AbandonPromotionJob
<1>5. CASE Tooling \/ Tick
  BY <1>5 DEF Tooling, SetSectionStatus, Tick
<1> QED
  BY <1>1, <1>3, <1>4, <1>5 DEF Unclaimed

\* A step claims a row, moves one, or leaves the roster and its trail alone.
LEMMA RosterStep ==
  ASSUME IInv, [Next]_vars
  PROVE  \/ RowClaimed
         \/ RowMoved
         \/ /\ enrollments' = enrollments /\ trail' = trail
            /\ registration' = registration \/ RegistrationNext
<1>0. TypeOK /\ RanksBounded
  BY DEF IInv
<1>1. ASSUME NEW actor \in Users, NEW u \in Users, NEW s \in Sections, ClaimSeat(actor, u, s)
      PROVE  RowClaimed
  <2>1. /\ registration' = registration
        /\ Eligible(now, u, s, sections[s], Verified(u, TermOf[s]), Held(u, TermOf[s]))
        /\ CreateEnrollment(u, s, "enrolled", 0, "claim")
    BY <1>1 DEF ClaimSeat
  <2> QED
    BY <2>1 DEF RowClaimed
<1>2. ASSUME NEW actor \in Users, NEW u \in Users, NEW s \in Sections, ClaimWaitlistPlace(actor, u, s)
      PROVE  RowClaimed
  <2>1. PICK r \in Nat : r = NextWaitlistRank(s)
    BY <1>0, NextRank
  <2>2. /\ registration' = registration
        /\ Eligible(now, u, s, sections[s], Verified(u, TermOf[s]), Held(u, TermOf[s]))
        /\ CreateEnrollment(u, s, "waitlisted", r, "waitlist")
    BY <1>2, <2>1 DEF ClaimWaitlistPlace
  <2> QED
    BY <2>2 DEF RowClaimed
<1>3. CASE StudentAction
  BY <1>1, <1>2, <1>3, UnclaimedStep DEF StudentAction, Unclaimed
<1>4. CASE Paperwork \/ JobAction \/ Tooling \/ Tick
  BY <1>4, UnclaimedStep DEF Unclaimed
<1>5. CASE UNCHANGED vars
  BY <1>5 DEF vars
<1> QED
  BY <1>3, <1>4, <1>5 DEF Next

\* The statuses the operations give a row: none stays pending and none is
\* completed.
StatusesUsed ==
  \A i \in Rows : enrollments[i].status \in {"enrolled", "waitlisted", "dropped", "withdrawn"}

\* The trail follows every step.
LEMMA TrailStep ==
  ASSUME IInv, StatusesUsed, TrailExplainsRoster, [Next]_vars
  PROVE  StatusesUsed' /\ TrailExplainsRoster'
<1>0. /\ TypeOK /\ Rows = 1..Len(enrollments) /\ Len(enrollments) \in Nat
      /\ trail \in Seq(Seq(AuditActions)) /\ Len(trail) = Len(enrollments)
  BY RowsFinite DEF IInv, TypeOK
<1>1. CASE RowClaimed
  <2>1. PICK u \in Users, s \in Sections, st \in {"enrolled", "waitlisted"}, r \in Nat :
          CreateEnrollment(u, s, st, r, IF st = "enrolled" THEN "claim" ELSE "waitlist")
    BY <1>1 DEF RowClaimed
  <2>2. PICK a \in AuditActions : a = IF st = "enrolled" THEN "claim" ELSE "waitlist"
    BY DEF AuditActions
  <2>3. PICK new : new = Len(enrollments) + 1
    OBVIOUS
  <2>4. CreateEnrollment(u, s, st, r, a)
    BY <2>1, <2>2
  <2>5. /\ Rows' = Rows \cup {new} /\ \A i \in Rows : enrollments'[i] = enrollments[i]
        /\ enrollments'[new].status = st
    <3>1. enrollments'[new] =
            [student |-> u, section |-> s, status |-> st, rank |-> RankAfter(st, r)]
      BY <1>0, <2>3, <2>4, CreateRow
    <3> QED
      BY <1>0, <2>3, <2>4, <3>1, CreateRow
  <2>6. trail' = Append(trail, <<a>>) /\ <<a>> \in Seq(AuditActions)
    BY <2>4 DEF CreateEnrollment
  <2>7. \A i \in Rows : trail'[i] = trail[i]
    BY <1>0, <2>6, AppendProperties
  <2>8. trail'[new] = <<a>>
    BY <1>0, <2>3, <2>6, AppendProperties
  <2>9. Replayed(<<a>>) = st
    <3>1. Replayed(<<a>>) = StatusAfter[a]["none"]
      BY ReplayFirst
    <3>2. StatusAfter[a]["none"] = st
      BY <2>2 DEF StatusAfter
    <3> QED
      BY <3>1, <3>2
  <2>10. StatusesUsed'
    BY <2>5 DEF StatusesUsed
  <2>11. TrailExplainsRoster'
    <3>1. ASSUME NEW i \in Rows PROVE enrollments'[i].status = Replayed(trail'[i])
      BY <2>5, <2>7 DEF TrailExplainsRoster
    <3>2. enrollments'[new].status = Replayed(trail'[new])
      BY <2>5, <2>8, <2>9
    <3>3. \A i \in Rows' : enrollments'[i].status = Replayed(trail'[i])
      BY <2>5, <3>1, <3>2
    <3> QED
      BY <3>3 DEF TrailExplainsRoster
  <2> QED
    BY <2>10, <2>11
<1>2. CASE RowMoved
  <2>1. PICK i \in Rows, target \in EnrollmentStatuses, a \in AuditActions :
          /\ MoveEnrollment(i, target, a)
          /\ \/ a = "drop" /\ target = IF HoldsSeat(enrollments[i].status) THEN "dropped" ELSE "withdrawn"
             \/ a = "promote" /\ target = "enrolled" /\ enrollments[i].status = "waitlisted"
    BY <1>2 DEF RowMoved
  <2>2. /\ Rows' = Rows /\ \A j \in Rows : j # i => enrollments'[j] = enrollments[j]
        /\ enrollments'[i].status = target
    BY <1>0, <2>1, MoveRow
  <2> DEFINE log == Append(trail[i], a)
  <2>3. trail' = [trail EXCEPT ![i] = log] /\ trail[i] \in Seq(AuditActions)
    BY <1>0, <2>1 DEF MoveEnrollment
  <2>4. \A j \in Rows : trail'[j] = IF j = i THEN log ELSE trail[j]
    BY <1>0, <2>3
  <2>5. <<enrollments[i].status, target>> \in EnrollmentTransitions
    BY <2>1 DEF MoveEnrollment
  <2>6. enrollments[i].status \in {"enrolled", "waitlisted", "dropped", "withdrawn"}
    BY DEF StatusesUsed
  <2>7. \/ a = "drop" /\ enrollments[i].status = "enrolled" /\ target = "dropped"
        \/ a = "drop" /\ enrollments[i].status = "waitlisted" /\ target = "withdrawn"
        \/ a = "promote" /\ enrollments[i].status = "waitlisted" /\ target = "enrolled"
    BY <2>1, <2>5, <2>6 DEF EnrollmentTransitions, HoldsSeat
  <2>8. StatusAfter[a][enrollments[i].status] = target
    BY <2>7 DEF StatusAfter
  <2>9. Replayed(log) = StatusAfter[a][Replayed(trail[i])]
    BY <2>3, ReplayAppend
  <2>10. Replayed(log) = target
    BY <2>8, <2>9 DEF TrailExplainsRoster
  <2> HIDE DEF log
  <2>11. StatusesUsed'
    BY <2>2, <2>7 DEF StatusesUsed
  <2>12. ASSUME NEW j \in Rows PROVE enrollments'[j].status = Replayed(trail'[j])
    <3>1. CASE j = i
      BY <2>2, <2>4, <2>10, <3>1
    <3>2. CASE j # i
      BY <2>2, <2>4, <3>2 DEF TrailExplainsRoster
    <3> QED
      BY <3>1, <3>2
  <2> QED
    BY <2>2, <2>11, <2>12 DEF TrailExplainsRoster
<1>3. CASE enrollments' = enrollments /\ trail' = trail
  BY <1>3 DEF StatusesUsed, TrailExplainsRoster, Rows
<1> QED
  BY <1>1, <1>2, <1>3, RosterStep

\* The audit trail is complete and in order: replaying the entries of a row always
\* gives the status it has.
THEOREM TrailComplete == Spec => []TrailExplainsRoster
<1>1. Init => StatusesUsed /\ TrailExplainsRoster
  BY DEF Init, StatusesUsed, TrailExplainsRoster, Rows
<1>2. IInv /\ StatusesUsed /\ TrailExplainsRoster /\ [Next]_vars => StatusesUsed' /\ TrailExplainsRoster'
  BY TrailStep
<1> QED
  BY <1>1, <1>2, Invariance, PTL DEF Spec
-----------------------------------------------------------------------------
(* Credit loads: a sum over a set does not depend on the order of adding. *)

First(s) == CHOOSE x \in s : TRUE

\* The recursive function a sum over the subsets of S is.
Weighs(f, S) ==
  f = [s \in SUBSET S |-> IF s = {} THEN 0 ELSE Credits[CourseOf[First(s)]] + f[s \ {First(s)}]]

\* A credit load is the value of such a function, if there is one.
LEMMA LoadDef ==
  ASSUME NEW S
  PROVE  CreditLoad(S) = (CHOOSE f : Weighs(f, S))[S]
BY Zenon DEF CreditLoad, MapThenSumSet, MapThenFoldSet, Weighs, First

\* The credits of a section are a number, and taking its first member off a set
\* leaves a smaller one.
LEMMA FirstOff ==
  ASSUME NEW S, S \subseteq Sections, IsFiniteSet(S), NEW T \in SUBSET S, T # {}
  PROVE  /\ First(T) \in T /\ Credits[CourseOf[First(T)]] \in Nat
         /\ T \ {First(T)} \in SUBSET S /\ IsFiniteSet(T)
         /\ Cardinality(T) \in Nat /\ Cardinality(T \ {First(T)}) = Cardinality(T) - 1
<1>1. First(T) \in T
  BY DEF First
<1>2. Credits[CourseOf[First(T)]] \in Nat
  BY <1>1, SectionAssumption, CourseAssumption DEF ValidCredits
<1>3. IsFiniteSet(T) /\ Cardinality(T) \in Nat
  BY FS_Subset, FS_CardinalityType
<1>4. Cardinality(T \ {First(T)}) = Cardinality(T) - 1
  BY <1>1, <1>3, FS_RemoveElement
<1> QED
  BY <1>1, <1>2, <1>3, <1>4

\* Subsets have no more members.
LEMMA Sizes ==
  ASSUME NEW S, IsFiniteSet(S), NEW T \in SUBSET S
  PROVE  /\ Cardinality(S) \in Nat /\ Cardinality(T) \in 0..Cardinality(S)
         /\ Cardinality(T) = 0 <=> T = {}
<1>1. IsFiniteSet(T) /\ Cardinality(T) <= Cardinality(S)
  BY FS_Subset
<1>2. Cardinality(S) \in Nat /\ Cardinality(T) \in Nat
  BY <1>1, FS_CardinalityType
<1>3. Cardinality(T) = 0 <=> T = {}
  BY <1>1, FS_EmptySet
<1> QED
  BY <1>1, <1>2, <1>3

\* There is such a function.
LEMMA WeighsExists ==
  ASSUME NEW S, S \subseteq Sections, IsFiniteSet(S)
  PROVE  \E f : Weighs(f, S)
<1> DEFINE N == Cardinality(S)
           Off(T) == T \ {First(T)}
           C(T) == Credits[CourseOf[First(T)]]
           Upto(f, n) == \A T \in SUBSET S : Cardinality(T) <= n =>
                           f[T] = IF T = {} THEN 0 ELSE C(T) + f[Off(T)]
           P == {n \in 0..N : \E f \in [SUBSET S -> Nat] : Upto(f, n)}
<1>0. N \in Nat /\ \A T \in SUBSET S : Cardinality(T) \in 0..N /\ (Cardinality(T) = 0 <=> T = {})
  <2>1. S \in SUBSET S
    OBVIOUS
  <2> QED
    BY <2>1, Sizes
<1>1. \A T \in SUBSET S : T # {} => C(T) \in Nat /\ Off(T) \in SUBSET S
                                   /\ Cardinality(Off(T)) = Cardinality(T) - 1
  BY FirstOff
<1> HIDE DEF N, Off, C
<1>2. 0 \in P
  <2> DEFINE f == [T \in SUBSET S |-> 0]
  <2>1. f \in [SUBSET S -> Nat]
    OBVIOUS
  <2>2. ASSUME NEW T \in SUBSET S, Cardinality(T) <= 0 PROVE f[T] = 0 /\ T = {}
    BY <1>0, <2>2
  <2> HIDE DEF f
  <2>3. Upto(f, 0)
    BY <2>2
  <2> QED
    BY <1>0, <2>1, <2>3
<1>3. ASSUME NEW n \in 0..N, n # N, n \in P PROVE n + 1 \in P
  <2>1. PICK f \in [SUBSET S -> Nat] : Upto(f, n)
    BY <1>3
  <2> DEFINE h == [T \in SUBSET S |-> IF T = {} THEN 0 ELSE C(T) + f[Off(T)]]
  <2>2. h \in [SUBSET S -> Nat]
    <3>1. \A T \in SUBSET S : (IF T = {} THEN 0 ELSE C(T) + f[Off(T)]) \in Nat
      BY <1>1
    <3> QED
      BY <3>1
  <2>3. \A T \in SUBSET S : h[T] = IF T = {} THEN 0 ELSE C(T) + f[Off(T)]
    OBVIOUS
  <2> HIDE DEF h
  <2>4. ASSUME NEW T \in SUBSET S, Cardinality(T) <= n PROVE h[T] = f[T]
    BY <2>1, <2>3, <2>4, Zenon
  <2>5. ASSUME NEW T \in SUBSET S, Cardinality(T) <= n + 1
        PROVE  h[T] = IF T = {} THEN 0 ELSE C(T) + h[Off(T)]
    <3>1. CASE T = {}
      BY <2>3, <3>1
    <3>2. CASE T # {}
      <4>1. Off(T) \in SUBSET S /\ Cardinality(Off(T)) <= n
        BY <1>0, <1>1, <2>5, <3>2
      <4>2. h[Off(T)] = f[Off(T)]
        BY <2>4, <4>1
      <4> QED
        BY <2>3, <3>2, <4>2
    <3> QED
      BY <3>1, <3>2
  <2>6. n + 1 \in 0..N
    BY <1>0, <1>3
  <2> QED
    BY <2>2, <2>5, <2>6
<1>4. N \in P
  <2> HIDE DEF P
  <2>1. \A n \in 0..N : n \in P
    BY <1>0, <1>2, <1>3, Induction
  <2> QED
    BY <1>0, <2>1
<1>5. PICK f \in [SUBSET S -> Nat] : Upto(f, N)
  BY <1>4
<1>6. ASSUME NEW T \in SUBSET S PROVE f[T] = IF T = {} THEN 0 ELSE C(T) + f[Off(T)]
  <2>1. Cardinality(T) <= N
    BY <1>0
  <2> QED
    BY <1>5, <2>1
<1>7. f = [T \in SUBSET S |-> IF T = {} THEN 0 ELSE C(T) + f[Off(T)]]
  <2>1. f = [T \in SUBSET S |-> f[T]]
    BY <1>5
  <2>2. [T \in SUBSET S |-> f[T]] = [T \in SUBSET S |-> IF T = {} THEN 0 ELSE C(T) + f[Off(T)]]
    BY <1>6, Zenon
  <2> QED
    BY <2>1, <2>2, Zenon
<1>8. Weighs(f, S)
  BY <1>7 DEF Weighs, C, Off
<1> QED
  BY <1>8

\* Such functions agree where both are defined, and their values are numbers.
LEMMA WeighsAgree ==
  ASSUME NEW S, S \subseteq Sections, IsFiniteSet(S), NEW R \in SUBSET S,
         NEW f, Weighs(f, S), NEW h, Weighs(h, R)
  PROVE  \A T \in SUBSET R : f[T] = h[T] /\ f[T] \in Nat
<1> DEFINE N == Cardinality(S)
           Off(T) == T \ {First(T)}
           C(T) == Credits[CourseOf[First(T)]]
           P == {n \in 0..N : \A T \in SUBSET R : Cardinality(T) = n => f[T] = h[T] /\ f[T] \in Nat}
<1>0. N \in Nat /\ \A T \in SUBSET S : Cardinality(T) \in 0..N /\ (Cardinality(T) = 0 <=> T = {})
  <2>1. S \in SUBSET S
    OBVIOUS
  <2> QED
    BY <2>1, Sizes
<1>1. \A T \in SUBSET S : T # {} => C(T) \in Nat /\ Off(T) \in SUBSET S
                                   /\ Cardinality(Off(T)) = Cardinality(T) - 1
  BY FirstOff
<1>2. \A T \in SUBSET S : f[T] = IF T = {} THEN 0 ELSE C(T) + f[Off(T)]
  BY Zenon DEF Weighs
<1>3. \A T \in SUBSET R : h[T] = IF T = {} THEN 0 ELSE C(T) + h[Off(T)]
  BY Zenon DEF Weighs
<1>4. \A T \in SUBSET R : T \in SUBSET S /\ Off(T) \in SUBSET R
  OBVIOUS
<1> HIDE DEF N, Off, C
<1>5. 0 \in P
  <2>1. ASSUME NEW T \in SUBSET R, Cardinality(T) = 0 PROVE f[T] = 0 /\ h[T] = 0
    <3>1. T = {}
      BY <1>0, <1>4, <2>1
    <3> QED
      BY <1>2, <1>3, <1>4, <3>1
  <2> QED
    BY <1>0, <2>1
<1>6. ASSUME NEW n \in 0..N, n # N, n \in P PROVE n + 1 \in P
  <2>1. ASSUME NEW T \in SUBSET R, Cardinality(T) = n + 1 PROVE f[T] = h[T] /\ f[T] \in Nat
    <3>1. T \in SUBSET S /\ T # {} /\ Off(T) \in SUBSET R /\ Cardinality(Off(T)) = n /\ C(T) \in Nat
      BY <1>0, <1>1, <1>4, <2>1
    <3>2. f[Off(T)] = h[Off(T)] /\ f[Off(T)] \in Nat
      BY <1>6, <3>1
    <3>3. f[T] = C(T) + f[Off(T)] /\ h[T] = C(T) + h[Off(T)]
      BY <1>2, <1>3, <3>1, Zenon
    <3> QED
      BY <3>1, <3>2, <3>3
  <2>2. n + 1 \in 0..N
    BY <1>0, <1>6
  <2> QED
    BY <2>1, <2>2
<1> HIDE DEF P
<1>7. \A n \in 0..N : n \in P
  BY <1>0, <1>5, <1>6, Induction
<1>8. ASSUME NEW T \in SUBSET R PROVE f[T] = h[T] /\ f[T] \in Nat
  <2>1. Cardinality(T) \in P
    BY <1>0, <1>4, <1>7
  <2> QED
    BY <2>1 DEF P
<1> QED
  BY <1>8

\* The load of a set is that of its first member and of the rest.
LEMMA LoadFirst ==
  ASSUME NEW S, S \subseteq Sections, IsFiniteSet(S)
  PROVE  /\ CreditLoad(S) \in Nat
         /\ S = {} => CreditLoad(S) = 0
         /\ S # {} => CreditLoad(S) = Credits[CourseOf[First(S)]] + CreditLoad(S \ {First(S)})
<1>1. PICK f : f = (CHOOSE g : Weighs(g, S)) /\ Weighs(f, S)
  BY WeighsExists
<1>2. CreditLoad(S) = f[S] /\ S \in SUBSET S
  BY <1>1, LoadDef
<1>3. CreditLoad(S) \in Nat
  BY <1>1, <1>2, WeighsAgree
<1>4. f[S] = IF S = {} THEN 0 ELSE Credits[CourseOf[First(S)]] + f[S \ {First(S)}]
  BY <1>1, <1>2, Zenon DEF Weighs
<1>5. ASSUME S # {} PROVE f[S \ {First(S)}] = CreditLoad(S \ {First(S)})
  <2> DEFINE R == S \ {First(S)}
  <2>1. R \in SUBSET S /\ R \subseteq Sections /\ IsFiniteSet(R) /\ R \in SUBSET R
    BY FS_Subset
  <2> HIDE DEF R
  <2>2. PICK h : h = (CHOOSE g : Weighs(g, R)) /\ Weighs(h, R)
    BY <2>1, WeighsExists
  <2>3. CreditLoad(R) = h[R]
    BY <2>2, LoadDef
  <2>4. f[R] = h[R]
    BY <1>1, <2>1, <2>2, WeighsAgree
  <2> QED
    BY <2>3, <2>4 DEF R
<1> QED
  BY <1>2, <1>3, <1>4, <1>5

\* One more section adds its credits.
LEMMA LoadAdd ==
  ASSUME NEW S, S \subseteq Sections, IsFiniteSet(S), NEW x \in Sections, x \notin S
  PROVE  CreditLoad(S \cup {x}) = CreditLoad(S) + Credits[CourseOf[x]]
<1> DEFINE Z == S \cup {x}
           N == Cardinality(Z)
           C(y) == Credits[CourseOf[y]]
           P == {n \in 0..N : \A T \in SUBSET Z : Cardinality(T) = n =>
                   \A y \in Z \ T : CreditLoad(T \cup {y}) = CreditLoad(T) + C(y)}
<1>0. Z \subseteq Sections /\ IsFiniteSet(Z)
  BY FS_AddElement
<1>1. N \in Nat /\ \A T \in SUBSET Z : Cardinality(T) \in 0..N /\ (Cardinality(T) = 0 <=> T = {})
  <2> HIDE DEF Z
  <2>1. Z \in SUBSET Z
    OBVIOUS
  <2> QED
    BY <1>0, <2>1, Sizes
<1>2. \A y \in Z : C(y) \in Nat
  BY <1>0, SectionAssumption, CourseAssumption DEF ValidCredits
<1>3. \A T \in SUBSET Z : T \subseteq Sections /\ IsFiniteSet(T)
  BY <1>0, FS_Subset
<1>4. \A T \in SUBSET Z : /\ CreditLoad(T) \in Nat
                          /\ T = {} => CreditLoad(T) = 0
                          /\ T # {} => CreditLoad(T) = C(First(T)) + CreditLoad(T \ {First(T)})
  BY <1>3, LoadFirst
<1>5. \A T : T # {} => First(T) \in T
  BY DEF First
<1>6. x \in Z /\ S \in SUBSET Z /\ x \in Z \ S
  OBVIOUS
<1> HIDE DEF Z, C, N
<1>7. 0 \in P
  <2>1. ASSUME NEW T \in SUBSET Z, Cardinality(T) = 0, NEW y \in Z \ T
        PROVE  CreditLoad(T \cup {y}) = CreditLoad(T) + C(y)
    <3>1. T = {} /\ T \cup {y} = {y}
      BY <1>1, <2>1
    <3>2. {y} \in SUBSET Z /\ {y} # {} /\ First({y}) = y /\ {y} \ {y} = {}
      BY <1>5
    <3>3. CreditLoad({y}) = C(y) + CreditLoad({})
      BY <1>4, <3>2, Zenon
    <3>4. CreditLoad({}) = 0 /\ C(y) \in Nat
      BY <1>2, <1>4, <3>1
    <3>5. CreditLoad({y}) = CreditLoad({}) + C(y)
      BY <3>3, <3>4
    <3> QED
      BY <3>1, <3>5, Zenon
  <2> QED
    BY <1>1, <2>1
<1>8. ASSUME NEW n \in 0..N, n # N, n \in P PROVE n + 1 \in P
  <2>1. ASSUME NEW T \in SUBSET Z, Cardinality(T) = n + 1, NEW y \in Z \ T
        PROVE  CreditLoad(T \cup {y}) = CreditLoad(T) + C(y)
    <3>1. PICK U : U = T \cup {y}
      OBVIOUS
    <3>2. PICK z : z = First(U)
      OBVIOUS
    <3>3. U \in SUBSET Z /\ U # {} /\ z \in U
      BY <1>5, <2>1, <3>1, <3>2
    <3>4. CreditLoad(U) = C(z) + CreditLoad(U \ {z})
      BY <1>4, <3>2, <3>3
    <3>5. CASE z = y
      <4>1. U \ {z} = T
        BY <2>1, <3>1, <3>5
      <4>2. C(y) \in Nat /\ CreditLoad(T) \in Nat
        BY <1>2, <1>4, <2>1
      <4>3. CreditLoad(U) = C(y) + CreditLoad(T)
        BY <3>4, <3>5, <4>1, Zenon
      <4> QED
        BY <3>1, <4>2, <4>3
    <3>6. CASE z # y
      <4>1. PICK V : V = T \ {z}
        OBVIOUS
      <4>2. z \in T /\ V \in SUBSET Z /\ U \ {z} = V \cup {y} /\ V \cup {z} = T
            /\ y \in Z \ V /\ z \in Z \ V
        BY <2>1, <3>1, <3>3, <3>6, <4>1
      <4>3. Cardinality(V) = n
        <5>1. IsFiniteSet(T) /\ Cardinality(T) \in Nat
          BY <1>3, <2>1, FS_CardinalityType
        <5>2. Cardinality(V) = Cardinality(T) - 1
          BY <4>1, <4>2, <5>1, FS_RemoveElement
        <5> QED
          BY <1>1, <2>1, <5>2
      <4>4. CreditLoad(V \cup {y}) = CreditLoad(V) + C(y) /\ CreditLoad(V \cup {z}) = CreditLoad(V) + C(z)
        BY <1>8, <4>2, <4>3
      <4>5. CreditLoad(U \ {z}) = CreditLoad(V) + C(y) /\ CreditLoad(T) = CreditLoad(V) + C(z)
        BY <4>2, <4>4, Zenon
      <4>6. C(y) \in Nat /\ C(z) \in Nat /\ CreditLoad(V) \in Nat
        BY <1>2, <1>4, <4>2
      <4>7. CreditLoad(U) = CreditLoad(T) + C(y)
        BY <3>4, <4>5, <4>6
      <4> QED
        BY <3>1, <4>7
    <3> QED
      BY <3>5, <3>6
  <2>2. n + 1 \in 0..N
    BY <1>1, <1>8
  <2> QED
    BY <2>1, <2>2
<1>9. Cardinality(S) \in P
  <2> HIDE DEF P
  <2>1. \A n \in 0..N : n \in P
    BY <1>1, <1>7, <1>8, Induction
  <2> QED
    BY <1>1, <1>6, <2>1
<1>10. CreditLoad(S \cup {x}) = CreditLoad(S) + C(x)
  BY <1>6, <1>9
<1> QED
  BY <1>10 DEF C
-----------------------------------------------------------------------------
(* Plans. *)

\* The rows by which a student holds sections in a term.
ActiveRows(u, t) ==
  {i \in Rows : /\ enrollments[i].student = u
                /\ TermOf[enrollments[i].section] = t
                /\ Active(enrollments[i].status)}

\* A student has one active row of a section.
OneRowEach ==
  \A i, j \in Rows :
    /\ enrollments[i].student = enrollments[j].student
    /\ enrollments[i].section = enrollments[j].section
    /\ Active(enrollments[i].status) /\ Active(enrollments[j].status)
    => i = j

\* What is held is finite, and counted by its rows.
LEMMA HeldFacts ==
  ASSUME TypeOK, NEW u, NEW t
  PROVE  /\ Held(u, t) \subseteq Sections /\ IsFiniteSet(Held(u, t))
         /\ \A s : s \in Held(u, t) <=> \E i \in ActiveRows(u, t) : enrollments[i].section = s
         /\ \A s \in Held(u, t) : TermOf[s] = t
         /\ OneRowEach => Cardinality(Held(u, t)) = Cardinality(ActiveRows(u, t))
<1> DEFINE A == ActiveRows(u, t)
           H == Held(u, t)
           f == [i \in A |-> enrollments[i].section]
<1>1. H = {enrollments[i].section : i \in A}
  BY DEF Held, ActiveRows
<1>2. A \subseteq Rows /\ IsFiniteSet(A)
  <2>1. Rows = 1..Len(enrollments) /\ Len(enrollments) \in Nat
    BY RowsFinite
  <2>2. IsFiniteSet(Rows)
    BY <2>1, FS_Interval
  <2>3. A \subseteq Rows
    BY DEF ActiveRows
  <2> QED
    BY <2>2, <2>3, FS_Subset
<1>3. \A i \in A : enrollments[i].section \in Sections /\ TermOf[enrollments[i].section] = t
  BY <1>2, RowTypes DEF ActiveRows
<1>4. OneRowEach => \A i, j \in A : enrollments[i].section = enrollments[j].section => i = j
  BY DEF OneRowEach, ActiveRows
<1> HIDE DEF A, H
<1>5. H \subseteq Sections /\ (\A s : s \in H <=> \E i \in A : enrollments[i].section = s)
      /\ \A s \in H : TermOf[s] = t
  BY <1>1, <1>3
<1>6. f \in Surjection(A, H)
  BY <1>5 DEF Surjection
<1>7. IsFiniteSet(H) /\ (Cardinality(H) = Cardinality(A) <=> f \in Injection(A, H))
  <2> HIDE DEF f
  <2> QED
    BY <1>2, <1>6, FS_Surjection
<1>8. OneRowEach => f \in Injection(A, H)
  BY <1>4, <1>5 DEF Injection, IsInjective
<1> QED
  BY <1>5, <1>7, <1>8 DEF A, H

\* The rules a set of held sections obeys, given the state of the paperwork.
Allowed(held, verified, u, t) ==
  /\ held # {} => verified
  /\ CreditLoad(held) <= CreditLimit[t]
  /\ \A h \in held : MissingPrerequisites(CourseOf[h], u) = {}
  /\ \A g, h \in held : g # h => /\ CourseOf[g] # CourseOf[h]
                                 /\ ~FindScheduleConflict(Meetings[g], Meetings[h])

\* Giving a section up breaks no rule.
LEMMA AllowedLess ==
  ASSUME NEW H, H \subseteq Sections, IsFiniteSet(H), NEW x \in H, NEW v \in BOOLEAN,
         NEW u, NEW t \in Terms, Allowed(H, v, u, t)
  PROVE  Allowed(H \ {x}, v, u, t)
<1> DEFINE R == H \ {x}
<1>1. R \subseteq Sections /\ IsFiniteSet(R) /\ x \in Sections /\ x \notin R /\ R \cup {x} = H /\ R \subseteq H
  BY FS_Subset
<1> HIDE DEF R
<1>2. CreditLoad(R \cup {x}) = CreditLoad(R) + Credits[CourseOf[x]]
  BY <1>1, LoadAdd
<1>3. CreditLoad(R) \in Nat /\ Credits[CourseOf[x]] \in Nat /\ CreditLimit[t] \in Nat
  <2>1. CourseOf[x] \in Courses /\ CreditLimit[t] \in Nat
    BY <1>1, SectionAssumption, TermAssumption
  <2>2. Credits[CourseOf[x]] \in 1..12
    BY <2>1, CourseAssumption DEF ValidCredits
  <2>3. CreditLoad(R) \in Nat
    BY <1>1, LoadFirst
  <2> QED
    BY <2>1, <2>2, <2>3
<1>4. CreditLoad(H) = CreditLoad(R) + Credits[CourseOf[x]] /\ CreditLoad(H) <= CreditLimit[t]
  BY <1>1, <1>2 DEF Allowed
<1>5. CreditLoad(R) <= CreditLimit[t]
  BY <1>3, <1>4
<1>6. R # {} => v
  BY <1>1 DEF Allowed
<1>7. Allowed(R, v, u, t)
  BY <1>1, <1>5, <1>6 DEF Allowed
<1> QED
  BY <1>7 DEF R

\* A claim checks all that adding its section takes.
LEMMA AllowedMore ==
  ASSUME NEW H, H \subseteq Sections, IsFiniteSet(H), NEW s \in Sections, NEW at, NEW u, NEW section,
         Allowed(H, TRUE, u, TermOf[s]), Eligible(at, u, s, section, TRUE, H)
  PROVE  Allowed(H \cup {s}, TRUE, u, TermOf[s])
<1>1. /\ \A h \in H : h # s /\ CourseOf[h] # CourseOf[s]
      /\ MissingPrerequisites(CourseOf[s], u) = {}
      /\ CreditLoad(H) + Credits[CourseOf[s]] <= CreditLimit[TermOf[s]]
      /\ ~FindScheduleConflict(Meetings[s], HeldMeetings(H))
  BY DEF Eligible, WithinCreditLimit
<1>2. CreditLoad(H \cup {s}) <= CreditLimit[TermOf[s]]
  BY <1>1, LoadAdd
<1>3. \A h \in H : /\ ~FindScheduleConflict(Meetings[s], Meetings[h])
                   /\ ~FindScheduleConflict(Meetings[h], Meetings[s])
  <2>1. ASSUME NEW h \in H, NEW c \in Meetings[s], NEW m \in Meetings[h], Overlaps(c, m) PROVE FALSE
    <3>1. m \in HeldMeetings(H)
      BY <2>1 DEF HeldMeetings
    <3> QED
      BY <1>1, <2>1, <3>1 DEF FindScheduleConflict
  <2>2. \A c, m : Overlaps(c, m) <=> Overlaps(m, c)
    BY DEF Overlaps
  <2> QED
    BY <2>1, <2>2 DEF FindScheduleConflict
<1>4. \A h \in H \cup {s} : MissingPrerequisites(CourseOf[h], u) = {}
  BY <1>1 DEF Allowed
<1>5. \A g, h \in H \cup {s} : g # h => /\ CourseOf[g] # CourseOf[h]
                                        /\ ~FindScheduleConflict(Meetings[g], Meetings[h])
  BY <1>1, <1>3 DEF Allowed
<1> QED
  BY <1>2, <1>4, <1>5 DEF Allowed

\* A claim gives its student the section, and nobody else anything.
LEMMA HeldCreate ==
  ASSUME TypeOK, OneRowEach, NEW u \in Users, NEW s \in Sections, NEW st \in {"enrolled", "waitlisted"},
         NEW r \in Nat, NEW a \in AuditActions, CreateEnrollment(u, s, st, r, a)
  PROVE  /\ OneRowEach'
         /\ \A v \in Users, t \in Terms :
              Held(v, t)' = IF v = u /\ t = TermOf[s] THEN Held(v, t) \cup {s} ELSE Held(v, t)
<1>1. PICK n : n = Len(enrollments) + 1
  OBVIOUS
<1>2. /\ Rows' = Rows \cup {n}
      /\ \A i \in Rows : enrollments'[i] = enrollments[i]
      /\ enrollments'[n] = [student |-> u, section |-> s, status |-> st, rank |-> RankAfter(st, r)]
  BY <1>1, CreateRow
<1>3. /\ enrollments'[n].student = u /\ enrollments'[n].section = s
      /\ enrollments'[n].status = st /\ Active(st)
  BY <1>2 DEF Active
<1>4. \A i \in Rows : ~ /\ enrollments[i].student = u
                        /\ enrollments[i].section = s
                        /\ Active(enrollments[i].status)
  BY DEF CreateEnrollment
<1>5. OneRowEach'
  <2> SUFFICES ASSUME NEW i \in Rows', NEW j \in Rows',
                      enrollments'[i].student = enrollments'[j].student,
                      enrollments'[i].section = enrollments'[j].section,
                      Active(enrollments'[i].status), Active(enrollments'[j].status)
               PROVE  i = j
    BY DEF OneRowEach
  <2>1. CASE i \in Rows /\ j \in Rows
    BY <1>2, <2>1 DEF OneRowEach
  <2>2. CASE i \notin Rows \/ j \notin Rows
    BY <1>2, <1>3, <1>4, <2>2
  <2> QED
    BY <2>1, <2>2
<1>6. ASSUME NEW v \in Users, NEW t \in Terms
      PROVE  Held(v, t)' = IF v = u /\ t = TermOf[s] THEN Held(v, t) \cup {s} ELSE Held(v, t)
  <2>1. \A x : x \in Held(v, t) <=> \E i \in Rows :
          /\ enrollments[i].student = v /\ TermOf[enrollments[i].section] = t
          /\ Active(enrollments[i].status) /\ enrollments[i].section = x
    BY DEF Held
  <2>2. \A x : x \in Held(v, t)' <=> \E i \in Rows' :
          /\ enrollments'[i].student = v /\ TermOf[enrollments'[i].section] = t
          /\ Active(enrollments'[i].status) /\ enrollments'[i].section = x
    BY DEF Held
  <2>3. \A x : x \in Held(v, t)' <=> x \in Held(v, t) \/ (v = u /\ t = TermOf[s] /\ x = s)
    BY <1>2, <1>3, <2>1, <2>2
  <2>4. PICK H : H = Held(v, t)
    OBVIOUS
  <2>5. PICK G : G = Held(v, t)'
    OBVIOUS
  <2>6. G = IF v = u /\ t = TermOf[s] THEN H \cup {s} ELSE H
    <3>1. \A x : x \in G <=> x \in H \/ (v = u /\ t = TermOf[s] /\ x = s)
      BY <2>3, <2>4, <2>5
    <3>2. CASE v = u /\ t = TermOf[s]
      BY <3>1, <3>2
    <3>3. CASE ~(v = u /\ t = TermOf[s])
      <4>1. \A x : x \in G <=> x \in H
        BY <3>1, <3>3
      <4> QED
        BY <3>3, <4>1
    <3> QED
      BY <3>2, <3>3
  <2> QED
    BY <2>4, <2>5, <2>6
<1> QED
  BY <1>5, <1>6

\* A promotion changes nothing of what is held; a drop takes one section from
\* the student of its row.
LEMMA HeldMove ==
  ASSUME TypeOK, OneRowEach, NEW i \in Rows, NEW target \in EnrollmentStatuses,
         NEW a \in AuditActions, MoveEnrollment(i, target, a)
  PROVE  /\ OneRowEach'
         /\ \A v \in Users, t \in Terms :
              \/ Held(v, t)' = Held(v, t)
              \/ \E x \in Held(v, t) : Held(v, t)' = Held(v, t) \ {x}
<1>1. /\ Rows' = Rows
      /\ \A j \in Rows : j # i => enrollments'[j] = enrollments[j]
      /\ enrollments'[i].student = enrollments[i].student
      /\ enrollments'[i].section = enrollments[i].section
      /\ enrollments'[i].status = target
  BY MoveRow
<1>2. Active(enrollments[i].status)
  BY DEF MoveEnrollment, EnrollmentTransitions, Active
<1>3. \A j \in Rows : /\ enrollments'[j].student = enrollments[j].student
                      /\ enrollments'[j].section = enrollments[j].section
                      /\ Active(enrollments'[j].status) => Active(enrollments[j].status)
                      /\ j # i => enrollments'[j].status = enrollments[j].status
  BY <1>1, <1>2
<1>4. OneRowEach'
  <2> SUFFICES ASSUME NEW k \in Rows', NEW j \in Rows',
                      enrollments'[k].student = enrollments'[j].student,
                      enrollments'[k].section = enrollments'[j].section,
                      Active(enrollments'[k].status), Active(enrollments'[j].status)
               PROVE  k = j
    BY DEF OneRowEach
  <2> QED
    BY <1>1, <1>3 DEF OneRowEach
<1>5. ASSUME NEW v \in Users, NEW t \in Terms
      PROVE  \/ Held(v, t)' = Held(v, t)
             \/ \E x \in Held(v, t) : Held(v, t)' = Held(v, t) \ {x}
  <2>1. \A x : x \in Held(v, t) <=> \E j \in Rows :
          /\ enrollments[j].student = v /\ TermOf[enrollments[j].section] = t
          /\ Active(enrollments[j].status) /\ enrollments[j].section = x
    BY DEF Held
  <2>2. \A x : x \in Held(v, t)' <=> \E j \in Rows' :
          /\ enrollments'[j].student = v /\ TermOf[enrollments'[j].section] = t
          /\ Active(enrollments'[j].status) /\ enrollments'[j].section = x
    BY DEF Held
  <2>3. PICK H : H = Held(v, t)
    OBVIOUS
  <2>4. PICK G : G = Held(v, t)'
    OBVIOUS
  <2>5. PICK y : y = enrollments[i].section
    OBVIOUS
  <2>6. CASE Active(target) \/ enrollments[i].student # v \/ TermOf[y] # t
    <3>1. \A x : x \in G <=> x \in H
      BY <1>1, <1>2, <1>3, <2>1, <2>2, <2>3, <2>4, <2>5, <2>6
    <3>2. G = H
      BY <3>1
    <3> QED
      BY <2>3, <2>4, <3>2
  <2>7. CASE ~Active(target) /\ enrollments[i].student = v /\ TermOf[y] = t
    <3>1. y \in H
      BY <1>2, <2>1, <2>3, <2>5, <2>7
    <3>2. \A x : x \in G => x \in H /\ x # y
      <4>1. ASSUME NEW x, x \in G PROVE x \in H /\ x # y
        <5>1. PICK j \in Rows : /\ enrollments'[j].student = v /\ TermOf[enrollments'[j].section] = t
                                /\ Active(enrollments'[j].status) /\ enrollments'[j].section = x
          BY <1>1, <2>2, <2>4, <4>1
        <5>2. j # i
          BY <1>1, <2>7, <5>1
        <5>3. /\ enrollments[j].student = v /\ TermOf[enrollments[j].section] = t
              /\ Active(enrollments[j].status) /\ enrollments[j].section = x
          BY <1>3, <5>1
        <5>4. x # y
          BY <1>2, <2>5, <2>7, <5>2, <5>3 DEF OneRowEach
        <5> QED
          BY <2>1, <2>3, <5>3, <5>4
      <4> QED
        BY <4>1
    <3>3. \A x : x \in H /\ x # y => x \in G
      <4>1. ASSUME NEW x, x \in H, x # y PROVE x \in G
        <5>1. PICK j \in Rows : /\ enrollments[j].student = v /\ TermOf[enrollments[j].section] = t
                                /\ Active(enrollments[j].status) /\ enrollments[j].section = x
          BY <2>1, <2>3, <4>1
        <5>2. j # i
          BY <2>5, <4>1, <5>1
        <5>3. /\ enrollments'[j].student = v /\ TermOf[enrollments'[j].section] = t
              /\ Active(enrollments'[j].status) /\ enrollments'[j].section = x /\ j \in Rows'
          BY <1>1, <1>3, <5>1, <5>2
        <5> QED
          BY <2>2, <2>4, <5>3
      <4> QED
        BY <4>1
    <3>4. G = H \ {y}
      BY <3>2, <3>3
    <3> QED
      BY <2>3, <2>4, <3>1, <3>4
  <2> QED
    BY <2>6, <2>7
<1> QED
  BY <1>4, <1>5

\* Every plan obeys the rules, one row for each section held.
Plans ==
  /\ OneRowEach
  /\ \A u \in Users, t \in Terms : Allowed(Held(u, t), Verified(u, t), u, t)

\* Nobody holds anything at first.
LEMMA InitPlans == Init => Plans
<1> SUFFICES ASSUME Init PROVE Plans
  OBVIOUS
<1>1. Rows = {}
  BY DEF Init, Rows
<1>2. \A u, t : Held(u, t) = {}
  BY <1>1 DEF Held
<1>3. CreditLoad({}) = 0
  BY LoadFirst, FS_EmptySet
<1>4. \A u \in Users, t \in Terms, v \in BOOLEAN : Allowed({}, v, u, t)
  BY <1>3, TermAssumption DEF Allowed, ValidTerm
<1>5. \A u \in Users, t \in Terms : Allowed(Held(u, t), Verified(u, t), u, t)
  BY <1>2, <1>4 DEF Verified
<1> QED
  BY <1>1, <1>5 DEF Plans, OneRowEach

\* No step breaks a plan: a claim is checked, a drop and a promotion need no
\* check, and paperwork once verified stays so.
LEMMA PlanStep ==
  ASSUME IInv, Plans, [Next]_vars
  PROVE  Plans'
<1>0. TypeOK /\ OneRowEach /\ registration \in RegistrationType
  BY DEF IInv, Plans, TypeOK
<1>1. CASE RowClaimed
  <2>1. PICK u \in Users, s \in Sections, st \in {"enrolled", "waitlisted"}, r \in Nat :
          /\ Eligible(now, u, s, sections[s], Verified(u, TermOf[s]), Held(u, TermOf[s]))
          /\ CreateEnrollment(u, s, st, r, IF st = "enrolled" THEN "claim" ELSE "waitlist")
    BY <1>1 DEF RowClaimed
  <2>2. PICK a \in AuditActions : a = IF st = "enrolled" THEN "claim" ELSE "waitlist"
    BY DEF AuditActions
  <2>3. CreateEnrollment(u, s, st, r, a)
    BY <2>1, <2>2
  <2>4. /\ OneRowEach'
        /\ \A v \in Users, t \in Terms :
             Held(v, t)' = IF v = u /\ t = TermOf[s] THEN Held(v, t) \cup {s} ELSE Held(v, t)
    BY <1>0, <2>3, HeldCreate
  <2>5. ASSUME NEW v \in Users, NEW t \in Terms
        PROVE  Allowed(Held(v, t), Verified(v, t), v, t)'
    <3>1. Verified(v, t)' = Verified(v, t)
      BY <1>1 DEF RowClaimed, Verified
    <3>2. PICK H : H = Held(v, t)
      OBVIOUS
    <3>3. Allowed(H, Verified(v, t), v, t)
      BY <3>2 DEF Plans
    <3>4. CASE v = u /\ t = TermOf[s]
      <4>1. Verified(v, t) = TRUE
        BY <2>1, <3>4 DEF Eligible, Verified
      <4>2. PICK section : section = sections[s]
        OBVIOUS
      <4>3. PICK at : at = now
        OBVIOUS
      <4>4. Eligible(at, u, s, section, TRUE, H) /\ Allowed(H, TRUE, u, TermOf[s])
        BY <2>1, <3>2, <3>3, <3>4, <4>1, <4>2, <4>3
      <4>5. H \subseteq Sections /\ IsFiniteSet(H)
        BY <1>0, <3>2, HeldFacts
      <4>6. Allowed(H \cup {s}, TRUE, u, TermOf[s])
        BY <4>4, <4>5, AllowedMore
      <4>7. Held(v, t)' = H \cup {s}
        BY <2>4, <3>2, <3>4
      <4>8. Allowed(Held(v, t)', Verified(v, t)', v, t)
        BY <3>1, <3>4, <4>1, <4>6, <4>7
      <4> QED
        BY <4>8 DEF Allowed
    <3>5. CASE ~(v = u /\ t = TermOf[s])
      <4>1. Held(v, t)' = H
        BY <2>4, <3>2, <3>5
      <4>2. Allowed(Held(v, t)', Verified(v, t)', v, t)
        BY <3>1, <3>3, <4>1
      <4> QED
        BY <4>2 DEF Allowed
    <3> QED
      BY <3>4, <3>5
  <2> QED
    BY <2>4, <2>5 DEF Plans
<1>2. CASE RowMoved
  <2>1. PICK i \in Rows, target \in EnrollmentStatuses, a \in AuditActions : MoveEnrollment(i, target, a)
    BY <1>2 DEF RowMoved
  <2>2. /\ OneRowEach'
        /\ \A v \in Users, t \in Terms :
             \/ Held(v, t)' = Held(v, t)
             \/ \E x \in Held(v, t) : Held(v, t)' = Held(v, t) \ {x}
    BY <1>0, <2>1, HeldMove
  <2>3. ASSUME NEW v \in Users, NEW t \in Terms
        PROVE  Allowed(Held(v, t), Verified(v, t), v, t)'
    <3>1. Verified(v, t)' = Verified(v, t) /\ Verified(v, t) \in BOOLEAN
      BY <1>2 DEF RowMoved, Verified
    <3>2. PICK H : H = Held(v, t)
      OBVIOUS
    <3>3. PICK w \in BOOLEAN : w = Verified(v, t)
      BY <3>1
    <3>4. Allowed(H, w, v, t) /\ H \subseteq Sections /\ IsFiniteSet(H)
      BY <1>0, <3>2, <3>3, HeldFacts DEF Plans
    <3>5. \A x \in H : Allowed(H \ {x}, w, v, t)
      BY <3>4, AllowedLess
    <3>6. Held(v, t)' = H \/ \E x \in H : Held(v, t)' = H \ {x}
      BY <2>2, <3>2
    <3>7. Allowed(Held(v, t)', w, v, t)
      BY <3>4, <3>5, <3>6
    <3>8. Allowed(Held(v, t)', Verified(v, t)', v, t)
      BY <3>1, <3>3, <3>7
    <3> QED
      BY <3>8 DEF Allowed
  <2> QED
    BY <2>2, <2>3 DEF Plans
<1>3. CASE enrollments' = enrollments /\ (registration' = registration \/ RegistrationNext)
  <2>1. OneRowEach'
    BY <1>0, <1>3 DEF OneRowEach, Rows
  <2>2. ASSUME NEW v \in Users, NEW t \in Terms
        PROVE  Allowed(Held(v, t), Verified(v, t), v, t)'
    <3>1. Held(v, t)' = Held(v, t)
      BY <1>3 DEF Held, Rows
    <3>2. Verified(v, t) => Verified(v, t)'
      BY <1>0, <1>3, VerifiedStep DEF Verified
    <3>3. Allowed(Held(v, t), Verified(v, t), v, t)
      BY DEF Plans
    <3> QED
      BY <3>1, <3>2, <3>3 DEF Allowed
  <2> QED
    BY <2>1, <2>2 DEF Plans
<1> QED
  BY <1>1, <1>2, <1>3, RosterStep

\* Every plan obeys the rules of a claim and counts each section once: the
\* checks of claimOnce and the unique index are enough, although promotions make
\* none of them and drops come in any order.
THEOREM PlansObeyRules == Spec => []PlanWithinRules
<1>1. IInv /\ Plans /\ [Next]_vars => Plans'
  BY PlanStep
<1>2. IInv /\ Plans => PlanWithinRules
  <2> SUFFICES ASSUME IInv, Plans, NEW u \in Users, NEW t \in Terms
               PROVE  /\ Allowed(Held(u, t), Verified(u, t), u, t)
                      /\ Cardinality(Held(u, t)) = Cardinality(ActiveRows(u, t))
    BY Zenon DEF PlanWithinRules, Allowed, ActiveRows
  <2> QED
    BY HeldFacts DEF IInv, Plans
<1> QED
  BY <1>1, <1>2, InitPlans, Invariance, PTL DEF Spec
-----------------------------------------------------------------------------
(* Claim requests. *)

\* The entries of a log name sections in S.
NameSections(E, S) == \A e \in E : e.section \in S

\* Picking sections out of a log, entry by entry.
Picks(f, log, places) ==
  f = [n \in 0..Len(log) |->
         IF n = 0 THEN <<>>
         ELSE IF n \in places THEN Append(f[n - 1], log[n].section) ELSE f[n - 1]]

\* The function by which SectionsAt collects the sections of a log exists.
LEMMA PicksExists ==
  ASSUME NEW E, NEW S, NameSections(E, S), NEW log \in Seq(E), NEW places
  PROVE  \E f : Picks(f, log, places)
<1> DEFINE N == Len(log)
           Q == Seq(S)
           at(k) == log[k].section
           step == [k \in 1..N |-> [q \in Q |-> IF k \in places THEN Append(q, at(k)) ELSE q]]
<1>1. N \in Nat /\ (\A k \in 1..N : at(k) \in S) /\ <<>> \in Q
  BY LenProperties, ElementOfSeq DEF NameSections
<1>2. \A q \in Q, x \in S : Append(q, x) \in Q
  BY AppendProperties
<1>3. /\ \A k \in 1..N, q \in Q : step[k][q] = IF k \in places THEN Append(q, at(k)) ELSE q
      /\ step \in [1..N -> [Q -> Q]]
  BY <1>1, <1>2
<1> HIDE DEF N, Q, at, step
<1>4. PICK g : Runs(g, N, <<>>, step)
  BY <1>1, RecursionExists
<1>5. g \in [0..N -> Q]
  BY <1>1, <1>3, <1>4, RecursionTyped
<1>6. ASSUME NEW n \in 0..N
      PROVE  g[n] = IF n = 0 THEN <<>> ELSE IF n \in places THEN Append(g[n - 1], at(n)) ELSE g[n - 1]
  <2>1. CASE n = 0
    BY <1>4, <2>1 DEF Runs
  <2>2. CASE n # 0
    <3>1. n \in 1..N /\ n - 1 \in 0..N
      BY <1>1, <2>2
    <3>2. g[n] = step[n][g[n - 1]] /\ g[n - 1] \in Q
      BY <1>4, <1>5, <3>1 DEF Runs
    <3> QED
      BY <1>3, <2>2, <3>1, <3>2, Zenon
  <2> QED
    BY <2>1, <2>2
<1>7. g = [n \in 0..N |-> g[n]]
  BY <1>4 DEF Runs
<1>8. [n \in 0..N |-> g[n]] =
        [n \in 0..N |-> IF n = 0 THEN <<>> ELSE IF n \in places THEN Append(g[n - 1], at(n)) ELSE g[n - 1]]
  BY <1>6, Zenon
<1>9. Picks(g, log, places)
  BY <1>7, <1>8, Zenon DEF Picks, N, at
<1> QED
  BY <1>9

\* It collects entry by entry, and only sections.
LEMMA PicksSteps ==
  ASSUME NEW E, NEW S, NameSections(E, S), NEW log \in Seq(E), NEW places,
         NEW f, Picks(f, log, places)
  PROVE  /\ f[0] = <<>>
         /\ \A n \in 1..Len(log) :
              f[n] = IF n \in places THEN Append(f[n - 1], log[n].section) ELSE f[n - 1]
         /\ \A n \in 0..Len(log) : f[n] \in Seq(S)
<1> DEFINE N == Len(log)
           P == {n \in 0..N : f[n] \in Seq(S)}
<1>1. N \in Nat /\ \A k \in 1..N : log[k].section \in S
  BY LenProperties, ElementOfSeq DEF NameSections
<1>2. ASSUME NEW n \in 0..N
      PROVE  f[n] = IF n = 0 THEN <<>>
                    ELSE IF n \in places THEN Append(f[n - 1], log[n].section) ELSE f[n - 1]
  BY Zenon DEF Picks
<1>3. 0 \in 0..N /\ \A n \in 1..N : n \in 0..N /\ n # 0
  BY <1>1
<1>4. f[0] = <<>>
  BY <1>2, <1>3
<1>5. ASSUME NEW n \in 1..N
      PROVE  f[n] = IF n \in places THEN Append(f[n - 1], log[n].section) ELSE f[n - 1]
  BY <1>2, <1>3, Zenon
<1>6. 0 \in P
  <2>1. <<>> \in Seq(S)
    OBVIOUS
  <2>2. f[0] \in Seq(S)
    BY <1>4, <2>1, Zenon
  <2> QED
    BY <1>3, <2>2
<1>7. ASSUME NEW n \in 0..N, n # N, n \in P PROVE n + 1 \in P
  <2>1. n + 1 \in 1..N /\ n + 1 \in 0..N /\ (n + 1) - 1 = n
    BY <1>1, <1>7
  <2>2. f[n + 1] = IF n + 1 \in places THEN Append(f[n], log[n + 1].section) ELSE f[n]
    BY <1>5, <2>1
  <2>3. f[n] \in Seq(S) /\ log[n + 1].section \in S
    BY <1>1, <1>7, <2>1
  <2>4. Append(f[n], log[n + 1].section) \in Seq(S)
    BY <2>3, AppendProperties
  <2>5. f[n + 1] \in Seq(S)
    BY <2>2, <2>3, <2>4
  <2> QED
    BY <2>1, <2>5
<1> HIDE DEF P
<1>8. \A n \in 0..N : n \in P
  BY <1>1, <1>6, <1>7, Induction
<1> QED
  BY <1>4, <1>5, <1>8 DEF P

\* SectionsAt is the last value of such a function.
LEMMA SectionsAtRun ==
  ASSUME NEW E, NEW S, NameSections(E, S), NEW log \in Seq(E), NEW places
  PROVE  /\ \E f : /\ SectionsAt(log, places) = f[Len(log)] /\ f[0] = <<>>
                   /\ \A n \in 1..Len(log) :
                        f[n] = IF n \in places THEN Append(f[n - 1], log[n].section) ELSE f[n - 1]
         /\ SectionsAt(log, places) \in Seq(S)
<1> DEFINE f == CHOOSE g : Picks(g, log, places)
<1>1. SectionsAt(log, places) = f[Len(log)]
  BY Zenon DEF SectionsAt, Picks
<1>2. Picks(f, log, places)
  BY PicksExists, Zenon
<1> HIDE DEF f
<1>3. Len(log) \in 0..Len(log)
  BY LenProperties
<1>4. /\ f[0] = <<>>
      /\ \A n \in 1..Len(log) :
           f[n] = IF n \in places THEN Append(f[n - 1], log[n].section) ELSE f[n - 1]
      /\ \A n \in 0..Len(log) : f[n] \in Seq(S)
  BY <1>2, PicksSteps
<1>5. f[Len(log)] \in Seq(S)
  BY <1>3, <1>4
<1>6. \E g : /\ SectionsAt(log, places) = g[Len(log)] /\ g[0] = <<>>
            /\ \A n \in 1..Len(log) :
                 g[n] = IF n \in places THEN Append(g[n - 1], log[n].section) ELSE g[n - 1]
  BY <1>1, <1>4, Zenon
<1> QED
  BY <1>1, <1>5, <1>6

\* An empty log names none.
LEMMA SectionsAtNone ==
  ASSUME NEW p
  PROVE  SectionsAt(<<>>, p) = <<>>
<1>1. PICK log : log = <<>>
  OBVIOUS
<1>2. log \in Seq({}) /\ NameSections({}, {}) /\ Len(log) = 0
  BY <1>1 DEF NameSections
<1>3. PICK f : Picks(f, log, p) /\ f = CHOOSE g : Picks(g, log, p)
  BY <1>2, PicksExists, Zenon
<1>4. SectionsAt(log, p) = f[Len(log)]
  BY <1>3, Zenon DEF SectionsAt, Picks
<1>5. f[0] = <<>>
  <2>1. 0 \in 0..Len(log)
    BY <1>2
  <2> QED
    BY <1>3, <2>1, Zenon DEF Picks
<1> QED
  BY <1>1, <1>2, <1>4, <1>5, Zenon

\* One more entry adds its section, if its place is among those picked.
LEMMA SectionsAtAppend ==
  ASSUME NEW E, NEW S, NameSections(E, S), NEW log \in Seq(E), NEW e \in E,
         NEW p, NEW q, \A n \in 1..Len(log) : n \in p <=> n \in q
  PROVE  SectionsAt(Append(log, e), q) =
           IF Len(log) + 1 \in q THEN Append(SectionsAt(log, p), e.section) ELSE SectionsAt(log, p)
<1> DEFINE more == Append(log, e)
           N == Len(log)
<1>1. /\ more \in Seq(E) /\ N \in Nat /\ Len(more) = N + 1
      /\ more[N + 1] = e /\ \A k \in 1..N : more[k] = log[k]
  BY AppendProperties, LenProperties
<1> HIDE DEF more, N
<1>2. PICK f : /\ SectionsAt(log, p) = f[Len(log)] /\ f[0] = <<>>
               /\ \A n \in 1..Len(log) :
                    f[n] = IF n \in p THEN Append(f[n - 1], log[n].section) ELSE f[n - 1]
  BY SectionsAtRun
<1>3. PICK g : /\ SectionsAt(more, q) = g[Len(more)] /\ g[0] = <<>>
               /\ \A n \in 1..Len(more) :
                    g[n] = IF n \in q THEN Append(g[n - 1], more[n].section) ELSE g[n - 1]
  <2>1. more \in Seq(E)
    BY <1>1
  <2> QED
    BY <2>1, SectionsAtRun
<1>4. /\ SectionsAt(log, p) = f[N]
      /\ \A n \in 1..N : f[n] = IF n \in p THEN Append(f[n - 1], log[n].section) ELSE f[n - 1]
  BY <1>2, Zenon DEF N
<1>5. /\ SectionsAt(more, q) = g[N + 1]
      /\ \A n \in 1..(N + 1) : g[n] = IF n \in q THEN Append(g[n - 1], more[n].section) ELSE g[n - 1]
  BY <1>1, <1>3, Zenon
<1> DEFINE P == {n \in 0..N : f[n] = g[n]}
<1>6. 0 \in P
  BY <1>1, <1>2, <1>3
<1>7. ASSUME NEW n \in 0..N, n # N, n \in P PROVE n + 1 \in P
  <2>1. n + 1 \in 1..N /\ n + 1 \in 1..(N + 1) /\ n + 1 \in 0..N /\ (n + 1) - 1 = n
    BY <1>1, <1>7
  <2>2. f[n + 1] = IF n + 1 \in p THEN Append(f[n], log[n + 1].section) ELSE f[n]
    BY <1>4, <2>1
  <2>3. g[n + 1] = IF n + 1 \in q THEN Append(g[n], more[n + 1].section) ELSE g[n]
    BY <1>5, <2>1
  <2>4. more[n + 1] = log[n + 1] /\ (n + 1 \in p <=> n + 1 \in q) /\ f[n] = g[n]
    BY <1>1, <1>7, <2>1 DEF N
  <2>5. f[n + 1] = g[n + 1]
    BY <2>2, <2>3, <2>4, Zenon
  <2> QED
    BY <2>1, <2>5
<1> HIDE DEF P
<1>8. \A n \in 0..N : n \in P
  BY <1>1, <1>6, <1>7, Induction
<1>9. f[N] = g[N]
  BY <1>1, <1>8 DEF P
<1>10. g[N + 1] = IF N + 1 \in q THEN Append(g[N], e.section) ELSE g[N]
  <2>1. N + 1 \in 1..(N + 1) /\ (N + 1) - 1 = N
    BY <1>1
  <2> QED
    BY <1>1, <1>5, <2>1
<1> QED
  BY <1>4, <1>5, <1>9, <1>10, Zenon DEF more, N

ItemResult == [section : Ids, outcome : {"ok", "invalid", "rejected", "internal"}, row : Nat]

RequestState ==
  [phase : {"none", "next", "auditing", "answered"}, actor : Users \cup {NoOne},
   student : Users \cup {NoOne}, todo : Seq(Ids), results : Seq(ItemResult),
   expired : BOOLEAN, refused : Nat, failed : BOOLEAN]

RejectionRow == [client : Clients, section : Ids]

ClaimsTypeOK ==
  /\ request \in [Clients -> RequestState]
  /\ author \in Seq(Clients) /\ Len(author) = Len(enrollments)
  /\ rejections \in Seq(RejectionRow)

\* What a request's progress says of it: nothing has happened before it is sent,
\* a rejection is audited while its item is at hand, and a request fails as a
\* whole only after its time is over.
Consistent(r) ==
  /\ r.phase = "none" => r = NotSent
  /\ r.phase # "none" => r.actor \in Users /\ r.student \in Users
  /\ r.phase = "auditing" => r.todo # <<>>
  /\ r.failed => r.expired

\* Every row is among the results of the request that made it, answered or not.
RowsKnown ==
  \A i \in Rows : \E k \in DOMAIN request[author[i]].results :
    request[author[i]].results[k] =
      [section |-> enrollments[i].section, outcome |-> "ok", row |-> i]

\* The entries that may be missing: each one the database refused, and the one at
\* hand when the request's time ran out, once it has been given up.
Excused(r) == r.refused + (IF r.expired /\ r.phase # "auditing" THEN 1 ELSE 0)

\* What is missing from the trail is excused, and nothing is when there is no excuse.
Fits(held, told, excuses) ==
  /\ Len(held) <= Len(told)
  /\ Len(told) <= Len(held) + excuses
  /\ excuses = 0 => held = told

Accounted == \A c \in Clients : Fits(OnRecord(c), Told(c), Excused(request[c]))

CInv ==
  /\ IInv /\ ClaimsTypeOK
  /\ \A c \in Clients : Consistent(request[c])
  /\ RowsKnown
  /\ Accounted

\* The fields of a request have their types.
LEMMA RequestFields ==
  ASSUME NEW r \in RequestState
  PROVE  /\ r.todo \in Seq(Ids) /\ r.results \in Seq(ItemResult)
         /\ r.expired \in BOOLEAN /\ r.refused \in Nat /\ r.failed \in BOOLEAN
         /\ r.phase \in {"none", "next", "auditing", "answered"}
BY DEF RequestState

\* No request sent and an empty trail of rejections satisfy the invariant.
LEMMA InitCInv == ClaimsInit => CInv
<1> SUFFICES ASSUME ClaimsInit PROVE CInv
  OBVIOUS
<1>1. IInv /\ enrollments = <<>> /\ Rows = {}
  BY InitIInv DEF ClaimsInit, Init, Rows
<1>2. NotSent \in RequestState
  BY DEF NotSent, RequestState
<1>3. request \in [Clients -> RequestState] /\ \A c \in Clients : request[c] = NotSent
  BY <1>2 DEF ClaimsInit
<1>4. ClaimsTypeOK
  BY <1>1, <1>3 DEF ClaimsInit, ClaimsTypeOK
<1>5. \A c \in Clients : Consistent(request[c])
  BY <1>3 DEF Consistent, NotSent
<1>6. Accounted
  <2>1. \A p : SectionsAt(<<>>, p) = <<>>
    BY SectionsAtNone
  <2>2. \A c \in Clients : request[c].results = <<>> /\ rejections = <<>>
    BY <1>3 DEF NotSent, ClaimsInit
  <2>3. \A c \in Clients : Told(c) = <<>> /\ OnRecord(c) = <<>>
    BY <2>1, <2>2, Zenon DEF Told, OnRecord
  <2>4. \A c \in Clients : Excused(request[c]) = 0
    BY <1>3 DEF NotSent, Excused
  <2>5. Len(<<>>) = 0
    OBVIOUS
  <2> QED
    BY <2>3, <2>4, <2>5 DEF Accounted, Fits
<1> QED
  BY <1>1, <1>4, <1>5, <1>6 DEF CInv, RowsKnown

\* A request alone moves.
LEMMA RequestUpdate ==
  ASSUME request \in [Clients -> RequestState], NEW c \in Clients, NEW new \in RequestState, Update(c, new)
  PROVE  /\ request' \in [Clients -> RequestState] /\ request'[c] = new
         /\ \A d \in Clients : d # c => request'[d] = request[d]
BY DEF Update

RejectedAt(results) == {k \in DOMAIN results : results[k].outcome = "rejected"}
EntriesAt(log, c) == {k \in DOMAIN log : log[k].client = c}

\* One more result, and one more entry.
LEMMA ToldMore ==
  ASSUME NEW rs \in Seq(ItemResult), NEW x \in ItemResult
  PROVE  /\ SectionsAt(rs, RejectedAt(rs)) \in Seq(Ids)
         /\ SectionsAt(Append(rs, x), RejectedAt(Append(rs, x))) =
              IF x.outcome = "rejected" THEN Append(SectionsAt(rs, RejectedAt(rs)), x.section)
                                        ELSE SectionsAt(rs, RejectedAt(rs))
<1> DEFINE more == Append(rs, x)
           p == RejectedAt(rs)
           q == RejectedAt(more)
<1>1. NameSections(ItemResult, Ids)
  BY DEF NameSections, ItemResult
<1>2. /\ Len(rs) \in Nat /\ DOMAIN rs = 1..Len(rs) /\ DOMAIN more = 1..(Len(rs) + 1)
      /\ more[Len(rs) + 1] = x /\ \A n \in 1..Len(rs) : more[n] = rs[n]
  BY LenProperties, AppendProperties
<1> HIDE DEF more
<1>3. /\ \A n \in 1..Len(rs) : n \in p <=> n \in q
      /\ Len(rs) + 1 \in q <=> x.outcome = "rejected"
  BY <1>2 DEF RejectedAt
<1> HIDE DEF p, q
<1>4. SectionsAt(rs, p) \in Seq(Ids)
  BY <1>1, SectionsAtRun
<1>5. SectionsAt(Append(rs, x), q) =
        IF Len(rs) + 1 \in q THEN Append(SectionsAt(rs, p), x.section) ELSE SectionsAt(rs, p)
  BY <1>1, <1>3, SectionsAtAppend
<1> QED
  BY <1>3, <1>4, <1>5, Zenon DEF more, p, q

\* One more rejection entry is one more section on record, for its client only.
LEMMA EntriesMore ==
  ASSUME NEW log \in Seq(RejectionRow), NEW x \in RejectionRow, NEW c
  PROVE  /\ SectionsAt(log, EntriesAt(log, c)) \in Seq(Ids)
         /\ SectionsAt(Append(log, x), EntriesAt(Append(log, x), c)) =
              IF x.client = c THEN Append(SectionsAt(log, EntriesAt(log, c)), x.section)
                              ELSE SectionsAt(log, EntriesAt(log, c))
<1> DEFINE more == Append(log, x)
           p == EntriesAt(log, c)
           q == EntriesAt(more, c)
<1>1. NameSections(RejectionRow, Ids)
  BY DEF NameSections, RejectionRow
<1>2. /\ Len(log) \in Nat /\ DOMAIN log = 1..Len(log) /\ DOMAIN more = 1..(Len(log) + 1)
      /\ more[Len(log) + 1] = x /\ \A n \in 1..Len(log) : more[n] = log[n]
  BY LenProperties, AppendProperties
<1> HIDE DEF more
<1>3. /\ \A n \in 1..Len(log) : n \in p <=> n \in q
      /\ Len(log) + 1 \in q <=> x.client = c
  BY <1>2 DEF EntriesAt
<1> HIDE DEF p, q
<1>4. SectionsAt(log, p) \in Seq(Ids)
  BY <1>1, SectionsAtRun
<1>5. SectionsAt(Append(log, x), q) =
        IF Len(log) + 1 \in q THEN Append(SectionsAt(log, p), x.section) ELSE SectionsAt(log, p)
  BY <1>1, <1>3, SectionsAtAppend
<1> QED
  BY <1>3, <1>4, <1>5, Zenon DEF more, p, q

\* Excuses are counted.
LEMMA ExcusedNat ==
  ASSUME NEW r \in RequestState
  PROVE  Excused(r) \in Nat
BY RequestFields DEF Excused

\* The account stays right when an item is told and recorded, and when one more is
\* told and one more is excused.
LEMMA FitsStep ==
  ASSUME NEW h \in Seq(Ids), NEW t \in Seq(Ids), NEW x \in Ids,
         NEW e \in Nat, NEW f \in Nat, e <= f, Fits(h, t, e)
  PROVE  /\ Fits(Append(h, x), Append(t, x), f)
         /\ e < f => Fits(h, Append(t, x), f)
<1>1. /\ Len(h) \in Nat /\ Len(Append(h, x)) = Len(h) + 1
      /\ Len(t) \in Nat /\ Len(Append(t, x)) = Len(t) + 1
  BY LenProperties, AppendProperties
<1> QED
  BY <1>1 DEF Fits

\* What requests were told and what is on record keep step: neither moves, or
\* an item is told that was not rejected, or that was rejected and is recorded,
\* or is not, with one more excuse for it.
LEMMA RecordStep ==
  ASSUME ClaimsTypeOK, Accounted, NEW c \in Clients, NEW new \in RequestState, Update(c, new),
         Excused(request[c]) <= Excused(new),
         \/ new.results = request[c].results /\ rejections' = rejections
         \/ \E x \in ItemResult :
              /\ new.results = Append(request[c].results, x)
              /\ \/ x.outcome # "rejected" /\ rejections' = rejections
                 \/ /\ x.outcome = "rejected"
                    /\ rejections' = Append(rejections, [client |-> c, section |-> x.section])
                 \/ x.outcome = "rejected" /\ rejections' = rejections /\ Excused(request[c]) < Excused(new)
  PROVE  Accounted' /\ rejections' \in Seq(RejectionRow)
<1> DEFINE told(d) == SectionsAt(request[d].results, RejectedAt(request[d].results))
           next(d) == SectionsAt(request'[d].results, RejectedAt(request'[d].results))
           held(d) == SectionsAt(rejections, EntriesAt(rejections, d))
           then(d) == SectionsAt(rejections', EntriesAt(rejections', d))
<1>1. /\ \A d \in Clients : Told(d) = told(d) /\ Told(d)' = next(d)
      /\ \A d \in Clients : OnRecord(d) = held(d) /\ OnRecord(d)' = then(d)
  BY Zenon DEF Told, OnRecord, RejectedAt, EntriesAt
<1>2. /\ request'[c] = new
      /\ \A d \in Clients : d # c => request'[d] = request[d]
      /\ rejections \in Seq(RejectionRow)
      /\ \A d \in Clients : request[d].results \in Seq(ItemResult)
  BY RequestUpdate, RequestFields DEF ClaimsTypeOK
<1>3. PICK e \in Nat, f \in Nat : e = Excused(request[c]) /\ f = Excused(new) /\ e <= f
  BY ExcusedNat DEF ClaimsTypeOK
<1>4. told(c) \in Seq(Ids) /\ held(c) \in Seq(Ids)
  <2>1. NameSections(ItemResult, Ids) /\ NameSections(RejectionRow, Ids)
    BY DEF NameSections, ItemResult, RejectionRow
  <2>2. \A p : \A log \in Seq(ItemResult) : SectionsAt(log, p) \in Seq(Ids)
    BY <2>1, SectionsAtRun
  <2>3. \A p : \A log \in Seq(RejectionRow) : SectionsAt(log, p) \in Seq(Ids)
    BY <2>1, SectionsAtRun
  <2> QED
    BY <1>2, <2>2, <2>3, Zenon
<1>5. \A d \in Clients : Fits(held(d), told(d), Excused(request[d]))
  BY <1>1, Zenon DEF Accounted
<1>6. Fits(held(c), told(c), e)
  BY <1>3, <1>5, Zenon
<1>7. ASSUME \A d \in Clients : d # c => then(d) = held(d), Fits(then(c), next(c), f)
      PROVE  Accounted'
  <2>1. ASSUME NEW d \in Clients PROVE Fits(then(d), next(d), Excused(request'[d]))
    <3>1. CASE d = c
      BY <1>2, <1>3, <1>7, <3>1, Zenon
    <3>2. CASE d # c
      BY <1>2, <1>5, <1>7, <3>2, Zenon
    <3> QED
      BY <3>1, <3>2
  <2>2. \A d \in Clients : Excused(request[d])' = Excused(request'[d])
    BY DEF Excused
  <2> HIDE DEF told, next, held, then
  <2>3. ASSUME NEW d \in Clients PROVE Fits(OnRecord(d), Told(d), Excused(request[d]))'
    <3>1. PICK a, b, n : a = then(d) /\ b = next(d) /\ n = Excused(request'[d])
      OBVIOUS
    <3>2. Fits(a, b, n)
      BY <2>1, <3>1, Zenon
    <3>3. a = OnRecord(d)' /\ b = Told(d)' /\ n = Excused(request[d])'
      BY <1>1, <2>2, <3>1, Zenon
    <3> QED
      BY <3>2, <3>3, Zenon DEF Fits
  <2> QED
    BY <2>3, Zenon DEF Accounted
<1>8. Fits(held(c), told(c), f)
  <2> HIDE DEF told, held
  <2>1. Len(held(c)) \in Nat /\ Len(told(c)) \in Nat
    BY <1>4, LenProperties
  <2> QED
    BY <1>3, <1>6, <2>1 DEF Fits
<1>9. CASE new.results = request[c].results /\ rejections' = rejections
  <2>1. next(c) = told(c) /\ \A d \in Clients : then(d) = held(d)
    BY <1>2, <1>9, Zenon
  <2>2. Fits(then(c), next(c), f)
    BY <1>8, <2>1, Zenon
  <2> QED
    BY <1>2, <1>7, <1>9, <2>1, <2>2
<1>10. ASSUME NEW x \in ItemResult, new.results = Append(request[c].results, x),
              x.outcome # "rejected", rejections' = rejections
       PROVE  Accounted' /\ rejections' \in Seq(RejectionRow)
  <2>1. PICK rs \in Seq(ItemResult) : rs = request[c].results
    BY <1>2
  <2>2. SectionsAt(Append(rs, x), RejectedAt(Append(rs, x))) = SectionsAt(rs, RejectedAt(rs))
    BY <1>10, ToldMore
  <2>3. next(c) = told(c)
    BY <1>2, <1>10, <2>1, <2>2, Zenon
  <2>4. \A d \in Clients : then(d) = held(d)
    BY <1>10, Zenon
  <2>5. Fits(then(c), next(c), f)
    BY <1>8, <2>3, <2>4, Zenon
  <2> QED
    BY <1>2, <1>7, <1>10, <2>4, <2>5
<1>11. ASSUME NEW x \in ItemResult, new.results = Append(request[c].results, x), x.outcome = "rejected",
              \/ rejections' = Append(rejections, [client |-> c, section |-> x.section])
              \/ rejections' = rejections /\ e < f
       PROVE  Accounted' /\ rejections' \in Seq(RejectionRow)
  <2>1. PICK rs \in Seq(ItemResult) : rs = request[c].results
    BY <1>2
  <2>2. SectionsAt(Append(rs, x), RejectedAt(Append(rs, x))) = Append(SectionsAt(rs, RejectedAt(rs)), x.section)
    BY <1>11, ToldMore
  <2>3. next(c) = Append(told(c), x.section)
    BY <1>2, <1>11, <2>1, <2>2, Zenon
  <2>4. PICK s \in Ids : s = x.section
    BY DEF ItemResult
  <2>5. Fits(Append(held(c), s), Append(told(c), s), f) /\ (e < f => Fits(held(c), Append(told(c), s), f))
    <3> HIDE DEF told, held
    <3> QED
      BY <1>3, <1>4, <1>6, FitsStep
  <2>6. CASE rejections' = Append(rejections, [client |-> c, section |-> x.section])
    <3>1. PICK entry \in RejectionRow : entry = [client |-> c, section |-> s]
      BY DEF RejectionRow
    <3>2. entry.client = c /\ entry.section = s
      BY <3>1
    <3>3. PICK log \in Seq(RejectionRow) : log = rejections
      BY <1>2
    <3>4. rejections' = Append(log, entry)
      BY <2>4, <2>6, <3>1, <3>3
    <3>5. \A d : SectionsAt(Append(log, entry), EntriesAt(Append(log, entry), d)) =
                   IF entry.client = d THEN Append(SectionsAt(log, EntriesAt(log, d)), entry.section)
                                       ELSE SectionsAt(log, EntriesAt(log, d))
      BY EntriesMore
    <3>6. /\ then(c) = Append(held(c), s)
          /\ \A d \in Clients : d # c => then(d) = held(d)
      BY <3>2, <3>3, <3>4, <3>5, Zenon
    <3>7. rejections' \in Seq(RejectionRow)
      BY <3>4, AppendProperties
    <3>8. Fits(then(c), next(c), f)
      BY <2>3, <2>4, <2>5, <3>6, Zenon
    <3> QED
      BY <1>7, <3>6, <3>7, <3>8
  <2>7. CASE rejections' = rejections /\ e < f
    <3>1. \A d \in Clients : then(d) = held(d)
      BY <2>7, Zenon
    <3>2. Fits(then(c), next(c), f)
      BY <2>3, <2>4, <2>5, <2>7, <3>1, Zenon
    <3> QED
      BY <1>2, <1>7, <2>7, <3>1, <3>2
  <2> QED
    BY <1>11, <2>6, <2>7
<1> QED
  BY <1>3, <1>9, <1>10, <1>11

\* Results are only added to, so what is known stays known.
LEMMA KnownStep ==
  ASSUME ClaimsTypeOK, RowsKnown, author' = author, Rows' = Rows,
         \A i \in Rows : enrollments'[i].section = enrollments[i].section,
         Rows = 1..Len(enrollments),
         NEW c \in Clients, NEW new \in RequestState, Update(c, new),
         \/ new.results = request[c].results
         \/ \E x \in ItemResult : new.results = Append(request[c].results, x)
  PROVE  RowsKnown'
<1>1. /\ request'[c] = new
      /\ \A d \in Clients : d # c => request'[d] = request[d]
      /\ request[c].results \in Seq(ItemResult)
      /\ \A i \in Rows : author[i] \in Clients
  BY RequestUpdate, RequestFields DEF ClaimsTypeOK
<1>2. \A k \in DOMAIN request[c].results :
        k \in DOMAIN new.results /\ new.results[k] = request[c].results[k]
  <2>1. PICK rs \in Seq(ItemResult) : rs = request[c].results
    BY <1>1
  <2>2. ASSUME NEW x \in ItemResult, NEW k \in DOMAIN rs
        PROVE  k \in DOMAIN Append(rs, x) /\ Append(rs, x)[k] = rs[k]
    BY AppendProperties, LenProperties
  <2>3. CASE new.results = request[c].results
    BY <2>3
  <2>4. ASSUME NEW x \in ItemResult, new.results = Append(request[c].results, x)
        PROVE  \A k \in DOMAIN request[c].results :
                 k \in DOMAIN new.results /\ new.results[k] = request[c].results[k]
    BY <2>1, <2>2, <2>4, Zenon
  <2> QED
    BY <2>3, <2>4
<1>3. \A d \in Clients : \A k \in DOMAIN request[d].results :
        k \in DOMAIN request'[d].results /\ request'[d].results[k] = request[d].results[k]
  BY <1>1, <1>2
<1>4. ASSUME NEW i \in Rows
      PROVE  \E k \in DOMAIN request'[author'[i]].results :
               request'[author'[i]].results[k] =
                 [section |-> enrollments'[i].section, outcome |-> "ok", row |-> i]
  <2>1. PICK k \in DOMAIN request[author[i]].results :
          request[author[i]].results[k] =
            [section |-> enrollments[i].section, outcome |-> "ok", row |-> i]
    BY DEF RowsKnown
  <2>2. author'[i] = author[i] /\ author[i] \in Clients
        /\ enrollments'[i].section = enrollments[i].section
    BY <1>1
  <2>3. k \in DOMAIN request'[author[i]].results
        /\ request'[author[i]].results[k] = request[author[i]].results[k]
    BY <1>3, <2>1, <2>2, Zenon
  <2> QED
    BY <2>1, <2>2, <2>3, Zenon
<1> QED
  BY <1>4, Zenon DEF RowsKnown

\* A step of one request that leaves the roster alone.
LEMMA RequestStep ==
  ASSUME CInv, UNCHANGED <<vars, author>>,
         NEW c \in Clients, NEW new \in RequestState, Update(c, new), Consistent(new),
         Excused(request[c]) <= Excused(new),
         \/ new.results = request[c].results /\ rejections' = rejections
         \/ \E x \in ItemResult :
              /\ new.results = Append(request[c].results, x)
              /\ \/ x.outcome # "rejected" /\ rejections' = rejections
                 \/ /\ x.outcome = "rejected"
                    /\ rejections' = Append(rejections, [client |-> c, section |-> x.section])
                 \/ x.outcome = "rejected" /\ rejections' = rejections /\ Excused(request[c]) < Excused(new)
  PROVE  CInv'
<1>1. IInv /\ ClaimsTypeOK /\ RowsKnown /\ Accounted
  BY DEF CInv
<1>2. IInv' /\ enrollments' = enrollments /\ Rows' = Rows
  BY <1>1, NextIInv DEF vars, Rows
<1>3. Accounted' /\ rejections' \in Seq(RejectionRow)
  BY <1>1, RecordStep
<1>4. Rows = 1..Len(enrollments)
  BY <1>1, RowsFinite DEF IInv
<1>5. RowsKnown'
  <2>1. \A i \in Rows : enrollments'[i].section = enrollments[i].section
    BY <1>2
  <2>2. new.results = request[c].results \/ \E x \in ItemResult : new.results = Append(request[c].results, x)
    OBVIOUS
  <2> QED
    BY <1>1, <1>2, <1>4, <2>1, <2>2, KnownStep
<1>6. /\ request' \in [Clients -> RequestState] /\ request'[c] = new
      /\ \A d \in Clients : d # c => request'[d] = request[d]
  BY <1>1, RequestUpdate DEF ClaimsTypeOK
<1>7. ClaimsTypeOK'
  BY <1>1, <1>2, <1>3, <1>6 DEF ClaimsTypeOK
<1>8. \A d \in Clients : Consistent(request'[d])
  BY <1>6, Zenon DEF CInv
<1>9. \A d \in Clients : Consistent(request[d])'
  BY <1>8 DEF Consistent, NotSent
<1> QED
  BY <1>2, <1>3, <1>5, <1>7, <1>9 DEF CInv

\* The record a settled item leaves.
LEMMA SettledFields ==
  ASSUME request \in [Clients -> RequestState], NEW c \in Clients, request[c].todo # <<>>,
         NEW outcome \in {"ok", "invalid", "rejected", "internal"}, NEW row \in Nat
  PROVE  /\ Settled(c, outcome, row) \in RequestState
         /\ Settled(c, outcome, row).phase = "next"
         /\ Settled(c, outcome, row).actor = request[c].actor
         /\ Settled(c, outcome, row).student = request[c].student
         /\ Settled(c, outcome, row).expired = request[c].expired
         /\ Settled(c, outcome, row).failed = request[c].failed
         /\ Settled(c, outcome, row).refused = request[c].refused
         /\ Settled(c, outcome, row).results = Append(request[c].results,
              [section |-> Head(request[c].todo), outcome |-> outcome, row |-> row])
<1>1. PICK r \in RequestState : r = request[c]
  OBVIOUS
<1>2. r.todo \in Seq(Ids) /\ r.results \in Seq(ItemResult) /\ r.todo # <<>>
  BY <1>1, RequestFields
<1>3. PICK h \in Ids : h = Head(r.todo)
  BY <1>2, HeadTailProperties
<1>4. PICK rest \in Seq(Ids) : rest = Tail(r.todo)
  BY <1>2, HeadTailProperties
<1>5. PICK x \in ItemResult : x = [section |-> h, outcome |-> outcome, row |-> row]
  BY DEF ItemResult
<1>6. PICK rs \in Seq(ItemResult) : rs = Append(r.results, x)
  BY <1>2, AppendProperties
<1>7. PICK n : n = Settled(c, outcome, row)
  OBVIOUS
<1>8. n = [r EXCEPT !.phase = "next", !.todo = rest, !.results = rs]
  BY <1>1, <1>3, <1>4, <1>5, <1>6, <1>7, Zenon DEF Settled
<1>9. n \in RequestState
  BY <1>8, Zenon DEF RequestState
<1>10. /\ n.phase = "next" /\ n.actor = r.actor /\ n.student = r.student
       /\ n.expired = r.expired /\ n.failed = r.failed /\ n.refused = r.refused /\ n.results = rs
  BY <1>8 DEF RequestState
<1>11. rs = Append(request[c].results, [section |-> Head(request[c].todo), outcome |-> outcome, row |-> row])
  BY <1>1, <1>3, <1>5, <1>6, Zenon
<1> QED
  BY <1>1, <1>7, <1>9, <1>10, <1>11, Zenon

\* The same with another count of refused entries.
LEMMA RefusedFields ==
  ASSUME NEW n \in RequestState, NEW count \in Nat
  PROVE  /\ [n EXCEPT !.refused = count] \in RequestState
         /\ [n EXCEPT !.refused = count].refused = count
         /\ [n EXCEPT !.refused = count].phase = n.phase
         /\ [n EXCEPT !.refused = count].actor = n.actor
         /\ [n EXCEPT !.refused = count].student = n.student
         /\ [n EXCEPT !.refused = count].expired = n.expired
         /\ [n EXCEPT !.refused = count].failed = n.failed
         /\ [n EXCEPT !.refused = count].results = n.results
<1>1. [n EXCEPT !.refused = count] \in RequestState
  BY Zenon DEF RequestState
<1> QED
  BY <1>1 DEF RequestState

\* The same with the time run out or not.
LEMMA ExpiredFields ==
  ASSUME NEW n \in RequestState, NEW late \in BOOLEAN
  PROVE  /\ [n EXCEPT !.expired = late] \in RequestState
         /\ [n EXCEPT !.expired = late].expired = late
         /\ [n EXCEPT !.expired = late].phase = n.phase
         /\ [n EXCEPT !.expired = late].actor = n.actor
         /\ [n EXCEPT !.expired = late].student = n.student
         /\ [n EXCEPT !.expired = late].refused = n.refused
         /\ [n EXCEPT !.expired = late].failed = n.failed
         /\ [n EXCEPT !.expired = late].results = n.results
<1>1. [n EXCEPT !.expired = late] \in RequestState
  BY Zenon DEF RequestState
<1> QED
  BY <1>1 DEF RequestState

\* A request that is sent has no results, owns no rows and is told of nothing.
LEMMA SendCInv ==
  ASSUME CInv, NEW c \in Clients, NEW actor \in Users, NEW student \in Users, NEW order \in Orders,
         Send(c, actor, student, order)
  PROVE  CInv'
<1>1. order \in Seq(Ids) /\ NotSent \in RequestState
  BY OrdersAssumption DEF NotSent, RequestState
<1>2. PICK new : new = [NotSent EXCEPT !.phase = "next", !.actor = actor, !.student = student,
                                       !.todo = order]
  OBVIOUS
<1>3. new \in RequestState
  BY <1>1, <1>2, Zenon DEF RequestState
<1>4. /\ new.phase = "next" /\ new.actor = actor /\ new.student = student /\ new.results = <<>>
      /\ new.expired = FALSE /\ new.refused = 0 /\ new.failed = FALSE
  BY <1>2 DEF NotSent
<1>5. request[c] = NotSent
  BY DEF CInv, Consistent, Send
<1>6. request[c].results = <<>> /\ Excused(request[c]) = 0 /\ Excused(new) = 0
  BY <1>4, <1>5 DEF NotSent, Excused
<1>7. Consistent(new)
  BY <1>4 DEF Consistent
<1>8. Update(c, new) /\ UNCHANGED <<vars, author>> /\ rejections' = rejections
  BY <1>2 DEF Send
<1> QED
  BY <1>3, <1>4, <1>6, <1>7, <1>8, RequestStep

\* The steps that only change the phase, or the time left.
LEMMA PhaseCInv ==
  ASSUME CInv, NEW c \in Clients, ClaimRejected(c) \/ Interrupted(c) \/ Answer(c) \/ Expire(c)
  PROVE  CInv'
<1>1. PICK r \in RequestState : r = request[c] /\ Consistent(r)
  BY DEF CInv, ClaimsTypeOK
<1>2. ASSUME NEW ph \in {"next", "auditing", "answered"}, NEW ex \in BOOLEAN, NEW fl \in BOOLEAN, NEW new,
             new = [r EXCEPT !.phase = ph, !.expired = ex, !.failed = fl], Update(c, new),
             r.phase # "none", ph = "auditing" => r.todo # <<>>, fl => ex,
             r.expired /\ r.phase # "auditing" => ex /\ ph # "auditing",
             UNCHANGED <<vars, author, rejections>>
      PROVE  CInv'
  <2>1. new \in RequestState
    BY <1>2, Zenon DEF RequestState
  <2>2. /\ new.phase = ph /\ new.expired = ex /\ new.failed = fl /\ new.refused = r.refused
        /\ new.actor = r.actor /\ new.student = r.student /\ new.todo = r.todo /\ new.results = r.results
    BY <1>2 DEF RequestState
  <2>3. Consistent(new)
    BY <1>1, <1>2, <2>2 DEF Consistent
  <2>4. Excused(r) <= Excused(new)
    <3>1. r.refused \in Nat
      BY RequestFields
    <3> QED
      BY <1>2, <2>2, <3>1 DEF Excused
  <2> QED
    BY <1>1, <1>2, <2>1, <2>2, <2>3, <2>4, RequestStep
<1>3. /\ r.phase \in {"none", "next", "auditing", "answered"} /\ r.expired \in BOOLEAN /\ r.failed \in BOOLEAN
      /\ r.failed => r.expired
  BY <1>1, RequestFields DEF Consistent
<1>4. CASE ClaimRejected(c)
  <2>1. /\ Update(c, [r EXCEPT !.phase = "auditing"]) /\ UNCHANGED <<vars, author, rejections>>
        /\ r.phase # "none" /\ r.todo # <<>> /\ ~r.expired
    BY <1>1, <1>4 DEF ClaimRejected, AfterRejection, AtItem
  <2>2. [r EXCEPT !.phase = "auditing", !.expired = r.expired, !.failed = r.failed] =
          [r EXCEPT !.phase = "auditing"]
    BY DEF RequestState
  <2> QED
    BY <1>2, <1>3, <2>1, <2>2, Zenon
<1>5. CASE Interrupted(c)
  <2>1. /\ Update(c, [r EXCEPT !.phase = "answered", !.failed = TRUE]) /\ UNCHANGED <<vars, author, rejections>>
        /\ r.phase # "none" /\ r.expired
    BY <1>1, <1>5 DEF Interrupted
  <2>2. [r EXCEPT !.phase = "answered", !.expired = r.expired, !.failed = TRUE] =
          [r EXCEPT !.phase = "answered", !.failed = TRUE]
    BY DEF RequestState
  <2> QED
    BY <1>2, <1>3, <2>1, <2>2, Zenon
<1>6. CASE Answer(c)
  <2>1. /\ Update(c, [r EXCEPT !.phase = "answered"]) /\ UNCHANGED <<vars, author, rejections>>
        /\ r.phase # "none"
    BY <1>1, <1>6 DEF Answer
  <2>2. [r EXCEPT !.phase = "answered", !.expired = r.expired, !.failed = r.failed] =
          [r EXCEPT !.phase = "answered"]
    BY DEF RequestState
  <2> QED
    BY <1>2, <1>3, <2>1, <2>2, Zenon
<1>7. CASE Expire(c)
  <2>1. /\ Update(c, [r EXCEPT !.expired = TRUE]) /\ UNCHANGED <<vars, author, rejections>>
        /\ r.phase \in {"next", "auditing"} /\ (r.phase = "auditing" => r.todo # <<>>)
    BY <1>1, <1>7 DEF Expire, Consistent
  <2>2. [r EXCEPT !.phase = r.phase, !.expired = TRUE, !.failed = r.failed] = [r EXCEPT !.expired = TRUE]
    BY DEF RequestState
  <2>3. r.phase \in {"next", "auditing", "answered"} /\ r.phase # "none"
    BY <2>1
  <2> QED
    BY <1>2, <1>3, <2>1, <2>2, <2>3, Zenon
<1> QED
  BY <1>4, <1>5, <1>6, <1>7

\* The steps that settle an item without a row.
LEMMA SettleCInv ==
  ASSUME CInv, NEW c \in Clients,
         ClaimInvalid(c) \/ ClaimFails(c) \/ RecordRejection(c) \/ RejectionUnrecorded(c)
  PROVE  CInv'
<1>1. request \in [Clients -> RequestState] /\ Consistent(request[c])
  BY DEF CInv, ClaimsTypeOK
<1>2. request[c].todo # <<>> /\ request[c].actor \in Users /\ request[c].student \in Users
  BY <1>1 DEF Consistent, ClaimInvalid, AtItem, ClaimFails, RecordRejection, RejectionUnrecorded
<1>3. PICK h \in Ids : h = Head(request[c].todo)
  <2>1. request[c].todo \in Seq(Ids)
    BY <1>1, RequestFields
  <2> QED
    BY <1>2, <2>1, HeadTailProperties
<1>4. UNCHANGED <<vars, author>>
  BY DEF ClaimInvalid, ClaimFails, RecordRejection, RejectionUnrecorded
<1>5. PICK n \in Nat : n = request[c].refused
  BY <1>1, RequestFields
<1>6. ASSUME NEW new \in RequestState, Update(c, new), new.phase = "next", new.actor = request[c].actor,
             new.student = request[c].student, new.failed = request[c].failed,
             request[c].expired => new.expired, Excused(request[c]) <= Excused(new),
             NEW outcome \in {"invalid", "rejected", "internal"},
             new.results = Append(request[c].results, [section |-> h, outcome |-> outcome, row |-> 0]),
             \/ outcome # "rejected" /\ rejections' = rejections
             \/ outcome = "rejected" /\ rejections' = Append(rejections, [client |-> c, section |-> h])
             \/ outcome = "rejected" /\ rejections' = rejections /\ Excused(request[c]) < Excused(new)
      PROVE  CInv'
  <2>1. PICK x \in ItemResult : x = [section |-> h, outcome |-> outcome, row |-> 0]
    BY DEF ItemResult
  <2>2. x.outcome = outcome /\ x.section = h
    BY <2>1
  <2>3. Consistent(new)
    BY <1>1, <1>2, <1>6 DEF Consistent
  <2>4. \E y \in ItemResult :
          /\ new.results = Append(request[c].results, y)
          /\ \/ y.outcome # "rejected" /\ rejections' = rejections
             \/ /\ y.outcome = "rejected"
                /\ rejections' = Append(rejections, [client |-> c, section |-> y.section])
             \/ y.outcome = "rejected" /\ rejections' = rejections /\ Excused(request[c]) < Excused(new)
    BY <1>6, <2>1, <2>2
  <2> QED
    BY <1>4, <1>6, <2>3, <2>4, RequestStep
<1>7. ASSUME NEW outcome \in {"invalid", "rejected", "internal"}
      PROVE  \E old \in RequestState :
               /\ old = Settled(c, outcome, 0) /\ old.phase = "next" /\ old.actor = request[c].actor
               /\ old.student = request[c].student /\ old.expired = request[c].expired
               /\ old.failed = request[c].failed /\ old.refused = n
               /\ old.results = Append(request[c].results, [section |-> h, outcome |-> outcome, row |-> 0])
  <2>1. 0 \in Nat /\ outcome \in {"ok", "invalid", "rejected", "internal"}
    OBVIOUS
  <2>2. /\ Settled(c, outcome, 0) \in RequestState
        /\ Settled(c, outcome, 0).phase = "next"
        /\ Settled(c, outcome, 0).actor = request[c].actor
        /\ Settled(c, outcome, 0).student = request[c].student
        /\ Settled(c, outcome, 0).expired = request[c].expired
        /\ Settled(c, outcome, 0).failed = request[c].failed
        /\ Settled(c, outcome, 0).refused = request[c].refused
        /\ Settled(c, outcome, 0).results = Append(request[c].results,
             [section |-> Head(request[c].todo), outcome |-> outcome, row |-> 0])
    BY <1>1, <1>2, <2>1, SettledFields, Zenon
  <2> QED
    BY <1>3, <1>5, <2>2, Zenon
<1>8. request[c].expired \in BOOLEAN
  BY <1>1, RequestFields
<1>9. CASE ClaimInvalid(c)
  <2>1. PICK new \in RequestState :
          /\ new = Settled(c, "invalid", 0) /\ new.phase = "next" /\ new.actor = request[c].actor
          /\ new.student = request[c].student /\ new.expired = request[c].expired
          /\ new.failed = request[c].failed /\ new.refused = n
          /\ new.results = Append(request[c].results, [section |-> h, outcome |-> "invalid", row |-> 0])
    BY <1>7
  <2>2. Update(c, new) /\ rejections' = rejections /\ request[c].phase = "next"
    BY <1>9, <2>1 DEF ClaimInvalid, AtItem
  <2>3. Excused(request[c]) <= Excused(new)
    BY <1>5, <2>1, <2>2 DEF Excused
  <2> QED
    BY <1>6, <2>1, <2>2, <2>3
<1>10. CASE ClaimFails(c)
  <2>1. PICK old \in RequestState :
          /\ old = Settled(c, "internal", 0) /\ old.phase = "next" /\ old.actor = request[c].actor
          /\ old.student = request[c].student /\ old.expired = request[c].expired
          /\ old.failed = request[c].failed /\ old.refused = n
          /\ old.results = Append(request[c].results, [section |-> h, outcome |-> "internal", row |-> 0])
    BY <1>7
  <2>2. PICK late \in BOOLEAN : Update(c, [old EXCEPT !.expired = late])
    BY <1>10, <2>1 DEF ClaimFails
  <2>3. PICK new : new = [old EXCEPT !.expired = late]
    OBVIOUS
  <2>4. /\ new \in RequestState /\ new.expired = late /\ new.phase = old.phase /\ new.actor = old.actor
        /\ new.student = old.student /\ new.refused = old.refused
        /\ new.failed = old.failed /\ new.results = old.results
    BY <2>3, ExpiredFields
  <2>5. Update(c, new) /\ rejections' = rejections /\ ~request[c].expired
    BY <1>10, <2>2, <2>3 DEF ClaimFails, AtItem
  <2>6. Excused(request[c]) <= Excused(new)
    BY <1>5, <2>1, <2>4, <2>5 DEF Excused
  <2> QED
    BY <1>6, <2>1, <2>4, <2>5, <2>6
<1>11. CASE RecordRejection(c)
  <2>1. PICK new \in RequestState :
          /\ new = Settled(c, "rejected", 0) /\ new.phase = "next" /\ new.actor = request[c].actor
          /\ new.student = request[c].student /\ new.expired = request[c].expired
          /\ new.failed = request[c].failed /\ new.refused = n
          /\ new.results = Append(request[c].results, [section |-> h, outcome |-> "rejected", row |-> 0])
    BY <1>7
  <2>2. /\ Update(c, new) /\ ~request[c].expired
        /\ rejections' = Append(rejections, [client |-> c, section |-> h])
    BY <1>3, <1>11, <2>1 DEF RecordRejection, RejectionEntry
  <2>3. Excused(request[c]) <= Excused(new)
    BY <1>5, <2>1, <2>2 DEF Excused
  <2> QED
    BY <1>6, <2>1, <2>2, <2>3
<1>12. CASE RejectionUnrecorded(c)
  <2>1. PICK m \in Nat : m = IF request[c].expired THEN n ELSE n + 1
    BY <1>5
  <2>2. PICK old \in RequestState :
          /\ old = Settled(c, "rejected", 0) /\ old.phase = "next" /\ old.actor = request[c].actor
          /\ old.student = request[c].student /\ old.expired = request[c].expired
          /\ old.failed = request[c].failed /\ old.refused = n
          /\ old.results = Append(request[c].results, [section |-> h, outcome |-> "rejected", row |-> 0])
    BY <1>7
  <2>3. PICK new : new = [old EXCEPT !.refused = m]
    OBVIOUS
  <2>4. /\ new \in RequestState /\ new.refused = m /\ new.phase = old.phase /\ new.actor = old.actor
        /\ new.student = old.student /\ new.expired = old.expired
        /\ new.failed = old.failed /\ new.results = old.results
    BY <2>3, RefusedFields
  <2>5. Update(c, new) /\ rejections' = rejections /\ request[c].phase = "auditing"
    <3>1. Update(c, [old EXCEPT !.refused = IF request[c].expired THEN @ ELSE @ + 1])
      BY <1>12, <2>2 DEF RejectionUnrecorded
    <3>2. [old EXCEPT !.refused = IF request[c].expired THEN @ ELSE @ + 1] = [old EXCEPT !.refused = m]
      BY <2>1, <2>2, Zenon
    <3> QED
      BY <1>12, <2>3, <3>1, <3>2 DEF RejectionUnrecorded
  <2>6. Excused(request[c]) < Excused(new) /\ Excused(request[c]) <= Excused(new)
    BY <1>5, <1>8, <2>1, <2>2, <2>4, <2>5 DEF Excused
  <2> QED
    BY <1>6, <2>2, <2>4, <2>5, <2>6
<1> QED
  BY <1>9, <1>10, <1>11, <1>12

\* A claim that is granted makes the row its result names.
LEMMA GrantCInv ==
  ASSUME CInv, NEW c \in Clients, ClaimGranted(c)
  PROVE  CInv'
<1>1. /\ IInv /\ TypeOK /\ ClaimsTypeOK /\ RowsKnown /\ Accounted
      /\ request \in [Clients -> RequestState] /\ Consistent(request[c])
  BY DEF CInv, ClaimsTypeOK, IInv
<1>2. /\ request[c].todo # <<>> /\ request[c].phase # "none"
      /\ author' = Append(author, c) /\ rejections' = rejections
  BY DEF ClaimGranted, AtItem
<1>3. PICK actor \in Users, u \in Users, s \in Sections :
        /\ actor = request[c].actor /\ u = request[c].student /\ s = Head(request[c].todo)
        /\ s \in Ids
  BY <1>1, <1>2 DEF Consistent, ClaimGranted, Ids
<1>4. ClaimSeat(actor, u, s) \/ ClaimWaitlistPlace(actor, u, s)
  BY <1>3 DEF ClaimGranted
<1>5. IInv'
  BY <1>1, <1>4, NextIInv DEF Next, StudentAction
<1>6. PICK n \in Nat : n = Len(enrollments) + 1 /\ Rows = 1..Len(enrollments) /\ Len(enrollments) \in Nat
  BY <1>1, RowsFinite
<1>7. /\ Rows' = Rows \cup {n} /\ Len(enrollments') = n
      /\ \A i \in Rows : enrollments'[i] = enrollments[i]
      /\ enrollments'[n].section = s
  <2>1. ASSUME NEW st \in {"enrolled", "waitlisted"}, NEW r \in Nat, NEW a \in AuditActions,
               CreateEnrollment(u, s, st, r, a)
        PROVE  /\ Rows' = Rows \cup {n} /\ Len(enrollments') = n
               /\ \A i \in Rows : enrollments'[i] = enrollments[i]
               /\ enrollments'[n].section = s
    <3>1. /\ Len(enrollments') = Len(enrollments) + 1
          /\ \A i \in Rows : enrollments'[i] = enrollments[i]
          /\ Rows' = Rows \cup {Len(enrollments) + 1}
          /\ enrollments'[Len(enrollments) + 1] =
               [student |-> u, section |-> s, status |-> st, rank |-> RankAfter(st, r)]
      BY <1>1, <2>1, CreateRow
    <3>2. enrollments'[n].section = s
      BY <1>6, <3>1
    <3> QED
      BY <1>6, <3>1, <3>2
  <2>2. NextWaitlistRank(s) \in Nat /\ "claim" \in AuditActions /\ "waitlist" \in AuditActions
    BY <1>1, NextRank DEF IInv, AuditActions
  <2>3. CASE ClaimSeat(actor, u, s)
    BY <2>1, <2>2, <2>3 DEF ClaimSeat
  <2>4. CASE ClaimWaitlistPlace(actor, u, s)
    <3>1. PICK r \in Nat : r = NextWaitlistRank(s)
      BY <2>2
    <3>2. CreateEnrollment(u, s, "waitlisted", r, "waitlist")
      BY <2>4, <3>1 DEF ClaimWaitlistPlace
    <3> QED
      BY <2>1, <2>2, <3>2
  <2> QED
    BY <1>4, <2>3, <2>4
<1>8. PICK x \in ItemResult : x = [section |-> s, outcome |-> "ok", row |-> n]
  BY <1>3 DEF ItemResult
<1>9. PICK new : new = Settled(c, "ok", n)
  OBVIOUS
<1>10. /\ new \in RequestState /\ new.phase = "next" /\ new.actor = request[c].actor
       /\ new.student = request[c].student /\ new.expired = request[c].expired
       /\ new.failed = request[c].failed /\ new.refused = request[c].refused
       /\ new.results = Append(request[c].results, x)
  BY <1>1, <1>2, <1>3, <1>8, <1>9, SettledFields
<1>11. Update(c, new)
  BY <1>6, <1>9 DEF ClaimGranted
<1>12. /\ request' \in [Clients -> RequestState] /\ request'[c] = new
       /\ \A d \in Clients : d # c => request'[d] = request[d]
  BY <1>1, <1>10, <1>11, RequestUpdate
<1>13. Accounted' /\ rejections' \in Seq(RejectionRow)
  <2>1. x.outcome # "rejected"
    BY <1>8
  <2>2. Excused(request[c]) <= Excused(new)
    <3>1. request[c].refused \in Nat /\ request[c].phase = "next"
      BY <1>1, RequestFields DEF ClaimGranted, AtItem
    <3> QED
      BY <1>10, <3>1 DEF Excused
  <2> QED
    BY <1>1, <1>2, <1>10, <1>11, <2>1, <2>2, RecordStep
<1>14. /\ author \in Seq(Clients) /\ author' \in Seq(Clients) /\ Len(author') = n /\ author'[n] = c
       /\ \A i \in Rows : author'[i] = author[i] /\ author[i] \in Clients
  BY <1>1, <1>2, <1>6, AppendProperties DEF ClaimsTypeOK
<1>15. ClaimsTypeOK'
  BY <1>7, <1>12, <1>13, <1>14 DEF ClaimsTypeOK
<1>16. \A d \in Clients : Consistent(request[d])'
  <2>1. Consistent(new)
    BY <1>1, <1>2, <1>10 DEF Consistent
  <2>2. \A d \in Clients : Consistent(request'[d])
    BY <1>12, <2>1, Zenon DEF CInv
  <2> QED
    BY <2>2 DEF Consistent, NotSent
<1>17. RowsKnown'
  <2>1. PICK rs \in Seq(ItemResult) : rs = request[c].results
    BY <1>1, RequestFields
  <2>2. /\ Len(rs) + 1 \in DOMAIN Append(rs, x) /\ Append(rs, x)[Len(rs) + 1] = x
        /\ \A k \in DOMAIN rs : k \in DOMAIN Append(rs, x) /\ Append(rs, x)[k] = rs[k]
    BY AppendProperties, LenProperties
  <2>3. \A d \in Clients : \A k \in DOMAIN request[d].results :
          k \in DOMAIN request'[d].results /\ request'[d].results[k] = request[d].results[k]
    BY <1>10, <1>12, <2>1, <2>2, Zenon
  <2>4. ASSUME NEW i \in Rows
        PROVE  \E k \in DOMAIN request'[author'[i]].results :
                 request'[author'[i]].results[k] =
                   [section |-> enrollments'[i].section, outcome |-> "ok", row |-> i]
    <3>1. PICK k \in DOMAIN request[author[i]].results :
            request[author[i]].results[k] =
              [section |-> enrollments[i].section, outcome |-> "ok", row |-> i]
      BY <1>1 DEF RowsKnown
    <3>2. author'[i] = author[i] /\ author[i] \in Clients /\ enrollments'[i] = enrollments[i]
      BY <1>7, <1>14
    <3> QED
      BY <2>3, <3>1, <3>2, Zenon
  <2>5. \E k \in DOMAIN request'[author'[n]].results :
          request'[author'[n]].results[k] =
            [section |-> enrollments'[n].section, outcome |-> "ok", row |-> n]
    <3>1. request'[author'[n]].results = Append(rs, x)
      BY <1>10, <1>12, <1>14, <2>1
    <3> QED
      BY <1>7, <1>8, <2>2, <3>1, Zenon
  <2> QED
    BY <1>7, <2>4, <2>5, Zenon DEF RowsKnown
<1> QED
  BY <1>5, <1>13, <1>15, <1>16, <1>17 DEF CInv

\* What happens to the roster meanwhile adds no row and moves none to another
\* section.
LEMMA MeanwhileCInv ==
  ASSUME CInv, Unclaimed, UNCHANGED claimVars
  PROVE  CInv'
<1>1. IInv /\ TypeOK /\ ClaimsTypeOK /\ RowsKnown /\ Accounted /\ Rows = 1..Len(enrollments)
  BY RowsFinite DEF CInv, IInv
<1>2. IInv'
  <2>1. Next
    BY Zenon DEF Unclaimed, Next, StudentAction
  <2> QED
    BY <1>1, <2>1, NextIInv
<1>3. request' = request /\ author' = author /\ rejections' = rejections
  BY DEF claimVars
<1>4. /\ Rows' = Rows /\ Len(enrollments') = Len(enrollments)
      /\ \A i \in Rows : enrollments'[i].section = enrollments[i].section
  <2>1. CASE RowMoved
    <3>1. PICK i \in Rows, target \in EnrollmentStatuses, a \in AuditActions : MoveEnrollment(i, target, a)
      BY <2>1 DEF RowMoved
    <3>2. /\ Rows' = Rows /\ Len(enrollments') = Len(enrollments)
          /\ \A j \in Rows : j # i => enrollments'[j] = enrollments[j]
          /\ enrollments'[i].section = enrollments[i].section
      BY <1>1, <3>1, MoveRow
    <3> QED
      BY <3>2
  <2>2. CASE enrollments' = enrollments
    BY <2>2 DEF Rows
  <2> QED
    BY <1>1, <2>1, <2>2, UnclaimedStep
<1>5. ClaimsTypeOK'
  BY <1>1, <1>3, <1>4 DEF ClaimsTypeOK
<1>6. \A c \in Clients : Consistent(request[c])'
  BY <1>3 DEF CInv, Consistent, NotSent
<1>7. Accounted'
  BY <1>1, <1>3, Zenon DEF Accounted, OnRecord, Told
<1>8. RowsKnown'
  <2>1. ASSUME NEW i \in Rows
        PROVE  \E k \in DOMAIN request'[author'[i]].results :
                 request'[author'[i]].results[k] =
                   [section |-> enrollments'[i].section, outcome |-> "ok", row |-> i]
    <3>1. PICK k \in DOMAIN request[author[i]].results :
            request[author[i]].results[k] =
              [section |-> enrollments[i].section, outcome |-> "ok", row |-> i]
      BY <1>1 DEF RowsKnown
    <3>2. enrollments'[i].section = enrollments[i].section
      BY <1>4
    <3> QED
      BY <1>3, <3>1, <3>2, Zenon
  <2> QED
    BY <1>4, <2>1, Zenon DEF RowsKnown
<1> QED
  BY <1>2, <1>5, <1>6, <1>7, <1>8 DEF CInv

\* Every step of a request, and every other step, keeps the invariant.
LEMMA NextCInv == CInv /\ [ClaimsNext]_<<vars, claimVars>> => CInv'
<1> SUFFICES ASSUME CInv, [ClaimsNext]_<<vars, claimVars>> PROVE CInv'
  OBVIOUS
<1>1. ASSUME NEW c \in Clients, \E actor, student \in Users, order \in Orders : Send(c, actor, student, order)
      PROVE  CInv'
  BY <1>1, SendCInv
<1>2. ASSUME NEW c \in Clients, ClaimGranted(c) PROVE CInv'
  BY <1>2, GrantCInv
<1>3. ASSUME NEW c \in Clients, ClaimRejected(c) \/ Interrupted(c) \/ Answer(c) \/ Expire(c) PROVE CInv'
  BY <1>3, PhaseCInv
<1>4. ASSUME NEW c \in Clients, ClaimInvalid(c) \/ ClaimFails(c) \/ RecordRejection(c) \/ RejectionUnrecorded(c)
      PROVE  CInv'
  BY <1>4, SettleCInv
<1>5. ASSUME Unclaimed, UNCHANGED claimVars PROVE CInv'
  BY <1>5, MeanwhileCInv
<1>6. CASE UNCHANGED <<vars, claimVars>>
  <2>1. /\ UNCHANGED vars /\ request' = request /\ author' = author /\ rejections' = rejections
    BY <1>6 DEF claimVars
  <2>2. IInv' /\ enrollments' = enrollments
    BY <2>1, NextIInv DEF CInv, vars
  <2>3. ClaimsTypeOK' /\ RowsKnown' /\ Accounted'
    BY <2>1, <2>2, Zenon DEF CInv, ClaimsTypeOK, RowsKnown, Rows, Accounted, OnRecord, Told
  <2>4. \A c \in Clients : Consistent(request[c])'
    BY <2>1 DEF CInv, Consistent, NotSent
  <2> QED
    BY <2>2, <2>3, <2>4 DEF CInv
<1>7. CASE ClaimsNext
  BY <1>1, <1>2, <1>3, <1>4, <1>5, <1>7, Zenon DEF ClaimsNext, Unclaimed
<1> QED
  BY <1>6, <1>7

\* The invariant holds of every reachable state.
LEMMA ClaimsInvariance == ClaimsSpec => []CInv
BY InitCInv, NextCInv, PTL DEF ClaimsSpec

\* Every request that is answered in time is told of every seat and waitlist
\* place it was given, whatever other requests, drops and promotions come
\* between the transactions of its batch.
THEOREM RowsReported == ClaimsSpec => []ClientsKnowTheirRows
<1>1. CInv => ClientsKnowTheirRows
  <2> SUFFICES ASSUME CInv, NEW i \in Rows, Answered(author[i]), ~request[author[i]].expired
               PROVE  /\ ~request[author[i]].failed
                      /\ \E k \in DOMAIN request[author[i]].results :
                           request[author[i]].results[k] =
                             [section |-> enrollments[i].section, outcome |-> "ok", row |-> i]
    BY Zenon DEF ClientsKnowTheirRows
  <2>1. TypeOK /\ author[i] \in Clients
    <3>1. TypeOK /\ ClaimsTypeOK
      BY DEF CInv, IInv
    <3>2. Rows = 1..Len(author) /\ author \in Seq(Clients)
      BY <3>1, RowsFinite DEF ClaimsTypeOK
    <3> QED
      BY <3>1, <3>2, ElementOfSeq
  <2>2. ~request[author[i]].failed
    BY <2>1 DEF CInv, Consistent
  <2> QED
    BY <2>2 DEF CInv, RowsKnown
<1> QED
  BY <1>1, ClaimsInvariance, PTL

\* The audit trail holds each rejection a claim's transaction decided, in order and
\* once, although it is written in a second transaction, after the one that is
\* rolled back; entries are missing only for those the database refused and, of a
\* request that ran out of time, for the one at hand, whatever ids the batch names
\* and however long it is.
THEOREM RejectionsAudited == ClaimsSpec => []RejectionsOnRecord
<1>1. CInv => RejectionsOnRecord
  <2> SUFFICES ASSUME CInv, NEW c \in Clients
               PROVE  /\ Len(OnRecord(c)) <= Len(Told(c))
                      /\ Len(Told(c)) <= Len(OnRecord(c)) + request[c].refused
                                          + (IF request[c].expired THEN 1 ELSE 0)
                      /\ ~request[c].expired /\ request[c].refused = 0 => OnRecord(c) = Told(c)
    BY Zenon DEF RejectionsOnRecord
  <2>1. Fits(OnRecord(c), Told(c), Excused(request[c]))
    BY DEF CInv, Accounted
  <2>2. /\ request[c].refused \in Nat /\ request[c].results \in Seq(ItemResult)
        /\ rejections \in Seq(RejectionRow)
    BY RequestFields DEF CInv, ClaimsTypeOK
  <2>3. Told(c) \in Seq(Ids) /\ OnRecord(c) \in Seq(Ids)
    <3>1. NameSections(ItemResult, Ids) /\ NameSections(RejectionRow, Ids)
      BY DEF NameSections, ItemResult, RejectionRow
    <3>2. \A p : \A log \in Seq(ItemResult) : SectionsAt(log, p) \in Seq(Ids)
      BY <3>1, SectionsAtRun
    <3>3. \A p : \A log \in Seq(RejectionRow) : SectionsAt(log, p) \in Seq(Ids)
      BY <3>1, SectionsAtRun
    <3> QED
      BY <2>2, <3>2, <3>3, Zenon DEF Told, OnRecord
  <2>4. Len(Told(c)) \in Nat /\ Len(OnRecord(c)) \in Nat
    BY <2>3, LenProperties
  <2> QED
    BY <2>1, <2>2, <2>4 DEF Fits, Excused
<1> QED
  BY <1>1, ClaimsInvariance, PTL
=============================================================================
