------------------------------ MODULE Sessions ------------------------------
(***************************************************************************)
(* Server-side sessions (service/auth.go, storage/sqlite/sessions.go):     *)
(* login, the authentication of requests, logout and the expiry sweep.     *)
(*                                                                         *)
(* Authenticate is no transaction: it looks the session up, reads the      *)
(* clock, and touches the row in a second statement, and everything else   *)
(* may happen in between.  Login, Logout and the sweep read the clock and  *)
(* then wait for the write lock, so their instant may be LockWait old when *)
(* they run.  The expiry is stored as text: requests parse it, the sweep   *)
(* compares it as text in SQL.  The other columns are never compared.      *)
(* Accounts, passwords and tokens are left out: only an enabled account    *)
(* with the right password logs in, a token finds its own session only,    *)
(* and no operation disables an account.                                   *)
(***************************************************************************)
EXTENDS Timestamps, FiniteSets

CONSTANTS
  Requests,     \* slots for requests in flight
  Never,        \* the NULL of revoked_at
  TTL,          \* lifetime of a session
  SweepLimit,   \* rows one sweep revokes at most
  LockWait,     \* longest time an operation waits for the write lock
  MaxSessions,  \* bound on the sessions ever opened
  MaxTime       \* bound on the clock

ASSUME SessionsAssumption ==
  /\ Never \notin Nat
  /\ TTL \in Nat \ {0} /\ SweepLimit \in Nat \ {0} /\ LockWait \in Nat
  /\ MaxSessions \in Nat /\ MaxTime \in Nat

VARIABLES
  sessions,   \* rows in id order: [issuedAt, expiresAt, revokedAt, lastSeen]
  requests,   \* [Requests -> [phase, session, revoked, at]]
  audit,      \* the success entries: [action, session] and [action, count]
  now         \* the wall clock

vars == <<sessions, requests, audit, now>>

SessionIds == DOMAIN sessions

Revoked(i) == sessions[i].revokedAt # Never

\* Mutant: a session still counts as live at the instant it expires.
ExpiredLate(i, at) == parseTime(sessions[i].expiresAt) < at

\* Session.Validate, which compares instants.
Expired(i, at) == parseTime(sessions[i].expiresAt) <= at

\* A request is free, has read its session, has found it valid at an instant,
\* or has an answer.
Answers == {"granted", "session_expired", "session_revoked", "done"}
Phases == {"free", "found", "valid"} \cup Answers

Free == [phase |-> "free", session |-> 0, revoked |-> FALSE, at |-> 0]

\* What the clock may have shown when a waiting operation read it.
Readings == {at \in (now - LockWait)..now : at >= 0}

Init ==
  /\ sessions = <<>>
  /\ requests = [r \in Requests |-> Free]
  /\ audit = <<>>
  /\ now = 0
-----------------------------------------------------------------------------
\* Mutant: the row is stored without an expiry.
CreateSessionUnlimited(at) ==
  sessions' = Append(sessions,
    [issuedAt |-> at, expiresAt |-> Never, revokedAt |-> Never, lastSeen |-> at])

CreateSession(at) ==
  sessions' = Append(sessions,
    [issuedAt |-> at, expiresAt |-> formatTime(at + TTL), revokedAt |-> Never, lastSeen |-> at])

Login(at) ==
  /\ Len(sessions) < MaxSessions
  /\ CreateSession(at)
  /\ audit' = Append(audit, [action |-> "login", session |-> Len(sessions) + 1])
  /\ UNCHANGED <<requests, now>>

\* Authenticate, first statement: FindSessionByDigest copies the row.
FindSession(r, i) ==
  /\ requests[r].phase = "free"
  /\ requests' = [requests EXCEPT ![r] =
       [phase |-> "found", session |-> i, revoked |-> Revoked(i), at |-> 0]]
  /\ UNCHANGED <<sessions, audit, now>>

\* Authenticate, between its statements: reads the clock and validates the copy.
Validate(r) ==
  /\ requests[r].phase = "found"
  /\ requests' = [requests EXCEPT
       ![r].at    = now,
       ![r].phase = CASE requests[r].revoked -> "session_revoked"
                      [] ~requests[r].revoked /\ Expired(requests[r].session, now) -> "session_expired"
                      [] OTHER -> "valid"]
  /\ UNCHANGED <<sessions, audit, now>>

\* Mutant: revoked rows are touched as well.
TouchableAlways(i) == TRUE

\* The predicate of TouchSession.
Touchable(i) == ~Revoked(i)

\* Authenticate, second statement: TouchSession, whose missing row means that
\* the session was revoked in the meantime.
TouchSession(r) ==
  LET i == requests[r].session IN
  /\ requests[r].phase = "valid"
  /\ \/ /\ Touchable(i)
        /\ sessions' = [sessions EXCEPT ![i].lastSeen = requests[r].at]
        /\ requests' = [requests EXCEPT ![r].phase = "granted"]
     \/ /\ ~Touchable(i)
        /\ requests' = [requests EXCEPT ![r].phase = "session_revoked"]
        /\ UNCHANGED sessions
  /\ UNCHANGED <<audit, now>>

\* Mutant: a revoked session is revoked again.
RevocableAlways(i) == TRUE

\* The predicate of RevokeSession.
Revocable(i) == ~Revoked(i)

\* The granted request is a logout: RevokeSession and the audit entry, or
\* ErrNotFound when the session is revoked already.
Logout(r, at) ==
  LET i == requests[r].session IN
  /\ requests[r].phase = "granted" /\ requests[r].at <= at
  /\ \/ /\ Revocable(i)
        /\ sessions' = [sessions EXCEPT ![i].revokedAt = at]
        /\ audit' = Append(audit, [action |-> "logout", session |-> i])
     \/ /\ ~Revocable(i)
        /\ UNCHANGED <<sessions, audit>>
  /\ requests' = [requests EXCEPT ![r].phase = "done"]
  /\ UNCHANGED now

\* Mutant: the sweep takes every live session.
SweepableAny(at) == {i \in SessionIds : ~Revoked(i)}

\* revoked_at IS NULL AND expires_at <= ?
Sweepable(at) ==
  {i \in SessionIds : ~Revoked(i) /\ TextAtMost(sessions[i].expiresAt, formatTime(at))}

\* ORDER BY expires_at LIMIT SweepLimit, ties in any order.
SweepBatch(batch, at) ==
  /\ batch \subseteq Sweepable(at)
  /\ Cardinality(batch) = IF Cardinality(Sweepable(at)) < SweepLimit
                          THEN Cardinality(Sweepable(at)) ELSE SweepLimit
  /\ \A i \in batch, j \in Sweepable(at) \ batch :
       TextAtMost(sessions[i].expiresAt, sessions[j].expiresAt)

\* SweepExpiredSessions: revokes a batch and audits its size.  An empty sweep
\* leaves no trace.
SweepExpiredSessions(at) ==
  /\ Sweepable(at) # {}
  /\ \E batch \in SUBSET SessionIds :
       /\ SweepBatch(batch, at)
       /\ sessions' = [i \in SessionIds |->
            IF i \in batch THEN [sessions[i] EXCEPT !.revokedAt = at] ELSE sessions[i]]
       /\ audit' = Append(audit, [action |-> "sweep", count |-> Cardinality(batch)])
  /\ UNCHANGED <<requests, now>>

\* The answer is sent and the slot is free for another request.
Finish(r) ==
  /\ requests[r].phase \in Answers
  /\ requests' = [requests EXCEPT ![r] = Free]
  /\ UNCHANGED <<sessions, audit, now>>

Tick ==
  /\ now < MaxTime
  /\ now' = now + 1
  /\ UNCHANGED <<sessions, requests, audit>>

Next ==
  \/ \E at \in Readings : Login(at) \/ SweepExpiredSessions(at)
  \/ \E r \in Requests :
       \/ \E i \in SessionIds : FindSession(r, i)
       \/ Validate(r) \/ TouchSession(r) \/ Finish(r)
       \/ \E at \in Readings : Logout(r, at)
  \/ Tick

Spec == Init /\ [][Next]_vars
-----------------------------------------------------------------------------
Texts == [second : Nat, fraction : Seq(0..(Base - 1))]

SessionRow ==
  [issuedAt : Nat, expiresAt : Texts, revokedAt : Nat \cup {Never}, lastSeen : Nat]

AuditEntry ==
  [action : {"login", "logout"}, session : SessionIds] \cup [action : {"sweep"}, count : Nat]

TypeOK ==
  /\ sessions \in Seq(SessionRow)
  /\ requests \in [Requests -> [phase : Phases, session : SessionIds \cup {0},
                                revoked : BOOLEAN, at : Nat]]
  /\ audit \in Seq(AuditEntry)
  /\ now \in Nat

\* A revocation takes effect at once: no request is granted on a session that
\* has been revoked, even if the request had found and validated it before the
\* logout or the sweep, and a revoked row is never written again.
RevocationIsImmediate ==
  [][/\ \A r \in Requests : requests'[r].phase = "granted" /\ requests[r].phase # "granted"
                            => ~Revoked(requests[r].session)
     /\ \A i \in SessionIds : Revoked(i) => sessions'[i] = sessions[i]]_vars

\* No activity is ever recorded outside the lifetime of its session, although
\* expiry is checked in one step and the activity is written in another.
SeenWithinLife ==
  \A i \in SessionIds : /\ sessions[i].issuedAt <= sessions[i].lastSeen
                        /\ sessions[i].lastSeen < parseTime(sessions[i].expiresAt)

LogoutEntries(i) ==
  {n \in DOMAIN audit : audit[n].action = "logout" /\ audit[n].session = i}

\* The sizes of the sweeps, added up along a log.
SweptCount(log) ==
  LET swept[n \in 0..Len(log)] ==
        IF n = 0 THEN 0 ELSE swept[n - 1] + (IF log[n].action = "sweep" THEN log[n].count ELSE 0)
  IN  swept[Len(log)]

\* The trail accounts for every session that ended, once: a session has at most
\* one logout entry, and the revoked sessions without one are exactly as many
\* as the sweeps say they revoked.  Logouts of one session by two requests,
\* and a logout and a sweep, may run at the same time.
RevocationsAudited ==
  /\ \A i \in SessionIds : /\ Cardinality(LogoutEntries(i)) <= 1
                           /\ LogoutEntries(i) # {} => Revoked(i)
  /\ SweptCount(audit) = Cardinality({i \in SessionIds : Revoked(i) /\ LogoutEntries(i) = {}})

\* The sweep compares texts, whose order is not that of the instants when the
\* fractions differ in length (formatTime drops trailing zeros); still no
\* session is swept in a second before the one in which it expires.  A session
\* that ended earlier was logged out.
OnlyLogoutEndsEarly ==
  \A i \in SessionIds :
    Revoked(i) /\ LogoutEntries(i) = {}
      => sessions[i].expiresAt.second <= SecondOf(sessions[i].revokedAt)
=============================================================================
