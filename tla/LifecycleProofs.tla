--------------------------- MODULE LifecycleProofs ---------------------------
(***************************************************************************)
(* Proofs about the life cycle of a process: the database is closed under  *)
(* nobody, and what Run returns names every failure once.                  *)
(*                                                                         *)
(* The invariant follows a failure on its way.  A component that failed is *)
(* at exactly one place: still sending, in the channel, or among the       *)
(* errors of Run (FailuresOnTheWay), and the main goroutine's position     *)
(* tells what can still be in flight (Sequencing).                         *)
(***************************************************************************)
EXTENDS Lifecycle, SequenceTheorems, TLAPS

\* The elements of a sequence, and that none occurs twice.
Elems(s) == {s[i] : i \in DOMAIN s}
Distinct(s) == \A i, k \in DOMAIN s : s[i] = s[k] => i = k

\* A component that failed is sending, or its failure is in the channel, or Run
\* has received it: one of the three, and once.
FailuresOnTheWay ==
  /\ \A c \in Components : c \in failed <=> \/ phase[c] = "reporting"
                                            \/ c \in Elems(errCh)
                                            \/ c \in Elems(runErr)
  /\ \A c \in Components : c \in Elems(errCh) \cup Elems(runErr) => phase[c] = "returned"
  /\ Elems(errCh) \cap Elems(runErr) = {}
  /\ Distinct(errCh)
  /\ Distinct(runErr)

\* What the position of the main goroutine says about the rest of the process.
Sequencing ==
  /\ inShutdown <=> main # "selecting"
  /\ storeOpen <=> main \notin {"closed", "exited"}
  /\ main = "selecting" => runErr = <<>>
  /\ "grace" \in Elems(runErr) => main \notin {"selecting", "draining"}
  /\ main \in {"waiting", "returned", "closed"} /\ requests # {} => "grace" \in Elems(runErr)
  /\ main = "exited" => requests = {}
  /\ main \in {"returned", "closed", "exited"} =>
       errCh = <<>> /\ \A c \in Components : phase[c] = "returned"

IInv == TypeOK /\ FailuresOnTheWay /\ Sequencing
-----------------------------------------------------------------------------
(* Sequences without repetition. *)

\* Adding an element at the end.
LEMMA AppendElems ==
  ASSUME NEW S, NEW s \in Seq(S), NEW x \in S
  PROVE  /\ Elems(Append(s, x)) = Elems(s) \cup {x}
         /\ Distinct(s) /\ x \notin Elems(s) => Distinct(Append(s, x))
<1>1. /\ Append(s, x) \in Seq(S) /\ Len(Append(s, x)) = Len(s) + 1 /\ Len(s) \in Nat
      /\ \A i \in 1..Len(s) : Append(s, x)[i] = s[i]
      /\ Append(s, x)[Len(s) + 1] = x
  BY AppendProperties, LenProperties
<1>2. DOMAIN s = 1..Len(s) /\ DOMAIN Append(s, x) = 1..(Len(s) + 1)
  BY <1>1
<1>3. DOMAIN Append(s, x) = DOMAIN s \cup {Len(s) + 1}
  BY <1>1, <1>2
<1> DEFINE t == Append(s, x)
           n == Len(s) + 1
<1>4. t[n] = x /\ (\A i \in DOMAIN s : t[i] = s[i]) /\ DOMAIN t = DOMAIN s \cup {n}
  BY <1>1, <1>2, <1>3
<1> HIDE DEF t, n
<1>5. Elems(t) = Elems(s) \cup {x}
  BY <1>4 DEF Elems
<1>6. Distinct(s) /\ x \notin Elems(s) => Distinct(t)
  BY <1>4 DEF Elems, Distinct
<1> QED
  BY <1>5, <1>6 DEF t

\* Joining two sequences.
LEMMA ConcatElems ==
  ASSUME NEW S, NEW s \in Seq(S), NEW t \in Seq(S)
  PROVE  /\ Elems(s \o t) = Elems(s) \cup Elems(t)
         /\ Distinct(s) /\ Distinct(t) /\ Elems(s) \cap Elems(t) = {} => Distinct(s \o t)
<1> DEFINE m == Len(s)
           n == Len(t)
           u == s \o t
<1>1. m \in Nat /\ n \in Nat /\ DOMAIN s = 1..m /\ DOMAIN t = 1..n
  BY LenProperties
<1>2. /\ u \in Seq(S) /\ Len(u) = m + n
      /\ \A i \in 1..(m + n) : u[i] = IF i <= m THEN s[i] ELSE t[i - m]
  BY ConcatProperties
<1>3. DOMAIN u = 1..(m + n)
  BY <1>1, <1>2
<1> HIDE DEF m, n, u
<1>4. \A i \in DOMAIN s : i \in DOMAIN u /\ u[i] = s[i]
  BY <1>1, <1>2, <1>3
<1>5. \A i \in DOMAIN t : i + m \in DOMAIN u /\ u[i + m] = t[i]
  BY <1>1, <1>2, <1>3
<1>6. \A i \in DOMAIN u : \/ i \in DOMAIN s /\ u[i] = s[i]
                          \/ i - m \in DOMAIN t /\ u[i] = t[i - m] /\ i \notin DOMAIN s
  BY <1>1, <1>2, <1>3
<1>7. Elems(u) = Elems(s) \cup Elems(t)
  <2>1. Elems(s) \subseteq Elems(u)
    BY <1>4 DEF Elems
  <2>2. Elems(t) \subseteq Elems(u)
    BY <1>5 DEF Elems
  <2>3. Elems(u) \subseteq Elems(s) \cup Elems(t)
    BY <1>6 DEF Elems
  <2> QED
    BY <2>1, <2>2, <2>3
<1>8. ASSUME Distinct(s), Distinct(t), Elems(s) \cap Elems(t) = {} PROVE Distinct(u)
  <2>1. SUFFICES ASSUME NEW i \in DOMAIN u, NEW k \in DOMAIN u, u[i] = u[k] PROVE i = k
    BY DEF Distinct
  <2>2. \A a \in DOMAIN s, b \in DOMAIN t : s[a] # t[b]
    BY <1>8 DEF Elems
  <2>3. CASE i \in DOMAIN s /\ k \in DOMAIN s
    BY <1>4, <1>8, <2>1, <2>3 DEF Distinct
  <2>4. CASE i \notin DOMAIN s /\ k \notin DOMAIN s
    <3>1. /\ i - m \in DOMAIN t /\ u[i] = t[i - m]
          /\ k - m \in DOMAIN t /\ u[k] = t[k - m]
      BY <1>6, <2>4
    <3>2. i - m = k - m
      BY <1>8, <2>1, <3>1 DEF Distinct
    <3> QED
      BY <1>1, <1>3, <3>2
  <2>5. CASE i \in DOMAIN s /\ k \notin DOMAIN s
    BY <1>4, <1>6, <2>1, <2>2, <2>5
  <2>6. CASE i \notin DOMAIN s /\ k \in DOMAIN s
    BY <1>4, <1>6, <2>1, <2>2, <2>6
  <2> QED
    BY <2>3, <2>4, <2>5, <2>6
<1> QED
  BY <1>7, <1>8 DEF u

\* Taking the first element off.
LEMMA TailElems ==
  ASSUME NEW S, NEW s \in Seq(S), s # <<>>
  PROVE  /\ Head(s) \in S /\ Tail(s) \in Seq(S)
         /\ Elems(s) = {Head(s)} \cup Elems(Tail(s))
         /\ Distinct(s) => Head(s) \notin Elems(Tail(s)) /\ Distinct(Tail(s))
<1> DEFINE n == Len(s)
           t == Tail(s)
           h == Head(s)
<1>1. n \in Nat /\ n >= 1 /\ DOMAIN s = 1..n /\ h = s[1] /\ h \in S
  BY LenProperties, EmptySeq, HeadTailProperties
<1>2. /\ t \in Seq(S) /\ Len(t) = n - 1
      /\ \A i \in 1..(n - 1) : t[i] = s[i + 1]
  BY HeadTailProperties
<1>3. DOMAIN t = 1..(n - 1)
  BY <1>1, <1>2
<1> HIDE DEF n, t, h
<1>4. \A i \in DOMAIN t : i + 1 \in DOMAIN s /\ i + 1 # 1 /\ t[i] = s[i + 1]
  BY <1>1, <1>2, <1>3
<1>5. \A i \in DOMAIN s : i # 1 => i - 1 \in DOMAIN t /\ s[i] = t[i - 1]
  BY <1>1, <1>2, <1>3
<1>6. 1 \in DOMAIN s
  BY <1>1
<1>7. Elems(s) = {h} \cup Elems(t)
  <2>1. Elems(s) \subseteq {h} \cup Elems(t)
    BY <1>1, <1>5 DEF Elems
  <2>2. Elems(t) \subseteq Elems(s)
    BY <1>4 DEF Elems
  <2> QED
    BY <1>1, <1>6, <2>1, <2>2 DEF Elems
<1>8. ASSUME Distinct(s) PROVE h \notin Elems(t) /\ Distinct(t)
  <2>1. h \notin Elems(t)
    BY <1>1, <1>4, <1>6, <1>8 DEF Elems, Distinct
  <2>2. ASSUME NEW i \in DOMAIN t, NEW k \in DOMAIN t, t[i] = t[k] PROVE i = k
    <3>1. i + 1 = k + 1
      BY <1>4, <1>8, <2>2 DEF Distinct
    <3> QED
      BY <1>1, <1>3, <3>1
  <2> QED
    BY <2>1, <2>2 DEF Distinct
<1> QED
  BY <1>1, <1>2, <1>7, <1>8 DEF t, h

\* Nothing is in the empty sequence.
LEMMA EmptyElems == Elems(<<>>) = {} /\ Distinct(<<>>)
BY DEF Elems, Distinct

\* The grace period is no component.
LEMMA GraceApart == "grace" \notin Components /\ "http" \in Components
BY DEF Components, Loops
-----------------------------------------------------------------------------
(* The three parts of the invariant, action by action. *)

\* TypeOK is inductive on its own.
LEMMA TypeStep ==
  ASSUME TypeOK, [Next]_vars
  PROVE  TypeOK'
<1>1. ASSUME NEW c \in Components, Serve(c) \/ Stop(c) PROVE TypeOK'
  BY <1>1 DEF TypeOK, Serve, Stop, Move
<1>2. ASSUME NEW c \in Components, Report(c) PROVE TypeOK'
  <2>1. errCh' \in Seq(Components)
    BY <1>2, AppendProperties DEF TypeOK, Report
  <2> QED
    BY <1>2, <2>1 DEF TypeOK, Report, Move
<1>3. ASSUME NEW c \in Components, Fail(c) PROVE TypeOK'
  BY <1>3 DEF TypeOK, Fail
<1>4. ASSUME NEW r \in Requests, Accept(r) \/ Respond(r) PROVE TypeOK'
  BY <1>4 DEF TypeOK, Accept, Respond
<1>5. CASE Signal
  BY <1>5 DEF TypeOK, Signal
<1>6. CASE Select
  <2>1. CASE UNCHANGED <<errCh, runErr>>
    BY <1>6, <2>1 DEF TypeOK, Select
  <2>2. CASE errCh # <<>> /\ runErr' = <<Head(errCh)>> /\ errCh' = Tail(errCh)
    <3>1. Head(errCh) \in Failures /\ errCh' \in Seq(Components)
      BY <2>2, HeadTailProperties DEF TypeOK, Failures
    <3>2. runErr' \in Seq(Failures)
      BY <2>2, <3>1
    <3> QED
      BY <1>6, <3>1, <3>2 DEF TypeOK, Select
  <2> QED
    BY <1>6, <2>1, <2>2 DEF Select
<1>7. CASE Drained
  BY <1>7 DEF TypeOK, Drained
<1>8. CASE GraceExpires
  <2>1. "grace" \in Failures
    BY DEF Failures
  <2>2. runErr' \in Seq(Failures)
    BY <1>8, <2>1, AppendProperties DEF TypeOK, GraceExpires
  <2> QED
    BY <1>8, <2>2 DEF TypeOK, GraceExpires
<1>9. CASE Return
  <2>1. Components \subseteq Failures
    BY DEF Failures
  <2>2. errCh \in Seq(Failures) /\ <<>> \in Seq(Components)
    BY <2>1, EmptySeq DEF TypeOK
  <2>3. runErr' \in Seq(Failures)
    BY <1>9, <2>2, ConcatProperties DEF TypeOK, Return, Collected
  <2> QED
    BY <1>9, <2>2, <2>3 DEF TypeOK, Return
<1>10. CASE CloseStore
  BY <1>10 DEF TypeOK, CloseStore
<1>11. CASE Exit
  BY <1>11 DEF TypeOK, Exit
<1>12. CASE UNCHANGED vars
  BY <1>12 DEF TypeOK, vars
<1> QED
  BY <1>1, <1>2, <1>3, <1>4, <1>5, <1>6, <1>7, <1>8, <1>9, <1>10, <1>11, <1>12
  DEF Next, Component, Main

\* A failure moves on and is neither lost nor doubled: sending it moves it into
\* the channel, the select and the end of Run move it into the errors of Run.
LEMMA FailuresStep ==
  ASSUME IInv, [Next]_vars
  PROVE  FailuresOnTheWay'
<1>0. TypeOK /\ FailuresOnTheWay /\ Sequencing
  BY DEF IInv
<1>1. ASSUME NEW c \in Components, Serve(c) \/ Stop(c) PROVE FailuresOnTheWay'
  <2>1. /\ phase \in [Components -> {"starting", "running", "reporting", "returned"}]
        /\ phase[c] \in {"starting", "running"}
        /\ phase'[c] \in {"running", "returned"}
        /\ \A d \in Components \ {c} : phase'[d] = phase[d]
        /\ errCh' = errCh /\ runErr' = runErr /\ failed' = failed
    BY <1>0, <1>1 DEF TypeOK, Serve, Stop, Move
  <2>2. c \notin Elems(errCh) \cup Elems(runErr)
    BY <1>0, <2>1 DEF FailuresOnTheWay
  <2> QED
    BY <1>0, <2>1, <2>2 DEF FailuresOnTheWay
<1>2. ASSUME NEW c \in Components, Report(c) PROVE FailuresOnTheWay'
  <2>1. /\ phase \in [Components -> {"starting", "running", "reporting", "returned"}]
        /\ phase[c] = "reporting" /\ phase'[c] = "returned"
        /\ \A d \in Components \ {c} : phase'[d] = phase[d]
        /\ errCh' = Append(errCh, c) /\ runErr' = runErr /\ failed' = failed
        /\ errCh \in Seq(Components)
    BY <1>0, <1>2 DEF TypeOK, Report, Move
  <2>2. c \in failed /\ c \notin Elems(errCh) /\ c \notin Elems(runErr)
    BY <1>0, <2>1 DEF FailuresOnTheWay
  <2>3. Elems(errCh') = Elems(errCh) \cup {c} /\ Distinct(errCh')
    BY <1>0, <2>1, <2>2, AppendElems DEF FailuresOnTheWay
  <2> QED
    BY <1>0, <2>1, <2>2, <2>3 DEF FailuresOnTheWay
<1>3. ASSUME NEW c \in Components, Fail(c) PROVE FailuresOnTheWay'
  <2>1. /\ phase \in [Components -> {"starting", "running", "reporting", "returned"}]
        /\ phase[c] \in {"starting", "running"} /\ phase'[c] = "reporting"
        /\ \A d \in Components \ {c} : phase'[d] = phase[d]
        /\ errCh' = errCh /\ runErr' = runErr /\ failed' = failed \cup {c}
    BY <1>0, <1>3 DEF TypeOK, Fail
  <2>2. c \notin Elems(errCh) \cup Elems(runErr)
    BY <1>0, <2>1 DEF FailuresOnTheWay
  <2> QED
    BY <1>0, <2>1, <2>2 DEF FailuresOnTheWay
<1>4. CASE Select
  <2>1. phase' = phase /\ failed' = failed /\ main = "selecting"
    BY <1>4 DEF Select
  <2>2. CASE UNCHANGED <<errCh, runErr>>
    BY <1>0, <2>1, <2>2 DEF FailuresOnTheWay
  <2>3. CASE errCh # <<>> /\ runErr' = <<Head(errCh)>> /\ errCh' = Tail(errCh)
    <3>1. runErr = <<>> /\ Elems(runErr) = {}
      BY <1>0, <2>1, EmptyElems DEF Sequencing
    <3>2. /\ Elems(errCh) = {Head(errCh)} \cup Elems(errCh')
          /\ Head(errCh) \notin Elems(errCh') /\ Distinct(errCh')
      BY <1>0, <2>3, TailElems DEF TypeOK, FailuresOnTheWay
    <3>3. Elems(runErr') = {Head(errCh)} /\ Distinct(runErr')
      BY <2>3 DEF Elems, Distinct
    <3> QED
      BY <1>0, <2>1, <3>1, <3>2, <3>3 DEF FailuresOnTheWay
  <2> QED
    BY <1>4, <2>2, <2>3 DEF Select
<1>5. CASE GraceExpires
  <2>1. /\ phase' = phase /\ failed' = failed /\ errCh' = errCh
        /\ runErr' = Append(runErr, "grace") /\ main = "draining"
    BY <1>5 DEF GraceExpires
  <2>2. "grace" \in Failures /\ "grace" \notin Components /\ runErr \in Seq(Failures)
    BY <1>0, GraceApart DEF TypeOK, Failures
  <2>3. "grace" \notin Elems(runErr)
    BY <1>0, <2>1 DEF Sequencing
  <2>4. Elems(runErr') = Elems(runErr) \cup {"grace"} /\ Distinct(runErr')
    BY <1>0, <2>1, <2>2, <2>3, AppendElems DEF FailuresOnTheWay
  <2>5. Elems(errCh) \subseteq Components
    BY <1>0 DEF TypeOK, Elems
  <2> QED
    BY <1>0, <2>1, <2>2, <2>4, <2>5 DEF FailuresOnTheWay
<1>6. CASE Return
  <2>1. /\ phase' = phase /\ failed' = failed /\ errCh' = <<>>
        /\ runErr' = runErr \o errCh
    BY <1>6 DEF Return, Collected
  <2>2. errCh \in Seq(Failures) /\ runErr \in Seq(Failures)
    <3>1. Components \subseteq Failures
      BY DEF Failures
    <3> QED
      BY <1>0, <3>1 DEF TypeOK
  <2>3. Elems(runErr') = Elems(runErr) \cup Elems(errCh) /\ Distinct(runErr')
    BY <1>0, <2>1, <2>2, ConcatElems DEF FailuresOnTheWay
  <2>4. Elems(errCh') = {} /\ Distinct(errCh')
    BY <2>1, EmptyElems
  <2> QED
    BY <1>0, <2>1, <2>3, <2>4 DEF FailuresOnTheWay
<1>7. CASE UNCHANGED <<phase, failed, errCh, runErr>>
  BY <1>0, <1>7 DEF FailuresOnTheWay
<1> QED
  BY <1>1, <1>2, <1>3, <1>4, <1>5, <1>6, <1>7
  DEF Next, Component, Main, Accept, Respond, Signal, Drained, CloseStore, Exit, vars

\* The main goroutine goes its way in order, and what it has waited for does not
\* come back: no component leaves "returned", no request is accepted once
\* Shutdown has been called.
LEMMA SequencingStep ==
  ASSUME IInv, [Next]_vars
  PROVE  Sequencing'
<1>0. TypeOK /\ FailuresOnTheWay /\ Sequencing
  BY DEF IInv
<1>1. ASSUME NEW c \in Components, Component(c) \/ Fail(c) PROVE Sequencing'
  <2>1. /\ phase[c] # "returned"
        /\ main' = main /\ inShutdown' = inShutdown /\ storeOpen' = storeOpen
        /\ requests' = requests /\ runErr' = runErr
    BY <1>1 DEF Component, Serve, Stop, Report, Fail, Move
  <2>2. main \notin {"returned", "closed", "exited"}
    BY <1>0, <2>1 DEF Sequencing
  <2> QED
    BY <1>0, <2>1, <2>2 DEF Sequencing
<1>2. ASSUME NEW r \in Requests, Accept(r) PROVE Sequencing'
  <2>1. /\ phase' = phase /\ errCh' = errCh /\ ~inShutdown
        /\ main' = main /\ inShutdown' = inShutdown /\ storeOpen' = storeOpen /\ runErr' = runErr
    BY <1>2 DEF Accept
  <2>2. main = "selecting"
    BY <1>0, <2>1 DEF Sequencing
  <2> QED
    BY <1>0, <2>1, <2>2 DEF Sequencing
<1>3. ASSUME NEW r \in Requests, Respond(r) PROVE Sequencing'
  <2>1. /\ phase' = phase /\ errCh' = errCh /\ requests' \subseteq requests
        /\ main' = main /\ inShutdown' = inShutdown /\ storeOpen' = storeOpen /\ runErr' = runErr
    BY <1>3 DEF Respond
  <2> QED
    BY <1>0, <2>1 DEF Sequencing
<1>4. CASE Signal
  BY <1>0, <1>4 DEF Signal, Sequencing
<1>5. CASE Select
  <2>1. /\ main = "selecting" /\ main' = "draining" /\ inShutdown'
        /\ storeOpen' = storeOpen
    BY <1>5 DEF Select
  <2>2. "grace" \notin Elems(runErr')
    <3>1. CASE UNCHANGED <<errCh, runErr>>
      BY <1>0, <2>1, <3>1 DEF Sequencing
    <3>2. CASE errCh # <<>> /\ runErr' = <<Head(errCh)>> /\ errCh' = Tail(errCh)
      <4>1. Head(errCh) \in Components
        BY <1>0, <3>2, TailElems DEF TypeOK
      <4>2. Elems(runErr') = {Head(errCh)}
        BY <3>2 DEF Elems
      <4> QED
        BY <4>1, <4>2, GraceApart
    <3> QED
      BY <1>5, <3>1, <3>2 DEF Select
  <2> QED
    BY <1>0, <2>1, <2>2 DEF Sequencing
<1>6. CASE Drained
  BY <1>0, <1>6 DEF Drained, Sequencing
<1>7. CASE GraceExpires
  <2>1. "grace" \in Elems(runErr')
    <3>1. runErr \in Seq(Failures) /\ "grace" \in Failures
      BY <1>0 DEF TypeOK, Failures
    <3> QED
      BY <1>7, <3>1, AppendElems DEF GraceExpires
  <2> QED
    BY <1>0, <1>7, <2>1 DEF GraceExpires, Sequencing
<1>8. CASE Return
  <2>1. Elems(runErr') = Elems(runErr) \cup Elems(errCh)
    <3>1. Components \subseteq Failures
      BY DEF Failures
    <3>2. errCh \in Seq(Failures) /\ runErr \in Seq(Failures)
      BY <1>0, <3>1 DEF TypeOK
    <3> QED
      BY <1>8, <3>2, ConcatElems DEF Return, Collected
  <2>2. \A c \in Components : phase'[c] = "returned"
    BY <1>8 DEF Return, AllReturned
  <2> QED
    BY <1>0, <1>8, <2>1, <2>2 DEF Return, Sequencing
<1>9. CASE CloseStore
  BY <1>0, <1>9 DEF CloseStore, Sequencing
<1>10. CASE Exit
  BY <1>0, <1>10 DEF Exit, Sequencing
<1>11. CASE UNCHANGED vars
  BY <1>0, <1>11 DEF vars, Sequencing
<1> QED
  BY <1>1, <1>2, <1>3, <1>4, <1>5, <1>6, <1>7, <1>8, <1>9, <1>10, <1>11 DEF Next, Main
-----------------------------------------------------------------------------
\* The inductive invariant holds of every behaviour.
LEMMA Invariance == Spec => []IInv
<1>1. Init => IInv
  <2>1. SUFFICES ASSUME Init PROVE IInv
    OBVIOUS
  <2>2. TypeOK
    BY <2>1, EmptySeq DEF Init, TypeOK
  <2>3. FailuresOnTheWay
    BY <2>1, EmptyElems DEF Init, FailuresOnTheWay
  <2>4. Sequencing
    BY <2>1, EmptyElems DEF Init, Sequencing
  <2> QED
    BY <2>2, <2>3, <2>4 DEF IInv
<1>2. IInv /\ [Next]_vars => IInv'
  <2>1. SUFFICES ASSUME IInv, [Next]_vars PROVE IInv'
    OBVIOUS
  <2>2. TypeOK'
    BY <2>1, TypeStep DEF IInv
  <2> QED
    BY <2>1, <2>2, FailuresStep, SequencingStep DEF IInv
<1> QED
  BY <1>1, <1>2, PTL DEF Spec

\* Every reachable state is well typed.
THEOREM TypeCorrect == Spec => []TypeOK
<1>1. IInv => TypeOK
  BY DEF IInv
<1> QED
  BY <1>1, Invariance, PTL

\* The deferred Close of main runs under nobody: the listener and the loops have
\* returned, and a request still in flight has outlived a grace period that Run
\* reports.
THEOREM StoreClosedLast == Spec => []StoreOutlivesUsers
<1>1. IInv => StoreOutlivesUsers
  <2>1. SUFFICES ASSUME IInv, ~storeOpen PROVE StoreOutlivesUsers
    BY DEF StoreOutlivesUsers
  <2>2. main \in {"closed", "exited"}
    BY <2>1 DEF IInv, Sequencing
  <2>3. \A c \in Components : phase[c] = "returned"
    BY <2>1, <2>2 DEF IInv, Sequencing
  <2>4. requests # {} => "grace" \in Elems(runErr)
    BY <2>1, <2>2 DEF IInv, Sequencing
  <2> QED
    BY <2>3, <2>4 DEF StoreOutlivesUsers, Elems
<1> QED
  BY <1>1, Invariance, PTL

\* Run returns every failure, whenever it happened, once, and nothing else but an
\* expired grace period.
THEOREM EveryFailureReported == Spec => []FailuresReported
<1>1. IInv => FailuresReported
  <2>1. SUFFICES ASSUME IInv, main \in {"returned", "closed", "exited"}
                 PROVE  /\ Elems(runErr) \ {"grace"} = failed
                        /\ Distinct(runErr)
    BY DEF FailuresReported, Elems, Distinct
  <2>2. Elems(errCh) = {} /\ \A c \in Components : phase[c] = "returned"
    BY <2>1, EmptyElems DEF IInv, Sequencing
  <2>3. \A c \in Components : c \in failed <=> c \in Elems(runErr)
    BY <2>1, <2>2 DEF IInv, FailuresOnTheWay
  <2>4. Elems(runErr) \subseteq Components \cup {"grace"} /\ failed \subseteq Components
    BY <2>1 DEF IInv, TypeOK, Elems, Failures
  <2>5. Elems(runErr) \ {"grace"} = failed
    BY <2>3, <2>4, GraceApart
  <2> QED
    BY <2>1, <2>5 DEF IInv, FailuresOnTheWay
<1> QED
  BY <1>1, Invariance, PTL

\* A component that has a failure to send finds room in the channel.
SendReady == \A c \in Components : phase[c] = "reporting" => Len(errCh) < ErrChCapacity

\* The send on errCh never blocks, with three components and a capacity of three:
\* this is what wg.Wait, and so the end of the process, depends on.
THEOREM SendsNeverBlock == Spec => []SendReady
<1>1. IInv => SendReady
  <2>1. SUFFICES ASSUME IInv, NEW c \in Components, phase[c] = "reporting",
                        ~(Len(errCh) < 3)
                 PROVE  FALSE
    BY DEF SendReady, ErrChCapacity
  <2>2. Components \subseteq {"http", "worker", "maintenance"}
    BY DEF Components, Loops
  <2>3. errCh \in Seq(Components) /\ Len(errCh) \in Nat /\ Distinct(errCh)
    BY <2>1, LenProperties DEF IInv, TypeOK, FailuresOnTheWay
  <2>4. 1 \in DOMAIN errCh /\ 2 \in DOMAIN errCh /\ 3 \in DOMAIN errCh
    BY <2>1, <2>3
  <2>5. /\ errCh[1] \in Components /\ errCh[2] \in Components /\ errCh[3] \in Components
        /\ errCh[1] # errCh[2] /\ errCh[1] # errCh[3] /\ errCh[2] # errCh[3]
    BY <2>3, <2>4 DEF Distinct
  <2>6. c \notin Elems(errCh)
    BY <2>1 DEF IInv, FailuresOnTheWay
  <2>7. c # errCh[1] /\ c # errCh[2] /\ c # errCh[3]
    BY <2>4, <2>6 DEF Elems
  <2> QED
    BY <2>2, <2>5, <2>7
<1> QED
  BY <1>1, Invariance, PTL
=============================================================================
