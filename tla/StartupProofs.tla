---------------------------- MODULE StartupProofs ----------------------------
(***************************************************************************)
(* Proofs about start-up: the schema is always a prefix of one release's   *)
(* migrations, a process that serves finds its own, and the reference data *)
(* is inserted once.                                                       *)
(*                                                                         *)
(* The invariant adds what a process in the middle of Migrate may rely on: *)
(* the list it read is out of date at worst, never wrong (LoadedTrue).     *)
(***************************************************************************)
EXTENDS Startup, FiniteSetTheorems, TLAPS

\* The versions a process believes applied are, with its own checksums.
LoadedTrue ==
  \A p \in Processes :
    processes[p].phase = "migrating" => SchemaOf(p, processes[p].applied)

IInv == TypeOK /\ SchemaOfOneRelease /\ LoadedTrue /\ ServesOwnSchema

ProcessType == [phase : Phases, applied : SUBSET Nat]
-----------------------------------------------------------------------------
\* The process changes its phase only.
LEMMA GoToEffect ==
  ASSUME TypeOK, NEW p \in Processes, NEW phase \in Phases, GoTo(p, phase)
  PROVE  /\ processes' \in [Processes -> ProcessType]
         /\ processes'[p].phase = phase /\ processes'[p].applied = processes[p].applied
         /\ \A q \in Processes \ {p} : processes'[q] = processes[q]
<1> DEFINE s == [processes[p] EXCEPT !.phase = phase]
<1>1. processes \in [Processes -> ProcessType] /\ processes[p] \in ProcessType
  BY DEF TypeOK, ProcessType
<1>2. s \in ProcessType
  BY <1>1, Zenon DEF ProcessType
<1>3. s.phase = phase /\ s.applied = processes[p].applied
  BY <1>1 DEF ProcessType
<1>4. processes' = [processes EXCEPT ![p] = s]
  BY DEF GoTo
<1> HIDE DEF s
<1> QED
  BY <1>1, <1>2, <1>3, <1>4

\* The schema only grows, and what is applied keeps its checksum.
Grows ==
  /\ DOMAIN schema \subseteq DOMAIN schema'
  /\ \A v \in DOMAIN schema : schema'[v] = schema[v]

\* What is a schema of p's release stays one.
LEMMA SchemaStays ==
  ASSUME NEW p, NEW versions, Grows, SchemaOf(p, versions)
  PROVE  \A v \in versions : v \in 1..Len(Ships[p]) /\ v \in DOMAIN schema' /\ schema'[v] = Ships[p][v]
BY DEF Grows, SchemaOf

\* A step of process p that keeps the schema keeps the invariant, if what p relies
\* on afterwards is true.
LEMMA ProcessStep ==
  ASSUME IInv, NEW p \in Processes, schema' = schema,
         processes' \in [Processes -> ProcessType],
         \A q \in Processes \ {p} : processes'[q] = processes[q],
         accounts' \in BOOLEAN, terms' \subseteq DOMAIN Normal, crashes' \in 0..MaxCrashes,
         processes'[p].phase = "migrating" => SchemaOf(p, processes'[p].applied),
         processes'[p].phase \in {"seeding", "inserting", "serving"} => SchemaOf(p, 1..Len(Ships[p]))
  PROVE  IInv'
<1>0. TypeOK /\ SchemaOfOneRelease /\ LoadedTrue /\ ServesOwnSchema
  BY DEF IInv
<1>1. TypeOK'
  BY <1>0 DEF TypeOK, ProcessType
<1>2. SchemaOfOneRelease'
  BY <1>0 DEF SchemaOfOneRelease, SchemaOf
<1>3. LoadedTrue'
  <2>1. SUFFICES ASSUME NEW q \in Processes, processes'[q].phase = "migrating"
                 PROVE  SchemaOf(q, processes'[q].applied)
    BY DEF LoadedTrue, SchemaOf
  <2>2. CASE q = p
    BY <2>1, <2>2
  <2>3. CASE q # p
    <3>1. processes'[q] = processes[q]
      BY <2>3
    <3> QED
      BY <1>0, <2>1, <3>1 DEF LoadedTrue
  <2> QED
    BY <2>2, <2>3
<1>4. ServesOwnSchema'
  <2>1. SUFFICES ASSUME NEW q \in Processes,
                        processes'[q].phase \in {"seeding", "inserting", "serving"}
                 PROVE  SchemaOf(q, 1..Len(Ships[q]))
    BY DEF ServesOwnSchema, SchemaOf
  <2>2. CASE q = p
    BY <2>1, <2>2
  <2>3. CASE q # p
    <3>1. processes'[q] = processes[q]
      BY <2>3
    <3> QED
      BY <1>0, <2>1, <3>1 DEF ServesOwnSchema
  <2> QED
    BY <2>2, <2>3
<1> QED
  BY <1>1, <1>2, <1>3, <1>4 DEF IInv

\* Every version in the schema is a positive number.
LEMMA Versions ==
  ASSUME SchemaOfOneRelease
  PROVE  \A v \in DOMAIN schema : v \in Nat \ {0}
<1>1. PICK p \in Processes : SchemaOf(p, DOMAIN schema)
  BY DEF SchemaOfOneRelease
<1> QED
  BY <1>1, StartupAssumption DEF SchemaOf

\* The version a process applies is the one that follows those in the schema, and
\* all those are its own.
LEMMA NextVersion ==
  ASSUME IInv, NEW p \in Processes, processes[p].phase = "migrating",
         NEW v \in Missing(p), \A u \in Missing(p) : v <= u, v \notin DOMAIN schema
  PROVE  /\ v \in 1..Len(Ships[p])
         /\ \A u \in 1..(v - 1) : u \in processes[p].applied
         /\ SchemaOf(p, DOMAIN schema)
         /\ \A u \in 1..(v - 1) : u \in DOMAIN schema
<1>1. v \in 1..Len(Ships[p]) /\ v \notin processes[p].applied /\ Len(Ships[p]) \in Nat
  BY StartupAssumption DEF Missing
<1>2. ASSUME NEW u \in 1..(v - 1) PROVE u \in processes[p].applied
  <2>1. u \in 1..Len(Ships[p]) /\ ~(v <= u)
    BY <1>1
  <2> QED
    BY <2>1 DEF Missing
<1>3. SchemaOf(p, processes[p].applied)
  BY DEF IInv, LoadedTrue
<1>4. \A u \in DOMAIN schema : u \in 1..(v - 1)
  <2>1. SUFFICES ASSUME NEW u \in DOMAIN schema, u \notin 1..(v - 1) PROVE FALSE
    OBVIOUS
  <2>2. u \in Nat \ {0}
    BY Versions DEF IInv
  <2>3. v \in 1..u
    BY <1>1, <2>1, <2>2
  <2> QED
    BY <2>1, <2>3 DEF IInv, SchemaOfOneRelease
<1> QED
  BY <1>1, <1>2, <1>3, <1>4 DEF SchemaOf
-----------------------------------------------------------------------------
\* The invariant is inductive.
LEMMA Inductive ==
  ASSUME IInv, [Next]_vars
  PROVE  IInv'
<1>0. /\ TypeOK /\ SchemaOfOneRelease /\ LoadedTrue /\ ServesOwnSchema
      /\ processes \in [Processes -> ProcessType]
      /\ accounts \in BOOLEAN /\ terms \subseteq DOMAIN Normal /\ crashes \in 0..MaxCrashes
  BY DEF IInv, TypeOK, ProcessType
<1>1. ASSUME NEW p \in Processes, Start(p) PROVE IInv'
  <2> DEFINE s == [phase |-> "loading", applied |-> {}]
  <2>1. s \in ProcessType /\ s.phase = "loading"
    BY DEF ProcessType, Phases
  <2>2. /\ processes' = [processes EXCEPT ![p] = s] /\ schema' = schema
        /\ accounts' = accounts /\ terms' = terms /\ crashes' = crashes
    BY <1>1 DEF Start
  <2> HIDE DEF s
  <2>3. /\ processes' \in [Processes -> ProcessType] /\ processes'[p].phase = "loading"
        /\ \A q \in Processes \ {p} : processes'[q] = processes[q]
    BY <1>0, <2>1, <2>2
  <2> QED
    BY <1>0, <2>2, <2>3, ProcessStep
<1>2. ASSUME NEW p \in Processes, LoadMigrations(p) PROVE IInv'
  <2>1. schema' = schema /\ accounts' = accounts /\ terms' = terms /\ crashes' = crashes
    BY <1>2 DEF LoadMigrations
  <2>2. CASE GoTo(p, "failed")
    <3>1. /\ processes' \in [Processes -> ProcessType] /\ processes'[p].phase = "failed"
          /\ \A q \in Processes \ {p} : processes'[q] = processes[q]
      BY <1>0, <2>2, GoToEffect DEF Phases
    <3> QED
      BY <1>0, <2>1, <3>1, ProcessStep
  <2>3. CASE /\ ~Drift(p)
             /\ processes' = [processes EXCEPT ![p] = [phase |-> "migrating", applied |-> DOMAIN schema]]
    <3> DEFINE s == [phase |-> "migrating", applied |-> DOMAIN schema]
    <3>1. s \in ProcessType /\ s.phase = "migrating" /\ s.applied = DOMAIN schema
      BY <1>0 DEF TypeOK, ProcessType, Phases
    <3>2. processes' = [processes EXCEPT ![p] = s]
      BY <2>3
    <3> HIDE DEF s
    <3>3. /\ processes' \in [Processes -> ProcessType] /\ processes'[p] = s
          /\ \A q \in Processes \ {p} : processes'[q] = processes[q]
      BY <1>0, <3>1, <3>2
    <3>4. SchemaOf(p, DOMAIN schema)
      <4>1. \A v \in DOMAIN schema : v \in Nat \ {0}
        BY <1>0, Versions
      <4> QED
        BY <2>3, <4>1, StartupAssumption DEF Drift, SchemaOf
    <3> QED
      BY <1>0, <2>1, <3>1, <3>3, <3>4, ProcessStep
  <2> QED
    BY <1>2, <2>2, <2>3 DEF LoadMigrations
<1>3. ASSUME NEW p \in Processes, ApplyMigration(p) PROVE IInv'
  <2>1. PICK v \in Missing(p) :
          /\ processes[p].phase = "migrating"
          /\ \A u \in Missing(p) : v <= u
          /\ \/ /\ v \notin DOMAIN schema
                /\ schema' = [u \in DOMAIN schema \cup {v} |-> IF u = v THEN Ships[p][v] ELSE schema[u]]
                /\ processes' = [processes EXCEPT ![p].applied = @ \cup {v}]
             \/ GoTo(p, "failed") /\ schema' = schema
          /\ accounts' = accounts /\ terms' = terms /\ crashes' = crashes
    BY <1>3 DEF ApplyMigration, Applicable
  <2>2. CASE GoTo(p, "failed") /\ schema' = schema
    <3>1. /\ processes' \in [Processes -> ProcessType] /\ processes'[p].phase = "failed"
          /\ \A q \in Processes \ {p} : processes'[q] = processes[q]
      BY <1>0, <2>2, GoToEffect DEF Phases
    <3> QED
      BY <1>0, <2>1, <2>2, <3>1, ProcessStep
  <2>3. CASE /\ v \notin DOMAIN schema
             /\ schema' = [u \in DOMAIN schema \cup {v} |-> IF u = v THEN Ships[p][v] ELSE schema[u]]
             /\ processes' = [processes EXCEPT ![p].applied = @ \cup {v}]
    <3>1. /\ v \in 1..Len(Ships[p]) /\ Len(Ships[p]) \in Nat
          /\ SchemaOf(p, DOMAIN schema)
          /\ \A u \in 1..(v - 1) : u \in DOMAIN schema
      BY <2>1, <2>3, NextVersion, StartupAssumption
    <3>2. /\ DOMAIN schema' = DOMAIN schema \cup {v} /\ schema'[v] = Ships[p][v]
          /\ \A u \in DOMAIN schema : schema'[u] = schema[u]
      BY <2>3
    <3>3. Grows
      BY <3>2 DEF Grows
    <3> DEFINE s == [processes[p] EXCEPT !.applied = @ \cup {v}]
    <3>4. /\ s \in ProcessType /\ s.phase = "migrating"
          /\ s.applied = processes[p].applied \cup {v}
      <4>1. processes[p] \in ProcessType /\ processes[p].applied \cup {v} \in SUBSET Nat
        BY <1>0, <3>1 DEF ProcessType
      <4>2. s \in ProcessType
        BY <4>1, Zenon DEF ProcessType
      <4> QED
        BY <2>1, <4>1, <4>2 DEF ProcessType
    <3>5. processes' = [processes EXCEPT ![p] = s]
      BY <2>3
    <3> HIDE DEF s
    <3>6. /\ processes' \in [Processes -> ProcessType] /\ processes'[p] = s
          /\ \A q \in Processes \ {p} : processes'[q] = processes[q]
      BY <1>0, <3>4, <3>5
    <3>7. TypeOK'
      <4>1. Ships[p][v] \in Checksums
        BY <3>1, StartupAssumption DEF Checksums
      <4>2. DOMAIN schema' \subseteq Nat /\ \A u \in DOMAIN schema' : schema'[u] \in Checksums
        BY <1>0, <3>1, <3>2, <4>1 DEF TypeOK
      <4> QED
        BY <1>0, <2>1, <3>6, <4>2 DEF TypeOK, ProcessType
    <3>8. SchemaOfOneRelease'
      <4>1. \A u \in DOMAIN schema' :
              u \in 1..Len(Ships[p]) /\ u \in DOMAIN schema' /\ schema'[u] = Ships[p][u]
        BY <3>1, <3>2 DEF SchemaOf
      <4>2. ASSUME NEW w \in DOMAIN schema', NEW u \in 1..w PROVE u \in DOMAIN schema'
        <5>1. CASE w = v
          BY <3>1, <3>2, <5>1
        <5>2. CASE w # v
          BY <1>0, <3>2, <5>2 DEF SchemaOfOneRelease
        <5> QED
          BY <5>1, <5>2
      <4> QED
        BY <4>1, <4>2 DEF SchemaOfOneRelease, SchemaOf
    <3>9. LoadedTrue'
      <4>1. SUFFICES ASSUME NEW q \in Processes, processes'[q].phase = "migrating",
                            NEW u \in processes'[q].applied
                     PROVE  u \in 1..Len(Ships[q]) /\ u \in DOMAIN schema' /\ schema'[u] = Ships[q][u]
        BY DEF LoadedTrue, SchemaOf
      <4>2. CASE q = p
        <5>1. SchemaOf(p, processes[p].applied)
          BY <1>0, <2>1 DEF LoadedTrue
        <5>2. u \in processes[p].applied \/ u = v
          BY <3>4, <3>6, <4>1, <4>2
        <5> QED
          BY <3>1, <3>2, <4>2, <5>1, <5>2 DEF SchemaOf
      <4>3. CASE q # p
        <5>1. SchemaOf(q, processes[q].applied) /\ u \in processes[q].applied
          BY <1>0, <3>6, <4>1, <4>3 DEF LoadedTrue
        <5> QED
          BY <3>3, <5>1, SchemaStays
      <4> QED
        BY <4>2, <4>3
    <3>10. ServesOwnSchema'
      <4>1. SUFFICES ASSUME NEW q \in Processes,
                            processes'[q].phase \in {"seeding", "inserting", "serving"},
                            NEW u \in 1..Len(Ships[q])
                     PROVE  u \in DOMAIN schema' /\ schema'[u] = Ships[q][u]
        BY DEF ServesOwnSchema, SchemaOf
      <4>2. q # p
        BY <3>4, <3>6, <4>1
      <4>3. SchemaOf(q, 1..Len(Ships[q]))
        BY <1>0, <3>6, <4>1, <4>2 DEF ServesOwnSchema
      <4> QED
        BY <3>3, <4>3, SchemaStays
    <3> QED
      BY <3>7, <3>8, <3>9, <3>10 DEF IInv
  <2> QED
    BY <2>1, <2>2, <2>3
<1>4. ASSUME NEW p \in Processes, Migrated(p) PROVE IInv'
  <2>1. /\ schema' = schema /\ accounts' = accounts /\ terms' = terms /\ crashes' = crashes
        /\ processes[p].phase = "migrating" /\ Missing(p) = {} /\ GoTo(p, "seeding")
    BY <1>4 DEF Migrated
  <2>2. /\ processes' \in [Processes -> ProcessType] /\ processes'[p].phase = "seeding"
        /\ \A q \in Processes \ {p} : processes'[q] = processes[q]
    BY <1>0, <2>1, GoToEffect DEF Phases
  <2>3. SchemaOf(p, 1..Len(Ships[p]))
    <3>1. SchemaOf(p, processes[p].applied)
      BY <1>0, <2>1 DEF LoadedTrue
    <3>2. \A v \in 1..Len(Ships[p]) : v \in processes[p].applied
      BY <2>1 DEF Missing
    <3> QED
      BY <3>1, <3>2 DEF SchemaOf
  <2> QED
    BY <1>0, <2>1, <2>2, <2>3, ProcessStep
<1>5. ASSUME NEW p \in Processes, LookForTerm(p) PROVE IInv'
  <2>1. /\ schema' = schema /\ accounts' = accounts /\ terms' = terms /\ crashes' = crashes
        /\ processes[p].phase = "seeding"
        /\ GoTo(p, "serving") \/ GoTo(p, "inserting")
    BY <1>5 DEF LookForTerm, AfterLookup
  <2>2. /\ processes' \in [Processes -> ProcessType]
        /\ processes'[p].phase \in {"inserting", "serving"}
        /\ \A q \in Processes \ {p} : processes'[q] = processes[q]
    BY <1>0, <2>1, GoToEffect DEF Phases
  <2>3. SchemaOf(p, 1..Len(Ships[p]))
    BY <1>0, <2>1 DEF ServesOwnSchema
  <2> QED
    BY <1>0, <2>1, <2>2, <2>3, ProcessStep
<1>6. ASSUME NEW p \in Processes, InsertSeed(p) PROVE IInv'
  <2>1. /\ schema' = schema /\ crashes' = crashes /\ processes[p].phase = "inserting"
        /\ GoTo(p, "serving") \/ GoTo(p, "failed")
        /\ accounts' \in BOOLEAN /\ terms' \subseteq DOMAIN Normal
    BY <1>0, <1>6, StartupAssumption DEF InsertSeed
  <2>2. /\ processes' \in [Processes -> ProcessType]
        /\ processes'[p].phase \in {"serving", "failed"}
        /\ \A q \in Processes \ {p} : processes'[q] = processes[q]
    BY <1>0, <2>1, GoToEffect DEF Phases
  <2>3. SchemaOf(p, 1..Len(Ships[p]))
    BY <1>0, <2>1 DEF ServesOwnSchema
  <2> QED
    BY <1>0, <2>1, <2>2, <2>3, ProcessStep
<1>7. ASSUME NEW p \in Processes, Crash(p) PROVE IInv'
  <2>1. Down \in ProcessType /\ Down.phase = "down"
    BY DEF Down, ProcessType, Phases
  <2>2. /\ processes' = [processes EXCEPT ![p] = Down] /\ schema' = schema
        /\ accounts' = accounts /\ terms' = terms
    BY <1>7 DEF Crash
  <2>3. crashes' \in 0..MaxCrashes
    BY <1>0, <1>7, StartupAssumption DEF Crash
  <2>4. /\ processes' \in [Processes -> ProcessType] /\ processes'[p].phase = "down"
        /\ \A q \in Processes \ {p} : processes'[q] = processes[q]
    BY <1>0, <2>1, <2>2
  <2> QED
    BY <1>0, <2>2, <2>3, <2>4, ProcessStep
<1>8. CASE UNCHANGED vars
  BY <1>0, <1>8 DEF vars, IInv, TypeOK, SchemaOfOneRelease, LoadedTrue, ServesOwnSchema, SchemaOf
<1> QED
  BY <1>1, <1>2, <1>3, <1>4, <1>5, <1>6, <1>7, <1>8 DEF Next, Step

\* The inductive invariant holds of every behaviour.
LEMMA Invariance == Spec => []IInv
<1>1. Init => IInv
  <2>1. SUFFICES ASSUME Init PROVE IInv
    OBVIOUS
  <2>2. DOMAIN schema = {}
    BY <2>1 DEF Init
  <2>3. Down \in ProcessType /\ Down.phase = "down"
    BY DEF Down, ProcessType, Phases
  <2>4. TypeOK
    <3>1. crashes \in 0..MaxCrashes
      BY <2>1, StartupAssumption DEF Init
    <3>2. processes \in [Processes -> ProcessType]
      BY <2>1, <2>3 DEF Init
    <3>3. accounts \in BOOLEAN /\ terms \subseteq DOMAIN Normal
      BY <2>1 DEF Init
    <3> QED
      BY <2>2, <3>1, <3>2, <3>3 DEF TypeOK, ProcessType
  <2>5. SchemaOfOneRelease
    BY <2>2, StartupAssumption DEF SchemaOfOneRelease, SchemaOf
  <2>6. LoadedTrue /\ ServesOwnSchema
    BY <2>1, <2>3 DEF Init, LoadedTrue, ServesOwnSchema
  <2> QED
    BY <2>4, <2>5, <2>6 DEF IInv
<1>2. IInv /\ [Next]_vars => IInv'
  BY Inductive
<1> QED
  BY <1>1, <1>2, PTL DEF Spec

\* Every reachable state is well typed.
THEOREM TypeCorrect == Spec => []TypeOK
<1>1. IInv => TypeOK
  BY DEF IInv
<1> QED
  BY <1>1, Invariance, PTL

\* For any number of processes and releases, the schema is what one release ships,
\* up to some version, without gaps.
THEOREM SchemaNeverMixed == Spec => []SchemaOfOneRelease
<1>1. IInv => SchemaOfOneRelease
  BY DEF IInv
<1> QED
  BY <1>1, Invariance, PTL

\* A process past Migrate has all its migrations, with its own checksums, for as
\* long as it runs.
THEOREM ServingFindsSchema == Spec => []ServesOwnSchema
<1>1. IInv => ServesOwnSchema
  BY DEF IInv
<1> QED
  BY <1>1, Invariance, PTL

\* The reference data is inserted by one process only, whichever codes they have.
THEOREM OneSeed == Spec => []SeededOnce
<1>1. Init => SeededOnce
  BY FS_EmptySet DEF Init, SeededOnce
<1>2. SeededOnce /\ [Next]_vars => SeededOnce'
  <2>1. SUFFICES ASSUME SeededOnce, [Next]_vars PROVE SeededOnce'
    OBVIOUS
  <2>2. CASE UNCHANGED <<accounts, terms>>
    BY <2>1, <2>2 DEF SeededOnce
  <2>3. ASSUME NEW p \in Processes, InsertSeed(p), ~UNCHANGED <<accounts, terms>>
        PROVE  SeededOnce'
    <3>1. ~accounts /\ accounts' = TRUE /\ terms' = terms \cup {TermCode[p]}
      BY <2>3 DEF InsertSeed, AccountsFree
    <3>2. terms' = {TermCode[p]}
      BY <2>1, <3>1 DEF SeededOnce
    <3>3. Cardinality(terms') = 1
      BY <3>2, FS_Singleton
    <3> QED
      BY <3>1, <3>2, <3>3 DEF SeededOnce
  <2> QED
    BY <2>1, <2>2, <2>3
    DEF Next, Step, Start, LoadMigrations, ApplyMigration, Migrated, LookForTerm, Crash, vars
<1> QED
  BY <1>1, <1>2, PTL DEF Spec
=============================================================================
