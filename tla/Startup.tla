------------------------------- MODULE Startup -------------------------------
(***************************************************************************)
(* Start-up of server processes on one database: app.Build migrates the    *)
(* schema (storage/sqlite/migrate.go) and seeds the reference data         *)
(* (storage/sqlite/seed.go) before it serves.  Several processes, of one   *)
(* release or of several, may start, fail, crash and be restarted at the   *)
(* same time.  Each migration and the seed are one transaction; what a     *)
(* process reads before them may be out of date when it runs them.         *)
(*                                                                         *)
(* The script of a migration is reduced to its checksum: the embedded      *)
(* files create tables, so a version that is applied cannot be applied     *)
(* again.  The seed is reduced to the accounts, which are the same for     *)
(* every process, and the term, whose code is configured.                  *)
(***************************************************************************)
EXTENDS Integers, Sequences, FiniteSets

CONSTANTS
  Processes,   \* process slots
  Ships,       \* [Processes -> checksums of the migrations its release embeds]
  TermCode,    \* [Processes -> the code configured for the seeded term]
  Normal,      \* [codes -> the code in lower case, without blanks]
  MaxCrashes   \* bound on the crashes

ASSUME StartupAssumption ==
  /\ Processes # {}
  /\ \A p \in Processes : Len(Ships[p]) \in Nat \ {0} /\ DOMAIN Ships[p] = 1..Len(Ships[p])
  /\ \A p \in Processes : TermCode[p] \in DOMAIN Normal
  /\ MaxCrashes \in Nat

VARIABLES
  schema,     \* schema_migrations: [applied versions -> checksum]
  accounts,   \* whether the seeded accounts exist
  terms,      \* the codes in the terms table
  processes,  \* [Processes -> [phase, applied]], applied as read by Migrate
  crashes     \* crashes so far

vars == <<schema, accounts, terms, processes, crashes>>

Phases == {"down", "loading", "migrating", "seeding", "inserting", "serving", "failed"}

Down == [phase |-> "down", applied |-> {}]

Init ==
  /\ schema = <<>>
  /\ accounts = FALSE
  /\ terms = {}
  /\ processes = [p \in Processes |-> Down]
  /\ crashes = 0

GoTo(p, phase) == processes' = [processes EXCEPT ![p].phase = phase]
-----------------------------------------------------------------------------
\* Build: the process is started, or started again after it failed.
Start(p) ==
  /\ processes[p].phase \in {"down", "failed"}
  /\ processes' = [processes EXCEPT ![p] = [phase |-> "loading", applied |-> {}]]
  /\ UNCHANGED <<schema, accounts, terms, crashes>>

\* Mutant: applied versions are not compared with the embedded files.
DriftUnnoticed(p) == FALSE

\* The database has a version the release does not ship, or with another
\* checksum.
Drift(p) ==
  ~ \A v \in DOMAIN schema : v <= Len(Ships[p]) /\ schema[v] = Ships[p][v]

\* loadAppliedMigrations and the checks on what it read.
LoadMigrations(p) ==
  /\ processes[p].phase = "loading"
  /\ \/ Drift(p) /\ GoTo(p, "failed")
     \/ /\ ~Drift(p)
        /\ processes' = [processes EXCEPT ![p] =
             [phase |-> "migrating", applied |-> DOMAIN schema]]
  /\ UNCHANGED <<schema, accounts, terms, crashes>>

\* The versions the process still has to apply.
Missing(p) == (1..Len(Ships[p])) \ processes[p].applied

\* Mutant: a version that another process applied is applied again.
ApplicableAlways(v) == TRUE

\* The script and the primary key refuse a version that is applied already.
Applicable(v) == v \notin DOMAIN schema

\* applyMigration of the lowest missing version.
ApplyMigration(p) ==
  \E v \in Missing(p) :
    /\ processes[p].phase = "migrating"
    /\ \A u \in Missing(p) : v <= u
    /\ \/ /\ Applicable(v)
          /\ schema' = [u \in DOMAIN schema \cup {v} |->
                          IF u = v THEN Ships[p][v] ELSE schema[u]]
          /\ processes' = [processes EXCEPT ![p].applied = @ \cup {v}]
       \/ ~Applicable(v) /\ GoTo(p, "failed") /\ UNCHANGED schema
    /\ UNCHANGED <<accounts, terms, crashes>>

Migrated(p) ==
  /\ processes[p].phase = "migrating" /\ Missing(p) = {}
  /\ GoTo(p, "seeding")
  /\ UNCHANGED <<schema, accounts, terms, crashes>>

\* Mutant: the lookup never finds the term.
TermFoundNever(p) == FALSE

\* FindTermByCode looks for the normalised code among the codes as stored.
TermFound(p) == Normal[TermCode[p]] \in terms

\* Mutant: a skipped seed is an outcome nothing continues from.
AfterLookupSkipped(p) == IF TermFound(p) THEN "skipped" ELSE "inserting"

\* The seed is skipped when the term is there.
AfterLookup(p) == IF TermFound(p) THEN "serving" ELSE "inserting"

\* Seed, before its transaction.
LookForTerm(p) ==
  /\ processes[p].phase = "seeding"
  /\ GoTo(p, AfterLookup(p))
  /\ UNCHANGED <<schema, accounts, terms, crashes>>

\* Mutant: existing accounts are no obstacle.
AccountsFreeAlways == TRUE

\* CreateUser refuses an e-mail address that exists.
AccountsFree == ~accounts

\* Seed: accounts, the term with its code as configured, and the catalogue,
\* in one transaction.
InsertSeed(p) ==
  /\ processes[p].phase = "inserting"
  /\ \/ /\ AccountsFree /\ TermCode[p] \notin terms
        /\ accounts' = TRUE
        /\ terms' = terms \cup {TermCode[p]}
        /\ GoTo(p, "serving")
     \/ /\ ~(AccountsFree /\ TermCode[p] \notin terms)
        /\ GoTo(p, "failed")
        /\ UNCHANGED <<accounts, terms>>
  /\ UNCHANGED <<schema, crashes>>

Crash(p) ==
  /\ crashes < MaxCrashes
  /\ processes[p].phase # "down"
  /\ processes' = [processes EXCEPT ![p] = Down]
  /\ crashes' = crashes + 1
  /\ UNCHANGED <<schema, accounts, terms>>

Step(p) ==
  Start(p) \/ LoadMigrations(p) \/ ApplyMigration(p) \/ Migrated(p) \/ LookForTerm(p) \/ InsertSeed(p)

Next == \E p \in Processes : Step(p) \/ Crash(p)

Spec == Init /\ [][Next]_vars

\* A process that is started runs on, and one that failed or crashed is
\* restarted by its supervisor.
FairSpec == Spec /\ \A p \in Processes : WF_vars(Step(p))
-----------------------------------------------------------------------------
Checksums == UNION {{Ships[p][v] : v \in DOMAIN Ships[p]} : p \in Processes}

TypeOK ==
  /\ DOMAIN schema \subseteq Nat /\ \A v \in DOMAIN schema : schema[v] \in Checksums
  /\ accounts \in BOOLEAN
  /\ terms \subseteq DOMAIN Normal
  /\ processes \in [Processes -> [phase : Phases, applied : SUBSET Nat]]
  /\ crashes \in 0..MaxCrashes

\* The first versions of the schema, with the checksums of p's release.
SchemaOf(p, versions) ==
  \A v \in versions : v \in 1..Len(Ships[p]) /\ v \in DOMAIN schema /\ schema[v] = Ships[p][v]

\* The schema never mixes releases and never skips a version, whatever starts
\* and crashes interleave: it is what some release ships, up to some version.
\* Each process decides what to apply on a list it read before.
SchemaOfOneRelease ==
  /\ \E p \in Processes : SchemaOf(p, DOMAIN schema)
  /\ \A v \in DOMAIN schema : \A u \in 1..v : u \in DOMAIN schema

\* A process that serves has every migration of its release applied with its
\* own checksum.
ServesOwnSchema ==
  \A p \in Processes :
    processes[p].phase \in {"seeding", "inserting", "serving"} => SchemaOf(p, 1..Len(Ships[p]))

\* The reference data is inserted once, by whichever process comes first, also
\* when processes with different term codes start together.
SeededOnce == Cardinality(terms) <= 1 /\ (accounts <=> terms # {})

\* Nothing but a schema of another release, or accounts beside which the lookup
\* does not find the term, keeps a process from serving: a process that lost a
\* race is let in when it starts again.  The lookup misses a term seeded under
\* another code, and one seeded under this very code when it is configured in
\* mixed case, as the code is stored as configured and looked up in lower case.
Refused(p) == Drift(p) \/ (accounts /\ Normal[TermCode[p]] \notin terms)

StartsUnlessRefused ==
  \A p \in Processes : <>(processes[p].phase = "serving" \/ Refused(p))
=============================================================================
