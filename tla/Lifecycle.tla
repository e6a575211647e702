------------------------------ MODULE Lifecycle ------------------------------
(***************************************************************************)
(* The life of one server process once it is built (app/app.go Run,        *)
(* cmd/server/main.go): the HTTP server, the worker and the maintenance    *)
(* loop in goroutines of their own, the main goroutine that waits for a    *)
(* signal or for the first failure and then winds the process up, and the  *)
(* requests in flight, whose contexts do not descend from the process's.   *)
(* What a loop does while it runs is module JobQueue's; here it runs, it   *)
(* stops because the process context is cancelled, or it fails.            *)
(***************************************************************************)
EXTENDS Naturals, Sequences, FiniteSets

CONSTANTS
  Requests,       \* requests that may be in flight
  WorkerEnabled   \* cfg.WorkerEnabled

ASSUME SettingAssumption == WorkerEnabled \in BOOLEAN

Loops == IF WorkerEnabled THEN {"worker", "maintenance"} ELSE {}
Components == {"http"} \cup Loops

VARIABLES
  phase,        \* of each component's goroutine
  main,         \* where the main goroutine is
  signalled,    \* ctx is cancelled (SIGINT or SIGTERM)
  inShutdown,   \* server.Shutdown has been called
  requests,     \* requests in flight
  errCh,        \* failures sent and not yet received
  runErr,       \* what Run is going to return
  storeOpen,    \* the database pool is not closed
  failed        \* history: the components that failed

vars == <<phase, main, signalled, inShutdown, requests, errCh, runErr, storeOpen, failed>>

Failures == Components \cup {"grace"}

Init ==
  /\ phase = [c \in Components |-> "starting"]
  /\ main = "selecting"
  /\ signalled = FALSE
  /\ inShutdown = FALSE
  /\ requests = {}
  /\ errCh = <<>>
  /\ runErr = <<>>
  /\ storeOpen = TRUE
  /\ failed = {}
-----------------------------------------------------------------------------
(* The components. *)

Move(c, from, to) == phase[c] = from /\ phase' = [phase EXCEPT ![c] = to]

\* The listener is up, or RecoverStaleJobs is done; maintenance starts at once.
Serve(c) ==
  /\ c = "http" => ~inShutdown
  /\ Move(c, "starting", "running")
  /\ UNCHANGED <<main, signalled, inShutdown, requests, errCh, runErr, storeOpen, failed>>

\* A component stops because it is told to: ListenAndServe returns
\* ErrServerClosed, a loop sees ctx.Done or a statement refused with Canceled.
Stop(c) ==
  /\ IF c = "http" THEN inShutdown ELSE signalled
  /\ phase[c] \in {"starting", "running"}
  /\ phase' = [phase EXCEPT ![c] = "returned"]
  /\ UNCHANGED <<main, signalled, inShutdown, requests, errCh, runErr, storeOpen, failed>>

\* A component fails: the listener cannot be opened or breaks down, the recovery
\* at the start of the worker fails (later the worker logs and goes on), or any
\* statement of maintenance does.
Fail(c) ==
  /\ c = "http" => ~inShutdown
  /\ c = "worker" => phase[c] = "starting"
  /\ phase[c] \in {"starting", "running"}
  /\ phase' = [phase EXCEPT ![c] = "reporting"]
  /\ failed' = failed \cup {c}
  /\ UNCHANGED <<main, signalled, inShutdown, requests, errCh, runErr, storeOpen>>

\* Mutant: room for the one failure that select receives.
ErrChCapacityOne == 1

ErrChCapacity == 3

\* errCh <- err, and wg.Done.
Report(c) ==
  /\ Len(errCh) < ErrChCapacity
  /\ Move(c, "reporting", "returned")
  /\ errCh' = Append(errCh, c)
  /\ UNCHANGED <<main, signalled, inShutdown, requests, runErr, storeOpen, failed>>

Accept(r) ==
  /\ phase["http"] = "running" /\ ~inShutdown
  /\ r \notin requests
  /\ requests' = requests \cup {r}
  /\ UNCHANGED <<phase, main, signalled, inShutdown, errCh, runErr, storeOpen, failed>>

Respond(r) ==
  /\ r \in requests /\ main # "exited"
  /\ requests' = requests \ {r}
  /\ UNCHANGED <<phase, main, signalled, inShutdown, errCh, runErr, storeOpen, failed>>
-----------------------------------------------------------------------------
(* The main goroutine. *)

\* SIGINT or SIGTERM; NotifyContext swallows any further one.
Signal ==
  /\ ~signalled /\ main # "exited"
  /\ signalled' = TRUE
  /\ UNCHANGED <<phase, main, inShutdown, requests, errCh, runErr, storeOpen, failed>>

\* select, and the call of server.Shutdown, which closes the listener first.
\* When both cases are ready either is taken.
Select ==
  /\ main = "selecting"
  /\ \/ signalled /\ UNCHANGED <<errCh, runErr>>
     \/ errCh # <<>> /\ runErr' = <<Head(errCh)>> /\ errCh' = Tail(errCh)
  /\ main' = "draining"
  /\ inShutdown' = TRUE
  /\ UNCHANGED <<phase, signalled, requests, storeOpen, failed>>

\* server.Shutdown returns: no request is in flight, or the grace is over.
Drained ==
  /\ main = "draining" /\ requests = {}
  /\ main' = "waiting"
  /\ UNCHANGED <<phase, signalled, inShutdown, requests, errCh, runErr, storeOpen, failed>>

\* Mutant: the expired grace period is sent to errCh like a component's failure.
GraceExpiresSent ==
  /\ main = "draining" /\ requests # {}
  /\ main' = "waiting"
  /\ errCh' = Append(errCh, "grace")
  /\ UNCHANGED <<phase, signalled, inShutdown, requests, runErr, storeOpen, failed>>

GraceExpires ==
  /\ main = "draining" /\ requests # {}
  /\ main' = "waiting"
  /\ runErr' = Append(runErr, "grace")
  /\ UNCHANGED <<phase, signalled, inShutdown, requests, errCh, storeOpen, failed>>

\* Mutant: the HTTP server's goroutine alone is waited for.
AllReturnedHttpOnly == phase["http"] = "returned"

\* wg.Wait.
AllReturned == \A c \in Components : phase[c] = "returned"

\* Mutant: the failures still in the channel are not read.
CollectedNone == runErr

\* The failures nobody received yet are joined to the first.
Collected == runErr \o errCh

Return ==
  /\ main = "waiting"
  /\ AllReturned
  /\ runErr' = Collected
  /\ errCh' = <<>>
  /\ main' = "returned"
  /\ UNCHANGED <<phase, signalled, inShutdown, requests, storeOpen, failed>>

\* The deferred Close of main.
CloseStore ==
  /\ main = "returned"
  /\ storeOpen' = FALSE
  /\ main' = "closed"
  /\ UNCHANGED <<phase, signalled, inShutdown, requests, errCh, runErr, failed>>

\* The process ends, and with it what is still in flight.
Exit ==
  /\ main = "closed"
  /\ main' = "exited"
  /\ requests' = {}
  /\ UNCHANGED <<phase, signalled, inShutdown, errCh, runErr, storeOpen, failed>>

Component(c) == Serve(c) \/ Stop(c) \/ Report(c)
Main == Select \/ Drained \/ GraceExpires \/ Return \/ CloseStore \/ Exit

Next ==
  \/ \E c \in Components : Component(c) \/ Fail(c)
  \/ \E r \in Requests : Accept(r) \/ Respond(r)
  \/ Signal
  \/ Main

Spec == Init /\ [][Next]_vars

\* The scheduler runs every goroutine that can go on, and the grace timer fires.
\* Signals, failures, new requests and answers are not owed.
FairSpec == Spec /\ WF_vars(Main) /\ \A c \in Components : WF_vars(Component(c))
-----------------------------------------------------------------------------
TypeOK ==
  /\ phase \in [Components -> {"starting", "running", "reporting", "returned"}]
  /\ main \in {"selecting", "draining", "waiting", "returned", "closed", "exited"}
  /\ signalled \in BOOLEAN /\ inShutdown \in BOOLEAN /\ storeOpen \in BOOLEAN
  /\ requests \subseteq Requests
  /\ errCh \in Seq(Components)
  /\ runErr \in Seq(Failures)
  /\ failed \subseteq Components

\* The database is closed under nobody: when it is, the worker, the maintenance
\* loop and the listener have returned, and a request that is still in flight is
\* one that outlived the grace period, which the exit status reports.
StoreOutlivesUsers ==
  ~storeOpen => /\ \A c \in Components : phase[c] = "returned"
                /\ requests # {} => \E i \in DOMAIN runErr : runErr[i] = "grace"

\* Every component that failed, whenever it did (before the select, between the
\* select and wg.Wait, or at the same time as a signal), is in what Run returns,
\* once, and nothing else is but an expired grace period.
FailuresReported ==
  main \in {"returned", "closed", "exited"} =>
    /\ {runErr[i] : i \in DOMAIN runErr} \ {"grace"} = failed
    /\ \A i, k \in DOMAIN runErr : runErr[i] = runErr[k] => i = k

\* A process that is told to stop does stop, whatever has failed before or fails
\* while it stops and even if a request never answers: no goroutine blocks on
\* errCh and nobody waits for a component that is not told.  (A failure without a
\* signal is not enough: the loops do not hear of it and wg.Wait waits for them.)
StopsWhenTold == signalled ~> main = "exited"

\* app.go:195-196 "until the context is cancelled, then shuts down within the
\* configured grace period": a shutdown once begun comes to its end.
ShutdownCompletes == inShutdown ~> main = "exited"
=============================================================================
