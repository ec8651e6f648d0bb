---------------------------- MODULE BenchGateway ----------------------------
(***************************************************************************)
(* The load generator against the gateway: every goroutine of Bench calls  *)
(* POST /v1/coordinate of a gateway that does what CoordinationLog says,   *)
(* which Gateway is shown to implement.  The connection may be lost at any *)
(* point, and the gateway then goes on with the request, or it may crash.  *)
(* Neither side calls again: the goroutine records what it saw, once.      *)
(***************************************************************************)
EXTENDS Bench

VARIABLES chain,   \* the gateway's log, each link named by its request
          outcome  \* what has become of each request at the gateway

Log == INSTANCE CoordinationLog WITH Requests <- Ids, Links <- Ids

allVars == <<benchVars, chain, outcome>>

SystemInit == Init /\ Log!LogInit

\* The request has left the load generator.
Sent(i) == at[i] \notin {"none", "spawned"} /\ i \notin panicked

\* Mutant: the gateway answers an error after the insert.
CallReturnsLate(i, a) ==
  /\ Answer(i, a)
  /\ CASE a.status = 200 /\ a.bundle  -> Log!Acknowledge(i)
       [] a.status = 200 /\ ~a.bundle -> Log!Orphan(i)
       [] a.status = 500 -> Log!Refuse(i) \/ Log!Orphan(i)
       [] a.status = 0   -> UNCHANGED <<chain, outcome>>

(***************************************************************************)
(* A call returns: with the bundle, with a 200 whose body breaks off, with *)
(* an error answered by the gateway, or without an answer, of which the    *)
(* gateway knows nothing.                                                  *)
(***************************************************************************)
CallReturns(i, a) ==
  /\ Answer(i, a)
  /\ CASE a.status = 200 /\ a.bundle  -> Log!Acknowledge(i)
       [] a.status = 200 /\ ~a.bundle -> Log!Orphan(i)
       [] a.status = 500 -> Log!Refuse(i)
       [] a.status = 0   -> UNCHANGED <<chain, outcome>>

\* The gateway on its own: it commits a request it was sent, or fails to
\* deliver what it answers, or is interrupted.
GatewayStep ==
  /\ \/ \E i \in Ids : /\ Sent(i)
                       /\ \/ Log!Commit(i) /\ chain' = Append(chain, i)
                          \/ Log!Orphan(i)
                          \/ Log!Refuse(i)
     \/ \E S \in SUBSET {i \in Ids : Sent(i)} : Log!Interrupt(S)
  /\ UNCHANGED benchVars

GeneratorStep ==
  /\ MainStep \/ \E i \in Ids : WorkerStep(i)
  /\ UNCHANGED <<chain, outcome>>

SystemNext == \/ GeneratorStep
              \/ GatewayStep
              \/ \E i \in Ids, a \in Answers : CallReturns(i, a)

SystemSpec == SystemInit /\ [][SystemNext]_allVars

----------------------------------------------------------------------------
LinksOf(i) == {k \in DOMAIN chain : chain[k] = i}

Recorded(i) == res[i] # None

\* What a goroutine was told is what the gateway did, and stays so: a 200 means
\* one link, also if its body broke off; an error status means none; and a call
\* that got no answer has one link at most, although nobody can tell
\* (bench main.go:191-214, gateway main.go:268-277).
AnswersTellTheTruth ==
  \A i \in Ids : Recorded(i) =>
    Cardinality(LinksOf(i)) \in CASE res[i].status = 200 -> {1}
                                  [] res[i].status = 500 -> {0}
                                  [] OTHER -> {0, 1}

\* The manifest can be checked against the ledger: the ledger has a row for each
\* success, and rows that are no success are errors in the manifest, so however
\* many answers were lost the number of rows lies between success_count and
\* total_requests (bench main.go:244-253).
ManifestBoundsLedger ==
  manifest # None /\ panicked = {} =>
    manifest.success <= Len(chain) /\ Len(chain) <= manifest.total

(***************************************************************************)
(* Why: a request has a link exactly from its commit on, one only, and     *)
(* what a goroutine was told is among the outcomes that nothing changes.   *)
(***************************************************************************)
HasLink(i) == \E k \in DOMAIN chain : chain[k] = i

OneLinkEach ==
  /\ \A k, l \in DOMAIN chain : chain[k] = chain[l] => k = l
  /\ \A i \in Ids : HasLink(i) <=> outcome[i] \in {"committed", "acknowledged", "orphaned"}

ToldTheOutcome ==
  \A i \in Ids :
    /\ ~Sent(i) => outcome[i] = "pending"
    /\ Recorded(i) /\ res[i].status = 200 => outcome[i] \in {"acknowledged", "orphaned"}
    /\ Recorded(i) /\ res[i].status = 500 => outcome[i] = "refused"

\* The two programs agree: the log, the outcomes at the gateway and what the
\* goroutines were told fit together, whatever is lost between them
\* (bench main.go:191-214, gateway main.go:268-277).
SystemInv == /\ BenchInv
             /\ Log!LogTypeOK
             /\ OneLinkEach
             /\ ToldTheOutcome
=============================================================================
