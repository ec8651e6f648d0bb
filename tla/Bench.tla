------------------------------- MODULE Bench -------------------------------
(***************************************************************************)
(* The load generator (cmd/bench/main.go): the main goroutine, which       *)
(* starts one goroutine per request, in burst mode through a semaphore and *)
(* in fixed mode at every tick; the goroutines, which call the gateway,    *)
(* append to the shared results and write a CSV line; the wait group that  *)
(* main waits for; and the manifest computed from the results.             *)
(*                                                                         *)
(* The server is anything: a call returns one of Answers, or not yet.      *)
(***************************************************************************)
EXTENDS Integers, Sequences, FiniteSets, Functions

CONSTANTS Count,       \* -count in burst mode; bound: ticks in fixed mode
          Slots,       \* capacity of sem
          CorpusSizes, \* lengths the corpus may have
          Rates,       \* values of -tps in fixed mode
          Latencies,   \* latency_ms of a call
          None        \* no goroutine, no answer, no manifest

Ids == 0 .. Count - 1

ASSUME CountAssumption  == Count \in Nat
ASSUME SlotsAssumption  == Slots \in Nat \ {0}
ASSUME CorpusAssumption == CorpusSizes \subseteq Nat
ASSUME RatesAssumption  == Rates \subseteq Int
ASSUME LatencyAssumption == Latencies \subseteq Nat

VARIABLES mode,      \* -mode
          tps,       \* -tps, which only fixed mode looks at
          corpus,    \* len(transactions)
          main,      \* where main is
          next,      \* requests started: i
          sem,       \* slots taken
          wg,        \* the counter of the wait group
          at,        \* where each request's goroutine is
          res,       \* res[i]: what fireRequest returned
          resultsMu, \* the goroutine that holds it
          snapshot,  \* results as append found it
          results,   \* requests in the order they were appended
          csv,       \* csv[i]: lines handed to the file for request i
          panicked,  \* goroutines that are unwinding
          manifest   \* what was saved, or None

flags      == <<mode, tps, corpus>>
mainVars   == <<flags, main, next>>
recordVars == <<resultsMu, snapshot, results, csv>>
workerVars == <<at, res, recordVars, panicked>>
benchVars  == <<mainVars, sem, wg, workerVars, manifest>>

Modes == {"burst", "fixed", "other"}
Stages == {"none", "spawned", "calling", "answered", "appending", "appended",
           "unwinding", "released", "done"}

\* A transport error leaves the status 0; 500 stands for every status but 200;
\* bundle says whether the body of a 200 was decoded.
Answers ==
  [status : {0, 500}, bundle : {FALSE}, latency : Latencies] \cup
  [status : {200}, bundle : BOOLEAN, latency : Latencies]

ASSUME NoneAssumption == None \notin Nat /\ None \notin Answers

Running == main \notin {"done", "crashed"}

Init ==
  /\ mode \in Modes
  /\ tps \in IF mode = "fixed" THEN Rates ELSE {10}
  /\ corpus \in CorpusSizes
  /\ main = "loop"
  /\ next = 0
  /\ sem = 0
  /\ wg = 0
  /\ at = [i \in Ids |-> "none"]
  /\ res = [i \in Ids |-> None]
  /\ resultsMu = None
  /\ snapshot = [i \in Ids |-> <<>>]
  /\ results = <<>>
  /\ csv = [i \in Ids |-> 0]
  /\ panicked = {}
  /\ manifest = None

----------------------------------------------------------------------------
(* The main goroutine. *)

\* Mutant: wg.Add is forgotten.
SpawnUncounted == /\ at' = [at EXCEPT ![next] = "spawned"]
                  /\ wg' = wg
                  /\ next' = next + 1

\* One more goroutine, counted before it starts.
Spawn == /\ at' = [at EXCEPT ![next] = "spawned"]
         /\ wg' = wg + 1
         /\ next' = next + 1

\* Burst: wg.Add, then sem <- blocks while all slots are taken.
Fire ==
  /\ main = "loop" /\ mode = "burst" /\ next < Count
  /\ sem < Slots
  /\ sem' = sem + 1
  /\ Spawn
  /\ UNCHANGED <<flags, main, res, recordVars, panicked, manifest>>

\* time.Second / time.Duration(*tps) is a positive number of nanoseconds.
Ticks == tps \in 1 .. 1000000000

\* Fixed: the division by zero, or NewTicker with what it gives, panics.
NewTickerPanics ==
  /\ main = "loop" /\ mode = "fixed" /\ ~Ticks
  /\ main' = "crashed"
  /\ UNCHANGED <<flags, next, sem, wg, workerVars, manifest>>

\* Fixed: the transaction is picked by main, which an empty corpus kills.
Tick ==
  /\ main = "loop" /\ mode = "fixed" /\ Ticks /\ next < Count
  /\ \/ corpus # 0 /\ Spawn /\ UNCHANGED main
     \/ corpus = 0 /\ main' = "crashed" /\ UNCHANGED <<at, wg, next>>
  /\ UNCHANGED <<flags, sem, res, recordVars, panicked, manifest>>

\* All are fired, -duration is over, or the mode is unknown: main goes on to
\* wait for its goroutines, or with an unknown mode straight to the report.
EndLoop ==
  /\ main = "loop"
  /\ mode = "burst" => next = Count
  /\ mode = "fixed" => Ticks
  /\ main' = IF mode = "other" THEN "reporting" ELSE "draining"
  /\ UNCHANGED <<flags, next, sem, wg, workerVars, manifest>>

\* wg.Wait returns.
Drained ==
  /\ main = "draining" /\ wg = 0
  /\ main' = "reporting"
  /\ UNCHANGED <<flags, next, sem, wg, workerVars, manifest>>

----------------------------------------------------------------------------
(* The manifest. *)

\* Mutant: every status counts as a success.
AnyStatus(i) == res[i].status # 0

Succeeded(i) == res[i].status = 200

SucceededAt == {k \in DOMAIN results : Succeeded(results[k])}

Latency(k) == res[results[k]].latency

\* Mutant: the latencies are left as they are.
Unsorted(S) == Injection(1 .. Cardinality(S), S)

\* The orders in which sort.Slice may leave the results at the positions S: by
\* latency, those of the same latency in any order.
Ascending(S) ==
  {s \in Injection(1 .. Cardinality(S), S) :
     \A k, l \in DOMAIN s : k < l => Latency(s[k]) <= Latency(s[l])}

\* The 0-based index len * q / 100 of the sorted latencies, 0 if there are none.
Percentile(sorted, n, q) == IF n = 0 THEN 0 ELSE Latency(sorted[(n * q) \div 100 + 1])

Manifest(sorted) ==
  LET n == Cardinality(SucceededAt)
  IN [total   |-> Len(results),
      success |-> n,
      error   |-> Cardinality(DOMAIN results \ SucceededAt),
      p       |-> [q \in {50, 95, 99} |-> Percentile(sorted, n, q)]]

\* The file is written; if it cannot be created, main ends the same way.
Report ==
  /\ main = "reporting"
  /\ \E sorted \in Ascending(SucceededAt) : manifest' \in {Manifest(sorted), None}
  /\ main' = "done"
  /\ UNCHANGED <<flags, next, sem, wg, workerVars>>

----------------------------------------------------------------------------
(* The goroutine of request i. *)

Step(i, from, to) == Running /\ at[i] = from /\ at' = [at EXCEPT ![i] = to]

\* Mutant: the slot is given back at the start instead of by a defer.
BeginReleased(i) ==
  /\ Step(i, "spawned", "calling")
  /\ sem' = IF mode = "burst" THEN sem - 1 ELSE sem
  /\ UNCHANGED <<mainVars, wg, res, recordVars, panicked, manifest>>

\* In burst mode the goroutine picks the transaction: the index is taken modulo
\* the length of the corpus, and an empty one makes it panic.
Begin(i) ==
  /\ \/ /\ mode = "fixed" \/ corpus # 0
        /\ Step(i, "spawned", "calling")
        /\ UNCHANGED panicked
     \/ /\ mode = "burst" /\ corpus = 0
        /\ Step(i, "spawned", "unwinding")
        /\ panicked' = panicked \cup {i}
  /\ UNCHANGED <<mainVars, sem, wg, res, recordVars, manifest>>

\* fireRequest returns a.
Answer(i, a) ==
  /\ Step(i, "calling", "answered")
  /\ res' = [res EXCEPT ![i] = a]
  /\ UNCHANGED <<mainVars, sem, wg, recordVars, panicked, manifest>>

\* Mutant: results is appended to without the mutex.
AppendUnlocked(i) ==
  /\ Step(i, "answered", "appending")
  /\ resultsMu' = i
  /\ snapshot' = [snapshot EXCEPT ![i] = results]
  /\ UNCHANGED <<mainVars, sem, wg, res, results, csv, panicked, manifest>>

\* resultsMu is taken and results read, ...
LockResults(i) ==
  /\ resultsMu = None
  /\ Step(i, "answered", "appending")
  /\ resultsMu' = i
  /\ snapshot' = [snapshot EXCEPT ![i] = results]
  /\ UNCHANGED <<mainVars, sem, wg, res, results, csv, panicked, manifest>>

\* ... the longer slice stored and the mutex released.
AppendResult(i) ==
  /\ Step(i, "appending", "appended")
  /\ results' = Append(snapshot[i], i)
  /\ snapshot' = [snapshot EXCEPT ![i] = <<>>]
  /\ resultsMu' = None
  /\ UNCHANGED <<mainVars, sem, wg, res, csv, panicked, manifest>>

\* One write to the file, outside the mutex.
WriteCSVLine(i) ==
  /\ Step(i, "appended", "unwinding")
  /\ csv' = [csv EXCEPT ![i] = @ + 1]
  /\ UNCHANGED <<mainVars, sem, wg, res, resultsMu, snapshot, results, panicked, manifest>>

\* Mutant: a goroutine whose call failed keeps its slot.
ReleaseOnSuccess(i) ==
  /\ Step(i, "unwinding", "released")
  /\ sem' = IF mode = "burst" /\ i \notin panicked /\ Succeeded(i) THEN sem - 1 ELSE sem
  /\ UNCHANGED <<mainVars, wg, res, recordVars, panicked, manifest>>

\* The deferred calls, last one first: the slot is given back, ...
Release(i) ==
  /\ Step(i, "unwinding", "released")
  /\ sem' = IF mode = "burst" THEN sem - 1 ELSE sem
  /\ UNCHANGED <<mainVars, wg, res, recordVars, panicked, manifest>>

\* ... then the wait group told.
Done(i) ==
  /\ Step(i, "released", "done")
  /\ wg' = wg - 1
  /\ UNCHANGED <<mainVars, sem, res, recordVars, panicked, manifest>>

\* A panic that has run the deferred calls ends the process; main may have gone
\* on in the meantime.
Abort(i) ==
  /\ Running
  /\ i \in panicked /\ at[i] = "done"
  /\ main' = "crashed"
  /\ UNCHANGED <<flags, next, sem, wg, workerVars, manifest>>

----------------------------------------------------------------------------
MainStep == Fire \/ NewTickerPanics \/ Tick \/ EndLoop \/ Drained \/ Report

\* What a goroutine does on its own, the call apart.
WorkerStep(i) == \/ Begin(i) \/ LockResults(i) \/ AppendResult(i) \/ WriteCSVLine(i)
                 \/ Release(i) \/ Done(i) \/ Abort(i)

Next == \/ MainStep
        \/ \E i \in Ids : WorkerStep(i)
        \/ \E i \in Ids, a \in Answers : Answer(i, a)

Spec == Init /\ [][Next]_benchVars

(***************************************************************************)
(* Fairness: goroutines are scheduled, -duration runs out, and every call  *)
(* returns.  The last is not the load generator's doing, http.Post having  *)
(* no time-out; it is what the gateway promises (EveryRequestAnswered).    *)
(***************************************************************************)
MainFairness == /\ WF_benchVars(Fire)
                /\ WF_benchVars(NewTickerPanics \/ EndLoop \/ Drained \/ Report)

WorkerFairness(i) == /\ WF_benchVars(WorkerStep(i))
                     /\ WF_benchVars(\E a \in Answers : Answer(i, a))

FairSpec == Spec /\ MainFairness /\ \A i \in Ids : WorkerFairness(i)

----------------------------------------------------------------------------
\* Every variable has its type; the counters never go below zero.
BenchTypeOK ==
  /\ mode \in Modes /\ tps \in Int /\ corpus \in CorpusSizes
  /\ main \in {"loop", "draining", "reporting", "done", "crashed"}
  /\ next \in 0 .. Count
  /\ sem \in 0 .. Slots
  /\ wg \in Nat
  /\ at \in [Ids -> Stages]
  /\ res \in [Ids -> Answers \cup {None}]
  /\ resultsMu \in Ids \cup {None}
  /\ snapshot \in [Ids -> Seq(Ids)]
  /\ results \in Seq(Ids)
  /\ csv \in [Ids -> Nat]
  /\ panicked \in SUBSET Ids

\* The "concurrency limit" of burst mode: however the goroutines are scheduled
\* and whatever calls fail, no more than Slots calls are under way (main.go:110).
AtMostSlotsInFlight ==
  mode = "burst" => Cardinality({i \in Ids : at[i] = "calling"}) <= Slots

Started == 0 .. next - 1

\* When main goes past the wait group, every request it started, in burst mode
\* all that were asked for, has one result and one CSV line: no append is
\* overwritten by another and none is still to come (main.go:112-125, 142-151).
NothingLost ==
  main \in {"reporting", "done"} /\ panicked = {} =>
    /\ mode = "burst" => next = Count
    /\ Len(results) = next
    /\ \A i \in Started : csv[i] = 1 /\ \E k \in DOMAIN results : results[k] = i

Successes == {i \in Started : res[i] # None /\ Succeeded(i)}

\* As many requests, successes and errors as calls that ended so.
ManifestCounts ==
  manifest # None /\ panicked = {} =>
    /\ manifest.total = next
    /\ manifest.success = Cardinality(Successes)
    /\ manifest.error = Cardinality(Started \ Successes)

\* More than q% of the successes took v or less, and no fewer than the rest took v
\* or more.
Ranked(v, q) ==
  LET some == {i \in Successes : res[i].latency <= v}
      rest == {i \in Successes : res[i].latency >= v}
  IN /\ 100 * Cardinality(some) > q * Cardinality(Successes)
     /\ 100 * Cardinality(rest) >= (100 - q) * Cardinality(Successes)

ManifestRanks ==
  manifest # None /\ panicked = {} /\ Successes # {} =>
    \A q \in {50, 95, 99} : Ranked(manifest.p[q], q)

\* The manifest tells what the server did: its counts are those of the calls, and
\* its percentiles have the ranks they are named for (main.go:244-260).
ManifestSound == ManifestCounts /\ ManifestRanks

(***************************************************************************)
(* Why: the two counters count the goroutines between two points of their  *)
(* run, the mutex is held exactly from the read of results to its write,   *)
(* and main passes the wait group only when every goroutine has run its    *)
(* deferred calls.                                                         *)
(***************************************************************************)
Holding == {"spawned", "calling", "answered", "appending", "appended", "unwinding"}
Ended   == {"unwinding", "released", "done"}

Under(S) == {i \in Ids : at[i] \in S}

Counters ==
  /\ wg = Cardinality(Under(Holding \cup {"released"}))
  /\ sem = IF mode = "burst" THEN Cardinality(Under(Holding)) ELSE 0

AppendGuarded ==
  \A i \in Ids : /\ at[i] = "appending" <=> resultsMu = i
                 /\ at[i] = "appending" => snapshot[i] = results

InResults(i) == \E k \in DOMAIN results : results[k] = i

\* Every result is recorded once, after its call and unless there was a panic.
RecordedOnce ==
  /\ \A k, l \in DOMAIN results : results[k] = results[l] => k = l
  /\ \A i \in Ids :
       /\ i \in panicked => at[i] \in Ended
       /\ res[i] # None <=>
            at[i] \in {"answered", "appending", "appended"} \cup Ended /\ i \notin panicked
       /\ InResults(i) <=> at[i] \in {"appended"} \cup Ended /\ i \notin panicked
       /\ csv[i] = IF at[i] \in Ended /\ i \notin panicked THEN 1 ELSE 0

InTurn ==
  /\ \A i \in Ids : at[i] = "none" <=> i >= next
  /\ mode = "other" => next = 0
  /\ main \in {"draining", "reporting", "done"} /\ mode = "burst" => next = Count
  /\ main \in {"reporting", "done"} => \A i \in Ids : at[i] \in {"none", "done"}
  /\ manifest # None => main = "done"

\* The counters, the mutex, the results and main agree at every point, and what
\* the manifest says is what happened: an invariant that every step of every
\* goroutine preserves (main.go:105-151, 244-260).
BenchInv == /\ BenchTypeOK
            /\ Counters
            /\ AppendGuarded
            /\ RecordedOnce
            /\ InTurn
            /\ ManifestSound

\* The program comes to its end and reports, whatever the calls return; only an
\* empty corpus makes it crash, or in fixed mode a -tps that gives no ticker
\* (main.go:111-125, 127-151).
BenchFinishes ==
  <>(main = "done" \/ (main = "crashed" /\ (corpus = 0 \/ (mode = "fixed" /\ ~Ticks))))
============================================================================
