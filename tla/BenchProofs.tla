---------------------------- MODULE BenchProofs ----------------------------
(***************************************************************************)
(* Theorems about Bench and BenchGateway for any number of requests, slots *)
(* and transactions and any latencies, checked by TLAPS.                   *)
(***************************************************************************)
EXTENDS BenchGateway, FiniteSetTheorems, FunctionTheorems, TLAPS

----------------------------------------------------------------------------
(* Counting goroutines and positions. *)

\* There are finitely many requests, and so of any kind of them.
LEMMA IdsFinite ==
  /\ Ids \subseteq Nat /\ IsFiniteSet(Ids)
  /\ \A S \in SUBSET Ids : IsFiniteSet(S) /\ Cardinality(S) \in Nat
<1>1. IsFiniteSet(Ids) /\ Ids \subseteq Nat
  BY CountAssumption, FS_Interval DEF Ids
<1> QED
  BY <1>1, FS_Subset, FS_CardinalityType

\* When one goroutine moves, every count of goroutines follows it.
LEMMA MoveCounts ==
  ASSUME NEW i \in Ids, NEW to, NEW S,
         at \in [Ids -> Stages], at' = [at EXCEPT ![i] = to]
  PROVE  /\ Cardinality(Under(S)) \in Nat /\ Cardinality(Under(S)') \in Nat
         /\ at[i] \in S => Cardinality(Under(S)) > 0
         /\ at[i] \in S /\ to \in S => Under(S)' = Under(S)
         /\ at[i] \notin S /\ to \notin S => Under(S)' = Under(S)
         /\ at[i] \notin S /\ to \in S =>
              Cardinality(Under(S)') = Cardinality(Under(S)) + 1
         /\ at[i] \in S /\ to \notin S =>
              Cardinality(Under(S)') = Cardinality(Under(S)) - 1
<1>1. \A j \in Ids : at'[j] = IF j = i THEN to ELSE at[j]
  OBVIOUS
<1>2. Under(S) \subseteq Ids /\ Under(S)' \subseteq Ids
  BY DEF Under
<1>3. Under(S)' = IF to \in S THEN Under(S) \cup {i} ELSE Under(S) \ {i}
  BY <1>1 DEF Under
<1>4. i \in Under(S) <=> at[i] \in S
  BY DEF Under
<1>5. /\ IsFiniteSet(Under(S)) /\ Cardinality(Under(S)) \in Nat
      /\ Cardinality(Under(S)') \in Nat
  BY <1>2, IdsFinite
<1>6. Under(S) # {} => Cardinality(Under(S)) > 0
  BY <1>5, FS_EmptySet
<1>7. /\ Cardinality(Under(S) \cup {i}) =
           IF i \in Under(S) THEN Cardinality(Under(S)) ELSE Cardinality(Under(S)) + 1
      /\ Cardinality(Under(S) \ {i}) =
           IF i \in Under(S) THEN Cardinality(Under(S)) - 1 ELSE Cardinality(Under(S))
  BY <1>5, FS_AddElement, FS_RemoveElement
<1>8. /\ i \in Under(S) => Under(S) \cup {i} = Under(S)
      /\ i \notin Under(S) => Under(S) \ {i} = Under(S)
  OBVIOUS
<1> QED
  BY <1>3, <1>4, <1>5, <1>6, <1>7, <1>8

PlacesOf(s, S) == {k \in DOMAIN s : s[k] \in S}

\* The positions at which the members of S stand in a sequence without
\* repetitions that holds all of S are as many as S has members.
LEMMA PositionsCount ==
  ASSUME NEW T, NEW s \in Seq(T), NEW S,
         \A k, l \in DOMAIN s : s[k] = s[l] => k = l,
         \A x \in S : \E k \in DOMAIN s : s[k] = x
  PROVE  /\ IsFiniteSet(S)
         /\ Cardinality(PlacesOf(s, S)) = Cardinality(S)
         /\ (\A k \in DOMAIN s : s[k] \in S) => Len(s) = Cardinality(S)
<1> DEFINE P == PlacesOf(s, S)
           f == [k \in P |-> s[k]]
<1>1. DOMAIN s = 1 .. Len(s) /\ Len(s) \in Nat
  OBVIOUS
<1>2. /\ IsFiniteSet(DOMAIN s) /\ Cardinality(DOMAIN s) = Len(s)
      /\ IsFiniteSet(P)
  <2>1. IsFiniteSet(DOMAIN s) /\ Cardinality(DOMAIN s) = Len(s)
    BY <1>1, FS_Interval
  <2>2. P \in SUBSET DOMAIN s
    BY DEF PlacesOf
  <2> QED
    BY <2>1, <2>2, FS_Subset
<1>3. f \in Bijection(P, S)
  <2>1. f \in [P -> S] /\ \A k, l \in P : f[k] = f[l] => k = l
    BY DEF PlacesOf
  <2>2. \A x \in S : \E k \in P : f[k] = x
    BY DEF PlacesOf
  <2> QED
    BY <2>1, <2>2, Fun_IsBij
<1>4. IsFiniteSet(S) /\ Cardinality(S) = Cardinality(P)
  BY <1>2, <1>3, FS_Bijection DEF ExistsBijection
<1>5. (\A k \in DOMAIN s : s[k] \in S) => P = DOMAIN s
  BY DEF PlacesOf
<1> QED
  BY <1>2, <1>4, <1>5

----------------------------------------------------------------------------
(* Every step preserves the invariant, one part after the other. *)

\* Initially nothing is started.
LEMMA InitBench == Init => BenchInv
<1> SUFFICES ASSUME Init PROVE BenchInv
  OBVIOUS
<1>1. next = 0 /\ 0 \in 0 .. Count /\ 0 \in 0 .. Slots
  BY CountAssumption, SlotsAssumption DEF Init
<1>2. \A i \in Ids : /\ at[i] = "none" /\ res[i] = None /\ snapshot[i] = <<>>
                     /\ csv[i] = 0 /\ i \in Nat /\ i # None
  BY IdsFinite, NoneAssumption DEF Init
<1>3. BenchTypeOK
  <2>1. tps \in Int
    BY RatesAssumption DEF Init
  <2> QED
    BY <1>1, <2>1 DEF Init, BenchTypeOK, Stages
<1>4. Counters
  <2>1. Under(Holding) = {} /\ Under(Holding \cup {"released"}) = {}
    BY <1>2 DEF Under, Holding
  <2> QED
    BY <2>1, FS_EmptySet DEF Init, Counters
<1>5. AppendGuarded
  BY <1>2 DEF Init, AppendGuarded
<1>6. RecordedOnce
  <2>1. DOMAIN results = {} /\ panicked = {}
    BY DEF Init
  <2> QED
    BY <1>2, <2>1 DEF RecordedOnce, InResults, Ended
<1>7. InTurn /\ ManifestSound
  BY <1>1, <1>2 DEF Init, InTurn, ManifestSound, ManifestCounts, ManifestRanks
<1> QED
  BY <1>3, <1>4, <1>5, <1>6, <1>7 DEF BenchInv

\* A goroutine is started on the next request, which is not started yet.
LEMMA NextIsFree ==
  ASSUME BenchInv, next < Count
  PROVE  next \in Ids /\ at[next] = "none" /\ next + 1 \in 0 .. Count
<1>1. next \in 0 .. Count
  BY DEF BenchInv, BenchTypeOK
<1>2. next \in Ids
  BY <1>1, CountAssumption DEF Ids
<1> QED
  BY <1>1, <1>2, CountAssumption DEF BenchInv, InTurn

\* A slot or a count that is given back has been taken.
LEMMA Taken ==
  ASSUME BenchInv, NEW i \in Ids
  PROVE  /\ at[i] = "unwinding" /\ mode = "burst" => sem > 0
         /\ at[i] = "released" => wg > 0
<1>1. ASSUME NEW S, at[i] \in S PROVE Cardinality(Under(S)) > 0
  <2>1. i \in Under(S) /\ Under(S) \subseteq Ids
    BY <1>1 DEF Under
  <2>2. IsFiniteSet(Under(S)) /\ Cardinality(Under(S)) \in Nat
    BY <2>1, IdsFinite
  <2> QED
    BY <2>1, <2>2, FS_EmptySet
<1> QED
  BY <1>1 DEF BenchInv, Counters, Holding

\* Every step keeps the types, and no counter goes below zero.
LEMMA BenchTypeStep ==
  ASSUME BenchInv, [Next]_benchVars
  PROVE  BenchTypeOK'
<1> BenchTypeOK
  BY DEF BenchInv
<1> USE DEF BenchTypeOK, Stages, Modes, flags, mainVars, recordVars, workerVars, Step
<1>1. CASE Fire \/ Tick
  <2>1. Spawn => at' \in [Ids -> Stages] /\ wg' \in Nat /\ next' \in 0 .. Count
    BY <1>1, NextIsFree DEF Fire, Tick, Spawn
  <2>2. sem' \in 0 .. Slots
    BY <1>1, SlotsAssumption DEF Fire, Tick
  <2> QED
    BY <1>1, <2>1, <2>2 DEF Fire, Tick
<1>2. CASE NewTickerPanics \/ EndLoop \/ Drained \/ Report
  BY <1>2 DEF NewTickerPanics, EndLoop, Drained, Report
<1>3. ASSUME NEW i \in Ids, Begin(i) \/ WriteCSVLine(i) \/ Abort(i)  PROVE BenchTypeOK'
  <2>1. CASE Begin(i) \/ Abort(i)
    BY <2>1 DEF Begin, Abort
  <2>2. CASE WriteCSVLine(i)
    <3>1. csv' \in [Ids -> Nat]
      BY <2>2 DEF WriteCSVLine
    <3> QED
      BY <2>2, <3>1 DEF WriteCSVLine
  <2> QED
    BY <1>3, <2>1, <2>2
<1>4. ASSUME NEW i \in Ids, LockResults(i)  PROVE BenchTypeOK'
  BY <1>4 DEF LockResults
<1>5. ASSUME NEW i \in Ids, AppendResult(i)  PROVE BenchTypeOK'
  <2>1. Append(snapshot[i], i) \in Seq(Ids) /\ <<>> \in Seq(Ids)
    OBVIOUS
  <2> QED
    BY <1>5, <2>1 DEF AppendResult
<1>6. ASSUME NEW i \in Ids, Release(i) \/ Done(i)  PROVE BenchTypeOK'
  <2>1. sem' \in 0 .. Slots /\ wg' \in Nat
    BY <1>6, Taken, SlotsAssumption DEF Release, Done
  <2> QED
    BY <1>6, <2>1 DEF Release, Done
<1>7. ASSUME NEW i \in Ids, NEW a \in Answers, Answer(i, a)  PROVE BenchTypeOK'
  BY <1>7 DEF Answer
<1>8. CASE UNCHANGED benchVars
  BY <1>8 DEF benchVars
<1> QED
  BY <1>1, <1>2, <1>3, <1>4, <1>5, <1>6, <1>7, <1>8 DEF Next, MainStep, WorkerStep

\* The counters follow every goroutine (main.go:112-116, 142-144).
LEMMA CountersStep ==
  ASSUME BenchInv, [Next]_benchVars
  PROVE  Counters'
<1> DEFINE Live == Holding \cup {"released"}
<1>1. /\ at \in [Ids -> Stages] /\ sem \in Nat /\ wg \in Nat /\ mode \in Modes
      /\ wg = Cardinality(Under(Live))
      /\ sem = IF mode = "burst" THEN Cardinality(Under(Holding)) ELSE 0
  BY SlotsAssumption DEF BenchInv, BenchTypeOK, Counters
<1>2. SUFFICES /\ wg' = Cardinality(Under(Live)')
               /\ sem' = IF mode' = "burst" THEN Cardinality(Under(Holding)') ELSE 0
  BY DEF Counters, Under
<1> USE DEF flags, mainVars, recordVars, workerVars, Step
<1>3. CASE Fire
  <2>1. /\ next \in Ids /\ at[next] = "none" /\ at' = [at EXCEPT ![next] = "spawned"]
        /\ wg' = wg + 1 /\ sem' = sem + 1 /\ mode = "burst" /\ mode' = mode
    BY <1>3, NextIsFree DEF Fire, Spawn
  <2>2. /\ "none" \notin Holding /\ "none" \notin Live
        /\ "spawned" \in Holding /\ "spawned" \in Live
    BY DEF Holding
  <2> HIDE DEF Live
  <2> QED
    BY <1>1, <2>1, <2>2, MoveCounts
<1>4. CASE Tick
  <2>1. CASE Spawn
    <3>1. /\ next \in Ids /\ at[next] = "none" /\ at' = [at EXCEPT ![next] = "spawned"]
          /\ wg' = wg + 1 /\ sem' = sem /\ mode = "fixed" /\ mode' = mode
      BY <1>4, <2>1, NextIsFree DEF Tick, Spawn
    <3>2. "none" \notin Live /\ "spawned" \in Live
      BY DEF Holding
    <3> HIDE DEF Live
    <3> QED
      BY <1>1, <3>1, <3>2, MoveCounts
  <2>2. CASE UNCHANGED <<at, wg, next>>
    BY <1>1, <1>4, <2>2 DEF Tick, Under
  <2> QED
    BY <1>4, <2>1, <2>2 DEF Tick
<1>5. ASSUME NEW i \in Ids, NEW to \in Holding, at[i] \in Holding,
             at' = [at EXCEPT ![i] = to], UNCHANGED <<sem, wg, mode>>
      PROVE  /\ wg' = Cardinality(Under(Live)')
             /\ sem' = IF mode' = "burst" THEN Cardinality(Under(Holding)') ELSE 0
  <2>1. at[i] \in Live /\ to \in Live
    BY <1>5
  <2> HIDE DEF Live
  <2> QED
    BY <1>1, <1>5, <2>1, MoveCounts
<1>6. ASSUME NEW i \in Ids, Begin(i)
      PROVE  /\ wg' = Cardinality(Under(Live)')
             /\ sem' = IF mode' = "burst" THEN Cardinality(Under(Holding)') ELSE 0
  <2>1. PICK to \in Holding : at[i] \in Holding /\ at' = [at EXCEPT ![i] = to]
    BY <1>6 DEF Begin, Holding
  <2> QED
    BY <1>5, <1>6, <2>1 DEF Begin
<1>7. ASSUME NEW i \in Ids,
             LockResults(i) \/ AppendResult(i) \/ WriteCSVLine(i) \/
             \E a \in Answers : Answer(i, a)
      PROVE  /\ wg' = Cardinality(Under(Live)')
             /\ sem' = IF mode' = "burst" THEN Cardinality(Under(Holding)') ELSE 0
  <2>1. PICK to \in Holding : at[i] \in Holding /\ at' = [at EXCEPT ![i] = to]
    BY <1>7 DEF LockResults, AppendResult, WriteCSVLine, Answer, Holding
  <2>2. UNCHANGED <<sem, wg, mode>>
    BY <1>7 DEF LockResults, AppendResult, WriteCSVLine, Answer
  <2> QED
    BY <1>5, <2>1, <2>2
<1>8. ASSUME NEW i \in Ids, Release(i)
      PROVE  /\ wg' = Cardinality(Under(Live)')
             /\ sem' = IF mode' = "burst" THEN Cardinality(Under(Holding)') ELSE 0
  <2>1. /\ at[i] = "unwinding" /\ at' = [at EXCEPT ![i] = "released"]
        /\ wg' = wg /\ mode' = mode
        /\ sem' = IF mode = "burst" THEN sem - 1 ELSE sem
    BY <1>8 DEF Release
  <2>2. /\ "unwinding" \in Holding /\ "unwinding" \in Live
        /\ "released" \notin Holding /\ "released" \in Live
    BY DEF Holding
  <2> HIDE DEF Live
  <2> QED
    BY <1>1, <2>1, <2>2, MoveCounts
<1>9. ASSUME NEW i \in Ids, Done(i)
      PROVE  /\ wg' = Cardinality(Under(Live)')
             /\ sem' = IF mode' = "burst" THEN Cardinality(Under(Holding)') ELSE 0
  <2>1. /\ at[i] = "released" /\ at' = [at EXCEPT ![i] = "done"]
        /\ wg' = wg - 1 /\ mode' = mode /\ sem' = sem
    BY <1>9 DEF Done
  <2>2. /\ "released" \notin Holding /\ "released" \in Live
        /\ "done" \notin Holding /\ "done" \notin Live
    BY DEF Holding
  <2> HIDE DEF Live
  <2> QED
    BY <1>1, <2>1, <2>2, MoveCounts
<1>10. CASE UNCHANGED <<at, wg, sem, mode>>
  BY <1>1, <1>10 DEF Under
<1>11. NewTickerPanics \/ EndLoop \/ Drained \/ Report \/ (\E i \in Ids : Abort(i)) \/ UNCHANGED benchVars =>
         UNCHANGED <<at, wg, sem, mode>>
  BY DEF NewTickerPanics, EndLoop, Drained, Report, Abort, benchVars
<1> HIDE DEF Live
<1> QED
  BY <1>3, <1>4, <1>6, <1>7, <1>8, <1>9, <1>10, <1>11 DEF Next, MainStep, WorkerStep

\* What a goroutine has read is what the results are until it stores the longer
\* slice, because no other holds the mutex (main.go:118-120, 145-147).
LEMMA AppendGuardedStep ==
  ASSUME BenchInv, [Next]_benchVars
  PROVE  AppendGuarded'
<1>1. /\ at \in [Ids -> Stages] /\ snapshot \in [Ids -> Seq(Ids)]
      /\ \A i \in Ids : /\ i # None
                        /\ at[i] = "appending" <=> resultsMu = i
                        /\ at[i] = "appending" => snapshot[i] = results
  BY IdsFinite, NoneAssumption DEF BenchInv, BenchTypeOK, AppendGuarded
<1> USE DEF flags, mainVars, recordVars, workerVars, Step, AppendGuarded
<1>2. ASSUME NEW i \in Ids, NEW to, at' = [at EXCEPT ![i] = to],
             at[i] # "appending", to # "appending",
             UNCHANGED <<resultsMu, snapshot, results>>
      PROVE  AppendGuarded'
  BY <1>1, <1>2
<1>3. CASE UNCHANGED <<at, resultsMu, snapshot, results>>
  BY <1>1, <1>3
<1>4. CASE Fire \/ Tick
  <2>1. CASE Spawn
    <3>1. next \in Ids /\ at[next] = "none" /\ at' = [at EXCEPT ![next] = "spawned"]
      BY <1>4, <2>1, NextIsFree DEF Fire, Tick, Spawn
    <3>2. UNCHANGED <<resultsMu, snapshot, results>>
      BY <1>4 DEF Fire, Tick
    <3> QED
      BY <1>2, <3>1, <3>2
  <2>2. CASE UNCHANGED <<at, wg, next>>
    BY <1>3, <1>4, <2>2 DEF Fire, Tick
  <2> QED
    BY <1>4, <2>1, <2>2 DEF Fire, Tick
<1>5. ASSUME NEW i \in Ids,
             Begin(i) \/ WriteCSVLine(i) \/ Release(i) \/ Done(i) \/
             \E a \in Answers : Answer(i, a)
      PROVE  AppendGuarded'
  <2>1. PICK to \in Stages : /\ at' = [at EXCEPT ![i] = to]
                             /\ at[i] # "appending" /\ to # "appending"
    BY <1>5 DEF Begin, WriteCSVLine, Release, Done, Answer, Stages
  <2>2. UNCHANGED <<resultsMu, snapshot, results>>
    BY <1>5 DEF Begin, WriteCSVLine, Release, Done, Answer
  <2> QED
    BY <1>2, <2>1, <2>2
<1>6. ASSUME NEW i \in Ids, LockResults(i)  PROVE AppendGuarded'
  BY <1>1, <1>6 DEF LockResults
<1>7. ASSUME NEW i \in Ids, AppendResult(i)  PROVE AppendGuarded'
  <2>1. \A j \in Ids \ {i} : at[j] # "appending" /\ at'[j] = at[j]
    BY <1>1, <1>7 DEF AppendResult
  <2>2. at'[i] = "appended" /\ resultsMu' = None
    BY <1>1, <1>7 DEF AppendResult
  <2> QED
    BY <1>1, <2>1, <2>2
<1>8. NewTickerPanics \/ EndLoop \/ Drained \/ Report \/ (\E i \in Ids : Abort(i)) \/ UNCHANGED benchVars =>
        UNCHANGED <<at, resultsMu, snapshot, results>>
  BY DEF NewTickerPanics, EndLoop, Drained, Report, Abort, benchVars
<1> QED
  BY <1>3, <1>4, <1>5, <1>6, <1>7, <1>8 DEF Next, MainStep, WorkerStep

\* Appending one that is not among the results keeps them without repetitions.
LEMMA AppendOne ==
  ASSUME NEW T, NEW s \in Seq(T), NEW x \in T, \A k \in DOMAIN s : s[k] # x,
         \A k, l \in DOMAIN s : s[k] = s[l] => k = l
  PROVE  /\ \A k, l \in DOMAIN Append(s, x) : Append(s, x)[k] = Append(s, x)[l] => k = l
         /\ \A y : (\E k \in DOMAIN Append(s, x) : Append(s, x)[k] = y) <=>
                   y = x \/ \E k \in DOMAIN s : s[k] = y
<1> DEFINE long == Append(s, x)
<1>1. /\ Len(s) \in Nat /\ DOMAIN s = 1 .. Len(s) /\ DOMAIN long = 1 .. Len(s) + 1
      /\ \A k \in 1 .. Len(s) : long[k] = s[k]
      /\ long[Len(s) + 1] = x
  OBVIOUS
<1>2. \A k \in 1 .. Len(s) + 1 : k \in 1 .. Len(s) \/ k = Len(s) + 1
  BY <1>1
<1>3. 1 .. Len(s) \subseteq 1 .. Len(s) + 1 /\ Len(s) + 1 \in 1 .. Len(s) + 1
  BY <1>1
<1> HIDE DEF long
<1>4. /\ \A k, l \in DOMAIN long : long[k] = long[l] => k = l
      /\ \A y : (\E k \in DOMAIN long : long[k] = y) <=>
                y = x \/ \E k \in DOMAIN s : s[k] = y
  BY <1>1, <1>2, <1>3
<1> QED
  BY <1>4 DEF long

\* What is recorded of a request follows its goroutine (main.go:118-125, 145-150).
LEMMA RecordedStep ==
  ASSUME BenchInv, [Next]_benchVars
  PROVE  RecordedOnce'
<1> DEFINE Past == {"answered", "appending", "appended"} \cup Ended
           Kept == {"appended"} \cup Ended
           Line(i) == /\ i \in panicked => at[i] \in Ended
                      /\ res[i] # None <=> at[i] \in Past /\ i \notin panicked
                      /\ InResults(i) <=> at[i] \in Kept /\ i \notin panicked
                      /\ csv[i] = IF at[i] \in Ended /\ i \notin panicked THEN 1 ELSE 0
<1>1. /\ at \in [Ids -> Stages] /\ res \in [Ids -> Answers \cup {None}]
      /\ csv \in [Ids -> Nat] /\ results \in Seq(Ids) /\ panicked \in SUBSET Ids
      /\ \A k, l \in DOMAIN results : results[k] = results[l] => k = l
      /\ \A i \in Ids : Line(i)
  BY DEF BenchInv, BenchTypeOK, RecordedOnce
<1>2. SUFFICES /\ \A k, l \in DOMAIN results' : results'[k] = results'[l] => k = l
               /\ \A i \in Ids : Line(i)'
  BY DEF RecordedOnce
<1> USE DEF flags, mainVars, recordVars, workerVars, Step
<1>3. ASSUME NEW i \in Ids, NEW to, at' = [at EXCEPT ![i] = to],
             UNCHANGED <<res, results, csv, panicked>>, i \notin panicked,
             at[i] \in Past <=> to \in Past, at[i] \in Kept <=> to \in Kept,
             at[i] \in Ended <=> to \in Ended
      PROVE  /\ \A k, l \in DOMAIN results' : results'[k] = results'[l] => k = l
             /\ \A j \in Ids : Line(j)'
  BY <1>1, <1>3 DEF InResults
<1>4. CASE UNCHANGED <<at, res, results, csv, panicked>>
  BY <1>1, <1>4 DEF InResults
<1>5. CASE Fire \/ Tick
  <2>1. CASE Spawn
    <3>1. next \in Ids /\ at[next] = "none" /\ at' = [at EXCEPT ![next] = "spawned"]
      BY <1>5, <2>1, NextIsFree DEF Fire, Tick, Spawn
    <3>2. UNCHANGED <<res, results, csv, panicked>>
      BY <1>5 DEF Fire, Tick
    <3>3. next \notin panicked /\ "none" \notin Past /\ "spawned" \notin Past
      BY <1>1, <3>1 DEF Ended
    <3> QED
      BY <1>3, <3>1, <3>2, <3>3
  <2>2. CASE UNCHANGED <<at, wg, next>>
    BY <1>4, <1>5, <2>2 DEF Fire, Tick
  <2> QED
    BY <1>5, <2>1, <2>2 DEF Fire, Tick
<1>6. ASSUME NEW i \in Ids, Begin(i)
      PROVE  /\ \A k, l \in DOMAIN results' : results'[k] = results'[l] => k = l
             /\ \A j \in Ids : Line(j)'
  <2>1. at[i] = "spawned" /\ UNCHANGED <<res, results, csv>>
    BY <1>6 DEF Begin
  <2>2. i \notin panicked /\ "spawned" \notin Past /\ "calling" \notin Past
    BY <1>1, <2>1 DEF Ended
  <2>3. CASE at' = [at EXCEPT ![i] = "calling"] /\ UNCHANGED panicked
    BY <1>3, <2>1, <2>2, <2>3
  <2>4. CASE at' = [at EXCEPT ![i] = "unwinding"] /\ panicked' = panicked \cup {i}
    <3>1. \A j \in Ids \ {i} : at'[j] = at[j] /\ (j \in panicked' <=> j \in panicked)
      BY <1>1, <2>4
    <3>2. at'[i] \in Ended /\ i \in panicked'
      BY <1>1, <2>4 DEF Ended
    <3>3. res[i] = None /\ ~InResults(i) /\ csv[i] = 0
      BY <1>1, <2>1, <2>2
    <3> QED
      BY <1>1, <2>1, <3>1, <3>2, <3>3 DEF InResults
  <2> QED
    BY <1>6, <2>3, <2>4 DEF Begin
<1>7. ASSUME NEW i \in Ids, NEW a \in Answers, Answer(i, a)
      PROVE  /\ \A k, l \in DOMAIN results' : results'[k] = results'[l] => k = l
             /\ \A j \in Ids : Line(j)'
  <2>1. /\ at[i] = "calling" /\ at' = [at EXCEPT ![i] = "answered"]
        /\ res' = [res EXCEPT ![i] = a] /\ UNCHANGED <<results, csv, panicked>>
    BY <1>7 DEF Answer
  <2>2. /\ "calling" \notin Past /\ "answered" \in Past
        /\ "answered" \notin Kept /\ a # None
    BY NoneAssumption DEF Ended
  <2>3. i \notin panicked /\ at[i] \notin Past
    BY <1>1, <2>1, <2>2
  <2>4. \A j \in Ids \ {i} : at'[j] = at[j] /\ res'[j] = res[j]
    BY <1>1, <2>1
  <2>5. at'[i] = "answered" /\ res'[i] = a
    BY <1>1, <2>1
  <2> QED
    BY <1>1, <2>1, <2>2, <2>3, <2>4, <2>5 DEF InResults
<1>8. ASSUME NEW i \in Ids, LockResults(i)
      PROVE  /\ \A k, l \in DOMAIN results' : results'[k] = results'[l] => k = l
             /\ \A j \in Ids : Line(j)'
  <2>1. /\ at[i] = "answered" /\ at' = [at EXCEPT ![i] = "appending"]
        /\ UNCHANGED <<res, results, csv, panicked>>
    BY <1>8 DEF LockResults
  <2>2. i \notin panicked
    BY <1>1, <2>1 DEF Ended
  <2> QED
    BY <1>3, <2>1, <2>2 DEF Ended
<1>9. ASSUME NEW i \in Ids, AppendResult(i)
      PROVE  /\ \A k, l \in DOMAIN results' : results'[k] = results'[l] => k = l
             /\ \A j \in Ids : Line(j)'
  <2>1. /\ at[i] = "appending" /\ at' = [at EXCEPT ![i] = "appended"]
        /\ results' = Append(results, i) /\ UNCHANGED <<res, csv, panicked>>
    BY <1>9 DEF AppendResult, BenchInv, AppendGuarded
  <2>2. /\ "appending" \in Past /\ "appending" \notin Kept /\ "appended" \in Past
        /\ "appended" \in Kept /\ "appended" \notin Ended /\ "appending" \notin Ended
    BY DEF Ended
  <2>3. i \notin panicked /\ ~InResults(i)
    BY <1>1, <2>1, <2>2
  <2>4. /\ \A k, l \in DOMAIN results' : results'[k] = results'[l] => k = l
        /\ \A j \in Ids : InResults(j)' <=> j = i \/ InResults(j)
    <3>1. /\ results \in Seq(Ids) /\ \A k \in DOMAIN results : results[k] # i
          /\ \A k, l \in DOMAIN results : results[k] = results[l] => k = l
      BY <1>1, <2>3 DEF InResults
    <3> HIDE DEF Line
    <3>2. /\ \A k, l \in DOMAIN Append(results, i) :
               Append(results, i)[k] = Append(results, i)[l] => k = l
          /\ \A y : (\E k \in DOMAIN Append(results, i) : Append(results, i)[k] = y) <=>
                    y = i \/ \E k \in DOMAIN results : results[k] = y
      BY <3>1, AppendOne
    <3> QED
      BY <2>1, <3>2, Zenon DEF InResults
  <2>5. \A j \in Ids \ {i} : at'[j] = at[j]
    BY <1>1, <2>1
  <2>6. at'[i] = "appended"
    BY <1>1, <2>1
  <2>7. Line(i)'
    BY <1>1, <2>1, <2>2, <2>3, <2>4, <2>6
  <2>8. \A j \in Ids \ {i} : Line(j)'
    BY <1>1, <2>1, <2>4, <2>5
  <2> QED
    BY <2>4, <2>7, <2>8
<1>10. ASSUME NEW i \in Ids, WriteCSVLine(i)
       PROVE  /\ \A k, l \in DOMAIN results' : results'[k] = results'[l] => k = l
              /\ \A j \in Ids : Line(j)'
  <2>1. /\ at[i] = "appended" /\ at' = [at EXCEPT ![i] = "unwinding"]
        /\ csv' = [csv EXCEPT ![i] = @ + 1] /\ UNCHANGED <<res, results, panicked>>
    BY <1>10 DEF WriteCSVLine
  <2>2. /\ "appended" \notin Ended /\ "unwinding" \in Ended
        /\ "appended" \in Past /\ "appended" \in Kept
    BY DEF Ended
  <2>3. i \notin panicked /\ csv[i] = 0
    BY <1>1, <2>1, <2>2
  <2>4. \A j \in Ids \ {i} : at'[j] = at[j] /\ csv'[j] = csv[j]
    BY <1>1, <2>1
  <2>5. at'[i] = "unwinding" /\ csv'[i] = 1
    BY <1>1, <2>1, <2>3
  <2>6. \A j \in Ids : InResults(j)' <=> InResults(j)
    BY <2>1 DEF InResults
  <2>7. Line(i)'
    BY <1>1, <2>1, <2>2, <2>3, <2>5, <2>6
  <2>8. \A j \in Ids \ {i} : Line(j)'
    BY <1>1, <2>1, <2>4, <2>6
  <2> QED
    BY <1>1, <2>1, <2>7, <2>8
<1>11. ASSUME NEW i \in Ids, Release(i) \/ Done(i)
       PROVE  /\ \A k, l \in DOMAIN results' : results'[k] = results'[l] => k = l
              /\ \A j \in Ids : Line(j)'
  <2>1. PICK to \in Ended : at[i] \in Ended /\ at' = [at EXCEPT ![i] = to]
    BY <1>11 DEF Release, Done, Ended
  <2>2. UNCHANGED <<res, results, csv, panicked>>
    BY <1>11 DEF Release, Done
  <2>3. at'[i] \in Ended /\ \A j \in Ids \ {i} : at'[j] = at[j]
    BY <1>1, <2>1
  <2>4. \A j \in Ids : InResults(j)' <=> InResults(j)
    BY <2>2 DEF InResults
  <2> HIDE DEF Ended
  <2> QED
    BY <1>1, <2>1, <2>2, <2>3, <2>4
<1>12. NewTickerPanics \/ EndLoop \/ Drained \/ Report \/ (\E i \in Ids : Abort(i)) \/ UNCHANGED benchVars =>
         UNCHANGED <<at, res, results, csv, panicked>>
  BY DEF NewTickerPanics, EndLoop, Drained, Report, Abort, benchVars
<1> HIDE DEF Line
<1> QED
  BY <1>4, <1>5, <1>6, <1>7, <1>8, <1>9, <1>10, <1>11, <1>12
  DEF Next, MainStep, WorkerStep

\* Nothing moves once main has gone past the wait group, which it does when every
\* goroutine it started is done (main.go:105-151).
LEMMA InTurnStep ==
  ASSUME BenchInv, [Next]_benchVars
  PROVE  InTurn'
<1>1. /\ at \in [Ids -> Stages] /\ next \in 0 .. Count /\ Ids \subseteq Nat /\ Count \in Nat
      /\ \A i \in Ids : at[i] = "none" <=> i >= next
      /\ mode = "other" => next = 0
      /\ main \in {"draining", "reporting", "done"} /\ mode = "burst" => next = Count
      /\ main \in {"reporting", "done"} => \A i \in Ids : at[i] \in {"none", "done"}
      /\ manifest # None => main = "done"
  BY IdsFinite, CountAssumption DEF BenchInv, BenchTypeOK, InTurn
<1> USE DEF flags, mainVars, recordVars, workerVars, Step
<1>2. CASE UNCHANGED <<at, next, mode, manifest>> /\ main' \in {main, "crashed"} /\
           (main' = main \/ Running)
  BY <1>1, <1>2 DEF InTurn, Running
<1>3. CASE Fire \/ Tick
  <2>1. CASE Spawn
    <3>1. /\ next \in Ids /\ at' = [at EXCEPT ![next] = "spawned"] /\ next' = next + 1
          /\ main = "loop" /\ mode # "other" /\ UNCHANGED <<mode, manifest>>
      BY <1>3, <2>1, NextIsFree DEF Fire, Tick, Spawn
    <3>2. main' = "loop" \/ main' = "crashed"
      BY <1>3, <3>1 DEF Fire, Tick
    <3>3. \A i \in Ids : at'[i] = "none" <=> i >= next'
      BY <1>1, <3>1
    <3> QED
      BY <1>1, <3>1, <3>2, <3>3 DEF InTurn
  <2>2. CASE UNCHANGED <<at, wg, next>>
    <3>1. UNCHANGED <<at, next, mode, manifest>> /\ main' \in {main, "crashed"} /\ Running
      BY <1>3, <2>2 DEF Fire, Tick, Running, Spawn
    <3> QED
      BY <1>2, <3>1
  <2> QED
    BY <1>3, <2>1, <2>2 DEF Fire, Tick
<1>4. CASE EndLoop
  <2>1. /\ main = "loop" /\ UNCHANGED <<at, next, mode, manifest>>
        /\ mode = "burst" => next = Count
        /\ main' = IF mode = "other" THEN "reporting" ELSE "draining"
    BY <1>4 DEF EndLoop
  <2>2. mode = "other" => \A i \in Ids : at[i] = "none"
    BY <1>1
  <2> QED
    BY <1>1, <2>1, <2>2 DEF InTurn
<1>5. CASE Drained
  <2>1. /\ main = "draining" /\ wg = 0 /\ main' = "reporting"
        /\ UNCHANGED <<at, next, mode, manifest>>
    BY <1>5 DEF Drained
  <2>2. ASSUME NEW i \in Ids  PROVE at[i] \in {"none", "done"}
    <3> DEFINE live == Under(Holding \cup {"released"})
    <3>1. Cardinality(live) = 0 /\ live \in SUBSET Ids
      BY <2>1 DEF BenchInv, Counters, Under
    <3>2. live = {}
      BY <3>1, IdsFinite, FS_EmptySet
    <3> QED
      BY <1>1, <3>2 DEF Under, Holding, Stages
  <2> QED
    BY <1>1, <2>1, <2>2 DEF InTurn
<1>6. CASE Report
  BY <1>1, <1>6 DEF Report, InTurn
<1>7. ASSUME NEW i \in Ids, NEW from, NEW to, Step(i, from, to),
             from \notin {"none", "done"}, to # "none", UNCHANGED <<main, next, mode, manifest>>
      PROVE  InTurn'
  <2>1. main \notin {"reporting", "done"}
    BY <1>1, <1>7
  <2>2. \A j \in Ids : at'[j] = "none" <=> at[j] = "none"
    BY <1>1, <1>7
  <2> QED
    BY <1>1, <1>7, <2>1, <2>2 DEF InTurn
<1>8. ASSUME NEW i \in Ids,
             Begin(i) \/ LockResults(i) \/ AppendResult(i) \/ WriteCSVLine(i) \/ Release(i)
             \/ Done(i) \/ \E a \in Answers : Answer(i, a)
      PROVE  InTurn'
  <2>1. UNCHANGED <<main, next, mode, manifest>>
    BY <1>8 DEF Begin, LockResults, AppendResult, WriteCSVLine, Release, Done, Answer
  <2>2. \E from, to \in Stages \ {"none"} : from # "done" /\ Step(i, from, to)
    BY <1>8
    DEF Begin, LockResults, AppendResult, WriteCSVLine, Release, Done, Answer, Stages
  <2> QED
    BY <1>7, <2>1, <2>2
<1>9. NewTickerPanics \/ (\E i \in Ids : Abort(i)) \/ UNCHANGED benchVars =>
        /\ UNCHANGED <<at, next, mode, manifest>>
        /\ main' \in {main, "crashed"} /\ (main' = main \/ Running)
  BY DEF NewTickerPanics, Abort, Running, benchVars
<1> QED
  BY <1>2, <1>3, <1>4, <1>5, <1>6, <1>8, <1>9 DEF Next, MainStep, WorkerStep

\* When main is past the wait group and nothing panicked, every request it started
\* is in the results once, and nothing else is.
LEMMA AllRecorded ==
  ASSUME BenchInv, main \in {"reporting", "done"}, panicked = {}
  PROVE  /\ Started \subseteq Ids
         /\ \A i \in Started : res[i] # None /\ csv[i] = 1 /\ InResults(i)
         /\ \A k \in DOMAIN results : results[k] \in Started
         /\ Len(results) = Cardinality(Started) /\ Cardinality(Started) = next
         /\ IsFiniteSet(Started)
<1>1. /\ next \in 0 .. Count /\ Count \in Nat /\ results \in Seq(Ids)
      /\ Ids \subseteq Nat /\ at \in [Ids -> Stages]
  BY CountAssumption, IdsFinite DEF BenchInv, BenchTypeOK
<1>2. Started \subseteq Ids /\ \A i \in Ids : i \in Started <=> ~(i >= next)
  BY <1>1 DEF Started, Ids
<1>3. \A i \in Started : at[i] = "done"
  BY <1>2 DEF BenchInv, InTurn
<1>4. \A i \in Started : res[i] # None /\ csv[i] = 1 /\ InResults(i)
  BY <1>2, <1>3 DEF BenchInv, RecordedOnce, Ended
<1>5. ASSUME NEW k \in DOMAIN results  PROVE results[k] \in Started
  <2>1. results[k] \in Ids /\ InResults(results[k])
    BY <1>1, <1>5 DEF InResults
  <2>2. at[results[k]] # "none"
    BY <2>1 DEF BenchInv, RecordedOnce, Ended
  <2> QED
    BY <1>2, <2>1, <2>2 DEF BenchInv, InTurn
<1>6. \A k, l \in DOMAIN results : results[k] = results[l] => k = l
  BY DEF BenchInv, RecordedOnce
<1>7. Len(results) = Cardinality(Started)
  BY <1>1, <1>4, <1>5, <1>6, PositionsCount DEF InResults
<1>8. Cardinality(Started) = next /\ IsFiniteSet(Started)
  BY <1>1, FS_Interval DEF Started
<1> QED
  BY <1>2, <1>4, <1>5, <1>7, <1>8

\* When main has come to the manifest, the results that succeeded stand for the
\* calls that succeeded.
LEMMA SucceededStandFor ==
  ASSUME BenchInv, main = "reporting", panicked = {}
  PROVE  /\ SucceededAt = {k \in DOMAIN results : results[k] \in Successes}
         /\ Successes \subseteq Ids /\ IsFiniteSet(Successes)
         /\ IsFiniteSet(SucceededAt) /\ Cardinality(SucceededAt) = Cardinality(Successes)
         /\ Cardinality(DOMAIN results \ SucceededAt) = Cardinality(Started \ Successes)
<1> DEFINE failures == Started \ Successes
<1>1. /\ Started \subseteq Ids /\ IsFiniteSet(Started)
      /\ \A i \in Started : res[i] # None /\ InResults(i)
      /\ \A k \in DOMAIN results : results[k] \in Started
      /\ results \in Seq(Ids) /\ \A k, l \in DOMAIN results : results[k] = results[l] => k = l
  BY AllRecorded DEF BenchInv, BenchTypeOK, RecordedOnce
<1>2. SucceededAt = {k \in DOMAIN results : results[k] \in Successes}
  BY <1>1 DEF SucceededAt, Successes
<1>3. DOMAIN results \ SucceededAt = {k \in DOMAIN results : results[k] \in failures}
  BY <1>1, <1>2
<1>4. /\ \A i \in Successes : \E k \in DOMAIN results : results[k] = i
      /\ \A i \in failures : \E k \in DOMAIN results : results[k] = i
  BY <1>1 DEF Successes, InResults
<1>5. IsFiniteSet(Successes) /\ Cardinality(SucceededAt) = Cardinality(Successes)
  <2>1. Cardinality(PlacesOf(results, Successes)) = Cardinality(Successes)
    BY <1>1, <1>4, PositionsCount
  <2>2. SucceededAt = PlacesOf(results, Successes)
    BY <1>2 DEF PlacesOf
  <2>3. Successes \in SUBSET Started
    BY DEF Successes
  <2> QED
    BY <1>1, <2>1, <2>2, <2>3, FS_Subset
<1>6. Cardinality(DOMAIN results \ SucceededAt) = Cardinality(failures)
  <2> HIDE DEF failures
  <2>1. Cardinality(PlacesOf(results, failures)) = Cardinality(failures)
    BY <1>1, <1>4, PositionsCount
  <2>2. DOMAIN results \ SucceededAt = PlacesOf(results, failures)
    BY <1>3 DEF PlacesOf
  <2> QED
    BY <2>1, <2>2
<1>7. IsFiniteSet(SucceededAt)
  <2>1. DOMAIN results = 1 .. Len(results) /\ Len(results) \in Nat
    BY <1>1
  <2>2. IsFiniteSet(DOMAIN results) /\ SucceededAt \in SUBSET DOMAIN results
    BY <2>1, FS_Interval DEF SucceededAt
  <2> QED
    BY <2>2, FS_Subset
<1> QED
  BY <1>1, <1>2, <1>5, <1>6, <1>7 DEF Successes

\* What the manifest counts is what happened (main.go:244-253).
LEMMA ReportCounts ==
  ASSUME BenchInv, main = "reporting", panicked = {}, NEW sorted
  PROVE  /\ Manifest(sorted).total = next
         /\ Manifest(sorted).success = Cardinality(Successes)
         /\ Manifest(sorted).error = Cardinality(Started \ Successes)
BY AllRecorded, SucceededStandFor DEF Manifest

\* The place len * q / 100 has more than q% of all places at or before it and no
\* fewer than the rest at or behind it.
LEMMA PlaceOfRank ==
  ASSUME NEW n \in Nat \ {0}, NEW q \in {50, 95, 99}
  PROVE  LET c == (n * q) \div 100 + 1
         IN /\ c \in 1 .. n
            /\ 100 * c > q * n
            /\ 100 * (n - c + 1) >= (100 - q) * n
<1>1. CASE q = 50
  BY <1>1
<1>2. CASE q = 95
  BY <1>2
<1>3. CASE q = 99
  BY <1>3
<1> QED
  BY <1>1, <1>2, <1>3

\* The requests at the places D of an order are as many as the places.
LEMMA PlacesCount ==
  ASSUME NEW S, NEW T, NEW n \in Nat, NEW sorted \in Injection(1 .. n, S),
         NEW r, \A k, l \in S : r[k] = r[l] => k = l,
         NEW D \in SUBSET (1 .. n), \A j \in D : r[sorted[j]] \in T,
         IsFiniteSet(T)
  PROVE  Cardinality(D) <= Cardinality(T)
<1> DEFINE g == [j \in D |-> r[sorted[j]]]
<1>1. /\ sorted \in [1 .. n -> S]
      /\ \A j, l \in 1 .. n : sorted[j] = sorted[l] => j = l
  BY DEF Injection, IsInjective
<1>2. g \in [D -> T]
  OBVIOUS
<1>3. \A j, l \in D : g[j] = g[l] => j = l
  BY <1>1
<1> HIDE DEF g
<1>4. g \in Injection(D, T)
  BY <1>2, <1>3 DEF Injection, IsInjective
<1> QED
  BY <1>4, FS_Injection

\* Each percentile has its rank, whichever order the sort has found
\* (main.go:255-260).
LEMMA ReportRanks ==
  ASSUME BenchInv, main = "reporting", panicked = {}, Successes # {},
         NEW sorted \in Ascending(SucceededAt), NEW q \in {50, 95, 99}
  PROVE  Ranked(Manifest(sorted).p[q], q)
<1> DEFINE n    == Cardinality(Successes)
           c    == (n * q) \div 100 + 1
           v    == Manifest(sorted).p[q]
           some == {i \in Successes : res[i].latency <= v}
           rest == {i \in Successes : res[i].latency >= v}
<1>1. /\ SucceededAt = {k \in DOMAIN results : results[k] \in Successes}
      /\ Successes \subseteq Ids /\ IsFiniteSet(Successes)
      /\ Cardinality(SucceededAt) = n
  BY SucceededStandFor
<1>2. n \in Nat \ {0}
  BY <1>1, FS_CardinalityType, FS_EmptySet
<1>3. /\ sorted \in Injection(1 .. n, SucceededAt)
      /\ sorted \in [1 .. n -> SucceededAt]
      /\ \A k, l \in 1 .. n : k < l => Latency(sorted[k]) <= Latency(sorted[l])
  <2>1. /\ sorted \in Injection(1 .. Cardinality(SucceededAt), SucceededAt)
        /\ \A k, l \in DOMAIN sorted : k < l => Latency(sorted[k]) <= Latency(sorted[l])
    BY DEF Ascending
  <2>2. sorted \in Injection(1 .. n, SucceededAt)
    BY <1>1, <2>1
  <2> HIDE DEF n
  <2>3. sorted \in [1 .. n -> SucceededAt]
    BY <2>2 DEF Injection
  <2> QED
    BY <2>1, <2>2, <2>3
<1>4. \A i \in Successes : res[i].latency \in Nat
  <2>1. \A a \in Answers : a.latency \in Nat
    BY LatencyAssumption DEF Answers
  <2>2. \A i \in Successes : res[i] \in Answers
    BY <1>1 DEF BenchInv, BenchTypeOK, Successes
  <2> QED
    BY <2>1, <2>2
<1>5. \A j \in 1 .. n : /\ results[sorted[j]] \in Successes
                        /\ Latency(sorted[j]) = res[results[sorted[j]]].latency
  BY <1>1, <1>3 DEF Latency
<1>6. /\ c \in 1 .. n
      /\ 100 * c > q * n
      /\ 100 * (n - c + 1) >= (100 - q) * n
  BY <1>2, PlaceOfRank
<1>7. v = Latency(sorted[c])
  BY <1>1, <1>2 DEF Manifest, Percentile
<1> HIDE DEF n, c, v
<1>8. \A k, l \in SucceededAt : results[k] = results[l] => k = l
  BY <1>1 DEF BenchInv, RecordedOnce
<1>9. IsFiniteSet(some) /\ Cardinality(some) \in Nat
  BY <1>1, FS_Subset, FS_CardinalityType
<1>10. IsFiniteSet(rest) /\ Cardinality(rest) \in Nat
  BY <1>1, FS_Subset, FS_CardinalityType
<1>11. \A j \in 1 .. c : results[sorted[j]] \in some
  <2> SUFFICES ASSUME NEW j \in 1 .. c PROVE results[sorted[j]] \in some
    OBVIOUS
  <2>1. j \in 1 .. n /\ (j < c \/ j = c)
    BY <1>2, <1>6
  <2>2. Latency(sorted[j]) <= v
    BY <1>3, <1>4, <1>5, <1>6, <1>7, <2>1
  <2> QED
    BY <1>5, <2>1, <2>2
<1>12. \A j \in c .. n : results[sorted[j]] \in rest
  <2> SUFFICES ASSUME NEW j \in c .. n PROVE results[sorted[j]] \in rest
    OBVIOUS
  <2>1. j \in 1 .. n /\ (c < j \/ j = c)
    BY <1>2, <1>6
  <2>2. Latency(sorted[j]) >= v
    BY <1>3, <1>4, <1>5, <1>6, <1>7, <2>1
  <2> QED
    BY <1>5, <2>1, <2>2
<1> HIDE DEF some, rest
<1>13. c <= Cardinality(some)
  <2>1. 1 .. c \in SUBSET (1 .. n)
    BY <1>2, <1>6
  <2>2. Cardinality(1 .. c) = c
    BY <1>6, FS_Interval
  <2>3. Cardinality(1 .. c) <= Cardinality(some)
    <3> DEFINE D == 1 .. c
    <3>1. D \in SUBSET (1 .. n) /\ \A j \in D : results[sorted[j]] \in some
      BY <1>11, <2>1
    <3> HIDE DEF D
    <3>2. Cardinality(D) <= Cardinality(some)
      BY <1>2, <1>3, <1>8, <1>9, <3>1, PlacesCount
    <3> QED
      BY <3>2 DEF D
  <2> QED
    BY <2>2, <2>3
<1>14. n - c + 1 <= Cardinality(rest)
  <2>1. c .. n \in SUBSET (1 .. n)
    BY <1>2, <1>6
  <2>2. Cardinality(c .. n) = n - c + 1
    BY <1>2, <1>6, FS_Interval
  <2>3. Cardinality(c .. n) <= Cardinality(rest)
    <3> DEFINE D == c .. n
    <3>1. D \in SUBSET (1 .. n) /\ \A j \in D : results[sorted[j]] \in rest
      BY <1>12, <2>1
    <3> HIDE DEF D
    <3>2. Cardinality(D) <= Cardinality(rest)
      BY <1>2, <1>3, <1>8, <1>10, <3>1, PlacesCount
    <3> QED
      BY <3>2 DEF D
  <2> QED
    BY <2>2, <2>3
<1>15. 100 * Cardinality(some) > q * n /\ 100 * Cardinality(rest) >= (100 - q) * n
  <2>1. c \in Nat /\ q * n \in Nat /\ (100 - q) * n \in Nat /\ n - c + 1 \in Nat
    BY <1>2, <1>6
  <2> QED
    BY <1>6, <1>9, <1>10, <1>13, <1>14, <2>1
<1> QED
  BY <1>15 DEF n, v, some, rest, Ranked

\* What the manifest says is what happened (main.go:244-260).
LEMMA ManifestStep ==
  ASSUME BenchInv, [Next]_benchVars
  PROVE  ManifestSound'
<1>1. /\ manifest # None => main = "done"
      /\ ManifestSound
      /\ panicked \in SUBSET Ids
  BY DEF BenchInv, BenchTypeOK, InTurn
<1> USE DEF flags, mainVars, recordVars, workerVars, Step
<1>2. CASE Report
  <2>1. /\ UNCHANGED <<next, res, panicked>>
        /\ main = "reporting"
    BY <1>2 DEF Report
  <2>2. PICK sorted \in Ascending(SucceededAt) : manifest' \in {Manifest(sorted), None}
    BY <1>2 DEF Report
  <2>3. Successes' = Successes /\ Started' = Started
    BY <2>1 DEF Successes, Started, Succeeded
  <2>4. ManifestCounts'
    BY <2>1, <2>2, <2>3, ReportCounts DEF ManifestCounts
  <2>5. ManifestRanks'
    <3> SUFFICES ASSUME manifest' # None, panicked = {}, Successes # {},
                        NEW q \in {50, 95, 99}
                 PROVE  Ranked(manifest.p[q], q)'
      BY <2>1, <2>3 DEF ManifestRanks
    <3>1. manifest' = Manifest(sorted)
      BY <2>2
    <3>2. Ranked(manifest'.p[q], q)
      BY <2>1, <3>1, ReportRanks
    <3> QED
      BY <2>1, <2>3, <3>2 DEF Ranked
  <2> QED
    BY <2>4, <2>5 DEF ManifestSound
<1>3. CASE manifest' = None
  BY <1>3 DEF ManifestSound, ManifestCounts, ManifestRanks
<1>4. CASE UNCHANGED benchVars
  <2>1. /\ manifest' = manifest /\ panicked' = panicked /\ next' = next /\ res' = res
        /\ Successes' = Successes /\ Started' = Started
    BY <1>4 DEF benchVars, Successes, Started, Succeeded
  <2> QED
    BY <1>1, <2>1 DEF ManifestSound, ManifestCounts, ManifestRanks, Ranked
<1>5. ASSUME MainStep \/ (\E i \in Ids : WorkerStep(i)) \/
             (\E i \in Ids, a \in Answers : Answer(i, a)), ~Report
      PROVE  Running /\ manifest' = manifest
  BY <1>5
  DEF MainStep, WorkerStep, Fire, NewTickerPanics, Tick, EndLoop, Drained, Begin, LockResults,
      AppendResult, WriteCSVLine, Release, Done, Abort, Answer, Running
<1> QED
  BY <1>1, <1>2, <1>3, <1>4, <1>5 DEF Next, Running

----------------------------------------------------------------------------
(* The theorems. *)

\* The two counters, the mutex, the shared results, the CSV lines and main agree
\* after every step of every goroutine (main.go:105-151, 244-253).
THEOREM BenchInvariant == Spec => []BenchInv
<1>1. BenchInv /\ [Next]_benchVars => BenchInv'
  BY BenchTypeStep, CountersStep, AppendGuardedStep, RecordedStep, InTurnStep,
     ManifestStep DEF BenchInv
<1> QED
  BY InitBench, <1>1, PTL DEF Spec

\* Every variable keeps its type: neither counter goes below zero, and sem never
\* above its capacity.
THEOREM BenchTypes == Spec => []BenchTypeOK
<1>1. BenchInv => BenchTypeOK
  BY DEF BenchInv
<1> QED
  BY BenchInvariant, <1>1, PTL

\* The concurrency limit of burst mode holds for any number of slots, requests and
\* failures: a goroutine that is calling holds a slot (main.go:110-116).
THEOREM SlotsRespected == Spec => []AtMostSlotsInFlight
<1>1. BenchInv => AtMostSlotsInFlight
  <2> SUFFICES ASSUME BenchInv, mode = "burst"
               PROVE  Cardinality(Under({"calling"})) <= Slots
    BY DEF AtMostSlotsInFlight, Under
  <2>1. sem = Cardinality(Under(Holding)) /\ sem \in 0 .. Slots
    BY DEF BenchInv, BenchTypeOK, Counters
  <2>2. Under({"calling"}) \subseteq Under(Holding) /\ Under(Holding) \in SUBSET Ids
    BY DEF Under, Holding
  <2>3. /\ Cardinality(Under({"calling"})) <= Cardinality(Under(Holding))
        /\ Cardinality(Under({"calling"})) \in Nat
    BY <2>2, IdsFinite, FS_Subset
  <2> QED
    BY <2>1, <2>3, SlotsAssumption
<1> QED
  BY BenchInvariant, <1>1, PTL

\* When main has passed the wait group without a panic, every request it started
\* has one result and one CSV line (main.go:112-125, 142-151).
THEOREM NoneLost == Spec => []NothingLost
<1>1. BenchInv => NothingLost
  <2> SUFFICES ASSUME BenchInv, main \in {"reporting", "done"}, panicked = {}
               PROVE  /\ mode = "burst" => next = Count
                      /\ Len(results) = next
                      /\ \A i \in Started : csv[i] = 1 /\ InResults(i)
    BY DEF NothingLost, InResults
  <2> QED
    BY AllRecorded DEF BenchInv, InTurn
<1> QED
  BY BenchInvariant, <1>1, PTL

\* The manifest's total, successes and errors are those of the calls, and its
\* percentiles have their ranks (main.go:244-260).
THEOREM ManifestIsTrue == Spec => []ManifestSound
<1>1. BenchInv => ManifestSound
  BY DEF BenchInv
<1> QED
  BY BenchInvariant, <1>1, PTL

----------------------------------------------------------------------------
(* The load generator and the gateway together. *)

\* Whatever the gateway does, the load generator does what it does alone.
LEMMA GeneratorStepOrNone == [SystemNext]_allVars => [Next]_benchVars
  BY DEF SystemNext, GeneratorStep, GatewayStep, CallReturns, Next, allVars

\* Initially there is no link, and no request has been sent.
LEMMA InitSystem == SystemInit => SystemInv
<1> SUFFICES ASSUME SystemInit PROVE SystemInv
  OBVIOUS
<1>1. /\ BenchInv /\ chain = <<>> /\ outcome = [i \in Ids |-> "pending"]
      /\ \A i \in Ids : res[i] = None
  BY InitBench DEF SystemInit, Log!LogInit, Init
<1> QED
  BY <1>1
  DEF SystemInv, Log!LogTypeOK, Log!Outcomes, OneLinkEach, HasLink, ToldTheOutcome, Recorded

\* A request that has been sent stays sent, and only a call that returns records
\* an answer.
LEMMA SentStays ==
  ASSUME BenchInv, [Next]_benchVars
  PROVE  /\ \A i \in Ids : Sent(i) => Sent(i)'
         /\ \A i \in Ids : res'[i] = res[i] \/ \E a \in Answers : Answer(i, a)
         /\ \A i \in Ids, a \in Answers : Answer(i, a) =>
              Sent(i) /\ res'[i] = a /\ \A j \in Ids \ {i} : res'[j] = res[j]
<1>1. /\ at \in [Ids -> Stages] /\ res \in [Ids -> Answers \cup {None}]
      /\ panicked \in SUBSET Ids
      /\ \A i \in Ids : i \in panicked => at[i] \in Ended
  BY DEF BenchInv, BenchTypeOK, RecordedOnce
<1> USE DEF flags, mainVars, recordVars, workerVars, Step
<1>2. CASE Fire \/ Tick
  <2>1. CASE Spawn
    <3>1. next \in Ids /\ at[next] = "none" /\ at' = [at EXCEPT ![next] = "spawned"]
      BY <1>2, <2>1, NextIsFree DEF Fire, Tick, Spawn
    <3>2. UNCHANGED <<res, panicked>> /\ main = "loop"
      BY <1>2 DEF Fire, Tick
    <3>3. \A i \in Ids : Sent(i) => Sent(i)'
      BY <1>1, <3>1, <3>2 DEF Sent
    <3>4. \A i \in Ids, a \in Answers : ~Answer(i, a)
      BY <1>1, <3>1 DEF Answer
    <3> QED
      BY <3>2, <3>3, <3>4
  <2>2. CASE UNCHANGED <<at, wg, next>>
    BY <1>1, <1>2, <2>2 DEF Fire, Tick, Sent, Answer
  <2> QED
    BY <1>2, <2>1, <2>2 DEF Fire, Tick
<1>3. ASSUME NEW i \in Ids, NEW a \in Answers, Answer(i, a)
      PROVE  /\ \A j \in Ids : Sent(j) => Sent(j)'
             /\ \A j \in Ids : res'[j] = res[j] \/ j = i
             /\ Sent(i) /\ res'[i] = a /\ \A j \in Ids \ {i} : res'[j] = res[j]
  BY <1>1, <1>3 DEF Answer, Sent, Ended
<1>4. ASSUME NEW i \in Ids, WorkerStep(i)
      PROVE  (\A j \in Ids : Sent(j) => Sent(j)') /\ res' = res
  <2>1. CASE Begin(i)
    BY <1>1, <2>1 DEF Begin, Sent
  <2>2. CASE LockResults(i) \/ AppendResult(i) \/ WriteCSVLine(i)
    BY <1>1, <2>2 DEF LockResults, AppendResult, WriteCSVLine, Sent
  <2>3. CASE Release(i) \/ Done(i) \/ Abort(i)
    BY <1>1, <2>3 DEF Release, Done, Abort, Sent
  <2> QED
    BY <1>4, <2>1, <2>2, <2>3 DEF WorkerStep
<1>5. CASE NewTickerPanics \/ EndLoop \/ Drained \/ Report \/ UNCHANGED benchVars
  <2>1. UNCHANGED <<at, res, panicked>>
    BY <1>5 DEF NewTickerPanics, EndLoop, Drained, Report, benchVars
  <2> QED
    BY <1>1, <1>3, <2>1 DEF Sent
<1> QED
  BY <1>2, <1>3, <1>4, <1>5 DEF Next, MainStep

\* A step of the gateway keeps one link for each request it committed, and what
\* it has answered, or refused, stays so.
LEMMA LogStep ==
  ASSUME Log!LogTypeOK, OneLinkEach,
         \/ \E i \in Ids : \/ Log!Commit(i) /\ chain' = Append(chain, i)
                           \/ Log!Acknowledge(i) \/ Log!Orphan(i) \/ Log!Refuse(i)
         \/ \E S \in SUBSET Ids : Log!Interrupt(S)
         \/ UNCHANGED <<chain, outcome>>
  PROVE  /\ Log!LogTypeOK' /\ OneLinkEach'
         /\ \A i \in Ids : outcome[i] = "refused" => outcome'[i] = "refused"
         /\ \A i \in Ids : outcome[i] \in {"acknowledged", "orphaned"} =>
              outcome'[i] \in {"acknowledged", "orphaned"}
<1>1. /\ chain \in Seq(Ids) /\ outcome \in [Ids -> Log!Outcomes]
      /\ \A k, l \in DOMAIN chain : chain[k] = chain[l] => k = l
      /\ \A i \in Ids : HasLink(i) <=> outcome[i] \in {"committed", "acknowledged", "orphaned"}
  BY DEF Log!LogTypeOK, OneLinkEach
<1>2. ASSUME NEW i \in Ids, Log!Commit(i), chain' = Append(chain, i)
      PROVE  /\ Log!LogTypeOK' /\ OneLinkEach'
             /\ \A j \in Ids : outcome[j] = "refused" => outcome'[j] = "refused"
             /\ \A j \in Ids : outcome[j] \in {"acknowledged", "orphaned"} =>
                  outcome'[j] \in {"acknowledged", "orphaned"}
  <2>1. outcome[i] = "pending" /\ outcome' = [outcome EXCEPT ![i] = "committed"]
    BY <1>2 DEF Log!Commit
  <2>2. \A k \in DOMAIN chain : chain[k] # i
    BY <1>1, <2>1 DEF HasLink
  <2>3. /\ \A k, l \in DOMAIN Append(chain, i) :
             Append(chain, i)[k] = Append(chain, i)[l] => k = l
        /\ \A y : (\E k \in DOMAIN Append(chain, i) : Append(chain, i)[k] = y) <=>
                  y = i \/ \E k \in DOMAIN chain : chain[k] = y
    BY <1>1, <2>2, AppendOne
  <2>4. \A j \in Ids : HasLink(j)' <=> j = i \/ HasLink(j)
    BY <1>2, <2>3, Zenon DEF HasLink
  <2>5. \A k, l \in DOMAIN chain' : chain'[k] = chain'[l] => k = l
    BY <1>2, <2>3, Zenon
  <2>6. Log!LogTypeOK'
    BY <1>1, <1>2, <2>1 DEF Log!LogTypeOK, Log!Outcomes
  <2>7. \A j \in Ids : outcome'[j] = IF j = i THEN "committed" ELSE outcome[j]
    BY <1>1, <2>1
  <2>8. OneLinkEach'
    BY <1>1, <2>4, <2>5, <2>7 DEF OneLinkEach
  <2> QED
    BY <2>1, <2>6, <2>7, <2>8
<1>3. ASSUME NEW i \in Ids, Log!Acknowledge(i) \/ Log!Orphan(i) \/ Log!Refuse(i)
      PROVE  /\ Log!LogTypeOK' /\ OneLinkEach'
             /\ \A j \in Ids : outcome[j] = "refused" => outcome'[j] = "refused"
             /\ \A j \in Ids : outcome[j] \in {"acknowledged", "orphaned"} =>
                  outcome'[j] \in {"acknowledged", "orphaned"}
  BY <1>1, <1>3
  DEF Log!Acknowledge, Log!Orphan, Log!Refuse, Log!LogTypeOK, Log!Outcomes, OneLinkEach, HasLink
<1>4. ASSUME NEW S \in SUBSET Ids, Log!Interrupt(S)
      PROVE  /\ Log!LogTypeOK' /\ OneLinkEach'
             /\ \A j \in Ids : outcome[j] = "refused" => outcome'[j] = "refused"
             /\ \A j \in Ids : outcome[j] \in {"acknowledged", "orphaned"} =>
                  outcome'[j] \in {"acknowledged", "orphaned"}
  BY <1>1, <1>4
  DEF Log!Interrupt, Log!LogTypeOK, Log!Outcomes, OneLinkEach, HasLink
<1>5. CASE UNCHANGED <<chain, outcome>>
  BY <1>1, <1>5 DEF Log!LogTypeOK, OneLinkEach, HasLink
<1> QED
  BY <1>2, <1>3, <1>4, <1>5

\* What a call returned tells the outcome of its request.
LEMMA CallOutcome ==
  ASSUME NEW i \in Ids, NEW a \in Answers, CallReturns(i, a)
  PROVE  /\ a.status \in {0, 200, 500}
         /\ a.status = 0   => UNCHANGED <<chain, outcome>>
         /\ a.status = 200 => Log!Acknowledge(i) \/ Log!Orphan(i)
         /\ a.status = 500 => Log!Refuse(i)
<1>1. \/ a.status = 200 /\ a.bundle \in BOOLEAN
      \/ a.status \in {0, 500}
  BY DEF Answers
<1>2. CASE a.status = 200 /\ a.bundle
  BY <1>2 DEF CallReturns
<1>3. CASE a.status = 200 /\ ~a.bundle
  BY <1>3 DEF CallReturns
<1>4. CASE a.status = 500
  BY <1>4 DEF CallReturns
<1>5. CASE a.status = 0
  BY <1>5 DEF CallReturns
<1> QED
  BY <1>1, <1>2, <1>3, <1>4, <1>5

\* Every step of the two programs keeps them in agreement.
LEMMA SystemStep ==
  ASSUME SystemInv, [SystemNext]_allVars
  PROVE  SystemInv'
<1>1. BenchInv /\ [Next]_benchVars /\ Log!LogTypeOK /\ OneLinkEach /\ ToldTheOutcome
  BY GeneratorStepOrNone DEF SystemInv
<1>2. BenchInv'
  BY <1>1, BenchTypeStep, CountersStep, AppendGuardedStep, RecordedStep, InTurnStep,
     ManifestStep DEF BenchInv
<1>3. /\ \A i \in Ids : Sent(i) => Sent(i)'
      /\ \A i \in Ids : res'[i] = res[i] \/ \E a \in Answers : Answer(i, a)
      /\ \A i \in Ids, a \in Answers : Answer(i, a) =>
           Sent(i) /\ res'[i] = a /\ \A j \in Ids \ {i} : res'[j] = res[j]
  BY <1>1, SentStays
<1>4. /\ Log!LogTypeOK' /\ OneLinkEach'
      /\ \A i \in Ids : outcome[i] = "refused" => outcome'[i] = "refused"
      /\ \A i \in Ids : outcome[i] \in {"acknowledged", "orphaned"} =>
           outcome'[i] \in {"acknowledged", "orphaned"}
  <2>1. \/ \E i \in Ids : \/ Log!Commit(i) /\ chain' = Append(chain, i)
                          \/ Log!Acknowledge(i) \/ Log!Orphan(i) \/ Log!Refuse(i)
        \/ \E S \in SUBSET Ids : Log!Interrupt(S)
        \/ UNCHANGED <<chain, outcome>>
    <3>1. CASE GeneratorStep \/ UNCHANGED allVars
      BY <3>1 DEF GeneratorStep, allVars
    <3>2. CASE GatewayStep
      BY <3>2 DEF GatewayStep
    <3>3. ASSUME NEW i \in Ids, NEW a \in Answers, CallReturns(i, a)
          PROVE  \/ Log!Acknowledge(i) \/ Log!Orphan(i) \/ Log!Refuse(i)
                 \/ UNCHANGED <<chain, outcome>>
      BY <3>3, CallOutcome
    <3> QED
      BY <3>1, <3>2, <3>3 DEF SystemNext
  <2> QED
    BY <1>1, <2>1, LogStep
<1>5. ToldTheOutcome'
  <2>1. outcome \in [Ids -> Log!Outcomes]
    BY <1>1 DEF Log!LogTypeOK
  <2>2. ASSUME NEW i \in Ids, ~Sent(i)'
        PROVE  outcome'[i] = "pending"
    <3>1. ~Sent(i) /\ outcome[i] = "pending"
      BY <1>1, <1>3, <2>2 DEF ToldTheOutcome
    <3>2. CASE GeneratorStep \/ UNCHANGED allVars
      BY <3>1, <3>2 DEF GeneratorStep, allVars
    <3>3. CASE GatewayStep
      BY <2>1, <3>1, <3>3
      DEF GatewayStep, Log!Commit, Log!Orphan, Log!Refuse, Log!Interrupt
    <3>4. ASSUME NEW j \in Ids, NEW a \in Answers, CallReturns(j, a)
          PROVE  outcome'[i] = "pending"
      <4>1. Sent(j) /\ j # i
        BY <1>3, <3>1, <3>4 DEF CallReturns
      <4>2. \/ UNCHANGED <<chain, outcome>>
            \/ Log!Acknowledge(j) \/ Log!Orphan(j) \/ Log!Refuse(j)
        BY <3>4, CallOutcome
      <4> QED
        BY <2>1, <3>1, <4>1, <4>2 DEF Log!Acknowledge, Log!Orphan, Log!Refuse
    <3> QED
      BY <3>2, <3>3, <3>4 DEF SystemNext
  <2>3. ASSUME NEW i \in Ids, Recorded(i)'
        PROVE  /\ res'[i].status = 200 => outcome'[i] \in {"acknowledged", "orphaned"}
               /\ res'[i].status = 500 => outcome'[i] = "refused"
    <3>1. CASE \E a \in Answers : CallReturns(i, a)
      <4>1. PICK a \in Answers : CallReturns(i, a)
        BY <3>1
      <4>2. res'[i] = a
        BY <1>3, <4>1 DEF CallReturns
      <4>3. /\ a.status = 200 => Log!Acknowledge(i) \/ Log!Orphan(i)
            /\ a.status = 500 => Log!Refuse(i)
        BY <4>1, CallOutcome
      <4>4. i \in DOMAIN outcome
        BY <2>1
      <4> QED
        BY <2>1, <4>2, <4>3, <4>4 DEF Log!Acknowledge, Log!Orphan, Log!Refuse
    <3>2. CASE res'[i] = res[i]
      BY <1>1, <1>4, <2>3, <3>2 DEF ToldTheOutcome, Recorded
    <3>3. ASSUME NEW j \in Ids, NEW a \in Answers, CallReturns(j, a), j # i
          PROVE  res'[i] = res[i]
      BY <1>3, <3>3 DEF CallReturns
    <3>4. GeneratorStep \/ GatewayStep \/ UNCHANGED allVars => res' = res
      <4>1. ASSUME NEW j \in Ids, WorkerStep(j)  PROVE res' = res
        BY <4>1
        DEF WorkerStep, Begin, LockResults, AppendResult, WriteCSVLine, Release, Done, Abort,
            workerVars
      <4>2. MainStep => res' = res
        BY DEF MainStep, Fire, NewTickerPanics, Tick, EndLoop, Drained, Report, workerVars
      <4> QED
        BY <4>1, <4>2 DEF GeneratorStep, GatewayStep, allVars, benchVars, workerVars
    <3> QED
      BY <3>1, <3>2, <3>3, <3>4 DEF SystemNext
  <2> QED
    BY <2>2, <2>3 DEF ToldTheOutcome
<1> QED
  BY <1>2, <1>4, <1>5 DEF SystemInv

\* The log, the outcomes at the gateway and what the goroutines were told agree
\* after every step of either program.
THEOREM SystemInvariant == SystemSpec => []SystemInv
<1>1. SystemInv /\ [SystemNext]_allVars => SystemInv'
  BY SystemStep
<1> QED
  BY InitSystem, <1>1, PTL DEF SystemSpec

\* What a goroutine was told is what the gateway did: a 200 means one link, an
\* error status none, no answer at most one (bench main.go:191-214,
\* gateway main.go:268-277).
THEOREM AnswersAreTrue == SystemSpec => []AnswersTellTheTruth
<1>1. SystemInv => AnswersTellTheTruth
  <2> SUFFICES ASSUME SystemInv, NEW i \in Ids, Recorded(i)
               PROVE  Cardinality(LinksOf(i)) \in CASE res[i].status = 200 -> {1}
                                                    [] res[i].status = 500 -> {0}
                                                    [] OTHER -> {0, 1}
    BY DEF AnswersTellTheTruth
  <2>1. HasLink(i) => Cardinality(LinksOf(i)) = 1
    <3> SUFFICES ASSUME NEW k \in DOMAIN chain, chain[k] = i
                 PROVE  Cardinality(LinksOf(i)) = 1
      BY DEF HasLink
    <3>1. LinksOf(i) = {k}
      BY DEF LinksOf, SystemInv, OneLinkEach
    <3> QED
      BY <3>1, FS_Singleton
  <2>2. ~HasLink(i) => Cardinality(LinksOf(i)) = 0
    <3>1. ~HasLink(i) => LinksOf(i) = {}
      BY DEF HasLink, LinksOf
    <3> QED
      BY <3>1, FS_EmptySet
  <2>3. /\ res[i].status = 200 => HasLink(i)
        /\ res[i].status = 500 => ~HasLink(i)
    BY DEF SystemInv, OneLinkEach, ToldTheOutcome
  <2> QED
    BY <2>1, <2>2, <2>3
<1> QED
  BY SystemInvariant, <1>1, PTL

\* However many answers are lost, the rows of the ledger lie between the
\* manifest's successes and its total (bench main.go:244-253).
THEOREM ManifestBounds == SystemSpec => []ManifestBoundsLedger
<1>1. SystemInv => ManifestBoundsLedger
  <2> SUFFICES ASSUME SystemInv, manifest # None, panicked = {}
               PROVE  manifest.success <= Len(chain) /\ Len(chain) <= manifest.total
    BY DEF ManifestBoundsLedger
  <2> DEFINE linked == {i \in Ids : HasLink(i)}
  <2>1. /\ chain \in Seq(Ids) /\ next \in 0 .. Count /\ Count \in Nat
        /\ \A k, l \in DOMAIN chain : chain[k] = chain[l] => k = l
        /\ manifest.total = next /\ manifest.success = Cardinality(Successes)
    BY CountAssumption
    DEF SystemInv, BenchInv, BenchTypeOK, OneLinkEach, Log!LogTypeOK, ManifestSound,
        ManifestCounts
  <2>2. \A i \in linked : \E k \in DOMAIN chain : chain[k] = i
    BY DEF HasLink
  <2>3. \A k \in DOMAIN chain : chain[k] \in linked
    BY <2>1 DEF HasLink
  <2>4. Len(chain) = Cardinality(linked) /\ IsFiniteSet(linked)
    <3> HIDE DEF linked
    <3> QED
      BY <2>1, <2>2, <2>3, PositionsCount
  <2>5. Successes \subseteq linked
    <3>1. Started \subseteq Ids
      BY <2>1 DEF Started, Ids
    <3> QED
      BY <3>1
      DEF Successes, Succeeded, SystemInv, OneLinkEach, ToldTheOutcome, Recorded
  <2>6. linked \subseteq Started
    <3> SUFFICES ASSUME NEW i \in Ids, HasLink(i)  PROVE i \in Started
      OBVIOUS
    <3>1. Sent(i)
      BY DEF SystemInv, OneLinkEach, ToldTheOutcome
    <3>2. at[i] # "none" /\ i \in Nat
      BY <3>1, IdsFinite DEF Sent
    <3> QED
      BY <2>1, <3>2 DEF SystemInv, BenchInv, InTurn, Started
  <2>7. IsFiniteSet(Started) /\ Cardinality(Started) = next
    BY <2>1, FS_Interval DEF Started
  <2>8. Cardinality(Successes) <= Cardinality(linked)
    BY <2>4, <2>5, FS_Subset
  <2>9. Cardinality(linked) <= next
    BY <2>6, <2>7, FS_Subset
  <2> QED
    BY <2>1, <2>4, <2>8, <2>9
<1> QED
  BY SystemInvariant, <1>1, PTL

\* Called by the load generator, each side does only what it does alone: the calls
\* are the generator's own answers and steps of the gateway's log, so what holds of
\* either alone holds of both together (bench main.go:179-217, gateway main.go:148-285).
THEOREM EachDoesItsPart == SystemSpec => Spec /\ Log!LogSpec
<1>1. SystemInit => Init /\ Log!LogInit
  BY DEF SystemInit
<1>2. [SystemNext]_allVars => [Log!LogNext]_(Log!logVars)
  <2>1. ASSUME GatewayStep PROVE Log!LogNext
    <3>1. CASE \E S \in SUBSET {i \in Ids : Sent(i)} : Log!Interrupt(S)
      <4>1. SUBSET {i \in Ids : Sent(i)} \subseteq SUBSET Ids
        OBVIOUS
      <4> QED
        BY <3>1, <4>1 DEF Log!LogNext
    <3>2. CASE ~ \E S \in SUBSET {i \in Ids : Sent(i)} : Log!Interrupt(S)
      BY <2>1, <3>2 DEF GatewayStep, Log!LogNext
    <3> QED
      BY <3>1, <3>2
  <2>2. ASSUME NEW i \in Ids, NEW a \in Answers, CallReturns(i, a)
        PROVE  Log!LogNext \/ UNCHANGED <<chain, outcome>>
    <3>1. a.status \in {0, 200, 500} /\ a.bundle \in BOOLEAN
      BY DEF Answers
    <3> QED
      BY <2>2, <3>1 DEF CallReturns, Log!LogNext
  <2> QED
    BY <2>1, <2>2 DEF SystemNext, GeneratorStep, allVars, Log!logVars
<1> QED
  BY <1>1, <1>2, GeneratorStepOrNone, PTL DEF SystemSpec, Spec, Log!LogSpec
=============================================================================
