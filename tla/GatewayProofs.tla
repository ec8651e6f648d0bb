--------------------------- MODULE GatewayProofs ---------------------------
(***************************************************************************)
(* Theorems about Gateway for any set of requests, messages, bundle ids    *)
(* and witnesses and any number of crashes, checked by TLAPS.              *)
(***************************************************************************)
EXTENDS Gateway, FiniteSetTheorems, TLAPS

----------------------------------------------------------------------------
(* Types of the values a handler computes. *)

\* The chain hash of a handler and the head of the ledger are hashes.
LEMMA HashTypes ==
  ASSUME TypeOK
  PROVE  /\ LatestChainHash \in Hashes
         /\ \A r \in Requests : ChainHash(r) \in Hashes
<1>1. LatestChainHash \in Hashes
  <2>1. CASE ledger = <<>>
    BY <2>1 DEF LatestChainHash, Genesis, Hashes
  <2>2. CASE ledger # <<>>
    <3>1. Len(ledger) \in DOMAIN ledger /\ ledger[Len(ledger)] \in Row
      BY <2>2 DEF TypeOK
    <3>2. QED  BY <2>2, <3>1 DEF LatestChainHash, Row
  <2>3. QED  BY <2>1, <2>2
<1>2. ASSUME NEW r \in Requests  PROVE ChainHash(r) \in Hashes
  <2>1. msg[r] \in Messages /\ bundleID[r] \in BundleIds /\ prevHash[r] \in Hashes
    BY DEF TypeOK
  <2>2. <<OriginalHash(r), EnrichedHash(r)>> \in Links
    BY <2>1 DEF OriginalHash, EnrichedHash, Links, EnrichedHashes
  <2>3. QED  BY <2>1, <2>2 DEF ChainHash, CoordinationHash, Hashes
<1>3. QED  BY <1>1, <1>2

\* The bundle a handler builds is a row.
LEMMA BundleType ==
  ASSUME TypeOK, NEW r \in Requests
  PROVE  BundleOf(r) \in Row
<1>1. /\ msg[r] \in Messages /\ bundleID[r] \in BundleIds
      /\ prevHash[r] \in Hashes /\ sigs[r] \in Seq(Signatures)
  BY DEF TypeOK
<1>2. OriginalHash(r) \in Messages /\ EnrichedHash(r) \in EnrichedHashes
  BY <1>1 DEF OriginalHash, EnrichedHash, EnrichedHashes
<1>3. ChainHash(r) \in Hashes
  BY HashTypes
<1>4. QuorumStatus(sigs[r]) \in {"QUORUM_MET", "QUORUM_FAILED"}
  BY DEF QuorumStatus
<1>5. QED  BY <1>1, <1>2, <1>3, <1>4 DEF BundleOf, Row

\* What a goroutine sends is a result, and the capacity is a number.
LEMMA ResultTypes ==
  ASSUME TypeOK, NEW r \in Requests, NEW w \in Witnesses
  PROVE  /\ [ok |-> TRUE,  sig |-> SignatureBy(r, w)] \in Results
         /\ [ok |-> FALSE, sig |-> NilSignature(w)] \in Results
<1>1. ChainHash(r) \in Hashes /\ Genesis \in Hashes
  BY HashTypes DEF Genesis, Hashes
<1>2. QED  BY <1>1 DEF SignatureBy, NilSignature, Signatures, Results

\* The channel has a number of places.
LEMMA CapacityType == ChanCapacity \in Nat /\ Cardinality(Witnesses) \in Nat
BY WitnessesAssumption, FS_CardinalityType DEF ChanCapacity

----------------------------------------------------------------------------
(* Type correctness. *)

\* Initially every variable has its type.
LEMMA InitType == Init => TypeOK
<1> SUFFICES ASSUME Init PROVE TypeOK
  OBVIOUS
<1>1. (CHOOSE m \in Messages : TRUE) \in Messages
  BY RequestsAssumption
<1>2. (CHOOSE b \in BundleIds : TRUE) \in BundleIds
  BY RequestsAssumption
<1>3. QED
  BY <1>1, <1>2, CrashesAssumption DEF Init, TypeOK, Hashes, Genesis, PCs

\* Every step of a handler, a goroutine or the process keeps the types.
LEMMA NextType == TypeOK /\ [Next]_vars => TypeOK'
<1> SUFFICES ASSUME TypeOK, [Next]_vars PROVE TypeOK'
  OBVIOUS
<1> USE DEF handlerVars, signingVars
<1>1. ASSUME NEW r \in Requests, Prepare(r)  PROVE TypeOK'
  BY <1>1 DEF TypeOK, Prepare, PCs, Active
<1>2. ASSUME NEW r \in Requests, Reject(r)  PROVE TypeOK'
  BY <1>2 DEF TypeOK, Reject, PCs, Finished
<1>3. ASSUME NEW r \in Requests, Lock(r)  PROVE TypeOK'
  BY <1>3 DEF TypeOK, Lock, PCs, Active, Critical
<1>4. ASSUME NEW r \in Requests, ReadPrev(r)  PROVE TypeOK'
  BY <1>4, HashTypes DEF TypeOK, ReadPrev, PCs, Active, Critical
<1>5. ASSUME NEW r \in Requests, ReadPrevFails(r)  PROVE TypeOK'
  BY <1>5 DEF TypeOK, ReadPrevFails, Finish, PCs, Finished
<1>6. ASSUME NEW r \in Requests, NEW w \in Witnesses, NEW res \in Results,
             Send(r, w, res)
      PROVE  TypeOK'
  BY <1>6 DEF TypeOK, Send
<1>7. ASSUME NEW r \in Requests, Collect(r)  PROVE TypeOK'
  <2>1. ch[r] \in Seq(Results) /\ ch[r] # <<>> /\ got[r] \in Nat
        /\ sigs[r] \in Seq(Signatures)
    BY <1>7 DEF TypeOK, Collect
  <2>2. Head(ch[r]) \in Results /\ Tail(ch[r]) \in Seq(Results)
    BY <2>1
  <2>3. Head(ch[r]).sig \in Signatures
    BY <2>2 DEF Results
  <2>4. Append(sigs[r], Head(ch[r]).sig) \in Seq(Signatures) /\ got[r] + 1 \in Nat
    BY <2>1, <2>3
  <2>5. ch' \in [Requests -> Seq(Results)]
    BY <1>7, <2>2 DEF TypeOK, Collect
  <2>6. sigs' \in [Requests -> Seq(Signatures)]
    BY <1>7, <2>1, <2>4 DEF TypeOK, Collect
  <2>7. got' \in [Requests -> Nat]
    BY <1>7, <2>4 DEF TypeOK, Collect
  <2>8. QED  BY <1>7, <2>5, <2>6, <2>7 DEF TypeOK, Collect
<1>8. ASSUME NEW r \in Requests, CollectedAll(r) \/ Deadline(r)  PROVE TypeOK'
  BY <1>8 DEF TypeOK, CollectedAll, Deadline, PCs, Active, Critical
<1>9. ASSUME NEW r \in Requests, Insert(r)  PROVE TypeOK'
  <2>1. ledger' \in Seq(Row)
    BY <1>9, BundleType DEF TypeOK, Insert
  <2>2. QED  BY <1>9, <2>1 DEF TypeOK, Insert, PCs, Active, Critical
<1>10. ASSUME NEW r \in Requests, InsertFails(r)  PROVE TypeOK'
  BY <1>10 DEF TypeOK, InsertFails, Finish, PCs, Finished
<1>11. ASSUME NEW r \in Requests, Return(r)  PROVE TypeOK'
  BY <1>11 DEF TypeOK, Return, Finish, PCs, Active
<1>12. ASSUME NEW r \in Requests, Deliver(r) \/ LoseReply(r)  PROVE TypeOK'
  BY <1>12 DEF TypeOK, Deliver, LoseReply, PCs, Finished
<1>13. CASE Crash
  <2>1. \A p \in PCs : AfterCrash(p) \in PCs
    BY DEF AfterCrash, PCs, Active, Critical, Finished
  <2>2. crashes' \in 0 .. MaxCrashes
    BY <1>13, CrashesAssumption DEF TypeOK, Crash
  <2>3. pc' \in [Requests -> PCs]
    BY <1>13, <2>1 DEF TypeOK, Crash
  <2>4. QED  BY <1>13, <2>2, <2>3 DEF TypeOK, Crash
<1>14. CASE UNCHANGED vars
  BY <1>14 DEF TypeOK, vars
<1>15. ASSUME NEW r \in Requests, NEW w \in Witnesses, Goroutine(r, w)
       PROVE  TypeOK'
  BY <1>15, <1>6, ResultTypes DEF Goroutine, WitnessAnswers, WitnessFails
<1>16. QED
  BY <1>1, <1>2, <1>3, <1>4, <1>5, <1>7, <1>8, <1>9, <1>10, <1>11, <1>12,
     <1>13, <1>14, <1>15 DEF Next, Handler

\* The type invariant holds in every reachable state.
THEOREM TypeCorrect == Spec => []TypeOK
BY InitType, NextType, PTL DEF Spec

----------------------------------------------------------------------------
(* The parts of the inductive invariant, one lemma each. *)

\* Which actions change pc of which handler, and how: all that the lemmas on
\* the mutex need to know of a step.
LEMMA MutexStep ==
  ASSUME TypeOK, MutexHeld, [Next]_vars
  PROVE  MutexHeld'
<1> USE DEF MutexHeld, TypeOK, Critical, Active, Finished, PCs
<1>1. ASSUME NEW r \in Requests,
             Prepare(r) \/ Reject(r) \/ Deliver(r) \/ LoseReply(r)
      PROVE  MutexHeld'
  BY <1>1 DEF Prepare, Reject, Deliver, LoseReply
<1>2. ASSUME NEW r \in Requests, Lock(r)  PROVE MutexHeld'
  BY <1>2, NoOneAssumption DEF Lock
<1>3. ASSUME NEW r \in Requests,
             ReadPrev(r) \/ CollectedAll(r) \/ Deadline(r) \/ Insert(r)
      PROVE  MutexHeld'
  BY <1>3 DEF ReadPrev, CollectedAll, Deadline, Insert
<1>4. ASSUME NEW r \in Requests,
             ReadPrevFails(r) \/ InsertFails(r) \/ Return(r)
      PROVE  MutexHeld'
  BY <1>4, NoOneAssumption DEF ReadPrevFails, InsertFails, Return, Finish
<1>5. CASE UNCHANGED <<mu, pc>>
  BY <1>5
<1>6. CASE Crash
  <2>1. \A p \in PCs : AfterCrash(p) \notin Critical
    BY DEF AfterCrash
  <2>2. QED  BY <1>6, <2>1, NoOneAssumption DEF Crash
<1>7. ASSUME NEW r \in Requests, Collect(r)  PROVE UNCHANGED <<mu, pc>>
  BY <1>7 DEF Collect
<1>8. ASSUME NEW r \in Requests, NEW w \in Witnesses, Goroutine(r, w)
      PROVE  UNCHANGED <<mu, pc>>
  BY <1>8 DEF Goroutine, WitnessAnswers, WitnessFails, Send
<1>9. QED
  BY <1>1, <1>2, <1>3, <1>4, <1>5, <1>6, <1>7, <1>8 DEF Next, Handler, vars

\* The ledger, and with it the head of the chain, changes in Insert only.
LEMMA LedgerStep ==
  ASSUME [Next]_vars, ~ \E r \in Requests : Insert(r)
  PROVE  /\ ledger' = ledger
         /\ LatestChainHash' = LatestChainHash
<1>1. ledger' = ledger
  BY DEF vars, Next, Handler, Prepare, Reject, Lock, ReadPrev, ReadPrevFails,
         Collect, CollectedAll, Deadline, InsertFails, Return, Deliver,
         LoseReply, Goroutine, WitnessAnswers, WitnessFails, Send, Crash
<1>2. QED  BY <1>1 DEF LatestChainHash

\* A handler's message, bundle id and previous hash change in Prepare and
\* ReadPrev only, so its chain hash is fixed while signatures are collected.
LEMMA HandlerVarsStep ==
  ASSUME TypeOK, [Next]_vars, NEW r \in Requests, ~Prepare(r), ~ReadPrev(r)
  PROVE  /\ msg'[r] = msg[r] /\ bundleID'[r] = bundleID[r]
         /\ prevHash'[r] = prevHash[r]
         /\ ChainHash(r)' = ChainHash(r)
<1>1. msg'[r] = msg[r] /\ bundleID'[r] = bundleID[r] /\ prevHash'[r] = prevHash[r]
  BY DEF TypeOK, handlerVars, vars, Next, Handler, Prepare, Reject, Lock,
         ReadPrev, ReadPrevFails, Collect, CollectedAll, Deadline, Insert,
         InsertFails, Return, Deliver, LoseReply, Goroutine, WitnessAnswers,
         WitnessFails, Send, Crash
<1>2. QED
  BY <1>1 DEF ChainHash, OriginalHash, EnrichedHash, CoordinationHash

\* The head that was read is still the head: only the holder of the mutex
\* inserts, and it leaves "storing" when it does.
LEMMA PrevStep ==
  ASSUME TypeOK, MutexHeld, PrevIsHead, [Next]_vars
  PROVE  PrevIsHead'
<1> SUFFICES ASSUME NEW r \in Requests, pc'[r] \in {"collecting", "storing"}
             PROVE  prevHash'[r] = LatestChainHash'
  BY DEF PrevIsHead
<1>1. CASE \E q \in Requests : Insert(q)
  <2> PICK q \in Requests : Insert(q)
    BY <1>1
  <2>1. q # r /\ pc'[r] = pc[r] /\ pc[q] = "storing"
    BY DEF Insert, TypeOK
  <2>2. mu = q /\ mu = r
    BY <2>1 DEF MutexHeld, Critical
  <2>3. QED  BY <2>1, <2>2
<1>2. CASE ReadPrev(r)
  BY <1>2 DEF ReadPrev, TypeOK, LatestChainHash
<1>3. CASE ~ReadPrev(r) /\ ~ \E q \in Requests : Insert(q)
  <2>1. LatestChainHash' = LatestChainHash
    BY <1>3, LedgerStep
  <2>2. ~Prepare(r) /\ pc[r] \in {"collecting", "storing"}
    BY <1>3 DEF TypeOK, vars, Next, Handler, Prepare, Reject, Lock,
         ReadPrev, ReadPrevFails, Finish, Collect, CollectedAll, Deadline,
         InsertFails, Return, Deliver, LoseReply, Goroutine, WitnessAnswers,
         WitnessFails, Send, Crash, AfterCrash, PCs, Active, Critical, Finished
  <2>3. prevHash'[r] = prevHash[r]
    BY <1>3, <2>2, HandlerVarsStep
  <2>4. QED  BY <2>1, <2>2, <2>3 DEF PrevIsHead
<1>4. QED  BY <1>1, <1>2, <1>3

\* The inserted row comes after all others, which stay as they are.
LEMMA InsertedRow ==
  ASSUME TypeOK, NEW r \in Requests, Insert(r)
  PROVE  /\ Len(ledger) \in Nat
         /\ DOMAIN ledger = 1 .. Len(ledger)
         /\ DOMAIN ledger' = 1 .. Len(ledger) + 1
         /\ \A i \in DOMAIN ledger : ledger'[i] = ledger[i]
         /\ ledger'[Len(ledger) + 1] = BundleOf(r)
         /\ LatestChainHash' = ChainHash(r)
<1>1. ledger \in Seq(Row) /\ BundleOf(r) \in Row /\ ledger' = Append(ledger, BundleOf(r))
  BY BundleType DEF TypeOK, Insert
<1>2. /\ Len(ledger) \in Nat
      /\ DOMAIN ledger = 1 .. Len(ledger)
      /\ DOMAIN ledger' = 1 .. Len(ledger) + 1
      /\ \A i \in DOMAIN ledger : ledger'[i] = ledger[i]
      /\ ledger'[Len(ledger) + 1] = BundleOf(r)
      /\ ledger' # <<>> /\ Len(ledger') = Len(ledger) + 1
  BY <1>1
<1>3. LatestChainHash' = BundleOf(r).chain_hash
  BY <1>2 DEF LatestChainHash
<1>4. QED  BY <1>2, <1>3 DEF BundleOf

LEMMA ChainStep ==
  ASSUME TypeOK, PrevIsHead, ChainUnbroken, [Next]_vars
  PROVE  ChainUnbroken'
<1>1. CASE ~ \E r \in Requests : Insert(r)
  BY <1>1, LedgerStep DEF ChainUnbroken, RowHash
<1>2. ASSUME NEW r \in Requests, Insert(r)  PROVE ChainUnbroken'
  <2> DEFINE n == Len(ledger)
  <2>1. /\ n \in Nat /\ DOMAIN ledger = 1 .. n /\ DOMAIN ledger' = 1 .. n + 1
        /\ \A i \in DOMAIN ledger : ledger'[i] = ledger[i]
        /\ ledger'[n + 1] = BundleOf(r)
    BY <1>2, InsertedRow
  <2>2. ledger \in Seq(Row)
    BY DEF TypeOK
  <2> SUFFICES ASSUME NEW i \in DOMAIN ledger'
               PROVE  /\ ledger'[i].chain_hash = RowHash(ledger'[i])
                      /\ ledger'[i].prev_chain_hash =
                           IF i = 1 THEN Genesis ELSE ledger'[i - 1].chain_hash
    BY DEF ChainUnbroken, RowHash
  <2>3. CASE i \in DOMAIN ledger
    <3>1. ledger'[i] = ledger[i] /\ (i # 1 => ledger'[i - 1] = ledger[i - 1])
      BY <2>1, <2>3
    <3>2. QED  BY <2>3, <3>1 DEF ChainUnbroken
  <2>4. CASE i = n + 1
    <3>1. ledger'[i] = BundleOf(r)
      BY <2>1, <2>4
    <3>2. BundleOf(r).chain_hash = RowHash(BundleOf(r))
      BY DEF BundleOf, RowHash, ChainHash
    <3>3. BundleOf(r).prev_chain_hash = LatestChainHash
      BY <1>2 DEF BundleOf, PrevIsHead, Insert
    <3>4. CASE n = 0
      <4>1. ledger = <<>> /\ i = 1
        BY <2>2, <2>4, <3>4
      <4>2. QED  BY <3>1, <3>2, <3>3, <4>1 DEF LatestChainHash
    <3>5. CASE n # 0
      <4>1. ledger # <<>> /\ i # 1 /\ i - 1 = n /\ n \in DOMAIN ledger
        BY <2>1, <2>2, <2>4, <3>5
      <4>2. LatestChainHash = ledger'[i - 1].chain_hash
        BY <2>1, <4>1 DEF LatestChainHash
      <4>3. QED  BY <3>1, <3>2, <3>3, <4>1, <4>2
    <3>6. QED  BY <3>4, <3>5
  <2>5. QED  BY <2>1, <2>3, <2>4
<1>3. QED  BY <1>1, <1>2

LEMMA UniqueStep ==
  ASSUME TypeOK, BundleIdsUnique, [Next]_vars
  PROVE  BundleIdsUnique'
<1>1. CASE ~ \E r \in Requests : Insert(r)
  BY <1>1, LedgerStep DEF BundleIdsUnique
<1>2. ASSUME NEW r \in Requests, Insert(r)  PROVE BundleIdsUnique'
  <2>1. \A i \in DOMAIN ledger : ledger[i].bundle_id # BundleOf(r).bundle_id
    BY <1>2 DEF Insert, HasBundle, BundleOf
  <2>2. QED  BY <1>2, <2>1, InsertedRow DEF BundleIdsUnique
<1>3. QED  BY <1>1, <1>2

\* The signatures a handler has collected change in Collect only.
LEMMA SigsStep ==
  ASSUME TypeOK, [Next]_vars, NEW r \in Requests, ~Collect(r)
  PROVE  sigs'[r] = sigs[r]
BY DEF TypeOK, handlerVars, signingVars, vars, Next, Handler, Prepare, Reject,
       Lock, ReadPrev, ReadPrevFails, Collect, CollectedAll, Deadline, Insert,
       InsertFails, Return, Deliver, LoseReply, Goroutine, WitnessAnswers,
       WitnessFails, Send, Crash

\* A crash orphans only those whose row is stored.
LEMMA AfterCrashStored ==
  ASSUME NEW p \in PCs,
         AfterCrash(p) \in {"stored", "returned", "ok", "orphaned"}
  PROVE  p \in {"stored", "returned", "ok", "orphaned"}
BY DEF AfterCrash, PCs, Active, Critical, Finished

\* A handler keeps its bundle from the insert on, and rows are never removed.
LEMMA StoredStep ==
  ASSUME TypeOK, StoredIsRow, [Next]_vars
  PROVE  StoredIsRow'
<1> DEFINE Stored == {"stored", "returned", "ok", "orphaned"}
<1> SUFFICES ASSUME NEW r \in Requests, pc'[r] \in Stored
             PROVE  \E i \in DOMAIN ledger' : ledger'[i] = BundleOf(r)'
  BY DEF StoredIsRow
<1>1. ASSUME NEW i \in DOMAIN ledger
      PROVE  i \in DOMAIN ledger' /\ ledger'[i] = ledger[i]
  <2>1. CASE ~ \E q \in Requests : Insert(q)
    BY <2>1, LedgerStep
  <2>2. CASE \E q \in Requests : Insert(q)
    BY <2>2, InsertedRow
  <2>3. QED  BY <2>1, <2>2
<1>2. CASE Insert(r)
  <2>1. BundleOf(r)' = BundleOf(r)
    BY <1>2 DEF Insert, handlerVars, signingVars, BundleOf, ChainHash,
       OriginalHash, EnrichedHash, CoordinationHash, QuorumStatus
  <2>2. QED  BY <1>2, <2>1, InsertedRow
<1>3. CASE ~Insert(r)
  <2>1. pc[r] \in Stored
    BY <1>3, AfterCrashStored DEF TypeOK, handlerVars, signingVars, vars, Next,
       Handler, Prepare, Reject, Lock, ReadPrev, ReadPrevFails, Finish, Collect,
       CollectedAll, Deadline, Insert, InsertFails, Return, Deliver, LoseReply,
       Goroutine, WitnessAnswers, WitnessFails, Send, Crash
  <2>2. ~Prepare(r) /\ ~ReadPrev(r) /\ ~Collect(r)
    BY <2>1 DEF Prepare, ReadPrev, Collect
  <2>3. sigs'[r] = sigs[r]
    BY <2>2, SigsStep
  <2>4. BundleOf(r)' = BundleOf(r)
    BY <2>2, <2>3, HandlerVarsStep DEF BundleOf, OriginalHash, EnrichedHash, QuorumStatus
  <2>5. PICK i \in DOMAIN ledger : ledger[i] = BundleOf(r)
    BY <2>1 DEF StoredIsRow
  <2>6. QED  BY <1>1, <2>4, <2>5
<1>4. QED  BY <1>2, <1>3

----------------------------------------------------------------------------
(* Signatures: from the channel to the row. *)

\* No step brings a handler back before the mutex or into the signing phase.
LEMMA PhaseStep ==
  ASSUME TypeOK, [Next]_vars, NEW r \in Requests
  PROVE  /\ pc'[r] \in {"idle", "waiting", "reading"} =>
              pc[r] \in {"idle", "waiting", "reading"}
         /\ pc'[r] \in {"collecting", "storing"} /\ ~ReadPrev(r) =>
              pc[r] \in {"collecting", "storing"} /\ ~Crash
<1>1. \A p \in PCs : AfterCrash(p) \in {"idle", "ok", "refused", "orphaned", "dropped"}
                     /\ (AfterCrash(p) = "idle" => p = "idle")
  BY DEF AfterCrash, PCs, Active, Critical, Finished
<1>2. CASE Crash
  <2>1. pc'[r] = AfterCrash(pc[r]) /\ pc[r] \in PCs
    BY <1>2 DEF Crash, TypeOK
  <2>2. QED  BY <1>1, <2>1
<1>3. CASE ~Crash
  BY <1>3 DEF TypeOK, handlerVars, signingVars, vars, Next, Handler, Prepare,
     Reject, Lock, ReadPrev, ReadPrevFails, Finish, Collect, CollectedAll,
     Deadline, Insert, InsertFails, Return, Deliver, LoseReply, Goroutine,
     WitnessAnswers, WitnessFails, Send
<1>4. QED  BY <1>2, <1>3

\* Calls and channel of a handler change in its ReadPrev, its goroutines, its
\* Collect and a crash.
LEMMA ChannelStep ==
  ASSUME TypeOK, [Next]_vars, NEW r \in Requests, ~ReadPrev(r), ~Collect(r),
         ~Crash, ~ \E w \in Witnesses : Goroutine(r, w)
  PROVE  call'[r] = call[r] /\ ch'[r] = ch[r]
BY DEF TypeOK, handlerVars, signingVars, vars, Next, Handler, Prepare, Reject,
       Lock, ReadPrev, ReadPrevFails, Collect, CollectedAll, Deadline, Insert,
       InsertFails, Return, Deliver, LoseReply, Goroutine, WitnessAnswers,
       WitnessFails, Send

LEMMA EarlyStep ==
  ASSUME TypeOK, NothingEarly, [Next]_vars
  PROVE  NothingEarly'
<1> SUFFICES ASSUME NEW r \in Requests, pc'[r] \in {"idle", "waiting", "reading"}
             PROVE  /\ \A w \in Witnesses : call'[r][w] = "none"
                    /\ ch'[r] = <<>>
                    /\ sigs'[r] = <<>>
  BY DEF NothingEarly
<1>1. pc[r] \in {"idle", "waiting", "reading"}
  BY PhaseStep
<1>2. /\ \A w \in Witnesses : call[r][w] = "none"
      /\ ch[r] = <<>> /\ sigs[r] = <<>>
  BY <1>1 DEF NothingEarly
<1>3. CASE Crash
  BY <1>2, <1>3 DEF Crash
<1>4. CASE ~Crash
  <2>1. ~Collect(r)
    BY <1>1 DEF Collect
  <2>2. ~ReadPrev(r)
    BY DEF ReadPrev, TypeOK
  <2>3. \A w \in Witnesses : ~Goroutine(r, w)
    BY <1>2 DEF Goroutine, WitnessAnswers, WitnessFails, Send
  <2>4. QED  BY <1>2, <1>4, <2>1, <2>2, <2>3, ChannelStep, SigsStep
<1>5. QED  BY <1>3, <1>4

\* What ResultsSound says of one handler.
Sound(r) ==
  /\ \A i \in DOMAIN ch[r] :
       /\ call[r][ch[r][i].sig.witness] = "done"
       /\ ch[r][i].ok => ch[r][i].sig.hash = ChainHash(r)
       /\ \A k \in DOMAIN sigs[r] : sigs[r][k].witness # ch[r][i].sig.witness
       /\ \A j \in DOMAIN ch[r] :
            ch[r][i].sig.witness = ch[r][j].sig.witness => i = j
  /\ \A k \in DOMAIN sigs[r] :
       /\ call[r][sigs[r][k].witness] = "done"
       /\ sigs[r][k].hash = ChainHash(r)
  /\ Distinct(sigs[r])

\* A goroutine's one result comes from a witness not heard of so far.
LEMMA SendSound ==
  ASSUME TypeOK, NEW r \in Requests, NEW w \in Witnesses, Goroutine(r, w), Sound(r)
  PROVE  Sound(r)'
<1>1. PICK res \in Results :
        Send(r, w, res) /\ res.sig.witness = w /\ (res.ok => res.sig.hash = ChainHash(r))
  BY ResultTypes DEF Goroutine, WitnessAnswers, WitnessFails, SignatureBy, NilSignature
<1>2. /\ ch[r] \in Seq(Results) /\ ch'[r] = Append(ch[r], res)
      /\ call[r][w] = "pending" /\ call'[r] = [call[r] EXCEPT ![w] = "done"]
      /\ sigs'[r] = sigs[r]
  BY <1>1 DEF Send, TypeOK
<1>3. call[r] \in [Witnesses -> {"none", "pending", "done"}]
  BY DEF TypeOK
<1>4. ChainHash(r)' = ChainHash(r)
  BY <1>1 DEF Send, handlerVars, ChainHash, OriginalHash, EnrichedHash, CoordinationHash
<1>5. \A v \in Witnesses : call[r][v] = "done" => v # w /\ call'[r][v] = "done"
  BY <1>2, <1>3
<1>6. sigs[r] \in Seq(Signatures)
  BY DEF TypeOK
<1>7. \A k \in DOMAIN sigs[r] : sigs[r][k].witness \in Witnesses
  <2>1. \A k \in DOMAIN sigs[r] : sigs[r][k] \in Signatures
    BY <1>6
  <2>2. QED  BY <2>1 DEF Signatures
<1>8. \A i \in DOMAIN ch[r] : ch[r][i].sig.witness \in Witnesses
  <2>1. \A i \in DOMAIN ch[r] : ch[r][i] \in Results
    BY <1>2
  <2>2. QED  BY <2>1 DEF Results, Signatures
<1>9. /\ DOMAIN ch'[r] = DOMAIN ch[r] \cup {Len(ch[r]) + 1}
      /\ \A i \in DOMAIN ch[r] : ch'[r][i] = ch[r][i]
      /\ ch'[r][Len(ch[r]) + 1] = res
  BY <1>2
<1>10. call'[r][w] = "done"
  BY <1>2, <1>3
<1>11. \A i \in DOMAIN ch'[r] :
         /\ call'[r][ch'[r][i].sig.witness] = "done"
         /\ ch'[r][i].ok => ch'[r][i].sig.hash = ChainHash(r)'
         /\ \A k \in DOMAIN sigs[r] : sigs[r][k].witness # ch'[r][i].sig.witness
         /\ \A j \in DOMAIN ch'[r] :
              ch'[r][i].sig.witness = ch'[r][j].sig.witness => i = j
  BY <1>1, <1>4, <1>5, <1>7, <1>8, <1>9, <1>10 DEF Sound
<1>12. /\ \A k \in DOMAIN sigs[r] :
            /\ call'[r][sigs[r][k].witness] = "done"
            /\ sigs[r][k].hash = ChainHash(r)'
       /\ Distinct(sigs[r])
  BY <1>4, <1>5, <1>7 DEF Sound
<1>13. QED  BY <1>2, <1>11, <1>12 DEF Sound, Distinct

\* Taking a result from the channel moves its witness from ch to sigs.
LEMMA CollectSound ==
  ASSUME TypeOK, NEW r \in Requests, Collect(r), Sound(r)
  PROVE  Sound(r)'
<1> DEFINE h == Head(ch[r])
<1>1. /\ ch[r] \in Seq(Results) /\ ch[r] # <<>> /\ ch'[r] = Tail(ch[r])
      /\ sigs[r] \in Seq(Signatures)
      /\ sigs'[r] = IF h.ok THEN Append(sigs[r], h.sig) ELSE sigs[r]
      /\ call'[r] = call[r]
  BY DEF Collect, TypeOK
<1>2. ChainHash(r)' = ChainHash(r)
  BY DEF Collect, handlerVars, ChainHash, OriginalHash, EnrichedHash, CoordinationHash
<1>3. /\ h = ch[r][1] /\ 1 \in DOMAIN ch[r]
      /\ \A i \in DOMAIN ch'[r] : i + 1 \in DOMAIN ch[r] /\ ch'[r][i] = ch[r][i + 1] /\ i # 0
      /\ DOMAIN ch'[r] \subseteq Nat
  BY <1>1
<1>4. \A i \in DOMAIN ch'[r] : h.sig.witness # ch'[r][i].sig.witness
  BY <1>3 DEF Sound
<1>5. \A k \in DOMAIN sigs'[r] :
        \/ k \in DOMAIN sigs[r] /\ sigs'[r][k] = sigs[r][k]
        \/ h.ok /\ k = Len(sigs[r]) + 1 /\ sigs'[r][k] = h.sig
  BY <1>1
<1>6. \A i \in DOMAIN ch'[r] :
        /\ call'[r][ch'[r][i].sig.witness] = "done"
        /\ ch'[r][i].ok => ch'[r][i].sig.hash = ChainHash(r)'
        /\ \A j \in DOMAIN ch'[r] :
             ch'[r][i].sig.witness = ch'[r][j].sig.witness => i = j
  BY <1>1, <1>2, <1>3 DEF Sound
<1>7. \A i \in DOMAIN ch'[r] : \A k \in DOMAIN sigs'[r] :
         sigs'[r][k].witness # ch'[r][i].sig.witness
  BY <1>3, <1>4, <1>5 DEF Sound
<1>8. \A k \in DOMAIN sigs'[r] :
        /\ call'[r][sigs'[r][k].witness] = "done"
        /\ sigs'[r][k].hash = ChainHash(r)'
  BY <1>1, <1>2, <1>3, <1>5 DEF Sound
<1>9. Distinct(sigs'[r])
  BY <1>3, <1>5 DEF Sound, Distinct
<1>10. QED  BY <1>6, <1>7, <1>8, <1>9 DEF Sound, Distinct

LEMMA ResultsStep ==
  ASSUME TypeOK, NothingEarly, ResultsSound, [Next]_vars
  PROVE  ResultsSound'
<1> SUFFICES ASSUME NEW r \in Requests, pc'[r] \in {"collecting", "storing"}
             PROVE  Sound(r)'
  BY DEF ResultsSound, Sound, Distinct
<1>1. CASE ReadPrev(r)
  <2>1. ch'[r] = <<>> /\ sigs'[r] = <<>>
    BY <1>1 DEF ReadPrev, NothingEarly
  <2>2. QED  BY <2>1 DEF Sound, Distinct
<1>2. CASE ~ReadPrev(r)
  <2>1. Sound(r) /\ ~Crash
    BY <1>2, PhaseStep DEF ResultsSound, Sound, Distinct
  <2>2. CASE \E w \in Witnesses : Goroutine(r, w)
    BY <2>1, <2>2, SendSound
  <2>3. CASE Collect(r)
    BY <2>1, <2>3, CollectSound
  <2>4. CASE ~Collect(r) /\ ~ \E w \in Witnesses : Goroutine(r, w)
    <3>1. call'[r] = call[r] /\ ch'[r] = ch[r] /\ sigs'[r] = sigs[r]
      BY <1>2, <2>1, <2>4, ChannelStep, SigsStep
    <3>2. ~Prepare(r)
      BY DEF Prepare, TypeOK
    <3>3. ChainHash(r)' = ChainHash(r)
      BY <1>2, <3>2, HandlerVarsStep
    <3>4. QED  BY <2>1, <3>1, <3>3 DEF Sound, Distinct
  <2>5. QED  BY <2>2, <2>3, <2>4
<1>3. QED  BY <1>1, <1>2

\* As many witnesses as signatures, when no witness signed twice.
LEMMA DistinctWitnesses ==
  ASSUME NEW s \in Seq(Signatures), Distinct(s)
  PROVE  Cardinality({s[k].witness : k \in DOMAIN s}) = Len(s)
<1> DEFINE W == {s[k].witness : k \in DOMAIN s}
           f == [k \in 1 .. Len(s) |-> s[k].witness]
<1>1. Len(s) \in Nat /\ DOMAIN s = 1 .. Len(s)
  OBVIOUS
<1>2. f \in [1 .. Len(s) -> W]
  BY <1>1
<1>3. \A i, j \in 1 .. Len(s) : f[i] = f[j] => i = j
  BY <1>1 DEF Distinct
<1>4. \A t \in W : \E i \in 1 .. Len(s) : f[i] = t
  BY <1>1
<1>5. f \in Bijection(1 .. Len(s), W)
  BY <1>2, <1>3, <1>4 DEF Bijection, Injection, IsInjective, Surjection
<1>6. ExistsBijection(1 .. Len(s), W)
  BY <1>5 DEF ExistsBijection
<1>7. QED  BY <1>1, <1>6, FS_CountingElements

\* What RowsAttested says of one row.
Attested(row) ==
  /\ Distinct(row.signatures)
  /\ \A k \in DOMAIN row.signatures : row.signatures[k].hash = row.chain_hash
  /\ row.quorum_status = "QUORUM_MET" <=>
       Cardinality({row.signatures[k].witness : k \in DOMAIN row.signatures}) >= Quorum

LEMMA AttestedStep ==
  ASSUME TypeOK, ResultsSound, RowsAttested, [Next]_vars
  PROVE  RowsAttested'
<1>1. CASE ~ \E r \in Requests : Insert(r)
  BY <1>1, LedgerStep DEF RowsAttested, Distinct
<1>2. ASSUME NEW r \in Requests, Insert(r)  PROVE RowsAttested'
  <2>1. sigs[r] \in Seq(Signatures) /\ Distinct(sigs[r])
        /\ \A k \in DOMAIN sigs[r] : sigs[r][k].hash = ChainHash(r)
    BY <1>2 DEF TypeOK, ResultsSound, Insert
  <2>2. Cardinality({sigs[r][k].witness : k \in DOMAIN sigs[r]}) = Len(sigs[r])
    BY <2>1, DistinctWitnesses
  <2>3. /\ BundleOf(r).signatures = sigs[r]
        /\ BundleOf(r).chain_hash = ChainHash(r)
        /\ BundleOf(r).quorum_status = QuorumStatus(sigs[r])
    BY DEF BundleOf
  <2>4. QuorumStatus(sigs[r]) = "QUORUM_MET" <=> Len(sigs[r]) >= Quorum
    BY DEF QuorumStatus
  <2>5. Attested(BundleOf(r))
    BY <2>1, <2>2, <2>3, <2>4 DEF Attested
  <2>6. \A i \in DOMAIN ledger : Attested(ledger[i])
    BY DEF RowsAttested, Attested
  <2>7. \A i \in DOMAIN ledger' : Attested(ledger'[i])
    BY <1>2, <2>5, <2>6, InsertedRow
  <2>8. QED  BY <2>7 DEF RowsAttested, Attested, Distinct
<1>3. QED  BY <1>1, <1>2

----------------------------------------------------------------------------
(* The inductive invariant, and what follows from it. *)

\* An empty ledger and no handler under way.
LEMMA InitInvariant == Init => IInv
<1> SUFFICES ASSUME Init PROVE IInv
  OBVIOUS
<1>1. TypeOK
  BY InitType
<1>2. MutexHeld
  BY NoOneAssumption DEF Init, MutexHeld, Critical
<1>3. PrevIsHead /\ NothingEarly /\ ResultsSound /\ StoredIsRow
  BY DEF Init, PrevIsHead, NothingEarly, ResultsSound, StoredIsRow
<1>4. ChainUnbroken /\ RowsAttested /\ BundleIdsUnique
  BY DEF Init, ChainUnbroken, RowsAttested, BundleIdsUnique
<1>5. QED  BY <1>1, <1>2, <1>3, <1>4 DEF IInv

\* Each part of the invariant is preserved.
LEMMA NextInvariant == IInv /\ [Next]_vars => IInv'
BY NextType, MutexStep, PrevStep, EarlyStep, ResultsStep, ChainStep,
   AttestedStep, UniqueStep, StoredStep DEF IInv

\* The inductive invariant holds in every reachable state.
THEOREM Invariant == Spec => []IInv
BY InitInvariant, NextInvariant, PTL DEF Spec

\* The ledger is one unbroken hash chain, for any number of handlers that
\* overlap, fail or crash.
THEOREM ChainIntegrity == Spec => []ChainUnbroken
<1>1. IInv => ChainUnbroken
  BY DEF IInv
<1>2. QED  BY <1>1, Invariant, PTL

\* Every row carries signatures of different witnesses over its own chain
\* hash, and its quorum status is the truth about them.
THEOREM Attestation == Spec => []RowsAttested
<1>1. IInv => RowsAttested
  BY DEF IInv
<1>2. QED  BY <1>1, Invariant, PTL

\* A bundle that was returned is the one row of its bundle id.
THEOREM Durability == Spec => []AckedIsStored
<1>1. IInv => AckedIsStored
  BY DEF IInv, AckedIsStored, StoredIsRow, BundleIdsUnique
<1>2. QED  BY <1>1, Invariant, PTL

----------------------------------------------------------------------------
(* The gateway implements the coordination log. *)

\* An empty ledger is an empty log.
LEMMA InitRefines == Init => Log!LogInit
BY DEF Init, Log!LogInit, LatestChainHash, Genesis, Outcome, Finished

\* A step that leaves ledger and outcomes alone is invisible to the log.
LEMMA StepRefines == IInv /\ [Next]_vars => [Log!LogNext]_(Log!logVars)
<1> SUFFICES ASSUME IInv, [Next]_vars  PROVE [Log!LogNext]_(Log!logVars)
  OBVIOUS
<1> DEFINE O == [r \in Requests |-> Outcome(pc[r])]
<1>a. pc \in [Requests -> PCs] /\ TypeOK
  BY DEF IInv, TypeOK
<1> USE <1>a DEF Log!LogNext, Log!logVars
<1>1. ASSUME NEW r \in Requests, Insert(r)  PROVE Log!Commit(r)
  <2>1. LatestChainHash' = Append(LatestChainHash, <<OriginalHash(r), EnrichedHash(r)>>)
    BY <1>1, InsertedRow DEF ChainHash, CoordinationHash, IInv, PrevIsHead, Insert
  <2>2. <<OriginalHash(r), EnrichedHash(r)>> \in Links
    BY DEF TypeOK, OriginalHash, EnrichedHash, Links, EnrichedHashes
  <2>3. O[r] = "pending" /\ O' = [O EXCEPT ![r] = "committed"]
    BY <1>1 DEF Insert, Outcome, Finished
  <2>4. QED  BY <2>1, <2>2, <2>3 DEF Log!Commit
<1>2. ASSUME NEW r \in Requests, Deliver(r)  PROVE Log!Acknowledge(r)
  <2>1. O[r] = "committed" /\ O' = [O EXCEPT ![r] = "acknowledged"]
    BY <1>2 DEF Deliver, Outcome, Finished
  <2>2. LatestChainHash' = LatestChainHash
    BY <1>2 DEF Deliver, LatestChainHash
  <2>3. QED  BY <2>1, <2>2 DEF Log!Acknowledge
<1>3. ASSUME NEW r \in Requests, LoseReply(r)  PROVE Log!Orphan(r)
  <2>1. O[r] = "committed" /\ O' = [O EXCEPT ![r] = "orphaned"]
    BY <1>3 DEF LoseReply, Outcome, Finished
  <2>2. LatestChainHash' = LatestChainHash
    BY <1>3 DEF LoseReply, LatestChainHash
  <2>3. QED  BY <2>1, <2>2 DEF Log!Orphan
<1>4. ASSUME NEW r \in Requests, Reject(r) \/ ReadPrevFails(r) \/ InsertFails(r)
      PROVE  Log!Refuse(r) \/ Log!Interrupt({r})
  <2>1. LatestChainHash' = LatestChainHash
    BY <1>4 DEF Reject, ReadPrevFails, InsertFails, LatestChainHash
  <2>2. CASE pc' = [pc EXCEPT ![r] = "refused"]
    <3>1. O[r] = "pending" /\ O' = [O EXCEPT ![r] = "refused"]
      BY <1>4, <2>2 DEF Reject, ReadPrevFails, InsertFails, Outcome, Finished
    <3>2. QED  BY <2>1, <3>1 DEF Log!Refuse
  <2>3. CASE pc' = [pc EXCEPT ![r] = "dropped"]
    <3>1. O[r] = "pending" /\ O' = [O EXCEPT ![r] = "dropped"]
      BY <1>4, <2>3 DEF Reject, ReadPrevFails, InsertFails, Finish, Outcome, Finished
    <3>2. O' = [q \in Requests |->
                  IF q \in {r} /\ O[q] = "pending" THEN "dropped"
                  ELSE IF q \in {r} /\ O[q] = "committed" THEN "orphaned"
                  ELSE O[q]]
      BY <3>1
    <3>3. QED  BY <2>1, <3>2 DEF Log!Interrupt
  <2>4. QED  BY <1>4, <2>2, <2>3 DEF Reject, ReadPrevFails, InsertFails, Finish
<1>5. CASE Crash
  <2> DEFINE S == {r \in Requests : pc[r] \in Active}
  <2>1. \A p \in PCs : Outcome(AfterCrash(p)) =
          IF p \in Active /\ Outcome(p) = "pending" THEN "dropped"
          ELSE IF p \in Active /\ Outcome(p) = "committed" THEN "orphaned"
          ELSE Outcome(p)
    BY DEF Outcome, AfterCrash, PCs, Active, Critical, Finished
  <2>2. O' = [r \in Requests |->
                IF r \in S /\ O[r] = "pending" THEN "dropped"
                ELSE IF r \in S /\ O[r] = "committed" THEN "orphaned"
                ELSE O[r]]
    BY <1>5, <2>1 DEF Crash
  <2>3. LatestChainHash' = LatestChainHash
    BY <1>5 DEF Crash, LatestChainHash
  <2>4. Log!Interrupt(S)
    BY <2>2, <2>3 DEF Log!Interrupt
  <2>5. QED  BY <2>4
<1>6. ASSUME NEW r \in Requests,
             \/ Prepare(r) \/ Lock(r) \/ ReadPrev(r) \/ Collect(r)
             \/ CollectedAll(r) \/ Deadline(r) \/ Return(r)
      PROVE  O' = O /\ LatestChainHash' = LatestChainHash
  BY <1>6 DEF Prepare, Lock, ReadPrev, Collect, CollectedAll, Deadline, Return,
     Finish, Outcome, Finished, LatestChainHash
<1>7. ASSUME NEW r \in Requests, NEW w \in Witnesses, Goroutine(r, w)
      PROVE  O' = O /\ LatestChainHash' = LatestChainHash
  BY <1>7 DEF Goroutine, WitnessAnswers, WitnessFails, Send, LatestChainHash
<1>8. CASE UNCHANGED vars
  BY <1>8 DEF vars, LatestChainHash
<1>9. QED
  BY <1>1, <1>2, <1>3, <1>4, <1>5, <1>6, <1>7, <1>8 DEF Next, Handler

\* Whatever the handlers, the witnesses and crashes do, clients see a log that
\* is only ever extended at its end and acknowledged after the fact.
THEOREM Refinement == Spec => RefinesLog
<1>1. QED
  BY InitRefines, StepRefines, Invariant, PTL DEF Spec, RefinesLog, Log!LogSpec
============================================================================
