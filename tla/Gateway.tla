------------------------------ MODULE Gateway ------------------------------
(***************************************************************************)
(* The coordination gateway (cmd/gateway/main.go) with its ledger          *)
(* (internal/storage): concurrent handlers of POST /v1/coordinate, the     *)
(* mutex that orders them, the fan-out of signing calls to the witnesses   *)
(* with its buffered channel and its deadline, the synchronous insert and  *)
(* the reply, across crashes and restarts of the gateway process.          *)
(*                                                                         *)
(* Hashes.  SHA-256 is taken to be collision free, so a hash is modelled   *)
(* by what it commits to: original_hash by the message, enriched_hash by   *)
(* the message and the bundle id that is written into the XML, and a chain *)
(* hash by the sequence of links from the genesis value to the event.      *)
(***************************************************************************)
EXTENDS Naturals, Sequences, FiniteSets

CONSTANTS Requests,    \* calls of handleCoordinate
          Messages,    \* ISO 8583 messages that parse, enrich and assemble
          BundleIds,   \* bundle identifiers: time stamp and 4 random bytes
          Witnesses,   \* g.witnesses
          NoOne,       \* owner of the free mutex
          MaxCrashes   \* bound: crashes of the gateway process in a behaviour

ASSUME NoOneAssumption      == NoOne \notin Requests
ASSUME WitnessesAssumption  == IsFiniteSet(Witnesses) /\ Witnesses # {}
ASSUME RequestsAssumption   == Messages # {} /\ BundleIds # {}
ASSUME CrashesAssumption    == MaxCrashes \in Nat

VARIABLES ledger,   \* rows of coordination_events in sequence_id order
          mu,       \* g.mu: the handler that holds it, or NoOne
          pc,       \* where each handler is
          msg,      \* the handler's parsed message
          bundleID, \* the handler's bundle id
          prevHash, \* the handler's prevHash
          call,     \* call[r][w]: the goroutine asking w to sign for r
          ch,       \* ch[r]: results buffered in r's channel
          got,      \* iterations done by the loop over the witnesses
          sigs,     \* signatures collected so far
          crashes   \* crashes so far

handlerVars == <<msg, bundleID, prevHash>>
signingVars == <<call, ch, got, sigs>>
vars == <<ledger, mu, pc, handlerVars, signingVars, crashes>>

Quorum == 2

\* Mutant: a channel with a single slot.
OneSlot == 1

ChanCapacity == Cardinality(Witnesses)

----------------------------------------------------------------------------
(* Values. *)

EnrichedHashes == Messages \X BundleIds
Links   == Messages \X EnrichedHashes
Hashes  == Seq(Links)
Genesis == <<>>

\* Mutant: the two hashes are concatenated in the wrong order.
SwappedHash(original, enriched, prev) ==
  Append(prev, <<enriched, original>>)

CoordinationHash(original, enriched, prev) ==
  Append(prev, <<original, enriched>>)

Signatures == [witness : Witnesses, hash : Hashes]
Results    == [ok : BOOLEAN, sig : Signatures]

Row == [bundle_id       : BundleIds,
        original_hash   : Messages,
        enriched_hash   : EnrichedHashes,
        prev_chain_hash : Hashes,
        chain_hash      : Hashes,
        signatures      : Seq(Signatures),
        quorum_status   : {"QUORUM_MET", "QUORUM_FAILED"}]

\* The handlers that run in the process: a crash cuts them off.
Critical == {"reading", "collecting", "storing", "stored"}
Active   == {"waiting", "returned"} \cup Critical
Finished == {"ok", "refused", "orphaned", "dropped"}
PCs      == {"idle"} \cup Active \cup Finished

----------------------------------------------------------------------------
(* The hashes a handler computes, and the storage layer. *)

OriginalHash(r) == msg[r]
EnrichedHash(r) == <<msg[r], bundleID[r]>>
ChainHash(r)    == CoordinationHash(OriginalHash(r), EnrichedHash(r), prevHash[r])

LatestChainHash ==
  IF ledger = <<>> THEN Genesis ELSE ledger[Len(ledger)].chain_hash

HasBundle(id) == \E i \in DOMAIN ledger : ledger[i].bundle_id = id

QuorumStatus(s) == IF Len(s) >= Quorum THEN "QUORUM_MET" ELSE "QUORUM_FAILED"

BundleOf(r) ==
  [bundle_id       |-> bundleID[r],
   original_hash   |-> OriginalHash(r),
   enriched_hash   |-> EnrichedHash(r),
   prev_chain_hash |-> prevHash[r],
   chain_hash      |-> ChainHash(r),
   signatures      |-> sigs[r],
   quorum_status   |-> QuorumStatus(sigs[r])]

----------------------------------------------------------------------------
Init ==
  /\ ledger = <<>>
  /\ mu = NoOne
  /\ pc = [r \in Requests |-> "idle"]
  /\ msg = [r \in Requests |-> CHOOSE m \in Messages : TRUE]      \* not read yet
  /\ bundleID = [r \in Requests |-> CHOOSE b \in BundleIds : TRUE] \* not drawn yet
  /\ prevHash = [r \in Requests |-> Genesis]
  /\ call = [r \in Requests |-> [w \in Witnesses |-> "none"]]
  /\ ch = [r \in Requests |-> <<>>]
  /\ got = [r \in Requests |-> 0]
  /\ sigs = [r \in Requests |-> <<>>]
  /\ crashes = 0

(***************************************************************************)
(* Before the mutex the request is read, decoded, parsed, enriched, named  *)
(* and assembled.  None of it touches shared state, so it is one step.  A  *)
(* client that repeats a message is a second request with the same msg.    *)
(***************************************************************************)
Prepare(r) ==
  /\ pc[r] = "idle"
  /\ \E m \in Messages  : msg' = [msg EXCEPT ![r] = m]
  /\ \E b \in BundleIds : bundleID' = [bundleID EXCEPT ![r] = b]
  /\ pc' = [pc EXCEPT ![r] = "waiting"]
  /\ UNCHANGED <<ledger, mu, prevHash, signingVars, crashes>>

\* Any of the early returns before the mutex (400, 405, 422, 500), or a panic of
\* the parser: net/http recovers it, and the client gets no answer.
Reject(r) ==
  /\ pc[r] = "idle"
  /\ \E p \in {"refused", "dropped"} : pc' = [pc EXCEPT ![r] = p]
  /\ UNCHANGED <<ledger, mu, handlerVars, signingVars, crashes>>

\* Mutant: the handlers are not mutually exclusive.
NoLock(r) ==
  /\ pc[r] = "waiting"
  /\ mu' = r
  /\ pc' = [pc EXCEPT ![r] = "reading"]
  /\ UNCHANGED <<ledger, handlerVars, signingVars, crashes>>

Lock(r) ==
  /\ pc[r] = "waiting"
  /\ mu = NoOne
  /\ mu' = r
  /\ pc' = [pc EXCEPT ![r] = "reading"]
  /\ UNCHANGED <<ledger, handlerVars, signingVars, crashes>>

\* Mutant: the error returns forget the Unlock.
FinishLocked(r, p) ==
  /\ pc' = [pc EXCEPT ![r] = p]
  /\ mu' = IF p = "refused" THEN mu ELSE NoOne

\* Handler r returns with pc p: the deferred Unlock frees the mutex.
Finish(r, p) ==
  /\ pc' = [pc EXCEPT ![r] = p]
  /\ mu' = NoOne

(***************************************************************************)
(* The head of the chain is read, the chain hash computed from it, and one *)
(* goroutine per witness started; or the query fails and the client gets a *)
(* 500.                                                                    *)
(***************************************************************************)
ReadPrev(r) ==
  /\ pc[r] = "reading"
  /\ prevHash' = [prevHash EXCEPT ![r] = LatestChainHash]
  /\ call' = [call EXCEPT ![r] = [w \in Witnesses |-> "pending"]]
  /\ pc' = [pc EXCEPT ![r] = "collecting"]
  /\ UNCHANGED <<ledger, mu, msg, bundleID, ch, got, sigs, crashes>>

ReadPrevFails(r) ==
  /\ pc[r] = "reading"
  /\ Finish(r, "refused")
  /\ UNCHANGED <<ledger, handlerVars, signingVars, crashes>>

----------------------------------------------------------------------------
(***************************************************************************)
(* A signing goroutine: the witness answers with its signature over the    *)
(* hash it was sent, or the call fails (refused connection, status other   *)
(* than 200, undecodable body, client time-out).  Either result is put in  *)
(* the request's channel, which blocks while the buffer is full.  The      *)
(* goroutine outlives the handler that started it.                         *)
(***************************************************************************)
SignatureBy(r, w) == [witness |-> w, hash |-> ChainHash(r)]
NilSignature(w)   == [witness |-> w, hash |-> Genesis]  \* never read: err is set

Send(r, w, result) ==
  /\ call[r][w] = "pending"
  /\ Len(ch[r]) < ChanCapacity
  /\ ch' = [ch EXCEPT ![r] = Append(@, result)]
  /\ call' = [call EXCEPT ![r][w] = "done"]
  /\ UNCHANGED <<ledger, mu, pc, handlerVars, got, sigs, crashes>>

WitnessAnswers(r, w) == Send(r, w, [ok |-> TRUE,  sig |-> SignatureBy(r, w)])
WitnessFails(r, w)   == Send(r, w, [ok |-> FALSE, sig |-> NilSignature(w)])

\* Mutant: the error of a result is not looked at.
CollectAnything(r) ==
  /\ pc[r] = "collecting"
  /\ got[r] < Cardinality(Witnesses)
  /\ ch[r] # <<>>
  /\ ch' = [ch EXCEPT ![r] = Tail(@)]
  /\ got' = [got EXCEPT ![r] = @ + 1]
  /\ sigs' = [sigs EXCEPT ![r] = Append(@, Head(ch[r]).sig)]
  /\ UNCHANGED <<ledger, mu, pc, handlerVars, call, crashes>>

\* One round of the select loop takes a result; an error only costs a round.
Collect(r) ==
  /\ pc[r] = "collecting"
  /\ got[r] < Cardinality(Witnesses)
  /\ ch[r] # <<>>
  /\ ch' = [ch EXCEPT ![r] = Tail(@)]
  /\ got' = [got EXCEPT ![r] = @ + 1]
  /\ sigs' = [sigs EXCEPT ![r] = IF Head(ch[r]).ok
                                   THEN Append(@, Head(ch[r]).sig) ELSE @]
  /\ UNCHANGED <<ledger, mu, pc, handlerVars, call, crashes>>

\* Every witness has been heard of, ...
CollectedAll(r) ==
  /\ pc[r] = "collecting"
  /\ got[r] = Cardinality(Witnesses)
  /\ pc' = [pc EXCEPT ![r] = "storing"]
  /\ UNCHANGED <<ledger, mu, handlerVars, signingVars, crashes>>

\* ... or the deadline wins the select, also when a result is ready.
Deadline(r) ==
  /\ pc[r] = "collecting"
  /\ got[r] < Cardinality(Witnesses)
  /\ pc' = [pc EXCEPT ![r] = "storing"]
  /\ UNCHANGED <<ledger, mu, handlerVars, signingVars, crashes>>

----------------------------------------------------------------------------
\* Mutants: bundle_id is not UNIQUE; the error of the insert is only logged.
InsertTwice(r) ==
  /\ pc[r] = "storing"
  /\ ledger' = Append(ledger, BundleOf(r))
  /\ pc' = [pc EXCEPT ![r] = "stored"]
  /\ UNCHANGED <<mu, handlerVars, signingVars, crashes>>

InsertErrorLogged(r) ==
  /\ pc[r] = "storing"
  /\ pc' = [pc EXCEPT ![r] = "stored"]
  /\ UNCHANGED <<ledger, mu, handlerVars, signingVars, crashes>>

(***************************************************************************)
(* The synchronous insert.  It fails on a bundle_id that is taken, and may *)
(* fail for the database's own reasons; then the client gets a 500.        *)
(***************************************************************************)
Insert(r) ==
  /\ pc[r] = "storing"
  /\ ~HasBundle(bundleID[r])
  /\ ledger' = Append(ledger, BundleOf(r))
  /\ pc' = [pc EXCEPT ![r] = "stored"]
  /\ UNCHANGED <<mu, handlerVars, signingVars, crashes>>

InsertFails(r) ==
  /\ pc[r] = "storing"
  /\ Finish(r, "refused")
  /\ UNCHANGED <<ledger, handlerVars, signingVars, crashes>>

\* The bundle is written to the response and the handler returns.
Return(r) ==
  /\ pc[r] = "stored"
  /\ Finish(r, "returned")
  /\ UNCHANGED <<ledger, handlerVars, signingVars, crashes>>

\* The response reaches the client, or the connection is gone.
Deliver(r) ==
  /\ pc[r] = "returned"
  /\ pc' = [pc EXCEPT ![r] = "ok"]
  /\ UNCHANGED <<ledger, mu, handlerVars, signingVars, crashes>>

LoseReply(r) ==
  /\ pc[r] = "returned"
  /\ pc' = [pc EXCEPT ![r] = "orphaned"]
  /\ UNCHANGED <<ledger, mu, handlerVars, signingVars, crashes>>

(***************************************************************************)
(* The process dies and is started again: handlers, goroutines, channels   *)
(* and the mutex are gone, the rows that were committed are still there.   *)
(***************************************************************************)
AfterCrash(p) == CASE p \in {"stored", "returned"}  -> "orphaned"
                   [] p \in Active \ {"stored", "returned"} -> "dropped"
                   [] OTHER -> p

Crash ==
  /\ crashes < MaxCrashes
  /\ crashes' = crashes + 1
  /\ pc' = [r \in Requests |-> AfterCrash(pc[r])]
  /\ mu' = NoOne
  /\ call' = [r \in Requests |-> [w \in Witnesses |-> "none"]]
  /\ ch' = [r \in Requests |-> <<>>]
  /\ UNCHANGED <<ledger, handlerVars, got, sigs>>

----------------------------------------------------------------------------
Handler(r) ==
  \/ Prepare(r) \/ Reject(r) \/ Lock(r) \/ ReadPrev(r) \/ ReadPrevFails(r)
  \/ Collect(r) \/ CollectedAll(r) \/ Deadline(r)
  \/ Insert(r) \/ InsertFails(r) \/ Return(r) \/ Deliver(r) \/ LoseReply(r)

Goroutine(r, w) == WitnessAnswers(r, w) \/ WitnessFails(r, w)

Next == \/ \E r \in Requests : Handler(r)
        \/ \E r \in Requests, w \in Witnesses : Goroutine(r, w)
        \/ Crash

Spec == Init /\ [][Next]_vars

(***************************************************************************)
(* Fairness.  Nothing obliges a client to call, a witness to sign or the   *)
(* process to crash.  A handler that can take a step takes one; SF for the *)
(* mutex, because sync.Mutex hands itself over to a waiter that starves;   *)
(* a signing call ends because http.Client.Timeout ends it, and the loop   *)
(* because time.After ends it.                                             *)
(***************************************************************************)
HandlerFairness(r) ==
  /\ SF_vars(Lock(r))
  /\ WF_vars(ReadPrev(r) \/ ReadPrevFails(r))
  /\ WF_vars(Collect(r) \/ CollectedAll(r) \/ Deadline(r))
  /\ WF_vars(Return(r))
  /\ WF_vars(Deliver(r) \/ LoseReply(r))

GoroutineFairness(r) == \A w \in Witnesses : WF_vars(Goroutine(r, w))

WriteFairness(r) == WF_vars(Insert(r) \/ InsertFails(r))

\* Everything makes progress but the database write.
SlowDiskSpec == Spec /\ \A r \in Requests : HandlerFairness(r) /\ GoroutineFairness(r)

FairSpec == SlowDiskSpec /\ \A r \in Requests : WriteFairness(r)

----------------------------------------------------------------------------
(* Invariants. *)

\* Every variable has its type; got and the channel never exceed the fan-out.
TypeOK ==
  /\ ledger \in Seq(Row)
  /\ mu \in Requests \cup {NoOne}
  /\ pc \in [Requests -> PCs]
  /\ msg \in [Requests -> Messages]
  /\ bundleID \in [Requests -> BundleIds]
  /\ prevHash \in [Requests -> Hashes]
  /\ call \in [Requests -> [Witnesses -> {"none", "pending", "done"}]]
  /\ ch \in [Requests -> Seq(Results)]
  /\ got \in [Requests -> Nat]
  /\ sigs \in [Requests -> Seq(Signatures)]
  /\ crashes \in 0 .. MaxCrashes

RowHash(row) ==
  CoordinationHash(row.original_hash, row.enriched_hash, row.prev_chain_hash)

\* The ledger is one unbroken chain: every row's chain_hash recomputes from
\* the row and its prev_chain_hash is the chain_hash of the row before it,
\* whatever handlers overlapped, failed or crashed (main.go:210-222,
\* schema.sql:12-13).
ChainUnbroken ==
  \A i \in DOMAIN ledger :
    /\ ledger[i].chain_hash = RowHash(ledger[i])
    /\ ledger[i].prev_chain_hash =
         IF i = 1 THEN Genesis ELSE ledger[i - 1].chain_hash

Distinct(s) == \A i, j \in DOMAIN s : s[i].witness = s[j].witness => i = j

\* The signatures stored with a row come from different witnesses and are
\* all over that row's own chain_hash, never over that of another request
\* or a nil one, and the row says QUORUM_MET exactly when two or more were
\* collected (main.go:107-119, 226-229).
RowsAttested ==
  \A i \in DOMAIN ledger :
    LET row == ledger[i] IN
    /\ Distinct(row.signatures)
    /\ \A k \in DOMAIN row.signatures : row.signatures[k].hash = row.chain_hash
    /\ row.quorum_status = "QUORUM_MET" <=>
         Cardinality({row.signatures[k].witness : k \in DOMAIN row.signatures}) >= Quorum

\* A client that is given a bundle can find it: the ledger holds exactly one
\* row of that bundle id and it is the bundle returned, also after crashes
\* (main.go:254-277, "must succeed before returning 200 OK").
AckedIsStored ==
  \A r \in Requests : pc[r] \in {"returned", "ok", "orphaned"} =>
    /\ \E i \in DOMAIN ledger : ledger[i] = BundleOf(r)
    /\ \A i, j \in DOMAIN ledger :
         ledger[i].bundle_id = bundleID[r] /\ ledger[j].bundle_id = bundleID[r] => i = j

\* The mutex is held by the handler between Lock and the return, and by no
\* other.
MutexHeld == \A r \in Requests : mu = r <=> pc[r] \in Critical

\* The head that was read is still the head when the row is built, although
\* the witnesses were waited for in between.
PrevIsHead == \A r \in Requests :
  pc[r] \in {"collecting", "storing"} => prevHash[r] = LatestChainHash

\* Nothing has been asked or received before the head is read.
NothingEarly == \A r \in Requests : pc[r] \in {"idle", "waiting", "reading"} =>
  /\ \A w \in Witnesses : call[r][w] = "none"
  /\ ch[r] = <<>>
  /\ sigs[r] = <<>>

\* While signatures are collected, each witness has at most one result in the
\* channel or in sigs, only if its goroutine is done, and every signature is
\* over the chain hash of this request.
ResultsSound == \A r \in Requests : pc[r] \in {"collecting", "storing"} =>
  /\ \A i \in DOMAIN ch[r] :
       /\ call[r][ch[r][i].sig.witness] = "done"
       /\ ch[r][i].ok => ch[r][i].sig.hash = ChainHash(r)
       /\ \A k \in DOMAIN sigs[r] : sigs[r][k].witness # ch[r][i].sig.witness
       /\ \A j \in DOMAIN ch[r] :
            ch[r][i].sig.witness = ch[r][j].sig.witness => i = j
  /\ \A k \in DOMAIN sigs[r] :
       /\ call[r][sigs[r][k].witness] = "done"
       /\ sigs[r][k].hash = ChainHash(r)
  /\ Distinct(sigs[r])

\* A row is never stored twice under one bundle id (schema.sql:8).
BundleIdsUnique ==
  \A i, j \in DOMAIN ledger : ledger[i].bundle_id = ledger[j].bundle_id => i = j

\* From the insert on, the handler's bundle is a row.
StoredIsRow == \A r \in Requests :
  pc[r] \in {"stored", "returned", "ok", "orphaned"} =>
    \E i \in DOMAIN ledger : ledger[i] = BundleOf(r)

(***************************************************************************)
(* The inductive invariant: what a handler knows at each point of its way, *)
(* and with it the three promises above.  Its conjuncts talk about the     *)
(* mutex, the head that was read before the witnesses were asked, and the  *)
(* goroutines that report while the mutex is held (main.go:92-120, 210-277).*)
(***************************************************************************)
IInv == /\ TypeOK
        /\ MutexHeld
        /\ PrevIsHead
        /\ NothingEarly
        /\ ResultsSound
        /\ ChainUnbroken
        /\ RowsAttested
        /\ BundleIdsUnique
        /\ StoredIsRow

----------------------------------------------------------------------------
(***************************************************************************)
(* The gateway implements the coordination log: the log is the chain that  *)
(* the head of the ledger commits to.                                      *)
(***************************************************************************)
Outcome(p) == CASE p \in {"stored", "returned"} -> "committed"
                [] p = "ok" -> "acknowledged"
                [] p \in Finished \ {"ok"} -> p
                [] OTHER -> "pending"

Log == INSTANCE CoordinationLog
         WITH chain   <- LatestChainHash,
              outcome <- [r \in Requests |-> Outcome(pc[r])]

\* Every step of the gateway is a step of the log or invisible to it: the
\* committed chain is only ever extended, by the one request that commits,
\* and nothing is acknowledged that is not in it (main.go:210-277).
RefinesLog == Log!LogSpec

(***************************************************************************)
(* The gateway also implements Sealing, the view of witnesses and          *)
(* auditors: the draft is that of the handler which has read the head and  *)
(* not yet stored, its answers are the signatures collected and those      *)
(* still in the channel.                                                   *)
(***************************************************************************)
Answered(r) == {sigs[r][k] : k \in DOMAIN sigs[r]} \cup
                 {ch[r][i].sig : i \in {j \in DOMAIN ch[r] : ch[r][j].ok}}

DraftOf(r) == [bundle_id       |-> bundleID[r],
               original_hash   |-> OriginalHash(r),
               enriched_hash   |-> EnrichedHash(r),
               prev_chain_hash |-> prevHash[r],
               chain_hash      |-> ChainHash(r),
               answers         |-> Answered(r)]

Signing(r) == pc[r] \in {"collecting", "storing"}

Draft == IF mu \in Requests /\ Signing(mu) THEN DraftOf(mu) ELSE <<>>

Section == INSTANCE Sealing WITH Fanout  <- Cardinality(Witnesses),
                                 Blanks  <- {NilSignature(w) : w \in Witnesses},
                                 bundles <- ledger,
                                 draft   <- Draft

\* However handlers, goroutines and the deadline interleave, witnesses and
\* auditors see one bundle signed at a time, each witness heard at most once for
\* it, and a row with some of the answers to this request and no others; late
\* results, lost replies and requests that wait change nothing they can see
\* (main.go:85-121, 210-272).
RefinesSealing == Section!SealingSpec

\* A request that has come as far as the mutex is answered, or cut off by a
\* crash or a lost connection: no error path keeps the mutex and no silent
\* witness holds the handlers behind it for ever (main.go:106, 211-225).
EveryRequestAnswered ==
  \A r \in Requests : pc[r] = "waiting" ~> pc[r] \in Finished

\* A signing goroutine ends, also when its handler has given up on it: the
\* channel has room for every result (main.go:92, 99-102).
NoGoroutineLeak ==
  \A r \in Requests, w \in Witnesses :
    call[r][w] = "pending" ~> call[r][w] # "pending"

\* What the header comment says (main.go:5-6): the response never waits for
\* the SQLite write, so once the bundle is built the client gets its answer
\* even if the write makes no progress.
ResponseIndependentOfWrite ==
  \A r \in Requests : pc[r] = "storing" ~> pc[r] \in Finished
============================================================================
