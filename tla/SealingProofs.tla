--------------------------- MODULE SealingProofs ---------------------------
(***************************************************************************)
(* Gateway implements Sealing, for any set of requests, messages, bundle   *)
(* ids and witnesses and any number of crashes, checked by TLAPS.          *)
(***************************************************************************)
EXTENDS GatewayProofs

----------------------------------------------------------------------------
(* The draft. *)

\* The draft is that of the one handler that waits for witnesses or stores.
LEMMA DraftIs ==
  ASSUME TypeOK, MutexHeld
  PROVE  /\ \A r \in Requests : Signing(r) => Draft = DraftOf(r)
         /\ (\A r \in Requests : ~Signing(r)) => Draft = <<>>
<1>1. ASSUME NEW r \in Requests, Signing(r)  PROVE mu = r
  BY <1>1 DEF Signing, MutexHeld, Critical
<1>2. QED  BY <1>1 DEF Draft

\* A draft is not the empty tuple that stands for none.
LEMMA DraftIsOne == ASSUME NEW r \in Requests  PROVE DraftOf(r) # <<>>
<1>1. "answers" \in DOMAIN DraftOf(r)
  BY DEF DraftOf
<1>2. "answers" \notin DOMAIN <<>>
  OBVIOUS
<1>3. QED  BY <1>1, <1>2

\* The signatures a handler has collected are some of the answers, in an order.
LEMMA SigsAreCollected ==
  ASSUME TypeOK, ResultsSound, NEW r \in Requests, Signing(r)
  PROVE  sigs[r] \in Section!Collections(Answered(r))
<1> DEFINE n == Len(sigs[r])
           f == [k \in 1 .. n |-> sigs[r][k].witness]
<1>1. n \in Nat /\ DOMAIN sigs[r] = 1 .. n /\ sigs[r] \in Seq(Signatures)
  BY DEF TypeOK
<1>2. \A k \in 1 .. n : sigs[r][k].witness \in Witnesses
  <2>1. \A k \in 1 .. n : sigs[r][k] \in Signatures
    BY <1>1
  <2>2. QED  BY <2>1 DEF Signatures
<1>3. \A i, j \in 1 .. n : sigs[r][i].witness = sigs[r][j].witness => i = j
  BY <1>1 DEF Signing, ResultsSound, Distinct
<1>4. n <= Cardinality(Witnesses)
  <2>1. f \in Injection(1 .. n, Witnesses)
    BY <1>2, <1>3 DEF Injection, IsInjective
  <2>2. Cardinality(1 .. n) <= Cardinality(Witnesses)
    BY <2>1, WitnessesAssumption, FS_Injection
  <2>3. Cardinality(1 .. n) = n
    BY <1>1, FS_Interval
  <2>4. QED  BY <2>2, <2>3
<1>5. n \in 0 .. Cardinality(Witnesses)
  BY <1>1, <1>4, CapacityType
<1>6. sigs[r] \in [1 .. n -> Answered(r)]
  BY <1>1 DEF Answered
<1>7. \A i, j \in DOMAIN sigs[r] : sigs[r][i] = sigs[r][j] => i = j
  BY <1>1, <1>3
<1>8. sigs[r] \in UNION {[1 .. k -> Answered(r)] : k \in 0 .. Cardinality(Witnesses)}
  BY <1>5, <1>6
<1>9. QED  BY <1>7, <1>8 DEF Section!Collections

\* A draft with other answers.
LEMMA NewAnswers ==
  ASSUME NEW r \in Requests, NEW B
  PROVE  [DraftOf(r) EXCEPT !.answers = B] = [bundle_id       |-> bundleID[r],
                                              original_hash   |-> OriginalHash(r),
                                              enriched_hash   |-> EnrichedHash(r),
                                              prev_chain_hash |-> prevHash[r],
                                              chain_hash      |-> ChainHash(r),
                                              answers         |-> B]
<1> DEFINE Rec(A) == [bundle_id       |-> bundleID[r],
                      original_hash   |-> OriginalHash(r),
                      enriched_hash   |-> EnrichedHash(r),
                      prev_chain_hash |-> prevHash[r],
                      chain_hash      |-> ChainHash(r),
                      answers         |-> A]
<1>1. \A A : [Rec(A) EXCEPT !.answers = B] = Rec(B)
  OBVIOUS
<1>2. DraftOf(r) = Rec(Answered(r))
  BY DEF DraftOf
<1> HIDE DEF Rec
<1>3. [DraftOf(r) EXCEPT !.answers = B] = Rec(B)
  BY <1>1, <1>2, Zenon
<1>4. QED  BY <1>3 DEF Rec

----------------------------------------------------------------------------
(* The steps of the gateway. *)

\* Who has read the head opens the draft.
LEMMA ReadOpens ==
  ASSUME IInv, IInv', NEW r \in Requests, ReadPrev(r)
  PROVE  Section!Open(msg[r], bundleID[r])
<1>1. \A q \in Requests : ~Signing(q)
  BY DEF IInv, MutexHeld, ReadPrev, Critical, Signing
<1>2. Draft = <<>>
  BY <1>1, DraftIs DEF IInv
<1>3. Draft' = DraftOf(r)'
  <2>1. Signing(r)'
    BY DEF IInv, TypeOK, ReadPrev, Signing
  <2>2. mu' = r
    BY DEF IInv, MutexHeld, ReadPrev, Critical
  <2>3. QED  BY <2>1, <2>2 DEF Draft
<1>4. Answered(r)' = {}
  BY DEF IInv, NothingEarly, ReadPrev, Answered
<1>5. /\ prevHash'[r] = LatestChainHash /\ msg'[r] = msg[r]
      /\ bundleID'[r] = bundleID[r] /\ ledger' = ledger
  BY DEF IInv, TypeOK, ReadPrev
<1>6. LatestChainHash = Section!LatestChainHash
  BY DEF LatestChainHash, Section!LatestChainHash, Genesis
<1>7. DraftOf(r)' =
        [bundle_id       |-> bundleID[r],
         original_hash   |-> msg[r],
         enriched_hash   |-> <<msg[r], bundleID[r]>>,
         prev_chain_hash |-> LatestChainHash,
         chain_hash      |-> Append(LatestChainHash, <<msg[r], <<msg[r], bundleID[r]>>>>),
         answers         |-> {}]
  BY <1>4, <1>5 DEF DraftOf, OriginalHash, EnrichedHash, ChainHash, CoordinationHash
<1>8. QED
  BY <1>2, <1>3, <1>5, <1>6, <1>7 DEF Section!Open, Section!NoDraft

\* An answer reaches the request whose draft is open, or one that is over and
\* does not look at it any more.
LEMMA AnswerAsks ==
  ASSUME IInv, NEW r \in Requests, NEW w \in Witnesses, WitnessAnswers(r, w)
  PROVE  Section!Ask(NilSignature(w)) \/ Draft' = Draft
<1>1. /\ ch' = [ch EXCEPT ![r] = Append(@, [ok |-> TRUE, sig |-> SignatureBy(r, w)])]
      /\ call[r][w] = "pending"
      /\ UNCHANGED <<ledger, mu, pc, msg, bundleID, prevHash, sigs>>
  BY DEF WitnessAnswers, Send, handlerVars
<1>2. CASE mu = r /\ Signing(r)
  <2>1. Draft = DraftOf(r) /\ Draft' = DraftOf(r)'
    BY <1>1, <1>2 DEF Draft, Signing
  <2>2. \A e \in Answered(r) : e.witness # w
    BY <1>1, <1>2 DEF IInv, Signing, ResultsSound, Answered
  <2>3. Answered(r)' = Answered(r) \cup {SignatureBy(r, w)}
    <3>1. ch[r] \in Seq(Results) /\ Len(ch[r]) \in Nat /\ DOMAIN ch[r] = 1 .. Len(ch[r])
      BY DEF IInv, TypeOK
    <3>2. /\ DOMAIN ch'[r] = 1 .. Len(ch[r]) + 1
          /\ \A i \in DOMAIN ch[r] : ch'[r][i] = ch[r][i]
          /\ ch'[r][Len(ch[r]) + 1] = [ok |-> TRUE, sig |-> SignatureBy(r, w)]
      BY <1>1, <3>1 DEF IInv, TypeOK
    <3>3. sigs'[r] = sigs[r]
      BY <1>1
    <3>4. ASSUME NEW e  PROVE e \in Answered(r)' <=> e \in Answered(r) \/ e = SignatureBy(r, w)
      BY <3>1, <3>2, <3>3 DEF Answered
    <3>5. QED  BY <3>4
  <2>4. ChainHash(r)' = ChainHash(r) /\ DraftOf(r).chain_hash = ChainHash(r)
    BY <1>1 DEF ChainHash, OriginalHash, EnrichedHash, CoordinationHash, DraftOf
  <2>5. [NilSignature(w) EXCEPT !.hash = ChainHash(r)] = SignatureBy(r, w)
    BY DEF NilSignature, SignatureBy
  <2>6. DraftOf(r)' = [DraftOf(r) EXCEPT !.answers = @ \cup {SignatureBy(r, w)}]
    <3>1. DraftOf(r)' = [bundle_id       |-> bundleID[r],
                         original_hash   |-> OriginalHash(r),
                         enriched_hash   |-> EnrichedHash(r),
                         prev_chain_hash |-> prevHash[r],
                         chain_hash      |-> ChainHash(r),
                         answers         |-> Answered(r) \cup {SignatureBy(r, w)}]
      BY <1>1, <2>3, <2>4 DEF DraftOf, OriginalHash, EnrichedHash
    <3>2. DraftOf(r).answers = Answered(r)
      BY DEF DraftOf
    <3>3. DraftOf(r)' = [DraftOf(r) EXCEPT !.answers = Answered(r) \cup {SignatureBy(r, w)}]
      BY <3>1, NewAnswers, Zenon
    <3>4. QED  BY <3>2, <3>3, Zenon
  <2>7. NilSignature(w).witness = w /\ DraftOf(r).answers = Answered(r)
    BY DEF NilSignature, DraftOf
  <2>8. Section!Ask(NilSignature(w))
    BY <1>1, <2>1, <2>2, <2>4, <2>5, <2>6, <2>7, DraftIsOne DEF Section!Ask, Section!NoDraft
  <2>9. QED  BY <2>8
<1>3. CASE ~(mu = r /\ Signing(r))
  <2>1. mu' = mu /\ (Signing(mu)' <=> Signing(mu))
    BY <1>1 DEF Signing
  <2>2. ASSUME mu \in Requests, Signing(mu)  PROVE DraftOf(mu)' = DraftOf(mu)
    <3>1. mu # r /\ ch'[mu] = ch[mu] /\ sigs'[mu] = sigs[mu]
      BY <1>1, <1>3, <2>2 DEF IInv, TypeOK
    <3>2. Answered(mu)' = Answered(mu)
      BY <1>1, <3>1 DEF Answered
    <3>3. QED
      BY <1>1, <3>2 DEF DraftOf, OriginalHash, EnrichedHash, ChainHash, CoordinationHash
  <2>3. QED  BY <2>1, <2>2 DEF Draft
<1>4. QED  BY <1>2, <1>3
\* The insert seals the bundle with the signatures the handler has collected.
LEMMA InsertSeals ==
  ASSUME IInv, NEW r \in Requests, Insert(r)
  PROVE  Section!Seal
<1>1. Signing(r) /\ Draft = DraftOf(r)
  <2>1. Signing(r)
    BY DEF Insert, Signing
  <2>2. QED  BY <2>1, DraftIs DEF IInv
<1>2. Draft' = <<>>
  <2>1. mu = r /\ mu' = mu
    BY DEF Insert, IInv, MutexHeld, Critical
  <2>2. ~Signing(r)'
    BY DEF Insert, IInv, TypeOK, Signing
  <2>3. QED  BY <2>1, <2>2 DEF Draft
<1>3. \A i \in DOMAIN ledger : ledger[i].bundle_id # bundleID[r]
  BY DEF Insert, HasBundle
<1>4. sigs[r] \in Section!Collections(Answered(r))
  BY <1>1, SigsAreCollected DEF IInv
<1>5. Section!QuorumStatus(sigs[r]) = QuorumStatus(sigs[r])
  BY DEF Section!QuorumStatus, QuorumStatus, Quorum
<1>6. /\ DraftOf(r).bundle_id = bundleID[r]
      /\ DraftOf(r).original_hash = OriginalHash(r)
      /\ DraftOf(r).enriched_hash = EnrichedHash(r)
      /\ DraftOf(r).prev_chain_hash = prevHash[r]
      /\ DraftOf(r).chain_hash = ChainHash(r)
      /\ DraftOf(r).answers = Answered(r)
  BY DEF DraftOf
<1>7. ledger' = Append(ledger, BundleOf(r))
  BY DEF Insert
<1>8. BundleOf(r) = [bundle_id       |-> Draft.bundle_id,
                     original_hash   |-> Draft.original_hash,
                     enriched_hash   |-> Draft.enriched_hash,
                     prev_chain_hash |-> Draft.prev_chain_hash,
                     chain_hash      |-> Draft.chain_hash,
                     signatures      |-> sigs[r],
                     quorum_status   |-> Section!QuorumStatus(sigs[r])]
  BY <1>1, <1>5, <1>6 DEF BundleOf
<1>9. Draft # <<>>
  BY <1>1, DraftIsOne
<1>10. QED
  BY <1>1, <1>2, <1>3, <1>4, <1>6, <1>7, <1>8, <1>9 DEF Section!Seal, Section!NoDraft

\* A handler that cannot store, and a crash, give the draft up if there is one.
LEMMA FailureAbandons ==
  ASSUME IInv, (\E r \in Requests : InsertFails(r) \/ ReadPrevFails(r)) \/ Crash
  PROVE  Section!Abandon \/ Draft' = Draft
<1>1. mu' = NoOne
  BY DEF InsertFails, ReadPrevFails, Finish, Crash
<1>2. Draft' = <<>>
  BY <1>1, NoOneAssumption DEF Draft
<1>3. ledger' = ledger
  BY DEF InsertFails, ReadPrevFails, Crash
<1>4. QED
  BY <1>2, <1>3 DEF Section!Abandon, Section!NoDraft

\* What a handler collects it has been answered before.
LEMMA CollectHidden ==
  ASSUME IInv, NEW r \in Requests, Collect(r)
  PROVE  Draft' = Draft
<1> DEFINE h == Head(ch[r])
<1>1. /\ ch[r] \in Seq(Results) /\ ch[r] # <<>> /\ ch'[r] = Tail(ch[r])
      /\ sigs[r] \in Seq(Signatures)
      /\ sigs'[r] = IF h.ok THEN Append(sigs[r], h.sig) ELSE sigs[r]
      /\ UNCHANGED <<ledger, mu, pc, msg, bundleID, prevHash>>
      /\ \A q \in Requests \ {r} : ch'[q] = ch[q] /\ sigs'[q] = sigs[q]
  BY DEF IInv, TypeOK, Collect, handlerVars
<1>2. ASSUME NEW e  PROVE (\E k \in DOMAIN sigs'[r] : e = sigs'[r][k]) <=>
                            \/ \E k \in DOMAIN sigs[r] : e = sigs[r][k]
                            \/ h.ok /\ e = h.sig
  <2>1. CASE h.ok
    <3>1. /\ DOMAIN sigs'[r] = DOMAIN sigs[r] \cup {Len(sigs[r]) + 1}
          /\ \A k \in DOMAIN sigs[r] : sigs'[r][k] = sigs[r][k]
          /\ sigs'[r][Len(sigs[r]) + 1] = h.sig
      BY <1>1, <2>1
    <3>2. QED  BY <2>1, <3>1
  <2>2. CASE ~h.ok
    BY <1>1, <2>2
  <2>3. QED  BY <2>1, <2>2
<1>3. ASSUME NEW e  PROVE (\E i \in DOMAIN ch[r] : ch[r][i].ok /\ e = ch[r][i].sig) <=>
                            \/ \E i \in DOMAIN ch'[r] : ch'[r][i].ok /\ e = ch'[r][i].sig
                            \/ h.ok /\ e = h.sig
  <2>1. h = ch[r][1] /\ 1 \in DOMAIN ch[r]
    BY <1>1
  <2>2. \A i \in DOMAIN ch'[r] : i + 1 \in DOMAIN ch[r] /\ ch'[r][i] = ch[r][i + 1]
    BY <1>1
  <2>3. \A i \in DOMAIN ch[r] : i # 1 => i - 1 \in DOMAIN ch'[r] /\ ch[r][i] = ch'[r][i - 1]
    BY <1>1
  <2>4. QED  BY <2>1, <2>2, <2>3
<1>4. Answered(r)' = Answered(r)
  <2>1. ASSUME NEW e
        PROVE  e \in Answered(r) <=> \/ \E k \in DOMAIN sigs[r] : e = sigs[r][k]
                                    \/ \E i \in DOMAIN ch[r] : ch[r][i].ok /\ e = ch[r][i].sig
    BY DEF Answered
  <2>2. ASSUME NEW e
        PROVE  e \in Answered(r)' <=> \/ \E k \in DOMAIN sigs'[r] : e = sigs'[r][k]
                                     \/ \E i \in DOMAIN ch'[r] : ch'[r][i].ok /\ e = ch'[r][i].sig
    BY DEF Answered
  <2>3. ASSUME NEW e  PROVE e \in Answered(r)' <=> e \in Answered(r)
    BY <1>2, <1>3, <2>1, <2>2
  <2>4. QED  BY <2>3
<1>5. \A q \in Requests : Answered(q)' = Answered(q)
  <2>1. ASSUME NEW q \in Requests \ {r}  PROVE Answered(q)' = Answered(q)
    <3>1. ch'[q] = ch[q] /\ sigs'[q] = sigs[q]
      BY <1>1
    <3>2. QED  BY <3>1 DEF Answered
  <2>2. QED  BY <1>4, <2>1
<1>6. \A q \in Requests : DraftOf(q)' = DraftOf(q)
  BY <1>1, <1>5 DEF DraftOf, OriginalHash, EnrichedHash, ChainHash, CoordinationHash
<1>7. QED  BY <1>1, <1>6 DEF Draft, Signing

\* A failed call is no answer.
LEMMA FailureHidden ==
  ASSUME IInv, NEW r \in Requests, NEW w \in Witnesses, WitnessFails(r, w)
  PROVE  Draft' = Draft
<1> DEFINE x == [ok |-> FALSE, sig |-> NilSignature(w)]
<1>1. /\ ch[r] \in Seq(Results) /\ ch'[r] = Append(ch[r], x)
      /\ UNCHANGED <<ledger, mu, pc, msg, bundleID, prevHash, sigs>>
      /\ \A q \in Requests \ {r} : ch'[q] = ch[q]
  BY DEF IInv, TypeOK, WitnessFails, Send, handlerVars
<1>2. /\ DOMAIN ch'[r] = DOMAIN ch[r] \cup {Len(ch[r]) + 1}
      /\ \A i \in DOMAIN ch[r] : ch'[r][i] = ch[r][i]
      /\ ~ ch'[r][Len(ch[r]) + 1].ok
  BY <1>1
<1>3. Answered(r)' = Answered(r)
  <2>1. ASSUME NEW e  PROVE e \in Answered(r)' <=> e \in Answered(r)
    BY <1>1, <1>2 DEF Answered
  <2>2. QED  BY <2>1
<1>4. \A q \in Requests : DraftOf(q)' = DraftOf(q)
  <2>1. ASSUME NEW q \in Requests  PROVE Answered(q)' = Answered(q)
    <3>1. CASE q = r
      BY <1>3, <3>1
    <3>2. CASE q # r
      <4>1. ch'[q] = ch[q] /\ sigs'[q] = sigs[q]
        BY <1>1, <3>2
      <4>2. QED  BY <4>1 DEF Answered
    <3>3. QED  BY <3>1, <3>2
  <2>2. QED
    BY <1>1, <2>1 DEF DraftOf, OriginalHash, EnrichedHash, ChainHash, CoordinationHash
<1>5. QED  BY <1>1, <1>4 DEF Draft, Signing

\* The steps before the mutex, the end of the loop and the reply do not touch
\* the draft.
LEMMA OthersHidden ==
  ASSUME IInv, NEW r \in Requests,
         \/ Prepare(r) \/ Reject(r) \/ Lock(r) \/ CollectedAll(r) \/ Deadline(r)
         \/ Return(r) \/ Deliver(r) \/ LoseReply(r)
  PROVE  Draft' = Draft /\ ledger' = ledger
<1>1. /\ UNCHANGED <<ledger, prevHash, ch, sigs>>
      /\ \A q \in Requests \ {r} : /\ pc'[q] = pc[q] /\ msg'[q] = msg[q]
                                   /\ bundleID'[q] = bundleID[q]
      /\ Signing(r)' <=> Signing(r)
      /\ Signing(r) => msg'[r] = msg[r] /\ bundleID'[r] = bundleID[r]
  BY DEF IInv, TypeOK, Prepare, Reject, Lock, CollectedAll, Deadline, Return, Finish,
     Deliver, LoseReply, handlerVars, signingVars, Signing
<1>2. \A q \in Requests : Signing(q)' <=> Signing(q)
  BY <1>1 DEF Signing
<1>3. ASSUME NEW q \in Requests, Signing(q)  PROVE DraftOf(q)' = DraftOf(q)
  <2>1. msg'[q] = msg[q] /\ bundleID'[q] = bundleID[q]
    BY <1>1, <1>3
  <2>2. Answered(q)' = Answered(q)
    BY <1>1 DEF Answered
  <2>3. QED
    BY <1>1, <2>1, <2>2 DEF DraftOf, OriginalHash, EnrichedHash, ChainHash, CoordinationHash
<1>4. \A q \in Requests : Signing(q) => mu = q
  BY DEF IInv, MutexHeld, Critical, Signing
<1>5. \A q \in Requests : Signing(q) => mu' = q
  <2>1. ASSUME NEW q \in Requests, Signing(q)  PROVE mu' = mu
    <3>1. mu = q /\ mu # NoOne
      BY <1>4, <2>1, NoOneAssumption
    <3>2. ~Lock(r)
      BY <3>1 DEF Lock
    <3>3. ~Return(r)
      BY <2>1, <3>1 DEF Return, IInv, MutexHeld, Critical, Signing
    <3>4. QED
      BY <3>2, <3>3 DEF Prepare, Reject, CollectedAll, Deadline, Deliver, LoseReply
  <2>2. QED  BY <1>4, <2>1
<1>6. QED  BY <1>1, <1>2, <1>3, <1>4, <1>5 DEF Draft

----------------------------------------------------------------------------
\* An empty ledger and no draft.
LEMMA InitSealing == Init => Section!SealingInit
BY NoOneAssumption DEF Init, Draft, Section!SealingInit, Section!NoDraft

\* Every step of the gateway is a step of Sealing or leaves it unchanged.
LEMMA StepSealing ==
  IInv /\ IInv' /\ [Next]_vars => [Section!SealingNext]_(Section!sealingVars)
<1> SUFFICES ASSUME IInv, IInv', [Next]_vars
             PROVE  Section!SealingNext \/ (Draft' = Draft /\ ledger' = ledger)
  BY DEF Section!sealingVars
<1>1. ASSUME NEW r \in Requests, ReadPrev(r)  PROVE Section!SealingNext
  <2>1. msg[r] \in Messages /\ bundleID[r] \in BundleIds
    BY DEF IInv, TypeOK
  <2>2. QED  BY <1>1, <2>1, ReadOpens DEF Section!SealingNext
<1>2. ASSUME NEW r \in Requests, NEW w \in Witnesses, WitnessAnswers(r, w)
      PROVE  Section!SealingNext \/ (Draft' = Draft /\ ledger' = ledger)
  <2>1. ledger' = ledger
    BY <1>2 DEF WitnessAnswers, Send
  <2>2. QED  BY <1>2, <2>1, AnswerAsks DEF Section!SealingNext
<1>3. ASSUME NEW r \in Requests, Insert(r)  PROVE Section!SealingNext
  BY <1>3, InsertSeals DEF Section!SealingNext
<1>4. CASE (\E r \in Requests : InsertFails(r) \/ ReadPrevFails(r)) \/ Crash
  <2>1. ledger' = ledger
    BY <1>4 DEF InsertFails, ReadPrevFails, Crash
  <2>2. QED  BY <1>4, <2>1, FailureAbandons DEF Section!SealingNext
<1>5. ASSUME NEW r \in Requests, Collect(r)  PROVE Draft' = Draft /\ ledger' = ledger
  <2>1. ledger' = ledger
    BY <1>5 DEF Collect
  <2>2. QED  BY <1>5, <2>1, CollectHidden
<1>6. ASSUME NEW r \in Requests, NEW w \in Witnesses, WitnessFails(r, w)
      PROVE  Draft' = Draft /\ ledger' = ledger
  <2>1. ledger' = ledger
    BY <1>6 DEF WitnessFails, Send
  <2>2. QED  BY <1>6, <2>1, FailureHidden
<1>7. ASSUME NEW r \in Requests,
             \/ Prepare(r) \/ Reject(r) \/ Lock(r) \/ CollectedAll(r) \/ Deadline(r)
             \/ Return(r) \/ Deliver(r) \/ LoseReply(r)
      PROVE  Draft' = Draft /\ ledger' = ledger
  BY <1>7, OthersHidden
<1>8. CASE UNCHANGED vars
  BY <1>8 DEF vars, handlerVars, signingVars, Draft, Signing, DraftOf, Answered,
     OriginalHash, EnrichedHash, ChainHash, CoordinationHash
<1>9. QED
  BY <1>1, <1>2, <1>3, <1>4, <1>5, <1>6, <1>7, <1>8 DEF Next, Handler, Goroutine

\* Whatever the handlers, their goroutines and crashes do, witnesses and
\* auditors see one bundle at a time signed and sealed.
THEOREM SealingRefinement == Spec => RefinesSealing
<1>1. QED
  BY InitSealing, StepSealing, Invariant, PTL
  DEF Spec, RefinesSealing, Section!SealingSpec
============================================================================
