---------------------------- MODULE NotaryProofs ----------------------------
(***************************************************************************)
(* Theorems about Notary for any witnesses, key pairs, messages and length *)
(* of the ledger, any number of crashes and losses, checked by TLAPS.      *)
(***************************************************************************)
EXTENDS Notary, WitnessKeysProofs, FiniteSetTheorems

----------------------------------------------------------------------------
(* The witnesses go on as they do alone. *)

\* Whatever the gateway does, a witness takes a step of its own or none.
LEMMA WitnessesStepOrNone == [NotaryNext]_notaryVars => [KeysNext]_keyVars
BY DEF NotaryNext, notaryVars, Open, Ask, SignInVain, Seal, Abandon, KeysNext

\* Nothing is signed and the ledger is empty.
LEMMA InitNotary == NotaryInit => NotaryInv
<1> SUFFICES ASSUME NotaryInit  PROVE NotaryInv
  OBVIOUS
<1>1. KeysInv
  BY KeysInitInvariant DEF NotaryInit
<1>2. bundles = <<>> /\ draft = Gateway!NoDraft
  BY DEF NotaryInit, Gateway!SealingInit
<1> QED
  BY <1>1, <1>2, BundlesAssumption DEF NotaryInv, NotaryTypeOK, DraftSound, BundlesSound

\* Signatures that have been issued stay issued.
LEMMA IssuedStay == [KeysNext]_keyVars => issued \subseteq issued'
BY DEF KeysNext, KeyStep, keyVars, Start, Load, Generate, TruncatePriv, WritePriv,
   TruncatePub, WritePub, Die, LoseFile, Sign

\* The head of the chain is a chain hash.
LEMMA HeadType ==
  ASSUME NotaryTypeOK
  PROVE  Gateway!LatestChainHash \in ChainHashes
<1>1. CASE bundles = <<>>
  BY <1>1 DEF Gateway!LatestChainHash, ChainHashes
<1>2. CASE bundles # <<>>
  <2>1. bundles[Len(bundles)] \in Rows
    BY <1>2 DEF NotaryTypeOK
  <2> QED
    BY <1>2, <2>1 DEF Gateway!LatestChainHash, Rows
<1> QED
  BY <1>1, <1>2

\* Without a draft or a new bundle nothing has to be shown but that signatures stay.
LEMMA OthersStep ==
  ASSUME NotaryInv, [KeysNext]_keyVars, UNCHANGED bundles,
         draft' = draft \/ draft' = Gateway!NoDraft
  PROVE  NotaryTypeOK' /\ DraftSound' /\ BundlesSound'
<1>1. issued \subseteq issued'
  BY IssuedStay
<1> QED
  BY <1>1
  DEF NotaryInv, NotaryTypeOK, DraftSound, BundlesSound, HoldsTogether, Genuine, RecomputeChainHash

\* A draft on the head of the chain holds together (main.go:214-224).
LEMMA OpenStep ==
  ASSUME NotaryInv, NEW m \in Messages, Open(m)
  PROVE  NotaryTypeOK' /\ DraftSound' /\ BundlesSound'
<1> DEFINE id == Len(bundles) + 1
           prev == Gateway!LatestChainHash
           new == [bundle_id |-> id, original_hash |-> m, enriched_hash |-> <<m, id>>,
                   prev_chain_hash |-> prev, chain_hash |-> Append(prev, <<m, <<m, id>>>>),
                   answers |-> {}]
<1>1. /\ NotaryTypeOK /\ draft' = new /\ bundles' = bundles /\ issued' = issued
      /\ id \in 1 .. MaxBundles
  BY BundlesAssumption
  DEF NotaryInv, NotaryTypeOK, Open, Gateway!Open, keyVars
<1>2. prev \in ChainHashes
  BY <1>1, HeadType
<1>3. Append(prev, <<m, <<m, id>>>>) \in ChainHashes
  <2>1. <<m, <<m, id>>>> \in Messages \X (Messages \X (1 .. MaxBundles))
    BY <1>1
  <2> HIDE DEF id, prev
  <2> QED
    BY <1>2, <2>1 DEF ChainHashes
<1>4. new \in Drafts
  <2> HIDE DEF id, prev
  <2> QED
    BY <1>1, <1>2, <1>3 DEF Drafts
<1>5. HoldsTogether(new, id)
  BY DEF HoldsTogether, RecomputeChainHash
<1>6. NotaryTypeOK'
  BY <1>1, <1>4 DEF NotaryTypeOK
<1>7. DraftSound'
  <2>1. new.answers = {} /\ Len(bundles') + 1 = id
    BY <1>1
  <2> HIDE DEF new, id
  <2> QED
    BY <1>1, <1>5, <2>1 DEF DraftSound, HoldsTogether, RecomputeChainHash
<1>8. BundlesSound'
  BY <1>1 DEF NotaryInv, BundlesSound, HoldsTogether, Genuine, RecomputeChainHash
<1> QED
  BY <1>6, <1>7, <1>8

\* What is added to a draft is a signature over its chain hash (main.go:91-102).
LEMMA AskStep ==
  ASSUME NotaryInv, NEW w \in Witnesses, Ask(w)
  PROVE  NotaryTypeOK' /\ DraftSound' /\ BundlesSound'
<1> DEFINE e == [witness |-> w, fingerprint |-> pub[w], key |-> priv[w],
                 hash |-> draft.chain_hash]
<1>1. /\ NotaryTypeOK /\ DraftSound /\ bundles' = bundles
      /\ draft # Gateway!NoDraft /\ draft \in Drafts
  BY DEF NotaryInv, NotaryTypeOK, Ask, Gateway!Ask
<1>2. /\ issued' = issued \cup {Stamp(w)} /\ priv[w] \in Keys /\ pub[w] \in Keys
  BY DEF Ask, Sign, NotaryInv, KeysInv, UpHasKeys
<1>3. [Blank(w) EXCEPT !.hash = draft.chain_hash] = e
  BY DEF Blank
<1>4. draft' = [draft EXCEPT !.answers = @ \cup {e}]
  BY <1>3 DEF Ask, Gateway!Ask
<1>5. e \in Entries
  BY <1>1, <1>2 DEF Entries, Drafts
<1>6. /\ draft' \in Drafts /\ draft'.answers = draft.answers \cup {e}
      /\ draft'.bundle_id = draft.bundle_id /\ draft'.chain_hash = draft.chain_hash
      /\ draft'.original_hash = draft.original_hash
      /\ draft'.enriched_hash = draft.enriched_hash
      /\ draft'.prev_chain_hash = draft.prev_chain_hash
  <2> HIDE DEF e
  <2> QED
    BY <1>1, <1>4, <1>5 DEF Drafts
<1>7. StampOf(e) = Stamp(w) /\ e.hash = draft.chain_hash
  BY DEF StampOf, Stamp
<1>8. NotaryTypeOK'
  BY <1>1, <1>6 DEF NotaryTypeOK
<1>9. DraftSound'
  <2> HIDE DEF e
  <2> QED
    BY <1>1, <1>2, <1>6, <1>7 DEF DraftSound, HoldsTogether, Genuine, RecomputeChainHash
<1>10. BundlesSound'
  BY <1>1, <1>2 DEF NotaryInv, BundlesSound, HoldsTogether, Genuine, RecomputeChainHash
<1> QED
  BY <1>8, <1>9, <1>10

\* The signatures of a sealed bundle are some of the answers, in an order.
LEMMA CollectionsType ==
  ASSUME NEW A, NEW s \in Gateway!Collections(A)
  PROVE  s \in Seq(A)
<1>1. Cardinality(Witnesses) \in Nat
  BY WitnessesAssumption, FS_CardinalityType
<1>2. PICK n \in 0 .. Cardinality(Witnesses) : s \in [1 .. n -> A]
  BY DEF Gateway!Collections
<1> QED
  BY <1>1, <1>2

\* The row that is written is the draft with the signatures there are
\* (main.go:226-267).
LEMMA SealStep ==
  ASSUME NotaryInv, Seal
  PROVE  NotaryTypeOK' /\ DraftSound' /\ BundlesSound'
<1>1. /\ NotaryTypeOK /\ DraftSound /\ BundlesSound /\ draft' = Gateway!NoDraft
      /\ draft # Gateway!NoDraft /\ draft \in Drafts /\ issued' = issued
  BY DEF NotaryInv, NotaryTypeOK, Seal, Gateway!Seal, keyVars
<1>2. PICK signatures \in Gateway!Collections(draft.answers) :
        bundles' = Append(bundles,
          [bundle_id       |-> draft.bundle_id,
           original_hash   |-> draft.original_hash,
           enriched_hash   |-> draft.enriched_hash,
           prev_chain_hash |-> draft.prev_chain_hash,
           chain_hash      |-> draft.chain_hash,
           signatures      |-> signatures,
           quorum_status   |-> Gateway!QuorumStatus(signatures)])
  BY DEF Seal, Gateway!Seal
<1> DEFINE row == [bundle_id       |-> draft.bundle_id,
                   original_hash   |-> draft.original_hash,
                   enriched_hash   |-> draft.enriched_hash,
                   prev_chain_hash |-> draft.prev_chain_hash,
                   chain_hash      |-> draft.chain_hash,
                   signatures      |-> signatures,
                   quorum_status   |-> Gateway!QuorumStatus(signatures)]
<1>3. /\ signatures \in Seq(draft.answers) /\ draft.answers \subseteq Entries
  BY <1>1, CollectionsType DEF Drafts
<1>4. /\ signatures \in Seq(Entries)
      /\ \A k \in DOMAIN signatures : Genuine(signatures[k], draft.chain_hash)
  BY <1>1, <1>3 DEF DraftSound
<1>5. row \in Rows
  BY <1>1, <1>4 DEF Drafts, Rows, Gateway!QuorumStatus
<1>6. /\ HoldsTogether(row, Len(bundles) + 1)
      /\ \A k \in DOMAIN row.signatures : Genuine(row.signatures[k], row.chain_hash)
      /\ row.quorum_status = Gateway!QuorumStatus(row.signatures)
  BY <1>1, <1>4 DEF DraftSound, HoldsTogether, RecomputeChainHash
<1>7. draft.bundle_id = Len(bundles) + 1 /\ draft.bundle_id \in 1 .. MaxBundles
  BY <1>1 DEF DraftSound, HoldsTogether, Drafts
<1>8. bundles' = Append(bundles, row) /\ bundles \in Seq(Rows)
  BY <1>1, <1>2 DEF NotaryTypeOK
<1> HIDE DEF row
<1>9. /\ bundles' \in Seq(Rows) /\ Len(bundles') = Len(bundles) + 1
      /\ DOMAIN bundles' = 1 .. Len(bundles) + 1 /\ Len(bundles) \in Nat
      /\ \A i \in 1 .. Len(bundles) : bundles'[i] = bundles[i] /\ i \in DOMAIN bundles
      /\ bundles'[Len(bundles) + 1] = row
  BY <1>5, <1>8
<1>10. NotaryTypeOK' /\ DraftSound'
  BY <1>1, <1>7, <1>9, BundlesAssumption DEF NotaryTypeOK, DraftSound
<1>11. BundlesSound'
  <2> SUFFICES ASSUME NEW i \in 1 .. Len(bundles) + 1
               PROVE  /\ HoldsTogether(bundles'[i], i)
                      /\ \A k \in DOMAIN bundles'[i].signatures :
                           Genuine(bundles'[i].signatures[k], bundles'[i].chain_hash)
                      /\ bundles'[i].quorum_status =
                           Gateway!QuorumStatus(bundles'[i].signatures)
    <3>1. DOMAIN bundles' = 1 .. Len(bundles) + 1 /\ issued' = issued
      BY <1>1, <1>9
    <3> QED
      BY <3>1, Zenon DEF BundlesSound, HoldsTogether, Genuine, StampOf, RecomputeChainHash,
         Gateway!QuorumStatus
  <2>1. i \in 1 .. Len(bundles) \/ i = Len(bundles) + 1
    BY <1>9
  <2> QED
    BY <1>1, <1>6, <1>9, <2>1 DEF BundlesSound
<1> QED
  BY <1>10, <1>11

\* Every step of gateway and witnesses preserves the invariant.
LEMMA NotaryStep == NotaryInv /\ [NotaryNext]_notaryVars => NotaryInv'
<1> SUFFICES ASSUME NotaryInv, [NotaryNext]_notaryVars  PROVE NotaryInv'
  OBVIOUS
<1>1. [KeysNext]_keyVars
  BY WitnessesStepOrNone
<1>2. KeysInv'
  BY <1>1, KeysNextInvariant DEF NotaryInv
<1>3. NotaryTypeOK' /\ DraftSound' /\ BundlesSound'
  <2>1. CASE \/ \E w \in Witnesses : SignInVain(w)
             \/ \E w \in Witnesses : KeyStep(w) /\ UNCHANGED <<bundles, draft>>
             \/ UNCHANGED notaryVars
    BY <1>1, <2>1, OthersStep DEF SignInVain, notaryVars
  <2>2. CASE Abandon
    BY <1>1, <2>2, OthersStep DEF Abandon, Gateway!Abandon
  <2>3. CASE Seal \/ (\E m \in Messages : Open(m)) \/ \E w \in Witnesses : Ask(w)
    BY <2>3, OpenStep, AskStep, SealStep
  <2> QED
    BY <2>1, <2>2, <2>3 DEF NotaryNext
<1> QED
  BY <1>2, <1>3 DEF NotaryInv

\* Key files, issued signatures, the bundle under way and the ledger agree in
\* every reachable state.
THEOREM NotaryInvariant == NotarySpec => []NotaryInv
BY InitNotary, NotaryStep, PTL DEF NotarySpec

----------------------------------------------------------------------------
(* What an auditor finds. *)

\* A signature of a witness that has kept its files counts (verify.py:132-154).
LEMMA KeptCounts ==
  ASSUME NotaryInv, NEW i \in DOMAIN bundles, NEW k \in DOMAIN bundles[i].signatures,
         bundles[i].signatures[k].witness \notin lost
  PROVE  Counts(bundles[i], k, KeysDir)
<1> DEFINE e == bundles[i].signatures[k]
<1>1. e \in Entries
  <2>1. bundles[i] \in Rows
    BY DEF NotaryInv, NotaryTypeOK
  <2>2. bundles[i].signatures \in Seq(Entries)
    BY <2>1 DEF Rows
  <2> QED
    BY <2>2
<1>2. Genuine(e, bundles[i].chain_hash) /\ bundles[i].chain_hash = RecomputeChainHash(bundles[i])
  BY DEF NotaryInv, BundlesSound, HoldsTogether
<1>3. StampOf(e) \in issued /\ StampOf(e).witness = e.witness
      /\ StampOf(e).key = e.key /\ StampOf(e).fingerprint = e.fingerprint
  BY <1>2 DEF Genuine, StampOf
<1>4. /\ e.key = e.fingerprint /\ pubFile[e.witness] = e.fingerprint
      /\ e.witness \in Witnesses /\ e.fingerprint \in Keys
  BY <1>1, <1>3 DEF Entries, NotaryInv, KeysInv, IssuedStayVerifiable
<1>5. e.fingerprint \in KeysDir
  BY <1>4 DEF KeysDir
<1> QED
  BY <1>2, <1>4, <1>5 DEF Counts, Genuine

\* The positions of a bundle's signatures are finitely many, and so are those of
\* any kind.
LEMMA SignaturesFinite ==
  ASSUME NotaryInv, NEW i \in DOMAIN bundles
  PROVE  /\ Len(bundles[i].signatures) \in Nat
         /\ IsFiniteSet(DOMAIN bundles[i].signatures)
         /\ Cardinality(DOMAIN bundles[i].signatures) = Len(bundles[i].signatures)
         /\ \A S \in SUBSET DOMAIN bundles[i].signatures :
              /\ IsFiniteSet(S) /\ Cardinality(S) \in Nat
              /\ Cardinality(S) <= Len(bundles[i].signatures)
<1>1. bundles[i] \in Rows
  BY DEF NotaryInv, NotaryTypeOK
<1>2. bundles[i].signatures \in Seq(Entries)
  BY <1>1 DEF Rows
<1> DEFINE D == DOMAIN bundles[i].signatures
<1>3. Len(bundles[i].signatures) \in Nat /\ D = 1 .. Len(bundles[i].signatures)
  BY <1>2
<1>4. IsFiniteSet(D) /\ Cardinality(D) = Len(bundles[i].signatures)
  BY <1>3, FS_Interval
<1>5. \A S \in SUBSET D : IsFiniteSet(S) /\ Cardinality(S) \in Nat /\ Cardinality(S) <= Cardinality(D)
  <2> HIDE DEF D
  <2> QED
    BY <1>4, FS_Subset, FS_CardinalityType
<1> QED
  BY <1>3, <1>4, <1>5

\* Without key loss every signature of a bundle counts.
LEMMA AllCount ==
  ASSUME NotaryInv, lost = {}, NEW i \in DOMAIN bundles
  PROVE  ValidCount(bundles[i], KeysDir) = Len(bundles[i].signatures)
<1>1. {k \in DOMAIN bundles[i].signatures : Counts(bundles[i], k, KeysDir)}
        = DOMAIN bundles[i].signatures
  BY KeptCounts
<1> QED
  BY <1>1, SignaturesFinite DEF ValidCount

\* The verifier's verdict on a bundle is the gateway's status, at any time after it
\* was sealed and with the payloads in any form, as long as no key file was lost,
\* however often the witnesses crashed (main.go:226-229, verify.py:85-159).
THEOREM VerdictIsStatus == NotarySpec => []VerdictAgrees
<1>1. NotaryInv => VerdictAgrees
  <2> SUFFICES ASSUME NotaryInv, lost = {}, NEW i \in DOMAIN bundles,
                      NEW iso \in {NoFile} \cup
                        [form : Forms, content : {bundles[i].original_hash}],
                      NEW xml \in {NoFile} \cup
                        [form : {"raw", "lookalike"}, content : {bundles[i].enriched_hash}]
               PROVE  VerifyBundle(bundles[i], KeysDir, iso, xml) <=>
                        bundles[i].quorum_status = "QUORUM_MET"
    BY DEF VerdictAgrees
  <2>1. OriginalMatches(bundles[i], iso)
    BY DEF OriginalMatches, PayloadHash, Bytes, Forms
  <2>2. EnrichedMatches(bundles[i], xml)
    BY DEF EnrichedMatches, PayloadHash, Bytes
  <2>3. /\ RecomputeChainHash(bundles[i]) = bundles[i].chain_hash
        /\ bundles[i].quorum_status = Gateway!QuorumStatus(bundles[i].signatures)
    BY DEF NotaryInv, BundlesSound, HoldsTogether
  <2>4. ValidCount(bundles[i], KeysDir) = Len(bundles[i].signatures)
    BY AllCount
  <2> QED
    BY <2>1, <2>2, <2>3, <2>4, SignaturesFinite DEF VerifyBundle, Gateway!QuorumStatus
<1> QED
  BY NotaryInvariant, <1>1, PTL

\* No payload but a bundle's own makes it VALID (verify.py:85-122).
THEOREM PayloadBinding == NotarySpec => []PayloadIsBound
<1>1. NotaryInv => PayloadIsBound
  <2> SUFFICES ASSUME NotaryInv, NEW i \in DOMAIN bundles, NEW j \in DOMAIN bundles
               PROVE  LET m == bundles[i].original_hash
                          n == bundles[j].original_hash
                      IN /\ VerifyBundle(bundles[i], KeysDir, NoFile,
                              [form |-> "raw", content |-> bundles[j].enriched_hash]) => i = j
                         /\ m \notin {n, AsText(n), Decoded(n)} =>
                              \A f \in Forms : ~VerifyBundle(bundles[i], KeysDir,
                                                  [form |-> f, content |-> n], NoFile)
    BY DEF PayloadIsBound
  <2>1. bundles[i] \in Rows /\ bundles[j] \in Rows
    BY DEF NotaryInv, NotaryTypeOK
  <2>2. /\ bundles[i].enriched_hash = <<bundles[i].original_hash, i>>
        /\ bundles[j].enriched_hash = <<bundles[j].original_hash, j>>
    BY DEF NotaryInv, BundlesSound, HoldsTogether
  <2>3. ASSUME NEW f \in Forms, NEW c \in Contents
        PROVE  [form |-> f, content |-> c] # NoFile
    BY <2>3, NoFileAssumption
  <2>4. bundles[j].original_hash \in Contents /\ bundles[j].enriched_hash \in Contents
    BY <2>1 DEF Rows, Contents
  <2>5. ASSUME VerifyBundle(bundles[i], KeysDir, NoFile,
                 [form |-> "raw", content |-> bundles[j].enriched_hash])
        PROVE  i = j
    <3>1. [form |-> "raw", content |-> bundles[j].enriched_hash] # NoFile
      BY <2>3, <2>4 DEF Forms
    <3>2. bundles[j].enriched_hash = bundles[i].enriched_hash
      BY <2>5, <3>1 DEF VerifyBundle, EnrichedMatches, PayloadHash, Bytes
    <3> QED
      BY <2>2, <3>2
  <2>6. ASSUME NEW f \in Forms,
               VerifyBundle(bundles[i], KeysDir,
                 [form |-> f, content |-> bundles[j].original_hash], NoFile)
        PROVE  bundles[i].original_hash \in
                 {bundles[j].original_hash, AsText(bundles[j].original_hash),
                  Decoded(bundles[j].original_hash)}
    <3>1. [form |-> f, content |-> bundles[j].original_hash] # NoFile
      BY <2>3, <2>4
    <3> QED
      BY <2>6, <3>1 DEF VerifyBundle, OriginalMatches, PayloadHash, Bytes
  <2> QED
    BY <2>5, <2>6
<1> QED
  BY NotaryInvariant, <1>1, PTL

\* A bundle stays VALID as long as two of its witnesses have kept their files
\* (verify.py:132-154).
THEOREM TwoKeptSuffice == NotarySpec => []LossTolerated
<1>1. NotaryInv => LossTolerated
  <2> SUFFICES ASSUME NotaryInv, NEW i \in DOMAIN bundles, Intact(bundles[i]) >= 2
               PROVE  VerifyBundle(bundles[i], KeysDir, NoFile, NoFile)
    BY DEF LossTolerated
  <2> DEFINE D == DOMAIN bundles[i].signatures
             gone == {k \in D : bundles[i].signatures[k].witness \in lost}
             good == {k \in D : Counts(bundles[i], k, KeysDir)}
  <2>1. D \ gone \subseteq good
    BY KeptCounts
  <2>2. /\ IsFiniteSet(D) /\ IsFiniteSet(good) /\ Cardinality(good) \in Nat
        /\ IsFiniteSet(gone) /\ Cardinality(gone) \in Nat
        /\ Cardinality(D) = Len(bundles[i].signatures) /\ Cardinality(D) \in Nat
    BY SignaturesFinite
  <2>3. Cardinality(D \ gone) = Cardinality(D) - Cardinality(gone)
    <3>1. D \cap gone = gone
      OBVIOUS
    <3> HIDE DEF D, gone
    <3>2. IsFiniteSet(D)
      BY <2>2
    <3>3. Cardinality(D \ gone) = Cardinality(D) - Cardinality(D \cap gone)
      BY ONLY <3>2, FS_Difference
    <3> QED
      BY ONLY <3>1, <3>3
  <2>4. Cardinality(D \ gone) <= Cardinality(good)
    <3> HIDE DEF D, gone, good
    <3> QED
      BY <2>1, <2>2, FS_Subset
  <2>5. Cardinality(good) >= 2
    <3>1. Cardinality(D) - Cardinality(gone) >= 2
      BY <2>2 DEF Intact
    <3> HIDE DEF D, gone, good
    <3> QED
      BY <2>2, <2>3, <2>4, <3>1
  <2>6. RecomputeChainHash(bundles[i]) = bundles[i].chain_hash
    BY DEF NotaryInv, BundlesSound, HoldsTogether
  <2> QED
    BY <2>5, <2>6 DEF VerifyBundle, OriginalMatches, EnrichedMatches, ValidCount
<1> QED
  BY NotaryInvariant, <1>1, PTL

----------------------------------------------------------------------------
(* The witnesses answer as Sealing, which Gateway implements, expects. *)

\* Every step is one that Sealing allows.
LEMMA StepSeals ==
  ASSUME NotaryInv, [NotaryNext]_notaryVars
  PROVE  [Gateway!SealingNext]_(Gateway!sealingVars)
<1>1. ASSUME NEW m \in Messages, Open(m)  PROVE Gateway!SealingNext
  <2>1. Len(bundles) + 1 \in 1 .. MaxBundles
    BY <1>1, BundlesAssumption DEF Open, NotaryInv, NotaryTypeOK
  <2> QED
    BY <1>1, <2>1 DEF Open, Gateway!SealingNext
<1>2. ASSUME NEW w \in Witnesses, Ask(w)  PROVE Gateway!SealingNext
  <2>1. Blank(w) \in Blanks
    BY <1>2 DEF Ask, Sign, NotaryInv, KeysInv, UpHasKeys, Blank, Blanks
  <2> QED
    BY <1>2, <2>1 DEF Ask, Gateway!SealingNext
<1>3. Seal \/ Abandon => Gateway!SealingNext
  BY DEF Seal, Abandon, Gateway!SealingNext
<1>4. \/ UNCHANGED notaryVars
      \/ \E w \in Witnesses : SignInVain(w)
      \/ \E w \in Witnesses : KeyStep(w) /\ UNCHANGED <<bundles, draft>>
      => UNCHANGED Gateway!sealingVars
  BY DEF notaryVars, SignInVain, Gateway!sealingVars
<1> QED
  BY <1>1, <1>2, <1>3, <1>4 DEF NotaryNext

\* With real witnesses the gateway sees nothing that Sealing does not allow: a
\* witness that answers has a key pair, wherever it crashed before, and each
\* position of the ledger is taken once.
THEOREM WitnessesFit == NotarySpec => Gateway!SealingSpec
<1>1. NotaryInit => Gateway!SealingInit
  BY DEF NotaryInit
<1> QED
  BY <1>1, StepSeals, NotaryInvariant, PTL DEF NotarySpec, Gateway!SealingSpec
=============================================================================
