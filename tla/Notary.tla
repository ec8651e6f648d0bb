------------------------------- MODULE Notary -------------------------------
(***************************************************************************)
(* Gateway, witnesses and verifier together: witnesses whose processes     *)
(* crash, restart and may lose key files (WitnessKeys), a gateway that     *)
(* collects their signatures one request at a time and seals a bundle      *)
(* (Sealing), and an auditor who runs verify_bundle (Verifier) on any      *)
(* bundle at any later time with the public files that are there then.     *)
(*                                                                         *)
(* Gateway is shown to implement Sealing, for whatever the witnesses       *)
(* answer; here they answer with the pair they hold in memory.             *)
(***************************************************************************)
EXTENDS WitnessKeys, Verifier

CONSTANTS Messages,
          MaxBundles  \* bound: length of the ledger

ASSUME BundlesAssumption   == MaxBundles \in Nat
ASSUME WitnessesAssumption == IsFiniteSet(Witnesses)

\* What is hashed into a bundle: the message, and the XML, which differs from that
\* of every other bundle by the time it was made.
Contents == Messages \cup Messages \X (1 .. MaxBundles)

ASSUME NoFileAssumption == NoFile \notin [form : Forms, content : Contents]

VARIABLES bundles,  \* the ledger, in order
          draft     \* the bundle being signed

\* The entries witnesses answer with, before they are over a hash, and that of w.
Blanks == [witness : Witnesses, fingerprint : Keys, key : Keys, hash : {<<>>}]
Blank(w) == [witness |-> w, fingerprint |-> pub[w], key |-> priv[w], hash |-> <<>>]

\* Bundle ids are unique in the ledger: its positions stand for them.
Gateway == INSTANCE Sealing WITH BundleIds <- 1 .. MaxBundles,
                                 Fanout <- Cardinality(Witnesses)

notaryVars == <<keyVars, bundles, draft>>

NotaryInit == KeysInit /\ Gateway!SealingInit

Open(m) == /\ Len(bundles) < MaxBundles
           /\ Gateway!Open(m, Len(bundles) + 1)
           /\ UNCHANGED keyVars

\* A witness signs for the request under way, ...
Ask(w) == Sign(w) /\ Gateway!Ask(Blank(w))

\* ... or its answer is late, lost or for another caller.
SignInVain(w) == Sign(w) /\ UNCHANGED <<bundles, draft>>

Seal    == Gateway!Seal /\ UNCHANGED keyVars
Abandon == Gateway!Abandon /\ UNCHANGED keyVars

NotaryNext ==
  \/ \E m \in Messages : Open(m)
  \/ \E w \in Witnesses : Ask(w) \/ SignInVain(w)
  \/ Seal
  \/ Abandon
  \/ \E w \in Witnesses : KeyStep(w) /\ UNCHANGED <<bundles, draft>>

NotarySpec == NotaryInit /\ [][NotaryNext]_notaryVars

----------------------------------------------------------------------------
\* The key directory of an auditor on the spot: the public files of the right
\* size, as they are now.
KeysDir == {pubFile[w] : w \in Witnesses} \cap Keys

\* Signatures of witnesses that have kept their files.
Intact(b) == Len(b.signatures) -
  Cardinality({k \in DOMAIN b.signatures : b.signatures[k].witness \in lost})

\* The gateway's status and the verifier's verdict agree, now and for ever:
\* without key loss a bundle is VALID exactly if it was sealed QUORUM_MET,
\* however often the witnesses crashed and restarted since, and whether its
\* payloads come along as files or not (main.go:226-229, verify.py:85-159).
VerdictAgrees ==
  lost = {} => \A i \in DOMAIN bundles :
    LET b == bundles[i] IN
    \A iso \in {NoFile} \cup [form : Forms, content : {b.original_hash}],
       xml \in {NoFile} \cup [form : {"raw", "lookalike"}, content : {b.enriched_hash}] :
         VerifyBundle(b, KeysDir, iso, xml) <=> b.quorum_status = "QUORUM_MET"

\* The enriched payload of another bundle is never accepted, and the original of
\* another only if it is the same message, or if the bytes of the one file are
\* those of both: of the message itself and of another in base64 (verify.py:85-122).
PayloadIsBound ==
  \A i, j \in DOMAIN bundles :
    LET m == bundles[i].original_hash
        n == bundles[j].original_hash
    IN /\ VerifyBundle(bundles[i], KeysDir, NoFile,
                       [form |-> "raw", content |-> bundles[j].enriched_hash]) => i = j
       /\ m \notin {n, AsText(n), Decoded(n)} =>
            \A f \in Forms :
              ~VerifyBundle(bundles[i], KeysDir, [form |-> f, content |-> n], NoFile)

\* Losing keys costs a bundle only the signatures of the witnesses that lost
\* theirs: with two others left it still verifies (verify.py:132-154).
LossTolerated ==
  \A i \in DOMAIN bundles :
    Intact(bundles[i]) >= 2 => VerifyBundle(bundles[i], KeysDir, NoFile, NoFile)

(***************************************************************************)
(* Why: the draft and every sealed bundle hold together, and each of their *)
(* entries is a signature that its witness issued over their chain hash.   *)
(***************************************************************************)
ChainHashes == Seq(Messages \X (Messages \X (1 .. MaxBundles)))

Entries == [witness : Witnesses, fingerprint : Keys, key : Keys, hash : ChainHashes]

Drafts == [bundle_id : 1 .. MaxBundles, original_hash : Messages,
           enriched_hash : Messages \X (1 .. MaxBundles),
           prev_chain_hash : ChainHashes, chain_hash : ChainHashes,
           answers : SUBSET Entries]

Rows == [bundle_id : 1 .. MaxBundles, original_hash : Messages,
         enriched_hash : Messages \X (1 .. MaxBundles),
         prev_chain_hash : ChainHashes, chain_hash : ChainHashes,
         signatures : Seq(Entries), quorum_status : {"QUORUM_MET", "QUORUM_FAILED"}]

NotaryTypeOK == /\ bundles \in Seq(Rows) /\ Len(bundles) <= MaxBundles
                /\ draft \in {Gateway!NoDraft} \cup Drafts

StampOf(e) == [witness |-> e.witness, fingerprint |-> e.fingerprint, key |-> e.key]

\* e is a signature that its witness issued, over this hash.
Genuine(e, hash) == e.hash = hash /\ StampOf(e) \in issued

\* The payloads and hashes of b are those of the bundle at position i.
HoldsTogether(b, i) == /\ b.bundle_id = i
                       /\ b.enriched_hash = <<b.original_hash, i>>
                       /\ b.chain_hash = RecomputeChainHash(b)

DraftSound ==
  draft # Gateway!NoDraft =>
    /\ HoldsTogether(draft, Len(bundles) + 1)
    /\ \A e \in draft.answers : Genuine(e, draft.chain_hash)

BundlesSound ==
  \A i \in DOMAIN bundles :
    /\ HoldsTogether(bundles[i], i)
    /\ \A k \in DOMAIN bundles[i].signatures :
         Genuine(bundles[i].signatures[k], bundles[i].chain_hash)
    /\ bundles[i].quorum_status = Gateway!QuorumStatus(bundles[i].signatures)

\* The witnesses' key files, the signatures they issued, the bundle under way and
\* the ledger agree, across crashes of witnesses and losses of files: an
\* invariant that every step preserves (gateway main.go:211-272).
NotaryInv == /\ KeysInv
             /\ NotaryTypeOK
             /\ DraftSound
             /\ BundlesSound

\* What IMPLEMENTATION_PLAN.md:24 says: the quorum is met once two valid
\* signatures are returned.  Checked when the bundle is sealed, against the
\* public keys its entries name.
QuorumMeansTwoValid ==
  [][Seal => LET b == bundles'[Len(bundles')] IN
       b.quorum_status = "QUORUM_MET" =>
         ValidCount(b, {b.signatures[k].fingerprint : k \in DOMAIN b.signatures}) >= 2]_notaryVars
=============================================================================
