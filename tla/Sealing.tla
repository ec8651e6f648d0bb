------------------------------ MODULE Sealing ------------------------------
(***************************************************************************)
(* What the gateway does with the witnesses, as they and an auditor see    *)
(* it: one bundle at a time is opened on the head of the chain, each       *)
(* witness may answer once with an entry over its chain hash, and then     *)
(* either the bundle is sealed, with some of the answers in some order,    *)
(* and is the last of the ledger, or it is given up.  There is no mutex,   *)
(* no channel and no deadline.                                             *)
(***************************************************************************)
EXTENDS Naturals, Sequences

CONSTANTS Messages,
          BundleIds,
          Fanout,    \* how many witnesses there are
          Blanks     \* the entries of answers, with the hash left open

VARIABLES bundles,  \* the ledger, in order
          draft     \* the bundle being signed, or NoDraft

sealingVars == <<bundles, draft>>

NoDraft == <<>>

LatestChainHash == IF bundles = <<>> THEN <<>> ELSE bundles[Len(bundles)].chain_hash

SealingInit == bundles = <<>> /\ draft = NoDraft

\* The handler has the mutex, the head of the chain and the coordination hash;
\* the hashes are modelled as in Gateway.
Open(m, id) ==
  /\ draft = NoDraft
  /\ draft' = [bundle_id       |-> id,
               original_hash   |-> m,
               enriched_hash   |-> <<m, id>>,
               prev_chain_hash |-> LatestChainHash,
               chain_hash      |-> Append(LatestChainHash, <<m, <<m, id>>>>),
               answers         |-> {}]
  /\ UNCHANGED bundles

\* A witness signs the chain hash and its answer reaches the request.  The
\* gateway takes the entry as it comes: it does not check the signature.
Ask(blank) ==
  /\ draft # NoDraft
  /\ \A e \in draft.answers : e.witness # blank.witness
  /\ draft' = [draft EXCEPT !.answers =
                 @ \cup {[blank EXCEPT !.hash = draft.chain_hash]}]
  /\ UNCHANGED bundles

\* The sequences of different answers: the deadline cuts off those that have
\* not been collected, and they are collected in any order.
Collections(answers) ==
  {s \in UNION {[1 .. n -> answers] : n \in 0 .. Fanout} :
     \A i, j \in DOMAIN s : s[i] = s[j] => i = j}

QuorumStatus(signatures) ==
  IF Len(signatures) >= 2 THEN "QUORUM_MET" ELSE "QUORUM_FAILED"

\* The row is written with the signatures there are, whatever their number.
Seal ==
  /\ draft # NoDraft
  /\ \A i \in DOMAIN bundles : bundles[i].bundle_id # draft.bundle_id
  /\ \E signatures \in Collections(draft.answers) :
       bundles' = Append(bundles,
         [bundle_id       |-> draft.bundle_id,
          original_hash   |-> draft.original_hash,
          enriched_hash   |-> draft.enriched_hash,
          prev_chain_hash |-> draft.prev_chain_hash,
          chain_hash      |-> draft.chain_hash,
          signatures      |-> signatures,
          quorum_status   |-> QuorumStatus(signatures)])
  /\ draft' = NoDraft

\* The insert fails or the gateway crashes: the signatures are lost.
Abandon == /\ draft # NoDraft
           /\ draft' = NoDraft
           /\ UNCHANGED bundles

SealingNext == \/ \E m \in Messages, id \in BundleIds : Open(m, id)
               \/ \E blank \in Blanks : Ask(blank)
               \/ Seal
               \/ Abandon

SealingSpec == SealingInit /\ [][SealingNext]_sealingVars
============================================================================
