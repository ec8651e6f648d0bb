------------------------------ MODULE Verifier ------------------------------
(***************************************************************************)
(* The offline verifier (verify/verify.py): what verify_bundle answers for *)
(* a bundle, a directory of public keys and, optionally, the files that    *)
(* hold the original message and the enriched XML.                         *)
(*                                                                         *)
(* As in Gateway a hash is modelled by what it commits to.  A signature    *)
(* carries the private key it was made with and the hash it was made over  *)
(* (with its time stamp bound in); it verifies under a public key exactly  *)
(* when the two keys are one pair.                                         *)
(***************************************************************************)
EXTENDS Naturals, Sequences, FiniteSets

CONSTANT NoFile  \* the optional argument is not given

RecomputeChainHash(b) ==
  Append(b.prev_chain_hash, <<b.original_hash, b.enriched_hash>>)

(***************************************************************************)
(* A payload file: "base64" text of content c, "raw" bytes of c that are   *)
(* not base64, or "lookalike": raw bytes of c that happen to decode, as    *)
(* the digits of an ASCII ISO 8583 message may.                            *)
(***************************************************************************)
Forms == {"base64", "raw", "lookalike"}

Decoded(c)   == <<"decoded", c>>
AsText(c)    == <<"base64 of", c>>

\* The bytes of the file, and what get_payload_hash is the hash of.
Bytes(f) == IF f.form = "base64" THEN AsText(f.content) ELSE f.content

PayloadHash(f, isBase64) ==
  IF isBase64 /\ f.form = "base64" THEN f.content
  ELSE IF isBase64 /\ f.form = "lookalike" THEN Decoded(f.content)
  ELSE Bytes(f)

\* Mutants: no second try; the enriched payload is not compared.
Base64OriginalMatches(b, f) ==
  f = NoFile \/ PayloadHash(f, TRUE) = b.original_hash

EnrichedUnchecked(b, f) == TRUE

\* The original may be given as base64 text or as raw bytes: the raw hash is
\* the second try.
OriginalMatches(b, f) ==
  f = NoFile \/ PayloadHash(f, TRUE) = b.original_hash
             \/ PayloadHash(f, FALSE) = b.original_hash

EnrichedMatches(b, f) ==
  f = NoFile \/ PayloadHash(f, FALSE) = b.enriched_hash

\* An entry counts if a public key of its fingerprint is found and verifies
\* its signature over the recomputed hash.
Counts(b, k, keysDir) ==
  LET s == b.signatures[k] IN
  /\ s.fingerprint \in keysDir
  /\ s.key = s.fingerprint
  /\ s.hash = RecomputeChainHash(b)

ValidCount(b, keysDir) ==
  Cardinality({k \in DOMAIN b.signatures : Counts(b, k, keysDir)})

\* Mutant: one signature that does not count makes the bundle invalid.
VerifyAll(b, keysDir, rawIso, enrichedXml) ==
  /\ OriginalMatches(b, rawIso)
  /\ EnrichedMatches(b, enrichedXml)
  /\ RecomputeChainHash(b) = b.chain_hash
  /\ ValidCount(b, keysDir) >= 2
  /\ ValidCount(b, keysDir) = Len(b.signatures)

VerifyBundle(b, keysDir, rawIso, enrichedXml) ==
  /\ OriginalMatches(b, rawIso)
  /\ EnrichedMatches(b, enrichedXml)
  /\ RecomputeChainHash(b) = b.chain_hash
  /\ ValidCount(b, keysDir) >= 2
=============================================================================
