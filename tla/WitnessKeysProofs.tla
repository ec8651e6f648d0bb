------------------------- MODULE WitnessKeysProofs -------------------------
(***************************************************************************)
(* Theorems about WitnessKeys for any witnesses, any supply of key pairs   *)
(* and any number of crashes and losses, checked by TLAPS.                 *)
(***************************************************************************)
EXTENDS WitnessKeys, TLAPS

\* Initially there are no files and no signatures.
LEMMA KeysInitInvariant == KeysInit => KeysInv
BY FileAssumption, BoundAssumption
   DEF KeysInit, KeysInv, KeysTypeOK, Files, Steps, FilesAgree, PairInHand,
       Writing, KeysOf, KeysApart, UpHasKeys, PairMatches, IssuedStayVerifiable

\* Every step keeps the types.
LEMMA KeysTypeStep ==
  ASSUME KeysTypeOK, UpHasKeys, [KeysNext]_keyVars
  PROVE  KeysTypeOK'
<1> USE DEF KeysTypeOK, Files, Steps, Goto, fileVars, memVars
<1>1. ASSUME NEW w \in Witnesses, Start(w) \/ Load(w) \/ Generate(w)
      PROVE  KeysTypeOK'
  BY <1>1 DEF Start, Load, Generate, Loadable
<1>2. ASSUME NEW w \in Witnesses,
             TruncatePriv(w) \/ WritePriv(w) \/ TruncatePub(w) \/ WritePub(w)
      PROVE  KeysTypeOK'
  BY <1>2 DEF TruncatePriv, WritePriv, TruncatePub, WritePub
<1>3. ASSUME NEW w \in Witnesses, Die(w)  PROVE KeysTypeOK'
  BY <1>3, BoundAssumption DEF Die
<1>4. ASSUME NEW w \in Witnesses, LoseFile(w)  PROVE KeysTypeOK'
  BY <1>4 DEF LoseFile
<1>5. ASSUME NEW w \in Witnesses, Sign(w)  PROVE KeysTypeOK'
  BY <1>5 DEF Sign, Stamp, UpHasKeys
<1>6. CASE UNCHANGED keyVars
  BY <1>6 DEF keyVars
<1>7. QED
  BY <1>1, <1>2, <1>3, <1>4, <1>5, <1>6 DEF KeysNext, KeyStep

\* The fields of one witness change only in its own steps.
LEMMA OneWitnessSteps ==
  ASSUME KeysTypeOK, [KeysNext]_keyVars, NEW w \in Witnesses, ~KeyStep(w)
  PROVE  /\ privFile'[w] = privFile[w] /\ pubFile'[w] = pubFile[w]
         /\ priv'[w] = priv[w] /\ pub'[w] = pub[w] /\ step'[w] = step[w]
         /\ w \notin lost => w \notin lost'
BY DEF KeysTypeOK, KeysNext, KeyStep, keyVars, fileVars, memVars, Goto, Start,
       Load, Generate, TruncatePriv, WritePriv, TruncatePub, WritePub, Die,
       LoseFile, Sign

\* At every step the files and the memory of a witness stay consistent.
LEMMA FilesStep ==
  ASSUME KeysInv, [KeysNext]_keyVars, NEW w \in Witnesses, w \notin lost'
  PROVE  /\ FilesAgree(w)' /\ PairInHand(w)'
         /\ step'[w] = "up" =>
              /\ priv'[w] = pub'[w] /\ privFile'[w] = priv'[w] /\ pubFile'[w] = pub'[w]
<1> USE FileAssumption DEF KeysInv, KeysTypeOK, Files, Steps, FilesAgree,
      PairInHand, Writing, PairMatches, UpHasKeys, Goto, fileVars, memVars
<1>1. w \notin lost
  BY DEF KeysNext, KeyStep, keyVars, Start, Load, Generate, TruncatePriv,
     WritePriv, TruncatePub, WritePub, Die, LoseFile, Sign
<1>2. CASE ~KeyStep(w)
  BY <1>1, <1>2, OneWitnessSteps
<1>3. CASE Start(w) \/ Load(w) \/ Generate(w)
  BY <1>1, <1>3 DEF Start, Load, Generate, Loadable
<1>4. CASE TruncatePriv(w) \/ WritePriv(w)
  BY <1>1, <1>4 DEF TruncatePriv, WritePriv
<1>5. CASE TruncatePub(w) \/ WritePub(w)
  BY <1>1, <1>5 DEF TruncatePub, WritePub
<1>6. CASE Die(w)
  BY <1>1, <1>6 DEF Die
<1>7. CASE LoseFile(w)
  BY <1>7 DEF LoseFile
<1>8. QED
  BY <1>2, <1>3, <1>4, <1>5, <1>6, <1>7 DEF KeyStep

LEMMA UpStep ==
  ASSUME KeysTypeOK, UpHasKeys, [KeysNext]_keyVars
  PROVE  UpHasKeys'
<1> SUFFICES ASSUME NEW w \in Witnesses, step'[w] \in Writing \cup {"up"}
             PROVE  priv'[w] \in Keys /\ pub'[w] \in Keys
  BY DEF UpHasKeys
<1>1. CASE ~KeyStep(w)
  BY <1>1, OneWitnessSteps DEF UpHasKeys
<1>2. CASE KeyStep(w)
  BY <1>2 DEF UpHasKeys, KeysTypeOK, Steps, Writing, KeyStep, fileVars, memVars,
     Goto, Start, Load, Loadable, Generate, TruncatePriv, WritePriv, TruncatePub,
     WritePub, Die, LoseFile
<1>3. QED  BY <1>1, <1>2

\* A witness's keys are those it had, or one pair that nobody had.
LEMMA KeysOfStep ==
  ASSUME KeysTypeOK, [KeysNext]_keyVars
  PROVE  \/ /\ \A w \in Witnesses : KeysOf(w)' \subseteq KeysOf(w)
            /\ generated' = generated
         \/ \E v \in Witnesses, k \in Keys \ generated :
              /\ generated' = generated \cup {k}
              /\ \A w \in Witnesses \ {v} : KeysOf(w)' \subseteq KeysOf(w)
              /\ KeysOf(v)' \subseteq KeysOf(v) \cup {k}
<1> USE FileAssumption DEF KeysTypeOK, KeysOf, fileVars, memVars, Goto
<1>1. ASSUME NEW v \in Witnesses, Generate(v)
      PROVE  \E k \in Keys \ generated :
               /\ generated' = generated \cup {k}
               /\ \A w \in Witnesses \ {v} : KeysOf(w)' \subseteq KeysOf(w)
               /\ KeysOf(v)' \subseteq KeysOf(v) \cup {k}
  BY <1>1 DEF Generate
<1>2. ASSUME NEW v \in Witnesses,
             \/ Start(v) \/ Load(v) \/ TruncatePriv(v) \/ WritePriv(v)
             \/ TruncatePub(v) \/ WritePub(v) \/ Die(v) \/ LoseFile(v) \/ Sign(v)
      PROVE  /\ \A w \in Witnesses : KeysOf(w)' \subseteq KeysOf(w)
             /\ generated' = generated
  BY <1>2 DEF Start, Load, TruncatePriv, WritePriv, TruncatePub, WritePub, Die,
     LoseFile, Sign
<1>3. CASE UNCHANGED keyVars
  BY <1>3 DEF keyVars
<1>4. QED  BY <1>1, <1>2, <1>3 DEF KeysNext, KeyStep

LEMMA ApartStep ==
  ASSUME KeysTypeOK, KeysApart, [KeysNext]_keyVars
  PROVE  KeysApart'
<1> USE DEF KeysApart
<1>1. CASE /\ \A w \in Witnesses : KeysOf(w)' \subseteq KeysOf(w)
           /\ generated' = generated
  BY <1>1
<1>2. ASSUME NEW v \in Witnesses, NEW k \in Keys \ generated,
             generated' = generated \cup {k},
             \A w \in Witnesses \ {v} : KeysOf(w)' \subseteq KeysOf(w),
             KeysOf(v)' \subseteq KeysOf(v) \cup {k}
      PROVE  KeysApart'
  BY <1>2
<1>3. QED  BY <1>1, <1>2, KeysOfStep

\* A witness that has kept its files keeps its public file once it has signed.
LEMMA IssuedStep ==
  ASSUME KeysInv, [KeysNext]_keyVars, KeysTypeOK', KeysApart'
  PROVE  IssuedStayVerifiable'
<1> SUFFICES ASSUME NEW s \in issued', s.witness \notin lost'
             PROVE  /\ s.key = s.fingerprint
                    /\ \A w \in Witnesses : pubFile'[w] = s.fingerprint <=> w = s.witness
  BY DEF IssuedStayVerifiable
<1> DEFINE v == s.witness
<1>1. v \in Witnesses /\ s.fingerprint \in Keys
  BY DEF KeysTypeOK
<1>2. v \notin lost
  BY DEF KeysNext, KeyStep, keyVars, Start, Load, Generate, TruncatePriv,
     WritePriv, TruncatePub, WritePub, Die, LoseFile, Sign
<1>3. s.key = s.fingerprint /\ pubFile[v] = s.fingerprint
  <2>1. CASE s \in issued
    BY <1>1, <1>2, <2>1 DEF KeysInv, IssuedStayVerifiable
  <2>2. CASE s \notin issued
    <3>1. PICK w \in Witnesses : Sign(w) /\ s = Stamp(w)
      BY <2>2 DEF KeysNext, KeyStep, keyVars, Start, Load, Generate, TruncatePriv,
         WritePriv, TruncatePub, WritePub, Die, LoseFile, Sign
    <3>2. v = w /\ s.key = priv[w] /\ s.fingerprint = pub[w] /\ step[w] = "up"
      BY <3>1 DEF Stamp, Sign
    <3>3. QED  BY <1>2, <3>2 DEF KeysInv, PairMatches
  <2>3. QED  BY <2>1, <2>2
<1>4. pubFile'[v] = pubFile[v]
  <2>1. CASE ~KeyStep(v)
    BY <1>1, <2>1, OneWitnessSteps DEF KeysInv
  <2>2. CASE KeyStep(v)
    <3>1. v \in lost' \/ step[v] \notin {"privWritten", "pubTruncated"}
      BY <1>1, <1>2, <1>3 DEF KeysInv, PairInHand, Writing
    <3>2. QED
      BY <1>1, <2>2, <3>1 DEF KeysInv, KeysTypeOK, KeyStep, Goto, fileVars, memVars,
         Start, Load, Generate, TruncatePriv, WritePriv, TruncatePub, WritePub,
         Die, LoseFile
  <2>3. QED  BY <2>1, <2>2
<1>5. ASSUME NEW w \in Witnesses, pubFile'[w] = s.fingerprint  PROVE w = v
  <2>1. s.fingerprint \in KeysOf(w)' /\ s.fingerprint \in KeysOf(v)'
    BY <1>1, <1>3, <1>4, <1>5 DEF KeysOf
  <2>2. QED  BY <1>1, <2>1 DEF KeysApart
<1>6. QED  BY <1>1, <1>3, <1>4, <1>5

\* Every step of a witness, a crash and a loss preserve the invariant.
LEMMA KeysNextInvariant == KeysInv /\ [KeysNext]_keyVars => KeysInv'
<1> SUFFICES ASSUME KeysInv, [KeysNext]_keyVars  PROVE KeysInv'
  OBVIOUS
<1>1. KeysTypeOK' /\ UpHasKeys' /\ KeysApart'
  BY KeysTypeStep, UpStep, ApartStep DEF KeysInv
<1>2. IssuedStayVerifiable'
  BY <1>1, IssuedStep
<1>3. PairMatches' /\ \A w \in (Witnesses \ lost)' : FilesAgree(w)' /\ PairInHand(w)'
  BY FilesStep DEF PairMatches
<1>4. QED  BY <1>1, <1>2, <1>3 DEF KeysInv

\* The invariant of the key files holds in every reachable state.
THEOREM KeysInvariant == KeysSpec => []KeysInv
BY KeysInitInvariant, KeysNextInvariant, PTL DEF KeysSpec

\* Unless it loses a file, a witness serves with a pair that belongs together,
\* whatever crashes interrupted its start-up.
THEOREM PairIntegrity == KeysSpec => []PairMatches
<1>1. KeysInv => PairMatches
  BY DEF KeysInv
<1>2. QED  BY <1>1, KeysInvariant, PTL

\* Unless its witness loses a file, a signature stays verifiable for ever.
THEOREM IssuedVerifiability == KeysSpec => []IssuedStayVerifiable
<1>1. KeysInv => IssuedStayVerifiable
  BY DEF KeysInv
<1>2. QED  BY <1>1, KeysInvariant, PTL

\* The variables keep their types.
THEOREM KeysTypes == KeysSpec => []KeysTypeOK
<1>1. KeysInv => KeysTypeOK
  BY DEF KeysInv
<1>2. QED  BY <1>1, KeysInvariant, PTL
============================================================================
