---------------------------- MODULE WitnessKeys ----------------------------
(***************************************************************************)
(* The key pairs of the witness nodes (cmd/witness/main.go): two files per *)
(* witness, written one after the other when no pair can be loaded, a      *)
(* process that may die at any point and be started again, and the         *)
(* signatures it issues with the pair it holds in memory.                  *)
(*                                                                         *)
(* A key pair is one value of Keys: the private file, the public file and  *)
(* the fingerprint that belong together hold the same value.               *)
(***************************************************************************)
EXTENDS Naturals, FiniteSets

CONSTANTS Witnesses,
          Keys,       \* key pairs that ed25519.GenerateKey can return
          Missing,    \* there is no such file
          Partial,    \* a file whose size is not that of a key
          MaxCrashes, \* bound: witness processes that die
          MaxLosses   \* bound: witnesses that lose a key file

ASSUME FileAssumption  == Missing \notin Keys /\ Partial \notin Keys /\ Missing # Partial
ASSUME BoundAssumption == MaxCrashes \in Nat /\ MaxLosses \in Nat

VARIABLES privFile,  \* keyPath
          pubFile,   \* keyPath + ".pub"
          step,      \* where loadOrGenerate and main are
          priv, pub, \* the pair in memory; Missing while there is none
          generated, \* key pairs generated so far
          issued,    \* signing keys and fingerprints of signatures handed out
          crashes,
          lost       \* witnesses that have lost a key file, outside the program

fileVars == <<privFile, pubFile>>
memVars  == <<priv, pub>>
keyVars  == <<fileVars, step, memVars, generated, issued, crashes, lost>>

Files == Keys \cup {Missing, Partial}
Steps == {"down", "starting", "generated", "privTruncated", "privWritten",
          "pubTruncated", "up"}

KeysInit ==
  /\ privFile = [w \in Witnesses |-> Missing]
  /\ pubFile  = [w \in Witnesses |-> Missing]
  /\ step = [w \in Witnesses |-> "down"]
  /\ priv = [w \in Witnesses |-> Missing]
  /\ pub  = [w \in Witnesses |-> Missing]
  /\ generated = {}
  /\ issued = {}
  /\ crashes = 0
  /\ lost = {}

Goto(w, from, to) == step[w] = from /\ step' = [step EXCEPT ![w] = to]

Start(w) == /\ Goto(w, "down", "starting")
            /\ UNCHANGED <<fileVars, memVars, generated, issued, crashes, lost>>

\* Mutants: the public file is not looked at; the files are never found.
PrivLoadable(w) == privFile[w] \in Keys
NeverLoadable(w) == FALSE

\* Both files can be read and have the size of a key.
Loadable(w) == privFile[w] \in Keys /\ pubFile[w] \in Keys

\* The pair is taken from the files as it is found there.
Load(w) ==
  /\ Goto(w, "starting", "up")
  /\ Loadable(w)
  /\ priv' = [priv EXCEPT ![w] = privFile[w]]
  /\ pub'  = [pub  EXCEPT ![w] = pubFile[w]]
  /\ UNCHANGED <<fileVars, generated, issued, crashes, lost>>

Generate(w) ==
  /\ Goto(w, "starting", "generated")
  /\ ~Loadable(w)
  /\ \E k \in Keys \ generated :
       /\ generated' = generated \cup {k}
       /\ priv' = [priv EXCEPT ![w] = k]
       /\ pub'  = [pub  EXCEPT ![w] = k]
  /\ UNCHANGED <<fileVars, issued, crashes, lost>>

(***************************************************************************)
(* os.WriteFile truncates the file and then writes it; first the private   *)
(* key, then the public one.  A failed write ends the process with the     *)
(* files as they are, as a crash does.                                     *)
(***************************************************************************)
TruncatePriv(w) ==
  /\ Goto(w, "generated", "privTruncated")
  /\ privFile' = [privFile EXCEPT ![w] = Partial]
  /\ UNCHANGED <<pubFile, memVars, generated, issued, crashes, lost>>

\* Mutant: the error of writing the private file is not looked at.
WritePrivUnchecked(w) ==
  /\ Goto(w, "privTruncated", "privWritten")
  /\ \E f \in {Partial, priv[w]} : privFile' = [privFile EXCEPT ![w] = f]
  /\ UNCHANGED <<pubFile, memVars, generated, issued, crashes, lost>>

WritePriv(w) ==
  /\ Goto(w, "privTruncated", "privWritten")
  /\ privFile' = [privFile EXCEPT ![w] = priv[w]]
  /\ UNCHANGED <<pubFile, memVars, generated, issued, crashes, lost>>

TruncatePub(w) ==
  /\ Goto(w, "privWritten", "pubTruncated")
  /\ pubFile' = [pubFile EXCEPT ![w] = Partial]
  /\ UNCHANGED <<privFile, memVars, generated, issued, crashes, lost>>

\* The pair is complete and the witness begins to serve.
WritePub(w) ==
  /\ Goto(w, "pubTruncated", "up")
  /\ pubFile' = [pubFile EXCEPT ![w] = pub[w]]
  /\ UNCHANGED <<privFile, memVars, generated, issued, crashes, lost>>

\* The process dies or exits with an error.
Die(w) ==
  /\ step[w] # "down"
  /\ crashes < MaxCrashes
  /\ crashes' = crashes + 1
  /\ step' = [step EXCEPT ![w] = "down"]
  /\ priv' = [priv EXCEPT ![w] = Missing]
  /\ pub'  = [pub  EXCEPT ![w] = Missing]
  /\ UNCHANGED <<fileVars, generated, issued, lost>>

\* A key file disappears (operator, disk, power failure before it is synced).
LoseFile(w) ==
  /\ lost' = lost \cup {w}
  /\ Cardinality(lost') <= MaxLosses
  /\ \/ privFile[w] # Missing /\ privFile' = [privFile EXCEPT ![w] = Missing]
                              /\ UNCHANGED pubFile
     \/ pubFile[w] # Missing /\ pubFile' = [pubFile EXCEPT ![w] = Missing]
                             /\ UNCHANGED privFile
  /\ UNCHANGED <<step, memVars, generated, issued, crashes>>

\* handleSign: a signature by the private key in memory, labelled with the
\* fingerprint of the public one.
Stamp(w) == [witness |-> w, fingerprint |-> pub[w], key |-> priv[w]]

\* Mutant: the witness serves before it has its pair.
SignAnytime(w) ==
  /\ issued' = issued \cup {Stamp(w)}
  /\ UNCHANGED <<fileVars, step, memVars, generated, crashes, lost>>

Sign(w) ==
  /\ step[w] = "up"
  /\ issued' = issued \cup {Stamp(w)}
  /\ UNCHANGED <<fileVars, step, memVars, generated, crashes, lost>>

KeyStep(w) == \/ Start(w) \/ Load(w) \/ Generate(w)
              \/ TruncatePriv(w) \/ WritePriv(w) \/ TruncatePub(w) \/ WritePub(w)
              \/ Die(w) \/ LoseFile(w)

KeysNext == \E w \in Witnesses : KeyStep(w) \/ Sign(w)

KeysSpec == KeysInit /\ [][KeysNext]_keyVars

----------------------------------------------------------------------------
KeysTypeOK ==
  /\ privFile \in [Witnesses -> Files] /\ pubFile \in [Witnesses -> Files]
  /\ step \in [Witnesses -> Steps]
  /\ priv \in [Witnesses -> Keys \cup {Missing}]
  /\ pub  \in [Witnesses -> Keys \cup {Missing}]
  /\ generated \in SUBSET Keys
  /\ issued \in SUBSET [witness : Witnesses, fingerprint : Keys, key : Keys]
  /\ crashes \in 0 .. MaxCrashes
  /\ lost \in SUBSET Witnesses

\* The private key a witness serves with is the one its fingerprint and its
\* public file stand for, wherever the process died before, unless one of its
\* files was lost (witness main.go:37-63: the order of the two writes).
PairMatches ==
  \A w \in Witnesses \ lost : step[w] = "up" =>
    /\ priv[w] = pub[w]
    /\ privFile[w] = priv[w] /\ pubFile[w] = pub[w]

\* Unless it loses a file, a witness never changes the identity under which it
\* has signed: every signature it ever issued can be checked with the public
\* file that is there now, and the file of no other witness fits
\* (witness main.go:37-50, 142-150).
IssuedStayVerifiable ==
  \A s \in issued : s.witness \notin lost =>
    /\ s.key = s.fingerprint
    /\ \A w \in Witnesses : pubFile[w] = s.fingerprint <=> w = s.witness

(***************************************************************************)
(* Why: the public file is only ever completed after the private one, with *)
(* the same pair, and a pair is generated only while it is not complete.   *)
(***************************************************************************)
FilesAgree(w) == pubFile[w] \in Keys => privFile[w] = pubFile[w]

Writing == {"generated", "privTruncated", "privWritten", "pubTruncated"}

PairInHand(w) == step[w] \in Writing =>
  /\ priv[w] \in Keys /\ pub[w] = priv[w] /\ pubFile[w] \notin Keys
  /\ step[w] \in {"privWritten", "pubTruncated"} => privFile[w] = priv[w]

KeysOf(w) == {privFile[w], pubFile[w], priv[w], pub[w]} \cap Keys

\* No key pair is ever seen at two witnesses.
KeysApart ==
  /\ \A w \in Witnesses : KeysOf(w) \subseteq generated
  /\ \A w, v \in Witnesses : w # v => KeysOf(w) \cap KeysOf(v) = {}

\* Also a witness that lost a file has a pair in memory when it serves.
UpHasKeys == \A w \in Witnesses :
  step[w] \in Writing \cup {"up"} => priv[w] \in Keys /\ pub[w] \in Keys

\* The files and the memory of a witness agree at each point of its start-up
\* (witness main.go:37-63), no two witnesses share a pair, and both promises
\* above hold: an invariant that every step preserves.
KeysInv == /\ KeysTypeOK
           /\ \A w \in Witnesses \ lost : FilesAgree(w) /\ PairInHand(w)
           /\ UpHasKeys
           /\ KeysApart
           /\ PairMatches
           /\ IssuedStayVerifiable

\* What docs/WITNESS_SECURITY.md:25-27 says: if the private key is there at
\* start-up the pair is loaded, and a fresh one is generated if it is missing.
GeneratedOnlyIfMissing ==
  [][\A w \in Witnesses :
       step[w] = "starting" /\ step'[w] = "generated" => privFile[w] \notin Keys]_keyVars
============================================================================
