# A verification project for CONNEX

CONNEX translates ISO 8583 card messages into ISO 20022 `pacs.008` documents and
keeps a tamper-evident record of each translation: the gateway parses, enriches
and assembles, has independent witnesses sign a chain hash, and appends the event
to a ledger. An auditor checks a bundle later with an offline verifier.

This directory holds TLA+ models of that code, the TLC configurations that check
them on small instances, and TLAPS proofs of what matters most for every instance.
`PROJECT.json` is the index: components, runs, mutants, the source lines behind
each definition, hazards, findings and theorems.

## 1. Inventory

| Part | State it keeps | Operations | Talks to |
|---|---|---|---|
| Gateway, `cmd/gateway/main.go` | the mutex `mu`; per request: message, bundle id, previous hash, result channel, signatures | `handleCoordinate`, `collectSignatures`, `requestSignature`, `handleHealth` | parser, engine, assembler (calls); witnesses (HTTP); ledger (SQL) |
| Ledger, `internal/storage` | table `coordination_events`, append-only | `Insert`, `LatestChainHash`, `Count` | gateway |
| Witness, `cmd/witness/main.go` | two key files; the key pair in memory | `loadOrGenerate`, `handleSign`, `handlePubkey`, `handleHealth` | gateway; its public file is copied to auditors |
| Verifier, `verify/verify.py` | none; reads bundle, payload files, key directory | `verify_bundle` | bundles, public keys |
| Parser, `internal/iso8583/parser.go` | position in the message, fields read | `Parse`, `AmountKES`, `CurrencyCode` | gateway |
| Rules engine, `internal/enrichment` | rules loaded at start; per call: fields decided, log | `Enrich`, `matches`, `FormatAmount` | gateway, assembler |
| Assembler, `internal/iso20022` | none | `Assemble`, `validateNativeISO` | gateway |
| Load generator, `cmd/bench/main.go` | slots of the semaphore, wait group, `results` and its mutex, CSV file | `main` in burst and fixed mode, `fireRequest`, `writeCSVLine`, `generateManifest` | gateway (HTTP) |
| Scripts, sandbox, corpus, docs | | | |

How a request runs. Everything up to the XML touches no shared state. Then the
handler takes the mutex, reads the head of the chain, computes the chain hash,
starts one goroutine per witness and collects results from a buffered channel until
all have reported or 150 ms have passed, inserts the row, writes the reply, and
releases the mutex by `defer`. The row is written whether or not a quorum signed;
its `quorum_status` says which.

What is hard about it, and what must hold:

- *Interleaving.* Handlers run concurrently and the chain needs one order. The head
  is read before the witnesses are awaited and used after. The ledger must stay one
  chain, each row linked to the one before it.
- *Deadline and late answers.* Goroutines outlive the handler. A late or failed
  result must not reach a bundle, and no goroutine may block for ever.
- *Crashes.* The gateway may die between signing, insert and reply; a witness may
  die between the two key files. What a client was told must be in the ledger, and
  a witness must not serve with a private key that does not fit its public one.
- *Partial failure.* The insert may fail after witnesses have signed, a bundle id
  may collide, and every such path must release the mutex.
- *Two judges.* The gateway counts answers, the verifier counts valid signatures:
  the two must agree later too, after restarts.
- *Positions.* The parser cuts BCD values where the stream ends; a position that is
  off by one gives the bytes of one field to another.
- *Bookkeeping under concurrency.* The load generator's goroutines share a slice and a
  semaphore, fail independently, and the manifest is computed when a counter says they
  are done. It must not lose a result, and what it reports must fit the ledger although
  answers get lost.
- *Two views of a field.* The rules see a message's fields as they came, the document has
  them trimmed and with defaults; what was decided must be true of the document.
- *Order-dependent rules.* The first match decides, and a rule may look at what
  earlier rules decided; limits are in whole shillings while amounts have cents.

## 2. Modules

| Module | Models | State and actions in the code |
|---|---|---|
| `CoordinationLog` | what the gateway promises | abstract: `chain` grows by one link per committed request; `outcome[r]` is what the client is told |
| `Gateway` | gateway and ledger | `ledger` = rows; `mu` = `g.mu`; `pc[r]` = where the handler is; `call`, `ch`, `got`, `sigs` = goroutines, channel, loop counter and collected signatures. One action per step that another process can see: `Prepare`, `Lock`, `ReadPrev`, `WitnessAnswers`/`WitnessFails`, `Collect`, `Deadline`, `Insert`, `Return`, ..., and the error return of each |
| `Sealing` | what witnesses and auditors see of the gateway | abstract: one `draft` at a time, opened on the head of `bundles`, answered by each witness at most once, sealed with some of the answers or given up |
| `GatewayProofs`, `SealingProofs` | proofs about `Gateway`; that it implements `Sealing` | |
| `WitnessKeys` | `loadOrGenerate` and `handleSign` | the two files, the pair in memory, the signatures issued; truncating and writing each file are steps of their own, so that `Die` can come in between |
| `WitnessKeysProofs` | proofs about `WitnessKeys` | |
| `Verifier` | `verify_bundle` | operators; a payload file is base64, raw, or raw that happens to decode |
| `Notary` | gateway (as `Sealing`), witnesses and verifier together | extends `WitnessKeys` and `Verifier`; `Ask` is a witness signing with the pair in its memory and the gateway getting the entry, `SignInVain` a signature nobody collects |
| `NotaryProofs` | proofs about `Notary`, extending `WitnessKeysProofs` | |
| `Iso8583` | `Parse` | a message is its length and bitmap bits; other bytes are chosen when read; one action per kind of field and mode |
| `Iso8583Proofs` | proofs about `Iso8583` | |
| `Enrichment` | `Enrich`, for any table of rules | `EvaluateRule` is one turn of the loop, `ApplyDefaults` what follows it |
| `EnrichmentProofs` | proofs about `Enrichment` | |
| `RulesTable` | `rules.yaml` | the 27 rules in order |
| `Translation` | input, engine, assembler and validation | extends `Enrichment` with `Assemble` |
| `TranslationProofs` | proofs about `Translation`, for any table and for that of `RulesTable`; extends `EnrichmentProofs` | |
| `Bench` | the load generator | `main`, `at[i]` = where `main` and the goroutine of request i are; `sem`, `wg`, `resultsMu`, `results`, `csv` as in the code; `append` reads the slice and stores it in two steps; deferred calls run in their order, also when a goroutine panics; `Report` sorts the latencies into any ascending order, `sort.Slice` not being stable |
| `BenchGateway` | load generator and gateway together | extends `Bench`; the gateway is `CoordinationLog`, whose answer, if it arrives, is what the call returns |
| `BenchProofs` | proofs about `Bench` and `BenchGateway` | |
| `MC*` | constants and symmetry for TLC | |

Data is abstracted to what the properties distinguish. SHA-256 is taken to be
collision free, so a hash is what it commits to: `original_hash` is the message,
`enriched_hash` the message and the bundle id written into the XML, a chain hash
the sequence of links back to genesis. A signature is the key it was made with and
the hash it is over. In `Translation`, texts are members of a small set with maps
that say what trimming and escaping make of them, and amounts are in cents.

The two compositions take the gateway as an abstract module and not as its handlers:
`Notary` as `Sealing`, `BenchGateway` as `CoordinationLog`. That `Gateway` implements
both is checked (`RefinesSealing`, `RefinesLog`) and proved. That the compositions in turn
take only the steps of their parts is proved too (`WitnessesFit`, `EachDoesItsPart`,
`EngineInside`), so what is proved of a part holds inside the whole. In `Notary` a witness signs
and its answer is there in one step; an answer that is under way when the witness dies,
loses a file or the deadline passes is covered, since the draft is open from before the
witness was asked and `Seal` need not take all answers.

## 3. Runs

Every passing run completes its state space. A run of a component with proofs also
checks its inductive invariant (`IInv`, `NotaryInv`, `ParserInv`, `TranslationInv`,
`BenchInv`, `SystemInv`), which contains the type invariant. Every property of a passing run has a mutant
in `PROJECT.json`, a plausible bug that makes the same run fail.

| Run | Question | Bounds, and why they are enough |
|---|---|---|
| `gateway_safety` | Is the ledger one chain, are rows attested, is what a client got stored, and does the gateway implement the log that clients see and the sealing that witnesses and auditors see? | 2 requests, 3 witnesses, 2 bundle ids, 1 crash. Two handlers suffice for a race on the mutex or the head; three witnesses give answers, failures and late results together and a quorum that is not all; with two ids the ids may collide; with one crash a handler can be cut anywhere and another start after it |
| `gateway_live` | Is every request answered, does every goroutine end? | 2 requests, 2 witnesses, one bundle id (so the second insert must fail), 1 crash; no symmetry, as it is unsound for liveness |
| `notary_all` | Do files, memory and issued signatures stay consistent? Does the verifier's verdict equal the gateway's status, for ever? Does a lost key cost only its own signatures? | 3 witnesses, 3 key pairs, 2 messages, 2 bundles, 2 deaths, 1 witness that loses files: two deaths are needed to crash in a start-up that repairs an earlier crash; three pairs serve three witnesses once, or two that make the quorum and the pair one of them generates after a crash or a loss; the second bundle links to the first, and payloads can be swapped between them |
| `iso_walk` | Do fields keep to their own bytes and to their lengths? | 11 lengths around the header and first fields, and one of 150 bytes that an F54 beyond its maximum of 120 fits into; every mixture of F2, F3, F6, F11, F12, F18, F54 and F102; lengths that are signed, zero, odd, at and above each maximum |
| `translation_all` | Does the first applicable rule decide and the log say so, what is rejected, and does the document say what was decided, of the same two institutions? | amounts at, one cent below and between all limits of the table, with every combination of what its rules look at; absent, blank, padded, escapable and illegal texts in each party field; negative and unreadable amounts; currencies known, unknown, alphabetic with and without a numeric code in the map, and blank; a schema check that may fail |
| `bench_all` | Does the load generator keep to its limit, lose nothing, report what happened, and end? | 3 requests, 2 slots, both modes and an unknown one, any answers with two latencies, an empty corpus or one of one transaction, in fixed mode a `-tps` of 10 or of 0, which is a division by zero (a negative one and one above 10⁹ end the same way): with more requests than slots `main` must wait for a slot; three results are enough for two appends to overlap a third and for the median and the upper percentiles to have different indices; no symmetry, for liveness |
| `bench_gateway` | Does what the callers were told, and the manifest, fit the ledger? | 3 requests, 2 slots, one latency; each reply may be lost, cut off or an error, and the gateway may be interrupted at any point with any of the requests under way |

Five more runs fail on purpose. Each checks what a comment or document says, and
shows the code doing something else (`findings` in `PROJECT.json` quotes both sides):

- `gateway_slowdisk`: the reply does wait for the database write.
- `keys_doc`: a private key whose public file is missing is not loaded but replaced.
- `notary_valid`: the gateway counts signatures towards the quorum without verifying
  them, so QUORUM_MET may stand on one valid signature.
- `iso_panic`: an ASCII length prefix such as `-1` passes every check and the slice
  panics instead of an error being returned.
- `translation_retail`: a domestic amount between KES 9,999 and KES 10,000 matches no
  regulatory rule, because the rule's limit is 9999 and inclusive.

Further disagreements that the modules show but no run is spent on: rows without a
quorum are written and labelled (`QuorumStatus`; docs/GO_COURSE.md:2252 says otherwise);
ASCII LLLVAR lengths are not compared with a maximum, so that F54 may be longer than its 120 (`AsciiVariable`; `ValuesFit` says 999 of it; parser.go:31);
unlisted fields are rejected, not skipped (`Unknown`; parser.go:35); PesaLink's limit of
KES 999,999 is inclusive (`RailRules`; rules.yaml:150); an alphabetic `KES` in F49 counts
as foreign currency (`NotKES`; rules.yaml:62); institutions that differ only in padding, and one beside a field of spaces,
count as two (`InputOf`; the exceptions of `AgentsAsDecided`; docs/ENRICHMENT_ENGINE.md:50); the flag also asks
that both institutions are there, where the comment on the field has the bare inequality
(`InputOf`, main.go:182; engine.go:44); and the
load generator prints "Manifest saved" also when the file could not be created (`Report`;
bench main.go:267-273).

Deadlock checking is off everywhere: a finite set of requests, a parsed message or
a bounded number of crashes runs out, and then the system is at rest. That no
handler is stuck is stated instead, as `EveryRequestAnswered`.

### Fairness

Only `gateway_live`, `gateway_slowdisk` and `bench_all` assume any. Nothing obliges a client to
call, a witness to sign or the process to crash. A handler that can take a step
takes it (weak fairness), since goroutines are scheduled. `Lock` has strong
fairness: Go's `sync.Mutex` hands itself to a waiter that has starved for 1 ms. A
signing goroutine ends because `http.Client.Timeout` ends the call, with an answer
or without; the loop ends because `time.After` does. `gateway_slowdisk` drops only the
fairness of the insert, to show that the reply depends on it.

In `bench_all` goroutines are scheduled, `-duration` runs out, and every call returns.
The last is not the load generator's own doing, since `http.Post` has no time-out: it is
what `EveryRequestAnswered` says of the gateway. Without it `main` may wait for ever.
The ticker is given no fairness.

## 4. Proofs

Every safety invariant and both refinements that a passing run checks are theorems,
for every number of requests, messages, bundle ids, witnesses, key pairs, bundles and
slots, every crash bound, every message length and bitmap, every answer and latency,
and every set of texts. They rest only on the named assumptions of the modules, which
TLC evaluates on the runs' instances:

| Module | Assumed | Because |
|---|---|---|
| `Gateway`, `Notary` | witnesses are finitely many, in `Gateway` not none; there are messages and ids | they come from the command line; without a message there is no request |
| `Gateway`, `WitnessKeys`, `Notary`, `Bench` | markers (`NoOne`, `Missing`, `Partial`, `NoFile`, `None`) are none of the values they stand beside; bounds are numbers | modelling |
| `Iso8583` | bits are 1..128, those above 64 only with bit 1 | `bitmapBits` reads a second bitmap only then |
| `Enrichment` | each rule is for a known field and has a value and a name; the currency is not empty | so it is in `rules.yaml`; `CurrencyCode` answers 404 for an empty field |
| `Translation`, `TextAssumption` | the empty text is left alone, escaping is one to one and empties none, neither brings in a character XML does not allow, the program's own texts and codes of three letters need neither, and such a code is not empty | `strings.TrimSpace`, and replacement of five characters by entities |
| `Translation`, `MessagesAssumption` | F4 is a number or unreadable; what `InputOf` makes of a message is an input; an institution that reads like an escaped text is escaped again | an escaped text holds an ampersand, which is escaped |
| `Bench` | `-tps` is an integer, latencies and corpus lengths are natural numbers, there is a slot | latencies are the difference of two `time.Now`, which is monotonic; with capacity 0 the first `sem <-` would block for ever |

`EveryFieldDecided` and `RejectedForTheMessage` are about the one table of `rules.yaml`:
`TableIsTotal` and `RejectionIsDeserved` have `Rules = RulesYaml` as hypothesis, which
`translation_all` meets.

**Gateway.** `IInv` is the inductive invariant. The chain alone is not inductive: a
row is built from `prevHash`, read many steps earlier. What carries it is
`PrevIsHead` (while a handler waits for witnesses and stores, the head is still the
one it read), and that in turn needs `MutexHeld` (only the owner of the mutex is in
the critical section, so nobody else inserts). Attestation needs `ResultsSound`
(each witness has at most one result in channel or `sigs`, over this request's own
hash), `NothingEarly` to start it, and `Distinct` signatures to turn two entries into
two witnesses. `BundleIdsUnique` and `StoredIsRow` give durability. From `IInv`
follow `ChainIntegrity`, `Attestation`, `Durability`; and `Refinement`, that every
step of the gateway is a step of `CoordinationLog` or leaves it unchanged. The one
step that extends the log is `Insert`, where `PrevIsHead` makes the new chain hash
the old log plus one link.

**Sealing.** `SealingRefinement` maps the draft to the handler that has read the head and
not yet stored (`DraftOf(mu)`), with what it has collected and what is in its channel as
the answers: then collecting is invisible, a late answer to a finished request is too,
and the insert is the one `Seal`. The proof rests on `IInv`: `MutexHeld` for there being
one draft, `NothingEarly` for its opening without answers, `ResultsSound` for each
witness being heard once, and `Distinct` for what is sealed being some of the answers in
an order. Whatever holds of `Sealing` in a composition therefore holds with the
handlers, goroutines, channels and the deadline in its place.

**Witness keys.** `KeysInv` says that while a pair is being written the public file is
not complete (`PairInHand`), that a complete public file has its private one beside
it (`FilesAgree`), and that no pair is ever at two witnesses (`KeysApart`). The order
of the two writes is what makes it inductive. `PairIntegrity` and
`IssuedVerifiability` follow.

**Signatures and audit.** The verdict on a bundle is said of key files that may have been
rewritten many times since it was sealed. What ties the two moments together is the set
`issued`: `NotaryInv` says that every entry, of the draft and of every sealed bundle, is a
signature its witness issued, over this bundle's own chain hash (`Genuine`), and `KeysInv`
keeps what was issued verifiable by a witness that lost nothing. The draft must carry
the same facts before the seal (`DraftSound`), and its id is the next position
(`HoldsTogether`), which is what makes enriched payloads differ between bundles. So each
entry of a witness that kept its files counts (`KeptCounts`), from which `VerdictIsStatus`
and `TwoKeptSuffice` follow by counting positions, and `PayloadBinding` follows from
`HoldsTogether` alone.

**Parser.** `ParserInv` adds to the properties that the loop stands inside the message and has
done exactly the fields below those it has not (`Walking`). `BcdSafe`, `ReadInOrder`,
`CutAtEnd`, `Complete` and `MerchantTypeSpared` follow. `LengthsBounded` needs a step
argument of its own: a value keeps to its room because each way of taking one compares with
it, or is cut, or reads no more than three digits (`TakeFits`).

**Rules engine.** `FirstMatchWins` compares the loop with a reference that is said of
the input alone, and is not inductive: whether a rule matches may depend on the
purpose code decided so far. `PurposeKnown` (the purpose code is set exactly if the
criteria of a purpose rule held that the loop has passed) turns that condition into one on
the input (`MatchIsApplies`). A table without empty values is needed, since the loop
takes an empty field for an undecided one. `Precedence` and `Provenance` follow from `EnrichInv`.

**Translation.** `TranslationInv` says that decisions and document are of the one message:
`tx` is its input, an answer is only there after `Enrich` has returned, and a document is
the template of that message with those decisions, which has passed the checks. From it
`AmountCarried` (quotient and remainder of one number), `PartiesSaid` and `AgentsAgree`
hold for every table. For `TableIsTotal` the table is taken apart: each section is a sequence of
rules whose values fit their field, and purpose and settlement method end with rules that
always match. `RejectionIsDeserved` puts the two together: each check of the
assembler passes for the values the table can give, unless the message is at fault.

**Load generator.** `BenchInv` says that `wg` and `sem` count the goroutines between two
points of their run (`Counters`), that the mutex is held exactly from the read of
`results` to its write, so that the copy read is still current (`AppendGuarded`), that a
result is in the slice exactly from its append on and once (`RecordedOnce`), and that
`main` is past the wait group only when every goroutine has ended (`InTurn`).
`SlotsRespected` follows since calls lie within the points `sem` counts; `NoneLost` since
all have ended; `ManifestIsTrue` since positions of the slice and started requests
correspond one to one, so that in ascending order the result at index ⌊n·q/100⌋ has enough
results on both sides. With the gateway, `SystemInv` adds that a request has one link from
its commit on (`OneLinkEach`) and that what a goroutine was told is an outcome that no step
changes (`ToldTheOutcome`); `AnswersAreTrue` and `ManifestBounds` follow.

What attempts at proof found, and was put right in the model:

- `PartiesNamed` and `AgentsAsDecided` were false of messages in which a field literally
  reads UNKNOWN, which no instance contained: nothing in the code tells that text from the
  default. Both properties now say so. What else `AgentsAsDecided` excepts is exactly what
  its proof needs: fields that are the same once trimmed, or hold only spaces.
- `PayloadIsBound` was false where a message is the base64 text of another, since
  the verifier tries both readings of a file. It now excludes exactly the two texts.
- `sort.Slice` is not stable and the model sorted in one fixed way. `Report` now takes any
  ascending order, and `ManifestSound` says of percentiles what holds for all of them.

**Only model-checked.** `EveryRequestAnswered`, `NoGoroutineLeak` and `BenchFinishes`:
liveness under fairness, for which the installed provers have no rules. The five runs
that fail on purpose are counterexamples and need no proof. What a recursively defined
function computes for every input needs induction theorems with operator parameters,
which the provers cannot instantiate; no module uses a recursive operator.

## 5. What is not modelled

- Time. The deadline may fire whenever the loop is running; 150 ms and the client
  time-out are not compared. Bundle ids and time stamps are values.
- Two gateway processes on one database. The mutex is in the process; the demo script
  and the documents start one.
- Cryptography and the bytes of hashes, XML layout, digits inside a field value.
- What xmllint finds: `validateXSD` is modelled as a check that may fail if a schema is
  named.
- Witnesses that answer for another hash than they were sent, or two with one name:
  the gateway compares neither, and the models take witnesses to be the program in
  `cmd/witness`, started with distinct names.
- Two readings of F4. The rules' amount and the document's (`AmountKES`, `FormatAmount`) are
  computed from it by the same calls, `TrimLeft` and `ParseInt`, so the model has one number
  for both, and `AmountAsDecided` is about sign, units and cents.
- In the load generator, the other flags, host data and throughput, how a CSV line is written (the
  error text is put in quotes unescaped), and a write to the CSV file that fails: the code
  ignores it, and `csv` counts the lines that were handed over.
- A body of more than 64 KiB, which the gateway cuts off (`LimitReader`): messages are
  values, and the cut one is another message.
- `handleHealth`, `handlePubkey`, `Count`, flag parsing: they change no state.
- The demonstration scripts and the sandbox: outside the system, without state of their own.
- An operator editing the database. The triggers that refuse UPDATE and DELETE have
  no caller in the code.

## 6. Plan

Built, in this order: `CoordinationLog`, `Gateway`, `GatewayProofs`, `WitnessKeys`,
`WitnessKeysProofs`, `Verifier`, `Notary`, `Iso8583`, `Iso8583Proofs`, `Enrichment`,
`EnrichmentProofs`, `RulesTable`, `Translation`, `Bench`, `BenchGateway`, `Sealing`,
`SealingProofs`, `BenchProofs`, `NotaryProofs`, `TranslationProofs`. The model is complete
but for what section 5 lists.

Next, proving more:

1. Action properties that follow from the invariants: the ledger and the log of a decided
   field only grow, and an outcome once told never changes.
2. The invariants of `Notary` with the gateway's handlers in the place of `Sealing`, from
   `SealingRefinement`.
3. `RulesAssumption` of the table of `rules.yaml` as a theorem about `RulesTable`.
