----------------------------- MODULE Enrichment -----------------------------
(***************************************************************************)
(* The rules engine (internal/enrichment/engine.go): Enrich walks once     *)
(* over the rules, lets the first rule that matches decide a field, logs   *)
(* who decided it, and fills in defaults.  The rules are a parameter; the  *)
(* table of rules.yaml is the module RulesTable.                           *)
(*                                                                         *)
(* Amounts are in cents.  An empty string is an unset field, as in the     *)
(* code.  Strings are compared, never taken apart: StartsWith says which   *)
(* of them have a prefix.                                                  *)
(***************************************************************************)
EXTENDS Integers, Sequences

CONSTANTS Rules,      \* loadedRules, in order
          Inputs,     \* values of enrichment.Input
          StartsWith  \* StartsWith[p]: the strings that have the prefix p

Fields == {"regulatory_reporting_code", "purpose_code", "settlement_method",
           "instructed_amount_currency", "charge_bearer", "service_level"}

ASSUME RulesAssumption ==
  /\ Len(Rules) \in Nat /\ DOMAIN Rules = 1 .. Len(Rules)
  /\ \A k \in DOMAIN Rules :
       /\ Rules[k].field \in Fields
       /\ Rules[k].value # ""
       /\ Rules[k].source # ""

\* CurrencyCode never returns "".
ASSUME InputsAssumption == \A in \in Inputs : in.currency # ""

VARIABLES tx,       \* the input
          next,     \* the rule the loop has come to
          done,     \* Enrich has returned
          result,   \* the fields decided so far
          local_instrument,
          log       \* result.Log

\* An entry of the log; description and confidence are left out.
FieldEntry(value, source) == [value |-> value, source |-> source]

NoEntry == FieldEntry("", "")

enrichVars == <<tx, next, done, result, local_instrument, log>>

----------------------------------------------------------------------------
\* isoToCurrencyCode: what is not listed stays as it is.
IsoCode(n, a) == [numeric |-> n, alpha |-> a]

Currencies ==
  {IsoCode("404", "KES"), IsoCode("840", "USD"), IsoCode("978", "EUR"), IsoCode("826", "GBP"),
   IsoCode("756", "CHF"), IsoCode("392", "JPY"), IsoCode("036", "AUD"), IsoCode("124", "CAD"),
   IsoCode("710", "ZAR"), IsoCode("800", "UGX"), IsoCode("834", "TZS"), IsoCode("646", "RWF")}

AlphaCode == [c \in {p.numeric : p \in Currencies} |->
                (CHOOSE p \in Currencies : p.numeric = c).alpha]

IsoToCurrencyCode(c) == IF c \in DOMAIN AlphaCode THEN AlphaCode[c] ELSE c

\* A criterion that is 0, "" , {} or FALSE is not there.
Criteria(c, in) ==
  /\ c.amount_min_kes > 0 => in.amount >= c.amount_min_kes * 100
  /\ c.amount_max_kes > 0 => in.amount <= c.amount_max_kes * 100
  /\ c.currency_iso4217 # "" => in.currency = c.currency_iso4217
  /\ c.currency_iso4217_not # "" => in.currency # c.currency_iso4217_not
  /\ c.processing_code # "" => in.processing_code = c.processing_code
  /\ c.processing_code_prefix # "" =>
       in.processing_code \in StartsWith[c.processing_code_prefix]
  /\ c.merchant_type_in # {} => in.merchant_type \in c.merchant_type_in
  /\ c.cross_institutional => in.cross_institutional
  /\ c.acquiring_institution_prefix # "" =>
       in.acquiring_institution \in StartsWith[c.acquiring_institution_prefix]

\* Mutant: purpose_code_unset means the contrary.
MatchesIfSet(c, in, purpose) ==
  c.always \/ (Criteria(c, in) /\ (c.purpose_code_unset => purpose # ""))

\* purpose is the purpose code that has been decided so far.
Matches(c, in, purpose) ==
  c.always \/ (Criteria(c, in) /\ (c.purpose_code_unset => purpose = ""))

----------------------------------------------------------------------------
\* Nothing is decided yet for the input in.
Begin(in) ==
  /\ tx = in
  /\ next = 1
  /\ done = FALSE
  /\ result = [f \in Fields |-> ""]
  /\ local_instrument = ""
  /\ log = [f \in Fields |-> NoEntry]

EnrichInit == \E in \in Inputs : Begin(in)

\* Mutants: the last rule wins; a later rule still rewrites the log.
LastRuleWins(r) ==
  /\ result' = [result EXCEPT ![r.field] = r.value]
  /\ log' = [log EXCEPT ![r.field] = FieldEntry(r.value, r.source)]
  /\ local_instrument' = IF r.field = "settlement_method"
                           THEN r.local_instrument ELSE local_instrument

LogsEveryMatch(r) ==
  /\ result' = [result EXCEPT ![r.field] = IF @ = "" THEN r.value ELSE @]
  /\ log' = [log EXCEPT ![r.field] = FieldEntry(r.value, r.source)]
  /\ local_instrument' = IF r.field = "settlement_method" /\ result[r.field] = ""
                           THEN r.local_instrument ELSE local_instrument

\* The outcome of a rule that matches, for a field that is still unset.
Outcome(r) ==
  IF result[r.field] = ""
    THEN /\ result' = [result EXCEPT ![r.field] = r.value]
         /\ log' = [log EXCEPT ![r.field] = FieldEntry(r.value, r.source)]
         /\ local_instrument' = IF r.field = "settlement_method"
                                  THEN r.local_instrument ELSE local_instrument
    ELSE UNCHANGED <<result, log, local_instrument>>

\* Mutant: the loop passes over every other rule.
EveryOtherRule ==
  /\ next <= Len(Rules)
  /\ next' = next + 2
  /\ IF Matches(Rules[next].condition, tx, result["purpose_code"])
       THEN Outcome(Rules[next])
       ELSE UNCHANGED <<result, log, local_instrument>>
  /\ UNCHANGED <<tx, done>>

EvaluateRule ==
  /\ next <= Len(Rules)
  /\ next' = next + 1
  /\ IF Matches(Rules[next].condition, tx, result["purpose_code"])
       THEN Outcome(Rules[next])
       ELSE UNCHANGED <<result, log, local_instrument>>
  /\ UNCHANGED <<tx, done>>

\* Purpose code and settlement method have no default in the code.
Defaults ==
  [regulatory_reporting_code  |-> FieldEntry("100", "DEFAULT"),
   instructed_amount_currency |-> FieldEntry(IsoToCurrencyCode(tx.currency),
                                             "DEFAULT_CURRENCY_MAP"),
   charge_bearer              |-> FieldEntry("SHAR", "DEFAULT"),
   service_level              |-> FieldEntry("NURG", "DEFAULT")]

Defaulted(f) == f \in DOMAIN Defaults /\ result[f] = ""

ApplyDefaults ==
  /\ next = Len(Rules) + 1
  /\ ~done
  /\ done' = TRUE
  /\ result' = [f \in Fields |-> IF Defaulted(f) THEN Defaults[f].value ELSE result[f]]
  /\ log' = [f \in Fields |-> IF Defaulted(f) THEN Defaults[f] ELSE log[f]]
  /\ UNCHANGED <<tx, next, local_instrument>>

EnrichNext == EvaluateRule \/ ApplyDefaults

EnrichSpec == EnrichInit /\ [][EnrichNext]_enrichVars

----------------------------------------------------------------------------
(* Properties. *)

Values  == {""} \cup {Rules[k].value : k \in DOMAIN Rules}
                \cup {Defaults[f].value : f \in DOMAIN Defaults}
Sources == {""} \cup {Rules[k].source : k \in DOMAIN Rules}
                \cup {Defaults[f].source : f \in DOMAIN Defaults}

\* The loop stays inside the table, and what is decided comes from a rule or a
\* default.
EnrichTypeOK ==
  /\ tx \in Inputs
  /\ next \in 1 .. Len(Rules) + 1
  /\ done \in BOOLEAN
  /\ result \in [Fields -> Values]
  /\ local_instrument \in {""} \cup {Rules[k].local_instrument : k \in DOMAIN Rules}
  /\ log \in [Fields -> [value : Values, source : Sources]]

(***************************************************************************)
(* The reference: which rule decides a field, said without the loop.  A    *)
(* rule that asks for an unset purpose code fails as soon as the criteria  *)
(* of an earlier purpose rule hold.                                        *)
(***************************************************************************)
Holds(k) == Rules[k].condition.always \/ Criteria(Rules[k].condition, tx)

PurposeBefore(k) == \E j \in 1 .. k - 1 : Rules[j].field = "purpose_code" /\ Holds(j)

Applies(k, f) ==
  /\ Rules[k].field = f
  /\ Holds(k)
  /\ Rules[k].condition.always \/ (Rules[k].condition.purpose_code_unset => ~PurposeBefore(k))

Decides(k, f) == Applies(k, f) /\ \A j \in 1 .. k - 1 : ~Applies(j, f)

\* The loop gives each field to the first of its rules that applies, as
\* rules.yaml:3 promises, although a rule may depend on what earlier rules
\* have decided; a field that no rule decides is unset or has its default
\* (engine.go:162-242).
FirstMatchWins ==
  \A f \in Fields :
    \/ \E k \in 1 .. next - 1 :
         /\ Decides(k, f)
         /\ result[f] = Rules[k].value /\ log[f].source = Rules[k].source
         /\ f = "settlement_method" => local_instrument = Rules[k].local_instrument
    \/ /\ \A k \in 1 .. next - 1 : ~Applies(k, f)
       /\ result[f] = IF done /\ f \in DOMAIN Defaults THEN Defaults[f].value ELSE ""

\* The log says of every field what the result says, and who decided it: there
\* is an entry exactly for the fields that are set (engine.go:4-6, 179-239).
LogIsProvenance ==
  \A f \in Fields : /\ log[f].value = result[f]
                    /\ log[f].source = "" <=> result[f] = ""

\* Enrich returns no undecided field: the two fields without a default are
\* always decided by a rule of the table (engine.go:223-239,
\* rules.yaml:171-179, 270-278).
EveryFieldDecided == done => \A f \in Fields : result[f] # ""

(***************************************************************************)
(* Why: while the loop runs, a purpose code is set exactly if the criteria *)
(* of a purpose rule held that it has passed, so the one condition that    *)
(* looks at earlier decisions can be told from the input (engine.go:152).  *)
(***************************************************************************)
PurposeKnown == result["purpose_code"] # "" <=> PurposeBefore(next)

\* The promises above in one invariant that every step of the loop preserves
\* (engine.go:162-242).
EnrichInv == /\ EnrichTypeOK
             /\ done => next = Len(Rules) + 1
             /\ PurposeKnown
             /\ FirstMatchWins
             /\ LogIsProvenance
=============================================================================
