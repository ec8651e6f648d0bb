-------------------------- MODULE EnrichmentProofs --------------------------
(***************************************************************************)
(* Proofs about Enrichment: for every table of rules and every input the   *)
(* loop decides as the reference says, and its log is accurate.            *)
(***************************************************************************)
EXTENDS Enrichment, TLAPS

Entries == [value : Values, source : Sources]

\* What is put in an entry is what is found in it.
LEMMA EntryFields ==
  ASSUME NEW v, NEW s
  PROVE  /\ FieldEntry(v, s).value = v /\ FieldEntry(v, s).source = s
         /\ v \in Values /\ s \in Sources => FieldEntry(v, s) \in Entries
BY DEF FieldEntry, Entries

\* An empty entry has empty fields.
LEMMA EmptyEntry == NoEntry.value = "" /\ NoEntry.source = "" /\ NoEntry \in Entries
<1>1. "" \in Values /\ "" \in Sources
  BY DEF Values, Sources
<1> QED
  BY <1>1, EntryFields DEF NoEntry

\* The table is finite.
LEMMA RuleCount == Len(Rules) \in Nat
BY RulesAssumption

\* What the table gives of a rule.
LEMMA RuleTypes ==
  ASSUME NEW k \in 1 .. Len(Rules)
  PROVE  /\ Rules[k].field \in Fields
         /\ Rules[k].value \in Values /\ Rules[k].value # ""
         /\ Rules[k].source \in Sources /\ Rules[k].source # ""
BY RulesAssumption DEF Values, Sources

\* The currency map never answers with an empty string for a code.
LEMMA CurrencyKnown ==
  ASSUME NEW c, c # ""
  PROVE  IsoToCurrencyCode(c) # ""
<1>1. ASSUME c \in DOMAIN AlphaCode
      PROVE  AlphaCode[c] # ""
  <2>1. PICK p \in Currencies : p.numeric = c
    BY <1>1 DEF AlphaCode
  <2> DEFINE q == CHOOSE q \in Currencies : q.numeric = c
  <2>2. AlphaCode[c] = q.alpha
    BY <1>1 DEF AlphaCode
  <2>3. q \in Currencies
    BY <2>1
  <2> HIDE DEF q
  <2>4. \E n : \E a \in {"KES", "USD", "EUR", "GBP", "CHF", "JPY",
                         "AUD", "CAD", "ZAR", "UGX", "TZS", "RWF"} : q = IsoCode(n, a)
    BY <2>3 DEF Currencies
  <2>5. q.alpha \in {"KES", "USD", "EUR", "GBP", "CHF", "JPY",
                     "AUD", "CAD", "ZAR", "UGX", "TZS", "RWF"}
    <3>1. \A n, a : IsoCode(n, a).alpha = a
      BY DEF IsoCode
    <3> QED
      BY <2>4, <3>1
  <2>6. /\ "KES" # "" /\ "USD" # "" /\ "EUR" # "" /\ "GBP" # "" /\ "CHF" # ""
        /\ "JPY" # "" /\ "AUD" # "" /\ "CAD" # "" /\ "ZAR" # "" /\ "UGX" # ""
        /\ "TZS" # "" /\ "RWF" # ""
    OBVIOUS
  <2> QED
    BY <2>2, <2>5, <2>6
<1> QED
  BY <1>1 DEF IsoToCurrencyCode

\* Every default has a value and a source.
LEMMA DefaultTypes ==
  ASSUME tx \in Inputs, NEW f \in DOMAIN Defaults
  PROVE  /\ f \in Fields /\ f # "purpose_code" /\ f # "settlement_method"
         /\ Defaults[f] \in Entries
         /\ Defaults[f].value # "" /\ Defaults[f].source # ""
<1>1. IsoToCurrencyCode(tx.currency) # ""
  BY InputsAssumption, CurrencyKnown
<1>2. f \in {"regulatory_reporting_code", "instructed_amount_currency",
             "charge_bearer", "service_level"}
  BY DEF Defaults
<1>3. /\ Defaults[f].value # "" /\ Defaults[f].source # ""
      /\ Defaults[f] = FieldEntry(Defaults[f].value, Defaults[f].source)
  <2>1. /\ Defaults["regulatory_reporting_code"] = FieldEntry("100", "DEFAULT")
        /\ Defaults["instructed_amount_currency"] =
             FieldEntry(IsoToCurrencyCode(tx.currency), "DEFAULT_CURRENCY_MAP")
        /\ Defaults["charge_bearer"] = FieldEntry("SHAR", "DEFAULT")
        /\ Defaults["service_level"] = FieldEntry("NURG", "DEFAULT")
    BY DEF Defaults
  <2>2. /\ "100" # "" /\ "SHAR" # "" /\ "NURG" # ""
        /\ "DEFAULT" # "" /\ "DEFAULT_CURRENCY_MAP" # ""
    OBVIOUS
  <2>3. PICK x, y : Defaults[f] = FieldEntry(x, y) /\ x # "" /\ y # ""
    BY <1>1, <1>2, <2>1, <2>2
  <2>4. FieldEntry(x, y).value = x /\ FieldEntry(x, y).source = y
    BY EntryFields
  <2> QED
    BY <2>3, <2>4, Zenon
<1>4. Defaults[f].value \in Values /\ Defaults[f].source \in Sources
  BY DEF Values, Sources
<1>5. Defaults[f] \in Entries
  <2>1. FieldEntry(Defaults[f].value, Defaults[f].source) \in Entries
    BY <1>4, EntryFields
  <2> QED
    BY <1>3, <2>1, Zenon
<1>6. f \in Fields /\ f # "purpose_code" /\ f # "settlement_method"
  BY <1>2 DEF Fields
<1> QED
  BY <1>3, <1>5, <1>6, Zenon

\* Before the first rule nothing is decided and nothing is logged.
LEMMA InitInv == EnrichInit => EnrichInv
<1> SUFFICES ASSUME NEW in \in Inputs, Begin(in) PROVE EnrichInv
  BY DEF EnrichInit
<1>1. next = 1 /\ done = FALSE
  BY DEF Begin
<1>2. \A f \in Fields : result[f] = "" /\ log[f] = NoEntry
  BY DEF Begin
<1>3. EnrichTypeOK
  <2>1. next \in 1 .. Len(Rules) + 1
    BY <1>1, RuleCount
  <2>2. "" \in Values
    BY DEF Values
  <2>3. result \in [Fields -> Values]
    BY <2>2 DEF Begin
  <2>4. log \in [Fields -> Entries]
    BY EmptyEntry DEF Begin
  <2> QED
    BY <2>1, <2>3, <2>4 DEF Begin, EnrichTypeOK, Entries
<1> \A k : k \notin 1 .. next - 1
  BY <1>1
<1>4. PurposeKnown
  <2>1. "purpose_code" \in Fields
    BY DEF Fields
  <2> QED
    BY <1>2, <2>1 DEF PurposeKnown, PurposeBefore
<1>5. FirstMatchWins
  BY <1>1, <1>2 DEF FirstMatchWins
<1>6. LogIsProvenance
  BY <1>2, EmptyEntry DEF LogIsProvenance
<1> QED
  BY <1>1, <1>3, <1>4, <1>5, <1>6 DEF EnrichInv

\* The reference depends on the input only, which no step changes.
LEMMA ReferenceFixed ==
  ASSUME tx' = tx
  PROVE  /\ \A k : Holds(k)' <=> Holds(k)
         /\ \A k : PurposeBefore(k)' <=> PurposeBefore(k)
         /\ \A k, f : Applies(k, f)' <=> Applies(k, f)
         /\ \A k, f : Decides(k, f)' <=> Decides(k, f)
         /\ Defaults' = Defaults /\ Values' = Values /\ Sources' = Sources
<1>1. \A k : Holds(k)' <=> Holds(k)
  BY DEF Holds
<1>2. \A k : PurposeBefore(k)' <=> PurposeBefore(k)
  BY <1>1 DEF PurposeBefore
<1>3. \A k, f : Applies(k, f)' <=> Applies(k, f)
  BY <1>1, <1>2 DEF Applies
<1>4. Defaults' = Defaults
  BY DEF Defaults
<1> QED
  BY <1>1, <1>2, <1>3, <1>4 DEF Decides, Values, Sources

\* With what is known of the purpose code, the condition that the loop looks
\* at is the one of the reference.
LEMMA MatchIsApplies ==
  ASSUME PurposeKnown
  PROVE  Matches(Rules[next].condition, tx, result["purpose_code"])
           <=> Applies(next, Rules[next].field)
BY DEF PurposeKnown, Matches, Applies, Holds

\* A turn of the loop either gives the field of its rule to it, or changes no
\* decision because the rule does not apply or the field is taken.
Takes(r) ==
  /\ result[r.field] = ""
  /\ result' = [result EXCEPT ![r.field] = r.value]
  /\ log' = [log EXCEPT ![r.field] = FieldEntry(r.value, r.source)]
  /\ r.field = "settlement_method" => local_instrument' = r.local_instrument
  /\ r.field # "settlement_method" => local_instrument' = local_instrument

LEMMA Turn ==
  ASSUME PurposeKnown, EvaluateRule
  PROVE  \/ Applies(next, Rules[next].field) /\ Takes(Rules[next])
         \/ /\ Applies(next, Rules[next].field) => result[Rules[next].field] # ""
            /\ result' = result /\ log' = log /\ local_instrument' = local_instrument
<1>1. CASE Applies(next, Rules[next].field)
  BY <1>1, MatchIsApplies DEF EvaluateRule, Outcome, Takes
<1>2. CASE ~Applies(next, Rules[next].field)
  BY <1>2, MatchIsApplies DEF EvaluateRule
<1> QED
  BY <1>1, <1>2

\* One turn of the loop keeps the invariant: it adds one rule to those that the
\* reference considers.
LEMMA EvaluateInv ==
  ASSUME EnrichInv, EvaluateRule
  PROVE  EnrichInv'
<1> DEFINE r == Rules[next]
<1>1. /\ next \in 1 .. Len(Rules) /\ next' = next + 1
      /\ next' - 1 = next /\ next' \in 1 .. Len(Rules) + 1
      /\ \A k : k \in 1 .. next' - 1 <=> k \in 1 .. next - 1 \/ k = next
  <2>1. next \in 1 .. Len(Rules) + 1
    BY DEF EnrichInv, EnrichTypeOK
  <2>2. next <= Len(Rules) /\ next' = next + 1
    BY DEF EvaluateRule
  <2> QED
    BY <2>1, <2>2, RuleCount
<1>2. tx' = tx /\ ~done /\ ~done'
  BY <1>1, RuleCount DEF EvaluateRule, EnrichInv
<1>3. /\ r.field \in Fields /\ r.value \in Values /\ r.value # ""
      /\ r.source \in Sources /\ r.source # ""
  BY <1>1, RuleTypes
<1>4. /\ result \in [Fields -> Values] /\ log \in [Fields -> Entries]
      /\ PurposeKnown /\ FirstMatchWins /\ LogIsProvenance
  BY DEF EnrichInv, EnrichTypeOK, Entries
<1>5. \/ Applies(next, r.field) /\ Takes(r)
      \/ /\ Applies(next, r.field) => result[r.field] # ""
         /\ result' = result /\ log' = log /\ local_instrument' = local_instrument
  BY <1>4, Turn
<1>6. ASSUME Takes(r), NEW f \in Fields
      PROVE  /\ f = r.field => /\ result'[f] = r.value
                               /\ log'[f].value = r.value /\ log'[f].source = r.source
             /\ f # r.field => result'[f] = result[f] /\ log'[f] = log[f]
  <2>1. /\ result' = [result EXCEPT ![r.field] = r.value]
        /\ log' = [log EXCEPT ![r.field] = FieldEntry(r.value, r.source)]
    BY <1>6 DEF Takes
  <2>2. CASE f = r.field
    <3>1. result'[f] = r.value /\ log'[f] = FieldEntry(r.value, r.source)
      BY <1>4, <2>1, <2>2
    <3>2. /\ FieldEntry(r.value, r.source).value = r.value
          /\ FieldEntry(r.value, r.source).source = r.source
      BY EntryFields
    <3> QED
      BY <2>2, <3>1, <3>2, Zenon
  <2>3. CASE f # r.field
    BY <1>4, <2>1, <2>3
  <2> QED
    BY <2>2, <2>3
<1> HIDE DEF r
<1>7. EnrichTypeOK'
  <2>1. Values' = Values /\ Sources' = Sources /\ Entries' = Entries
    BY <1>2, ReferenceFixed DEF Entries
  <2>2. FieldEntry(r.value, r.source) \in Entries
    BY <1>3, EntryFields
  <2>3. result' \in [Fields -> Values] /\ log' \in [Fields -> Entries]
    BY <1>3, <1>4, <1>5, <2>2 DEF Takes
  <2>4. /\ tx' \in Inputs /\ done' \in BOOLEAN
        /\ local_instrument \in {""} \cup {Rules[k].local_instrument : k \in DOMAIN Rules}
    BY <1>2 DEF EnrichInv, EnrichTypeOK, EvaluateRule
  <2>5. next \in DOMAIN Rules
    BY <1>1, RulesAssumption
  <2>6. local_instrument' \in {""} \cup {Rules[k].local_instrument : k \in DOMAIN Rules}
    BY <1>5, <2>4, <2>5 DEF Takes, r
  <2> QED
    BY <1>1, <2>1, <2>3, <2>4, <2>6 DEF EnrichTypeOK, Entries
<1>8. PurposeKnown'
  <2>1. PurposeBefore(next)' <=>
          PurposeBefore(next) \/ (r.field = "purpose_code" /\ Holds(next))
    <3>1. \A k : Holds(k)' <=> Holds(k)
      BY <1>2, ReferenceFixed
    <3> QED
      BY <1>1, <3>1 DEF PurposeBefore, r
  <2>2. "purpose_code" \in Fields
    BY DEF Fields
  <2>3. CASE r.field = "purpose_code" /\ Holds(next)
    <3>1. result["purpose_code"] = "" => Applies(next, r.field)
      BY <1>4, <2>3 DEF PurposeKnown, Applies, r
    <3>2. result'["purpose_code"] # ""
      BY <1>3, <1>5, <1>6, <2>2, <2>3, <3>1
    <3> QED
      BY <2>1, <2>3, <3>2 DEF PurposeKnown
  <2>4. CASE ~(r.field = "purpose_code" /\ Holds(next))
    <3>1. Applies(next, r.field) => r.field # "purpose_code"
      BY <2>4 DEF Applies
    <3>2. result'["purpose_code"] = result["purpose_code"]
      BY <1>5, <1>6, <2>2, <3>1
    <3> QED
      BY <1>4, <2>1, <2>4, <3>2 DEF PurposeKnown
  <2> QED
    BY <2>3, <2>4
<1>9. FirstMatchWins'
  <2>1. /\ \A k, f : Applies(k, f)' <=> Applies(k, f)
        /\ \A k, f : Decides(k, f)' <=> Decides(k, f)
    BY <1>2, ReferenceFixed
  <2>2. SUFFICES ASSUME NEW f \in Fields
        PROVE  \/ \E k \in 1 .. next' - 1 :
                    /\ Decides(k, f)
                    /\ result'[f] = Rules[k].value /\ log'[f].source = Rules[k].source
                    /\ f = "settlement_method" =>
                         local_instrument' = Rules[k].local_instrument
               \/ /\ \A k \in 1 .. next' - 1 : ~Applies(k, f)
                  /\ result'[f] = ""
    BY <1>2, <2>1 DEF FirstMatchWins
  <2>3. \/ \E k \in 1 .. next - 1 :
              /\ Decides(k, f)
              /\ result[f] = Rules[k].value /\ log[f].source = Rules[k].source
              /\ f = "settlement_method" => local_instrument = Rules[k].local_instrument
        \/ /\ \A k \in 1 .. next - 1 : ~Applies(k, f)
           /\ result[f] = ""
    BY <1>2, <1>4 DEF FirstMatchWins
  <2>4. f # r.field => ~Applies(next, f)
    BY DEF Applies, r
  <2>5. \A k \in 1 .. next - 1 : Rules[k].value # ""
    <3>1. \A k \in 1 .. next - 1 : k \in 1 .. Len(Rules)
      BY <1>1, RuleCount
    <3> QED
      BY <3>1, RuleTypes
  <2>6. CASE Applies(next, r.field) /\ Takes(r)
    <3>1. CASE f = r.field
      <4>1. \A k \in 1 .. next - 1 : ~Applies(k, f)
        BY <2>3, <2>5, <2>6, <3>1 DEF Takes
      <4>2. Decides(next, f)
        BY <2>6, <3>1, <4>1 DEF Decides
      <4>3. result'[f] = r.value /\ log'[f].source = r.source
        BY <1>6, <2>6, <3>1
      <4>4. f = "settlement_method" => local_instrument' = r.local_instrument
        BY <2>6, <3>1 DEF Takes
      <4> QED
        BY <1>1, <4>2, <4>3, <4>4 DEF r
    <3>2. CASE f # r.field
      <4>1. result'[f] = result[f] /\ log'[f] = log[f]
        BY <1>6, <2>6, <3>2
      <4>2. f = "settlement_method" => local_instrument' = local_instrument
        BY <2>6, <3>2 DEF Takes
      <4> QED
        BY <1>1, <2>3, <2>4, <3>2, <4>1, <4>2
    <3> QED
      BY <3>1, <3>2
  <2>7. CASE /\ Applies(next, r.field) => result[r.field] # ""
             /\ result' = result /\ log' = log /\ local_instrument' = local_instrument
    <3>1. result[f] = "" => ~Applies(next, f)
      BY <2>4, <2>7
    <3> QED
      BY <1>1, <2>3, <2>7, <3>1
  <2> QED
    BY <1>5, <2>6, <2>7
<1>10. LogIsProvenance'
  <2>1. SUFFICES ASSUME NEW f \in Fields
        PROVE  /\ log'[f].value = result'[f]
               /\ log'[f].source = "" <=> result'[f] = ""
    BY DEF LogIsProvenance
  <2>2. log[f].value = result[f] /\ (log[f].source = "" <=> result[f] = "")
    BY <1>4 DEF LogIsProvenance
  <2>3. CASE Takes(r) /\ f = r.field
    BY <1>3, <1>6, <2>3
  <2>4. CASE Takes(r) /\ f # r.field
    BY <1>6, <2>2, <2>4
  <2>5. CASE result' = result /\ log' = log
    BY <2>2, <2>5
  <2> QED
    BY <1>5, <2>3, <2>4, <2>5
<1> QED
  BY <1>2, <1>7, <1>8, <1>9, <1>10 DEF EnrichInv

\* The defaults fill only what no rule has decided.
LEMMA DefaultsInv ==
  ASSUME EnrichInv, ApplyDefaults
  PROVE  EnrichInv'
<1>1. /\ tx' = tx /\ next' = next /\ local_instrument' = local_instrument
      /\ next = Len(Rules) + 1 /\ ~done /\ done' = TRUE
  BY DEF ApplyDefaults
<1>2. /\ \A k, f : Applies(k, f)' <=> Applies(k, f)
      /\ \A k, f : Decides(k, f)' <=> Decides(k, f)
      /\ PurposeBefore(next)' <=> PurposeBefore(next)
      /\ Defaults' = Defaults /\ Values' = Values /\ Sources' = Sources
  BY <1>1, ReferenceFixed DEF PurposeBefore
<1>3. /\ tx \in Inputs /\ result \in [Fields -> Values] /\ log \in [Fields -> Entries]
      /\ PurposeKnown /\ FirstMatchWins /\ LogIsProvenance
  BY DEF EnrichInv, EnrichTypeOK, Entries
<1>4. ASSUME NEW f \in Fields
      PROVE  /\ Defaulted(f) => result'[f] = Defaults[f].value /\ log'[f] = Defaults[f]
             /\ ~Defaulted(f) => result'[f] = result[f] /\ log'[f] = log[f]
  BY DEF ApplyDefaults
<1>5. ASSUME NEW f \in Fields, Defaulted(f)
      PROVE  /\ result[f] = "" /\ f # "purpose_code" /\ f # "settlement_method"
             /\ Defaults[f] \in Entries
             /\ Defaults[f].value # "" /\ Defaults[f].source # ""
  BY <1>3, <1>5, DefaultTypes DEF Defaulted
<1>6. EnrichTypeOK'
  <2>1. \A f \in Fields : Defaulted(f) => Defaults[f].value \in Values
    BY DEF Defaulted, Values
  <2>2. result' \in [Fields -> Values]
    BY <1>3, <2>1 DEF ApplyDefaults
  <2>3. log' \in [Fields -> Entries]
    BY <1>3, <1>5 DEF ApplyDefaults
  <2> QED
    BY <1>1, <1>2, <2>2, <2>3 DEF EnrichInv, EnrichTypeOK, Entries
<1>7. PurposeKnown'
  <2>1. "purpose_code" \in Fields
    BY DEF Fields
  <2>2. result'["purpose_code"] = result["purpose_code"]
    BY <1>4, <1>5, <2>1
  <2> QED
    BY <1>1, <1>2, <1>3, <2>2 DEF PurposeKnown, PurposeBefore
<1>8. FirstMatchWins'
  <2>1. ASSUME NEW f \in Fields
        PROVE  \/ \E k \in 1 .. next - 1 :
                    /\ Decides(k, f)
                    /\ result'[f] = Rules[k].value /\ log'[f].source = Rules[k].source
                    /\ f = "settlement_method" =>
                         local_instrument = Rules[k].local_instrument
               \/ /\ \A k \in 1 .. next - 1 : ~Applies(k, f)
                  /\ result'[f] = IF f \in DOMAIN Defaults THEN Defaults[f].value ELSE ""
    <3>1. \/ \E k \in 1 .. next - 1 :
                /\ Decides(k, f)
                /\ result[f] = Rules[k].value /\ log[f].source = Rules[k].source
                /\ f = "settlement_method" => local_instrument = Rules[k].local_instrument
          \/ /\ \A k \in 1 .. next - 1 : ~Applies(k, f)
             /\ result[f] = ""
      BY <1>1, <1>3 DEF FirstMatchWins
    <3>2. \A k \in 1 .. next - 1 : Rules[k].value # ""
      <4>1. \A k \in 1 .. next - 1 : k \in 1 .. Len(Rules)
        BY <1>1, RuleCount
      <4> QED
        BY <4>1, RuleTypes
    <3>3. CASE Defaulted(f)
      BY <1>4, <1>5, <3>1, <3>2, <3>3 DEF Defaulted
    <3>4. CASE ~Defaulted(f)
      BY <1>4, <3>1, <3>4 DEF Defaulted
    <3> QED
      BY <3>3, <3>4
  <2> QED
    BY <1>1, <1>2, <2>1 DEF FirstMatchWins
<1>9. LogIsProvenance'
  BY <1>3, <1>4, <1>5 DEF LogIsProvenance
<1> QED
  BY <1>1, <1>6, <1>7, <1>8, <1>9 DEF EnrichInv

\* The invariant speaks of the engine's variables only.
LEMMA StutterInv ==
  ASSUME EnrichInv, UNCHANGED enrichVars
  PROVE  EnrichInv'
<1>1. /\ tx' = tx /\ next' = next /\ done' = done /\ result' = result
      /\ local_instrument' = local_instrument /\ log' = log
  BY DEF enrichVars
<1>2. /\ \A k : PurposeBefore(k)' <=> PurposeBefore(k)
      /\ \A k, f : Applies(k, f)' <=> Applies(k, f)
      /\ \A k, f : Decides(k, f)' <=> Decides(k, f)
      /\ Defaults' = Defaults /\ Values' = Values /\ Sources' = Sources
  BY <1>1, ReferenceFixed
<1>3. EnrichTypeOK'
  BY <1>1, <1>2 DEF EnrichInv, EnrichTypeOK
<1>4. PurposeKnown'
  BY <1>1, <1>2 DEF EnrichInv, PurposeKnown, PurposeBefore, Holds
<1>5. FirstMatchWins'
  BY <1>1, <1>2 DEF EnrichInv, FirstMatchWins
<1>6. LogIsProvenance'
  BY <1>1 DEF EnrichInv, LogIsProvenance
<1> QED
  BY <1>1, <1>3, <1>4, <1>5, <1>6 DEF EnrichInv

\* Every decision and every log entry is the reference's, at every point of the
\* loop and after it (engine.go:162-242).
THEOREM EnrichmentInvariant == EnrichSpec => []EnrichInv
<1>1. EnrichInv /\ [EnrichNext]_enrichVars => EnrichInv'
  BY EvaluateInv, DefaultsInv, StutterInv DEF EnrichNext
<1> QED
  BY InitInv, <1>1, PTL DEF EnrichSpec

\* The first rule that applies decides, for every table (rules.yaml:3).
THEOREM Precedence == EnrichSpec => []FirstMatchWins
<1>1. EnrichInv => FirstMatchWins
  BY DEF EnrichInv
<1> QED
  BY EnrichmentInvariant, <1>1, PTL

\* The log holds who decided what is in the result, and nothing else
\* (engine.go:4-6).
THEOREM Provenance == EnrichSpec => []LogIsProvenance
<1>1. EnrichInv => LogIsProvenance
  BY DEF EnrichInv
<1> QED
  BY EnrichmentInvariant, <1>1, PTL

\* The loop never leaves the table, and nothing is decided that is neither a
\* rule's value nor a default (engine.go:162-242).
THEOREM EnrichTypes == EnrichSpec => []EnrichTypeOK
<1>1. EnrichInv => EnrichTypeOK
  BY DEF EnrichInv
<1> QED
  BY EnrichmentInvariant, <1>1, PTL
=============================================================================
