----------------------------- MODULE RulesTable -----------------------------
(***************************************************************************)
(* The rules of internal/enrichment/rules.yaml, in the order of the file.  *)
(* Limits are in shillings, as there.                                      *)
(***************************************************************************)
EXTENDS Integers, Sequences

\* A condition without criteria; each rule adds its own.
Any == [amount_min_kes |-> 0, amount_max_kes |-> 0,
        currency_iso4217 |-> "", currency_iso4217_not |-> "",
        processing_code |-> "", processing_code_prefix |-> "",
        merchant_type_in |-> {}, cross_institutional |-> FALSE,
        acquiring_institution_prefix |-> "",
        purpose_code_unset |-> FALSE, always |-> FALSE]

Rule(id, condition, field, value) ==
  [id |-> id, condition |-> condition, field |-> field, value |-> value,
   source |-> id, local_instrument |-> ""]

Rail(id, condition, value, instrument) ==
  [Rule(id, condition, "settlement_method", value) EXCEPT !.local_instrument = instrument]

Always     == [Any EXCEPT !.always = TRUE]
Cross      == [Any EXCEPT !.cross_institutional = TRUE]
InKES      == [Any EXCEPT !.currency_iso4217 = "404"]
NotKES     == [Any EXCEPT !.currency_iso4217_not = "404"]
Government == [Any EXCEPT !.merchant_type_in = {"9311"}]
Utility    == [Any EXCEPT !.merchant_type_in = {"4900", "4911", "4931"}]
Loan       == [Any EXCEPT !.processing_code_prefix = "38"]

RegulatoryRules ==
  LET Code(id, condition, value) ==
        Rule(id, condition, "regulatory_reporting_code", value)
  IN << Code("CBK-REG-301", [InKES EXCEPT !.amount_min_kes = 100000,
                                          !.cross_institutional = TRUE], "301"),
        Code("CBK-REG-201", [Any EXCEPT !.amount_min_kes = 10000,
                                        !.amount_max_kes = 99999,
                                        !.processing_code_prefix = "40"], "201"),
        Code("CBK-REG-202", Government, "202"),
        Code("CBK-REG-203", Utility, "203"),
        Code("CBK-REG-204", Loan, "204"),
        Code("CBK-REG-205", NotKES, "205"),
        Code("CBK-REG-100", [InKES EXCEPT !.amount_max_kes = 9999], "100") >>

PurposeRules ==
  LET Purpose(id, condition, value) == Rule(id, condition, "purpose_code", value)
  IN << Purpose("PURP-SALA", [Any EXCEPT !.processing_code = "400000"], "SALA"),
        Purpose("PURP-TAXS", Government, "TAXS"),
        Purpose("PURP-LOAN", Loan, "LOAN"),
        Purpose("PURP-UTIL", Utility, "BEXP"),
        Purpose("PURP-SUPP", [Any EXCEPT !.amount_min_kes = 100000,
                                         !.processing_code_prefix = "40"], "SUPP"),
        Purpose("PURP-RIMV", NotKES, "RIMV") >>

\* Mutant: no default rail.
RailsWithoutDefault ==
  << Rail("RAIL-KEPSS", [Any EXCEPT !.amount_min_kes = 1000000], "CLRG", "KEPSS"),
     Rail("RAIL-PESALINK", [Cross EXCEPT !.amount_min_kes = 10,
                                         !.amount_max_kes = 999999], "INDA", "PESALINK"),
     Rail("RAIL-MPESA", [Any EXCEPT !.acquiring_institution_prefix = "63902"],
          "INDA", "MPESA") >>

RailRules ==
  << Rail("RAIL-KEPSS", [Any EXCEPT !.amount_min_kes = 1000000], "CLRG", "KEPSS"),
     Rail("RAIL-PESALINK", [Cross EXCEPT !.amount_min_kes = 10,
                                         !.amount_max_kes = 999999], "INDA", "PESALINK"),
     Rail("RAIL-MPESA", [Any EXCEPT !.acquiring_institution_prefix = "63902"],
          "INDA", "MPESA"),
     Rail("RAIL-DEFAULT", Always, "INDA", "DOMESTIC") >>

CurrencyRules ==
  LET Currency(id, code, value) ==
        Rule(id, [Any EXCEPT !.currency_iso4217 = code],
             "instructed_amount_currency", value)
  IN << Currency("CURR-KES", "404", "KES"), Currency("CURR-USD", "840", "USD"),
        Currency("CURR-EUR", "978", "EUR"), Currency("CURR-GBP", "826", "GBP") >>

ChargeRules ==
  << Rule("CHRG-SHA", Cross, "charge_bearer", "SHAR"),
     Rule("CHRG-OUR", NotKES, "charge_bearer", "DEBT"),
     Rule("CHRG-DEFAULT", Always, "charge_bearer", "SHAR") >>

ServiceRules ==
  << Rule("SVC-URGP", [Any EXCEPT !.amount_min_kes = 5000000], "service_level", "URGP"),
     Rule("SVC-NURG", Always, "service_level", "NURG") >>

\* What no rule can tell is left to a later classifier.
DeferRule ==
  [Rule("AI-DEFER-PURPOSE", [Any EXCEPT !.purpose_code_unset = TRUE],
        "purpose_code", "OTHR")
     EXCEPT !.source = "DEFERRED_AI_CLASSIFIER_V0_2"]

RulesYaml == RegulatoryRules \o PurposeRules \o RailRules \o CurrencyRules
               \o ChargeRules \o ServiceRules \o <<DeferRule>>
=============================================================================
