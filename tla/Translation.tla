---------------------------- MODULE Translation ----------------------------
(***************************************************************************)
(* From a parsed message to the enriched XML: the input that the gateway   *)
(* makes of the message, the rules engine (Enrichment) and the assembler   *)
(* (internal/iso20022/assembler.go) with its validation.                   *)
(*                                                                         *)
(* A field's text is a string of a small set: Trim maps those with         *)
(* surrounding spaces to what is left of them, Entity those with           *)
(* characters that XML has entities for to their escaped form, which holds *)
(* such a character itself, and Illegal are those with characters that XML *)
(* does not allow.  F4 is a number, or not: NotANumber.                    *)
(***************************************************************************)
EXTENDS Enrichment, FiniteSets

CONSTANTS ParsedMessages, \* msg.Fields of messages that parse; "" is absent
          Trim, Entity, Illegal,
          OtherCodes,     \* codes of three letters that are in no currency map
          NotANumber,     \* F4 is absent or does not parse, as in BCD 0x0a
          XsdPath         \* CONNEX_XSD_PATH is set

VARIABLES msg,   \* the parsed message
          outcome, \* "none", "xml", "rejected" or, by xmllint, "nonconforming"
          xml    \* the values in the document, once it is assembled

translationVars == <<enrichVars, msg, outcome, xml>>

----------------------------------------------------------------------------
(* The enrichment input (cmd/gateway/main.go, parser.go). *)

AmountKES(m)    == IF m.F4 = NotANumber THEN 0 ELSE m.F4
CurrencyCode(m) == IF m.F49 = "" THEN "404" ELSE m.F49

\* Mutant: a message with one institution only is cross-institutional.
InputOfAny(m) ==
  [amount                 |-> AmountKES(m),
   currency               |-> CurrencyCode(m),
   processing_code        |-> m.F3,
   merchant_type          |-> m.F18,
   acquiring_institution  |-> m.F32,
   cross_institutional    |-> m.F32 # m.F33]

InputOf(m) ==
  [amount                 |-> AmountKES(m),
   currency               |-> CurrencyCode(m),
   processing_code        |-> m.F3,
   merchant_type          |-> m.F18,
   acquiring_institution  |-> m.F32,
   cross_institutional    |-> m.F32 # "" /\ m.F33 # "" /\ m.F32 # m.F33]

----------------------------------------------------------------------------
(* The assembler. *)

TrimSpace(s) == IF s \in DOMAIN Trim THEN Trim[s] ELSE s

SanitizeXML(s) == LET t == TrimSpace(s) IN IF t \in DOMAIN Entity THEN Entity[t] ELSE t

Or(s, default) == IF s = "" THEN default ELSE s

\* Mutant: the absolute value is written.
FormatMagnitude(f4) ==
  LET n == IF f4 = NotANumber THEN 0 ELSE f4
      a == IF n < 0 THEN -n ELSE n
  IN [minus |-> FALSE, whole |-> a \div 100, cents |-> a % 100]

\* FormatAmount: quotient and remainder are truncated, so both have the sign.
FormatAmount(f4) ==
  LET n == IF f4 = NotANumber THEN 0 ELSE f4
      a == IF n < 0 THEN -n ELSE n
  IN [minus |-> n < 0, whole |-> a \div 100, cents |-> a % 100]

\* Mutant: the texts are taken as they are.
RawTemplate(m) ==
  [EndToEndID            |-> Or(m.F37, "bundle"),
   TransactionID         |-> Or(m.F11, "bundle"),
   AcquiringInstitution  |-> Or(m.F32, "UNKNOWN"),
   ForwardingInstitution |-> Or(m.F33, "UNKNOWN"),
   DebtorAccount         |-> Or(m.F102, Or(m.F2, "UNKNOWN")),
   CreditorAccount       |-> Or(m.F103, "DEFERRED"),
   Currency              |-> result["instructed_amount_currency"]]

\* Mutant: the defaults are applied before the texts are trimmed.
DefaultsFirst(m) ==
  [EndToEndID            |-> SanitizeXML(Or(m.F37, "bundle")),
   TransactionID         |-> SanitizeXML(Or(m.F11, "bundle")),
   AcquiringInstitution  |-> SanitizeXML(Or(m.F32, "UNKNOWN")),
   ForwardingInstitution |-> SanitizeXML(Or(m.F33, "UNKNOWN")),
   DebtorAccount         |-> SanitizeXML(Or(m.F102, Or(m.F2, "UNKNOWN"))),
   CreditorAccount       |-> SanitizeXML(Or(m.F103, "DEFERRED")),
   Currency              |-> SanitizeXML(result["instructed_amount_currency"])]

\* The texts of TemplateData that come from the message, with their defaults.
Template(m) ==
  [EndToEndID            |-> Or(SanitizeXML(m.F37), "bundle"),
   TransactionID         |-> Or(SanitizeXML(m.F11), "bundle"),
   AcquiringInstitution  |-> Or(SanitizeXML(m.F32), "UNKNOWN"),
   ForwardingInstitution |-> Or(SanitizeXML(m.F33), "UNKNOWN"),
   DebtorAccount         |-> Or(SanitizeXML(m.F102), Or(SanitizeXML(m.F2), "UNKNOWN")),
   CreditorAccount       |-> Or(SanitizeXML(m.F103), "DEFERRED"),
   Currency              |-> SanitizeXML(result["instructed_amount_currency"])]

Escaped == {Entity[t] : t \in DOMAIN Entity}

WellFormed(td) ==
  \A k \in DOMAIN td : td[k] \notin Illegal \cup (DOMAIN Entity \ Escaped)

\* Three letters A to Z: the codes of the map, and those F49 may hold as they are.
Letters == {AlphaCode[c] : c \in DOMAIN AlphaCode} \cup OtherCodes

\* Texts that the assembler and the currency map write of their own, and codes.
OwnTexts == {"bundle", "UNKNOWN", "DEFERRED"} \cup Letters

\* The empty text is left alone; escaping is one to one and empties none; neither
\* brings in a character; the program's own texts and codes need neither.
ASSUME TextAssumption ==
  /\ "" \notin OtherCodes \cup DOMAIN Trim \cup DOMAIN Entity \cup Escaped
  /\ \A s, t \in DOMAIN Entity : Entity[s] = Entity[t] => s = t
  /\ \A s \in DOMAIN Trim : Trim[s] \in Illegal => s \in Illegal
  /\ \A t \in DOMAIN Entity : Entity[t] \in Illegal => t \in Illegal
  /\ OwnTexts \cap (Illegal \cup DOMAIN Trim \cup DOMAIN Entity \cup Escaped) = {}

\* A field that holds an escaped text is escaped like any other.
ASSUME MessagesAssumption ==
  \A m \in ParsedMessages :
    /\ m.F4 = NotANumber \/ m.F4 \in Int
    /\ InputOf(m) \in Inputs
    /\ \A s \in {m.F32, m.F33} : TrimSpace(s) \notin Escaped \ DOMAIN Entity

\* The document holds the element text without surrounding white space.
ValidateNativeISO(td, amount) ==
  /\ result["settlement_method"] \in {"CLRG", "INDA"}
  /\ td.Currency \in Letters
  /\ ~amount.minus
  /\ result["purpose_code"] \in
       {"", "SALA", "TAXS", "LOAN", "BEXP", "SUPP", "RIMV", "OTHR"}
  /\ result["charge_bearer"] \in {"SHAR", "DEBT", "CRED", "SLEV"}
  /\ result["service_level"] \in {"URGP", "NURG"}
  /\ td.DebtorAccount # "" /\ td.CreditorAccount # ""

\* xmllint finds fault with what passed the checks above, or it is
\* not there: nothing is known of it, and it is asked only if a schema is named.
ValidateXSDFails == XsdPath

Nothing == <<>>

Assemble ==
  /\ done
  /\ outcome = "none"
  /\ LET td == Template(msg)
         amount == FormatAmount(msg.F4)
     IN IF WellFormed(td) /\ ValidateNativeISO(td, amount)
          THEN \/ outcome' = "xml" /\ xml' = [td |-> td, amount |-> amount]
               \/ ValidateXSDFails /\ outcome' = "nonconforming" /\ UNCHANGED xml
          ELSE outcome' = "rejected" /\ UNCHANGED xml
  /\ UNCHANGED <<enrichVars, msg>>

----------------------------------------------------------------------------
TranslationInit ==
  /\ msg \in ParsedMessages
  /\ Begin(InputOf(msg))
  /\ outcome = "none"
  /\ xml = Nothing

TranslationNext == \/ EnrichNext /\ UNCHANGED <<msg, outcome, xml>>
                   \/ Assemble

TranslationSpec == TranslationInit /\ [][TranslationNext]_translationVars

----------------------------------------------------------------------------
\* The texts of a message that go into the document.
UsedTexts(m) ==
  {m.F37, m.F11, m.F32, m.F33, m.F103} \cup
    (IF TrimSpace(m.F102) = "" THEN {m.F2} ELSE {m.F102})

\* Whatever the rules decide can be assembled: a message is turned away only
\* for a currency without a three-letter code, a negative amount or a character
\* that XML does not allow, never for a value the engine or a default chose
\* (engine.go:162-242, assembler.go:134-296).
RejectedForTheMessage ==
  outcome = "rejected" =>
    \/ IsoToCurrencyCode(CurrencyCode(msg)) \notin Letters
    \/ AmountKES(msg) < 0
    \/ UsedTexts(msg) \cap Illegal # {}

\* The amount in the document is the amount the rules were applied to, to the
\* cent, although the two are computed from F4 by different functions
\* (parser.go:91-101, engine.go:265-277).
AmountAsDecided ==
  outcome = "xml" => xml.amount.whole * 100 + xml.amount.cents = tx.amount

\* Every text of the document says something, also where the field it comes
\* from is absent or holds only spaces, and a debtor account is never replaced
\* by a default while the message names one: where it reads UNKNOWN, the message
\* names none or says so itself (assembler.go:159-180).
PartiesNamed ==
  outcome = "xml" =>
    /\ \A k \in DOMAIN xml.td : xml.td[k] # ""
    /\ xml.td.DebtorAccount = "UNKNOWN" =>
         \/ TrimSpace(msg.F102) = "" /\ TrimSpace(msg.F2) \in {"", "UNKNOWN"}
         \/ TrimSpace(msg.F102) = "UNKNOWN"

\* The flag that the rules look at and the agents of the document agree, although
\* the assembler trims the fields and replaces empty ones after the flag was
\* computed: a document that names two institutions was decided as
\* cross-institutional, and one that was decided so names two, unless the
\* fields differ in the spaces around them only, or one of them holds nothing but
\* spaces or reads UNKNOWN (main.go:182, assembler.go:153-171).
AgentsAsDecided ==
  outcome = "xml" =>
    LET agents == {xml.td.AcquiringInstitution, xml.td.ForwardingInstitution}
        two    == "UNKNOWN" \notin agents /\ Cardinality(agents) = 2
        padded == TrimSpace(msg.F32) = TrimSpace(msg.F33)
        called == \E s \in {msg.F32, msg.F33} : s # "" /\ TrimSpace(s) \in {"", "UNKNOWN"}
    IN /\ two => tx.cross_institutional
       /\ tx.cross_institutional => two \/ padded \/ called

(***************************************************************************)
(* Why: the message and the input made of it stay, nothing is decided once *)
(* Enrich has returned, and what the assembler answers is for the template *)
(* of that message and those decisions.                                    *)
(***************************************************************************)
Accepted == LET td == Template(msg) IN
              WellFormed(td) /\ ValidateNativeISO(td, FormatAmount(msg.F4))

\* The decisions and the document belong to one message, from its parsing to the
\* answer: an invariant that every rule and the assembly preserve
\* (main.go:171-203, assembler.go:134-205).
TranslationInv ==
  /\ EnrichInv
  /\ tx = InputOf(msg)
  /\ outcome \in {"none", "xml", "rejected", "nonconforming"}
  /\ outcome # "none" => done
  /\ outcome = "xml" => Accepted /\ xml = [td |-> Template(msg), amount |-> FormatAmount(msg.F4)]
  /\ outcome = "rejected" => ~Accepted

\* What rules.yaml:71 says: a domestic payment of less than KES 10,000 is a
\* standard retail payment.  It is decided by that rule or an earlier one.
RetailBelowLimit ==
  outcome = "xml" /\ tx.currency = "404" /\ tx.amount < 1000000 =>
    log["regulatory_reporting_code"].source # "DEFAULT"
=============================================================================
