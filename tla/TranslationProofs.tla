------------------------- MODULE TranslationProofs -------------------------
(***************************************************************************)
(* Proofs about Translation: what the assembler writes is what the rules   *)
(* were applied to.  The first theorems hold for every table of rules; the *)
(* last two are about the table of the repository, which they name as a    *)
(* hypothesis.                                                             *)
(***************************************************************************)
EXTENDS Translation, EnrichmentProofs, RulesTable, FiniteSetTheorems

----------------------------------------------------------------------------
(* The texts. *)

\* Trimming and escaping empty no text, and no text becomes UNKNOWN by them.
LEMMA SanitizedIsSaid ==
  ASSUME NEW s
  PROVE  /\ SanitizeXML(s) = "" <=> TrimSpace(s) = ""
         /\ SanitizeXML(s) = "UNKNOWN" <=> TrimSpace(s) = "UNKNOWN"
         /\ TrimSpace("") = ""
<1>1. /\ "" \notin DOMAIN Trim \cup DOMAIN Entity \cup Escaped
      /\ "UNKNOWN" \notin DOMAIN Entity \cup Escaped
  BY TextAssumption DEF OwnTexts
<1>2. \A t \in DOMAIN Entity : Entity[t] \in Escaped
  BY DEF Escaped
<1> QED
  BY <1>1, <1>2 DEF SanitizeXML, TrimSpace

\* A default that is not empty fills what is.
LEMMA OrIsSaid ==
  ASSUME NEW s, NEW d
  PROVE  /\ d # "" => Or(s, d) # ""
         /\ s # "" => Or(s, d) = s
         /\ s = "" => Or(s, d) = d
BY DEF Or

\* Codes of three letters are texts, none of them empty.
LEMMA LettersSaid == "" \notin Letters
<1>1. \A c \in DOMAIN AlphaCode : c # ""
  <2>1. \A p \in Currencies :
          p.numeric \in {"404", "840", "978", "826", "756", "392",
                         "036", "124", "710", "800", "834", "646"}
    BY DEF Currencies, IsoCode
  <2> QED
    BY <2>1 DEF AlphaCode
<1>2. \A c \in DOMAIN AlphaCode : AlphaCode[c] # ""
  BY <1>1, CurrencyKnown DEF IsoToCurrencyCode
<1> QED
  BY <1>2, TextAssumption DEF Letters

----------------------------------------------------------------------------
(* The invariant. *)

Linked == TranslationInv /\ msg \in ParsedMessages

\* A parsed message starts the engine on the input that is made of it.
LEMMA LinkedInit == TranslationInit => Linked
<1> SUFFICES ASSUME TranslationInit PROVE Linked
  OBVIOUS
<1>1. msg \in ParsedMessages /\ Begin(InputOf(msg)) /\ outcome = "none"
  BY DEF TranslationInit
<1>2. InputOf(msg) \in Inputs
  BY <1>1, MessagesAssumption
<1>3. EnrichInv
  BY <1>1, <1>2, InitInv DEF EnrichInit
<1>4. tx = InputOf(msg)
  BY <1>1 DEF Begin
<1> QED
  BY <1>1, <1>3, <1>4 DEF Linked, TranslationInv

\* While the engine works there is no answer yet, so none can become false.
LEMMA LinkedEnrich ==
  ASSUME Linked, EnrichNext, UNCHANGED <<msg, outcome, xml>>
  PROVE  Linked'
<1>1. EnrichInv /\ tx = InputOf(msg) /\ msg \in ParsedMessages /\ (outcome # "none" => done)
  BY DEF Linked, TranslationInv
<1>2. ~done /\ tx' = tx
  <2>1. done => next = Len(Rules) + 1
    BY <1>1 DEF EnrichInv
  <2>2. CASE EvaluateRule
    BY <2>1, <2>2, RuleCount DEF EvaluateRule
  <2>3. CASE ApplyDefaults
    BY <2>3 DEF ApplyDefaults
  <2> QED
    BY <2>2, <2>3 DEF EnrichNext
<1>3. EnrichInv'
  BY <1>1, EvaluateInv, DefaultsInv DEF EnrichNext
<1>4. outcome' = "none"
  BY <1>1, <1>2
<1>5. InputOf(msg)' = InputOf(msg)
  BY DEF InputOf, AmountKES, CurrencyCode
<1> QED
  BY <1>1, <1>2, <1>3, <1>4, <1>5 DEF Linked, TranslationInv

\* What the assembler is given does not change under its hands.
LEMMA SameTemplate ==
  ASSUME UNCHANGED enrichVars, msg' = msg
  PROVE  /\ Template(msg)' = Template(msg) /\ FormatAmount(msg.F4)' = FormatAmount(msg.F4)
         /\ InputOf(msg)' = InputOf(msg) /\ Accepted' = Accepted
<1>1. result' = result
  BY DEF enrichVars
<1>2. /\ Template(msg)' = Template(msg) /\ FormatAmount(msg.F4)' = FormatAmount(msg.F4)
      /\ InputOf(msg)' = InputOf(msg)
  BY <1>1 DEF Template, FormatAmount, InputOf, AmountKES, CurrencyCode
<1>3. Accepted' = Accepted
  BY <1>1, <1>2 DEF Accepted, WellFormed, ValidateNativeISO
<1> QED
  BY <1>2, <1>3

\* The assembler answers for the template of the message and for the decisions.
LEMMA LinkedAssemble ==
  ASSUME Linked, Assemble
  PROVE  Linked'
<1>1. /\ done /\ UNCHANGED enrichVars /\ done' = done /\ tx' = tx
      /\ outcome = "none" /\ msg' = msg
  BY DEF Assemble, enrichVars
<1>2. EnrichInv /\ tx = InputOf(msg) /\ msg \in ParsedMessages
  BY DEF Linked, TranslationInv
<1>3. EnrichInv'
  BY <1>1, <1>2, StutterInv
<1>4. \/ /\ Accepted /\ outcome' = "xml"
         /\ xml' = [td |-> Template(msg), amount |-> FormatAmount(msg.F4)]
      \/ Accepted /\ outcome' = "nonconforming"
      \/ ~Accepted /\ outcome' = "rejected"
  BY DEF Assemble, Accepted
<1>5. /\ Template(msg)' = Template(msg) /\ FormatAmount(msg.F4)' = FormatAmount(msg.F4)
      /\ InputOf(msg)' = InputOf(msg) /\ Accepted' = Accepted
  BY <1>1, SameTemplate
<1> QED
  BY <1>1, <1>2, <1>3, <1>4, <1>5 DEF Linked, TranslationInv

\* The invariant speaks of the variables of this module only.
LEMMA LinkedStutter ==
  ASSUME Linked, UNCHANGED translationVars
  PROVE  Linked'
<1>1. /\ UNCHANGED enrichVars /\ done' = done /\ tx' = tx
      /\ msg' = msg /\ outcome' = outcome /\ xml' = xml
  BY DEF translationVars, enrichVars
<1>2. EnrichInv'
  BY <1>1, StutterInv DEF Linked, TranslationInv
<1>3. /\ Template(msg)' = Template(msg) /\ FormatAmount(msg.F4)' = FormatAmount(msg.F4)
      /\ InputOf(msg)' = InputOf(msg) /\ Accepted' = Accepted
  BY <1>1, SameTemplate
<1> QED
  BY <1>1, <1>2, <1>3 DEF Linked, TranslationInv

\* From parsing to the answer, input, decisions and document belong to one
\* message (main.go:171-203).
LEMMA LinkedAlways == TranslationSpec => []Linked
<1>1. Linked /\ [TranslationNext]_translationVars => Linked'
  BY LinkedEnrich, LinkedAssemble, LinkedStutter DEF TranslationNext
<1> QED
  BY LinkedInit, <1>1, PTL DEF TranslationSpec

\* The decisions and the document belong to one message, for every table of rules
\* and every set of messages (main.go:171-203, assembler.go:134-205).
THEOREM TranslationInvariant == TranslationSpec => []TranslationInv
<1>1. Linked => TranslationInv
  BY DEF Linked
<1> QED
  BY LinkedAlways, <1>1, PTL

\* Inside the translation the rules engine does what it does alone, so what is proved
\* of Enrichment holds here (main.go:171-190).
THEOREM EngineInside == TranslationSpec => EnrichSpec
<1>1. TranslationInit => EnrichInit
  <2> SUFFICES ASSUME TranslationInit PROVE EnrichInit
    OBVIOUS
  <2>1. InputOf(msg) \in Inputs /\ Begin(InputOf(msg))
    BY MessagesAssumption DEF TranslationInit
  <2> QED
    BY <2>1 DEF EnrichInit
<1>2. [TranslationNext]_translationVars => [EnrichNext]_enrichVars
  BY DEF TranslationNext, Assemble, translationVars
<1> QED
  BY <1>1, <1>2, PTL DEF TranslationSpec, EnrichSpec

----------------------------------------------------------------------------
(* What the document says, for every table of rules. *)

\* A number is its quotient and its remainder.
LEMMA Cents ==
  ASSUME NEW n \in Int, n >= 0
  PROVE  ((n \div 100) * 100) + (n % 100) = n
OBVIOUS

\* A document is the template of its message, with the amount of its message, and
\* has passed the checks.
LEMMA DocumentTexts ==
  ASSUME Linked, outcome = "xml"
  PROVE  /\ xml.td = Template(msg) /\ Template(msg).Currency \in Letters
         /\ xml.amount = FormatAmount(msg.F4) /\ ~FormatAmount(msg.F4).minus
<1>1. Accepted /\ xml = [td |-> Template(msg), amount |-> FormatAmount(msg.F4)]
  BY DEF Linked, TranslationInv
<1>2. ValidateNativeISO(Template(msg), FormatAmount(msg.F4))
  BY <1>1 DEF Accepted
<1>3. Template(msg).Currency \in Letters /\ ~FormatAmount(msg.F4).minus
  BY <1>2 DEF ValidateNativeISO
<1>4. xml.td = Template(msg) /\ xml.amount = FormatAmount(msg.F4)
  BY <1>1
<1> QED
  BY <1>3, <1>4

\* The amount is written with its sign, its units and its cents.
LEMMA AmountWritten ==
  ASSUME NEW m, AmountKES(m) \in Int, ~FormatAmount(m.F4).minus
  PROVE  /\ AmountKES(m) >= 0
         /\ FormatAmount(m.F4).whole = AmountKES(m) \div 100
         /\ FormatAmount(m.F4).cents = AmountKES(m) % 100
<1> DEFINE n == IF m.F4 = NotANumber THEN 0 ELSE m.F4
           a == IF n < 0 THEN -n ELSE n
<1>1. n \in Int /\ AmountKES(m) = n
  BY DEF AmountKES
<1>2. FormatAmount(m.F4) = [minus |-> n < 0, whole |-> a \div 100, cents |-> a % 100]
  BY DEF FormatAmount
<1> HIDE DEF n
<1>3. FormatAmount(m.F4).whole = a \div 100 /\ FormatAmount(m.F4).cents = a % 100
  BY <1>2
<1>4. n >= 0
  <2>1. ASSUME NEW sign, sign = (n < 0) PROVE sign = FALSE
    <3>1. FormatAmount(m.F4) = [minus |-> sign, whole |-> a \div 100, cents |-> a % 100]
      BY <1>2, <2>1, Zenon
    <3>2. FormatAmount(m.F4).minus = sign
      BY <3>1, SMT
    <3>3. ~sign
      BY <3>2, Zenon
    <3>4. sign \in BOOLEAN
      BY <2>1, SMT
    <3> QED
      BY <3>3, <3>4
  <2>2. (n < 0) = FALSE
    BY <2>1, Zenon
  <2> QED
    BY <1>1, <2>2
<1>5. a = n
  BY <1>1, <1>4
<1> QED
  BY <1>1, <1>3, <1>4, <1>5

\* The document's amount is the amount that the rules saw (parser.go:91-101,
\* engine.go:265-277).
THEOREM AmountCarried == TranslationSpec => []AmountAsDecided
<1>1. Linked => AmountAsDecided
  <2> SUFFICES ASSUME Linked, outcome = "xml"
               PROVE  xml.amount.whole * 100 + xml.amount.cents = tx.amount
    BY DEF AmountAsDecided
  <2>1. AmountKES(msg) \in Int
    <3>1. msg.F4 = NotANumber \/ msg.F4 \in Int
      BY MessagesAssumption DEF Linked
    <3> QED
      BY <3>1 DEF AmountKES
  <2>2. tx.amount = AmountKES(msg)
    BY DEF Linked, TranslationInv, InputOf
  <2>3. /\ AmountKES(msg) >= 0
        /\ xml.amount.whole = AmountKES(msg) \div 100
        /\ xml.amount.cents = AmountKES(msg) % 100
    BY <2>1, DocumentTexts, AmountWritten
  <2> QED
    BY <2>1, <2>2, <2>3, Cents
<1> QED
  BY LinkedAlways, <1>1, PTL

\* A document names its parties, and a debtor account that reads UNKNOWN stands for
\* no account of the message (assembler.go:159-180).
THEOREM PartiesSaid == TranslationSpec => []PartiesNamed
<1>1. Linked => PartiesNamed
  <2> SUFFICES ASSUME Linked, outcome = "xml"
               PROVE  /\ \A k \in DOMAIN xml.td : xml.td[k] # ""
                      /\ xml.td.DebtorAccount = "UNKNOWN" =>
                           \/ /\ TrimSpace(msg.F102) = ""
                              /\ TrimSpace(msg.F2) \in {"", "UNKNOWN"}
                           \/ TrimSpace(msg.F102) = "UNKNOWN"
    BY DEF PartiesNamed
  <2>1. xml.td = Template(msg) /\ xml.td.Currency \in Letters
    BY DocumentTexts
  <2>2. /\ Template(msg).EndToEndID # "" /\ Template(msg).TransactionID # ""
        /\ Template(msg).AcquiringInstitution # "" /\ Template(msg).ForwardingInstitution # ""
        /\ Template(msg).DebtorAccount # "" /\ Template(msg).CreditorAccount # ""
    BY OrIsSaid DEF Template
  <2>3. xml.td.Currency # ""
    BY <2>1, LettersSaid
  <2>4. DOMAIN Template(msg) =
          {"EndToEndID", "TransactionID", "AcquiringInstitution", "ForwardingInstitution",
           "DebtorAccount", "CreditorAccount", "Currency"}
    BY DEF Template
  <2>5. ASSUME xml.td.DebtorAccount = "UNKNOWN"
        PROVE  \/ TrimSpace(msg.F102) = "" /\ TrimSpace(msg.F2) \in {"", "UNKNOWN"}
               \/ TrimSpace(msg.F102) = "UNKNOWN"
    <3>1. Or(SanitizeXML(msg.F102), Or(SanitizeXML(msg.F2), "UNKNOWN")) = "UNKNOWN"
      BY <2>1, <2>5 DEF Template
    <3>2. \/ SanitizeXML(msg.F102) = "UNKNOWN"
          \/ /\ SanitizeXML(msg.F102) = ""
             /\ SanitizeXML(msg.F2) \in {"", "UNKNOWN"}
      BY <3>1 DEF Or
    <3> QED
      BY <3>2, SanitizedIsSaid
  <2> QED
    BY <2>1, <2>2, <2>3, <2>4, <2>5
<1> QED
  BY LinkedAlways, <1>1, PTL

\* Two institutions that still differ without the spaces around them stay two.
LEMMA TwoStayTwo ==
  ASSUME msg \in ParsedMessages, NEW s \in {msg.F32, msg.F33}, NEW t \in {msg.F32, msg.F33},
         TrimSpace(s) # TrimSpace(t)
  PROVE  SanitizeXML(s) # SanitizeXML(t)
<1>1. \A u, v \in DOMAIN Entity : Entity[u] = Entity[v] => u = v
  BY TextAssumption
<1>2. /\ TrimSpace(s) \notin Escaped \ DOMAIN Entity
      /\ TrimSpace(t) \notin Escaped \ DOMAIN Entity
  BY MessagesAssumption
<1>3. \A u \in DOMAIN Entity : Entity[u] \in Escaped
  BY DEF Escaped
<1> QED
  BY <1>1, <1>2, <1>3 DEF SanitizeXML

\* Agents of the document and the flag of the rules agree (main.go:182,
\* assembler.go:153-171).
THEOREM AgentsAgree == TranslationSpec => []AgentsAsDecided
<1>1. Linked => AgentsAsDecided
  <2> SUFFICES ASSUME Linked, outcome = "xml" PROVE AgentsAsDecided
    BY DEF AgentsAsDecided
  <2> DEFINE A == xml.td.AcquiringInstitution
             F == xml.td.ForwardingInstitution
             two == "UNKNOWN" \notin {A, F} /\ Cardinality({A, F}) = 2
             padded == TrimSpace(msg.F32) = TrimSpace(msg.F33)
             called == \E s \in {msg.F32, msg.F33} :
                         s # "" /\ TrimSpace(s) \in {"", "UNKNOWN"}
  <2>1. A = Or(SanitizeXML(msg.F32), "UNKNOWN") /\ F = Or(SanitizeXML(msg.F33), "UNKNOWN")
    BY DocumentTexts DEF Template
  <2>2. tx.cross_institutional <=> msg.F32 # "" /\ msg.F33 # "" /\ msg.F32 # msg.F33
    BY DEF Linked, TranslationInv, InputOf
  <2> HIDE DEF A, F
  <2>3. two <=> "UNKNOWN" \notin {A, F} /\ A # F
    <3>1. CASE A = F
      <4>1. {A, F} = {A}
        BY <3>1
      <4>2. Cardinality({A}) = 1
        BY FS_Singleton
      <4> QED
        BY <3>1, <4>1, <4>2
    <3>2. CASE A # F
      <4>1. IsFiniteSet({F}) /\ Cardinality({F}) = 1
        BY FS_Singleton
      <4>2. {F} \cup {A} = {A, F} /\ A \notin {F}
        BY <3>2
      <4>3. Cardinality({A, F}) = 1 + 1
        BY <4>1, <4>2, FS_AddElement
      <4> QED
        BY <3>2, <4>3
    <3> QED
      BY <3>1, <3>2
  <2>4. ASSUME two PROVE tx.cross_institutional
    <3>1. SanitizeXML(msg.F32) # "" /\ SanitizeXML(msg.F33) # "" /\ msg.F32 # msg.F33
      BY <2>1, <2>3, <2>4 DEF Or
    <3>2. msg.F32 # "" /\ msg.F33 # ""
      BY <3>1, SanitizedIsSaid
    <3> QED
      BY <2>2, <3>1, <3>2
  <2>5. ASSUME tx.cross_institutional, ~padded, ~called PROVE two
    <3>1. /\ TrimSpace(msg.F32) # TrimSpace(msg.F33)
          /\ TrimSpace(msg.F32) \notin {"", "UNKNOWN"}
          /\ TrimSpace(msg.F33) \notin {"", "UNKNOWN"}
      BY <2>2, <2>5
    <3>2. /\ SanitizeXML(msg.F32) \notin {"", "UNKNOWN"}
          /\ SanitizeXML(msg.F33) \notin {"", "UNKNOWN"}
      BY <3>1, SanitizedIsSaid
    <3>3. SanitizeXML(msg.F32) # SanitizeXML(msg.F33)
      BY <3>1, TwoStayTwo DEF Linked
    <3> QED
      BY <2>1, <2>3, <3>2, <3>3 DEF Or
  <2>6. two <=> /\ "UNKNOWN" \notin {xml.td.AcquiringInstitution, xml.td.ForwardingInstitution}
                /\ Cardinality({xml.td.AcquiringInstitution,
                                xml.td.ForwardingInstitution}) = 2
    BY DEF A, F
  <2> QED
    BY <2>4, <2>5, <2>6 DEF AgentsAsDecided
<1> QED
  BY LinkedAlways, <1>1, PTL

----------------------------------------------------------------------------
(* The table of the repository. *)

RulesOf(s) == {s[k] : k \in DOMAIN s}

\* A table put together from two has the rules of both.
LEMMA RulesOfBoth ==
  ASSUME NEW s, s \in Seq(RulesOf(s)), NEW t, t \in Seq(RulesOf(t))
  PROVE  /\ RulesOf(s \o t) = RulesOf(s) \cup RulesOf(t)
         /\ s \o t \in Seq(RulesOf(s \o t))
<1> DEFINE S == RulesOf(s) \cup RulesOf(t)
<1>1. s \in Seq(S) /\ t \in Seq(S) /\ s \o t \in Seq(S)
  OBVIOUS
<1> HIDE DEF S
<1>2. /\ Len(s) \in Nat /\ Len(t) \in Nat /\ Len(s \o t) = Len(s) + Len(t)
      /\ DOMAIN s = 1 .. Len(s) /\ DOMAIN t = 1 .. Len(t)
      /\ DOMAIN (s \o t) = 1 .. Len(s) + Len(t)
      /\ \A k \in 1 .. Len(s) + Len(t) :
           (s \o t)[k] = IF k <= Len(s) THEN s[k] ELSE t[k - Len(s)]
  BY <1>1
<1>3. RulesOf(s \o t) \subseteq RulesOf(s) \cup RulesOf(t)
  <2> SUFFICES ASSUME NEW k \in 1 .. Len(s) + Len(t)
               PROVE  (s \o t)[k] \in RulesOf(s) \cup RulesOf(t)
    BY <1>2 DEF RulesOf
  <2>1. CASE k <= Len(s)
    BY <1>2, <2>1 DEF RulesOf
  <2>2. CASE k > Len(s)
    <3>1. k - Len(s) \in 1 .. Len(t)
      BY <1>2, <2>2
    <3> QED
      BY <1>2, <2>2, <3>1 DEF RulesOf
  <2> QED
    BY <1>2, <2>1, <2>2
<1>4. RulesOf(s) \subseteq RulesOf(s \o t)
  <2> SUFFICES ASSUME NEW k \in 1 .. Len(s)
               PROVE  s[k] \in RulesOf(s \o t)
    BY <1>2 DEF RulesOf
  <2>1. k \in 1 .. Len(s) + Len(t) /\ (s \o t)[k] = s[k]
    BY <1>2
  <2> QED
    BY <1>2, <2>1 DEF RulesOf
<1>5. RulesOf(t) \subseteq RulesOf(s \o t)
  <2> SUFFICES ASSUME NEW k \in 1 .. Len(t)
               PROVE  t[k] \in RulesOf(s \o t)
    BY <1>2 DEF RulesOf
  <2>1. k + Len(s) \in 1 .. Len(s) + Len(t) /\ (s \o t)[k + Len(s)] = t[k]
    BY <1>2
  <2> QED
    BY <1>2, <2>1 DEF RulesOf
<1> QED
  BY <1>1, <1>3, <1>4, <1>5 DEF S

\* The values that the table gives to a field.
Allowed == [regulatory_reporting_code  |-> {"301", "201", "202", "203", "204", "205", "100"},
            purpose_code               |-> {"SALA", "TAXS", "LOAN", "BEXP", "SUPP", "RIMV", "OTHR"},
            settlement_method          |-> {"CLRG", "INDA"},
            instructed_amount_currency |-> {"KES", "USD", "EUR", "GBP"},
            charge_bearer              |-> {"SHAR", "DEBT"},
            service_level              |-> {"URGP", "NURG"}]

Fitting(r) == r.field \in Fields /\ r.value \in Allowed[r.field]

\* A rule is what it was made of.
LEMMA RuleParts ==
  ASSUME NEW id, NEW c, NEW f, NEW v, NEW i
  PROVE  /\ Rule(id, c, f, v).field = f /\ Rule(id, c, f, v).value = v
         /\ Rule(id, c, f, v).condition = c
         /\ Rail(id, c, v, i).field = "settlement_method" /\ Rail(id, c, v, i).value = v
         /\ Rail(id, c, v, i).condition = c
BY DEF Rule, Rail

\* A section of the table lists its rules.
LEMMA SectionOf1 ==
  ASSUME NEW a
  PROVE  /\ RulesOf(<<a>>) = {a}
         /\ <<a>> \in Seq(RulesOf(<<a>>))
<1> DEFINE s == <<a>>
<1>1. DOMAIN s = 1 .. 1 /\ Len(s) = 1
  OBVIOUS
<1>2. s \in Seq({a})
  OBVIOUS
<1>3. RulesOf(s) = {a}
  BY <1>1 DEF RulesOf
<1> QED
  BY <1>2, <1>3

LEMMA SectionOf2 ==
  ASSUME NEW a, NEW b
  PROVE  /\ RulesOf(<<a, b>>) = {a, b}
         /\ <<a, b>> \in Seq(RulesOf(<<a, b>>))
<1> DEFINE s == <<a, b>>
<1>1. DOMAIN s = 1 .. 2 /\ Len(s) = 2
  OBVIOUS
<1>2. s \in Seq({a, b})
  OBVIOUS
<1>3. RulesOf(s) = {a, b}
  BY <1>1 DEF RulesOf
<1> QED
  BY <1>2, <1>3

LEMMA SectionOf3 ==
  ASSUME NEW a, NEW b, NEW c
  PROVE  /\ RulesOf(<<a, b, c>>) = {a, b, c}
         /\ <<a, b, c>> \in Seq(RulesOf(<<a, b, c>>))
<1> DEFINE s == <<a, b, c>>
<1>1. DOMAIN s = 1 .. 3 /\ Len(s) = 3
  OBVIOUS
<1>2. s \in Seq({a, b, c})
  OBVIOUS
<1>3. RulesOf(s) = {a, b, c}
  BY <1>1 DEF RulesOf
<1> QED
  BY <1>2, <1>3

LEMMA SectionOf4 ==
  ASSUME NEW a, NEW b, NEW c, NEW d
  PROVE  /\ RulesOf(<<a, b, c, d>>) = {a, b, c, d}
         /\ <<a, b, c, d>> \in Seq(RulesOf(<<a, b, c, d>>))
<1> DEFINE s == <<a, b, c, d>>
<1>1. DOMAIN s = 1 .. 4 /\ Len(s) = 4
  OBVIOUS
<1>2. s \in Seq({a, b, c, d})
  OBVIOUS
<1>3. RulesOf(s) = {a, b, c, d}
  BY <1>1 DEF RulesOf
<1> QED
  BY <1>2, <1>3

LEMMA SectionOf6 ==
  ASSUME NEW a, NEW b, NEW c, NEW d, NEW e, NEW f
  PROVE  /\ RulesOf(<<a, b, c, d, e, f>>) = {a, b, c, d, e, f}
         /\ <<a, b, c, d, e, f>> \in Seq(RulesOf(<<a, b, c, d, e, f>>))
<1> DEFINE s == <<a, b, c, d, e, f>>
<1>1. DOMAIN s = 1 .. 6 /\ Len(s) = 6
  OBVIOUS
<1>2. s \in Seq({a, b, c, d, e, f})
  OBVIOUS
<1>3. RulesOf(s) = {a, b, c, d, e, f}
  BY <1>1 DEF RulesOf
<1> QED
  BY <1>2, <1>3

LEMMA SectionOf7 ==
  ASSUME NEW a, NEW b, NEW c, NEW d, NEW e, NEW f, NEW g
  PROVE  /\ RulesOf(<<a, b, c, d, e, f, g>>) = {a, b, c, d, e, f, g}
         /\ <<a, b, c, d, e, f, g>> \in Seq(RulesOf(<<a, b, c, d, e, f, g>>))
<1> DEFINE s == <<a, b, c, d, e, f, g>>
<1>1. DOMAIN s = 1 .. 7 /\ Len(s) = 7
  OBVIOUS
<1>2. s \in Seq({a, b, c, d, e, f, g})
  OBVIOUS
<1>3. RulesOf(s) = {a, b, c, d, e, f, g}
  BY <1>1 DEF RulesOf
<1> QED
  BY <1>2, <1>3

\* Every section is a sequence of rules that fit their fields.
LEMMA RegulatoryFits ==
  /\ RegulatoryRules \in Seq(RulesOf(RegulatoryRules))
  /\ \A r \in RulesOf(RegulatoryRules) : Fitting(r)
<1> DEFINE Code(id, c, v) == Rule(id, c, "regulatory_reporting_code", v)
<1>1. \A id, c : \A v \in Allowed["regulatory_reporting_code"] : Fitting(Code(id, c, v))
  BY RuleParts DEF Fitting, Fields
<1>2. Allowed["regulatory_reporting_code"] = {"301", "201", "202", "203", "204", "205", "100"}
  BY DEF Allowed
<1> HIDE DEF Code
<1>3. PICK a, b, c, d, e, f, g :
        /\ RegulatoryRules = <<a, b, c, d, e, f, g>>
        /\ \A r \in {a, b, c, d, e, f, g} : Fitting(r)
  BY <1>1, <1>2 DEF RegulatoryRules, Code
<1> QED
  BY <1>3, SectionOf7

\* The purpose codes of the table are those the assembler allows.
LEMMA PurposeFits ==
  /\ PurposeRules \in Seq(RulesOf(PurposeRules))
  /\ \A r \in RulesOf(PurposeRules) : Fitting(r)
<1> DEFINE Purpose(id, c, v) == Rule(id, c, "purpose_code", v)
<1>1. \A id, c : \A v \in Allowed["purpose_code"] : Fitting(Purpose(id, c, v))
  BY RuleParts DEF Fitting, Fields
<1>2. Allowed["purpose_code"] = {"SALA", "TAXS", "LOAN", "BEXP", "SUPP", "RIMV", "OTHR"}
  BY DEF Allowed
<1> HIDE DEF Purpose
<1>3. PICK a, b, c, d, e, f :
        /\ PurposeRules = <<a, b, c, d, e, f>>
        /\ \A r \in {a, b, c, d, e, f} : Fitting(r)
  BY <1>1, <1>2 DEF PurposeRules, Purpose
<1> QED
  BY <1>3, SectionOf6

\* So are the settlement methods, ...
LEMMA RailFits ==
  /\ RailRules \in Seq(RulesOf(RailRules))
  /\ \A r \in RulesOf(RailRules) : Fitting(r)
  /\ Rail("RAIL-DEFAULT", Always, "INDA", "DOMESTIC") \in RulesOf(RailRules)
<1>1. \A id, c, i : \A v \in Allowed["settlement_method"] : Fitting(Rail(id, c, v, i))
  BY RuleParts DEF Fitting, Fields
<1>2. Allowed["settlement_method"] = {"CLRG", "INDA"}
  BY DEF Allowed
<1>3. PICK a, b, c :
        LET d == Rail("RAIL-DEFAULT", Always, "INDA", "DOMESTIC")
        IN /\ RailRules = <<a, b, c, d>>
           /\ \A r \in {a, b, c, d} : Fitting(r)
  BY <1>1, <1>2 DEF RailRules
<1> QED
  BY <1>3, SectionOf4

\* ... the currencies, ...
LEMMA CurrencyFits ==
  /\ CurrencyRules \in Seq(RulesOf(CurrencyRules))
  /\ \A r \in RulesOf(CurrencyRules) : Fitting(r)
<1>1. \A id, c : \A v \in Allowed["instructed_amount_currency"] :
        Fitting(Rule(id, c, "instructed_amount_currency", v))
  BY RuleParts DEF Fitting, Fields
<1>2. Allowed["instructed_amount_currency"] = {"KES", "USD", "EUR", "GBP"}
  BY DEF Allowed
<1> DEFINE Currency(id, n, v) == Rule(id, [Any EXCEPT !.currency_iso4217 = n],
                                      "instructed_amount_currency", v)
<1>3. CurrencyRules = <<Currency("CURR-KES", "404", "KES"), Currency("CURR-USD", "840", "USD"),
                        Currency("CURR-EUR", "978", "EUR"), Currency("CURR-GBP", "826", "GBP")>>
  BY DEF CurrencyRules
<1>4. \A id, n : \A v \in {"KES", "USD", "EUR", "GBP"} : Fitting(Currency(id, n, v))
  BY <1>1, <1>2
<1> HIDE DEF Currency
<1>5. PICK a, b, c, d :
        /\ CurrencyRules = <<a, b, c, d>>
        /\ \A r \in {a, b, c, d} : Fitting(r)
  BY <1>3, <1>4
<1> QED
  BY <1>5, SectionOf4

\* ... the charge bearers, ...
LEMMA ChargeFits ==
  /\ ChargeRules \in Seq(RulesOf(ChargeRules))
  /\ \A r \in RulesOf(ChargeRules) : Fitting(r)
<1>1. \A id, c : \A v \in Allowed["charge_bearer"] : Fitting(Rule(id, c, "charge_bearer", v))
  BY RuleParts DEF Fitting, Fields
<1>2. Allowed["charge_bearer"] = {"SHAR", "DEBT"}
  BY DEF Allowed
<1>3. PICK a, b, c :
        /\ ChargeRules = <<a, b, c>>
        /\ \A r \in {a, b, c} : Fitting(r)
  BY <1>1, <1>2 DEF ChargeRules
<1> QED
  BY <1>3, SectionOf3

\* ... and the service levels.
LEMMA ServiceFits ==
  /\ ServiceRules \in Seq(RulesOf(ServiceRules))
  /\ \A r \in RulesOf(ServiceRules) : Fitting(r)
<1>1. \A id, c : \A v \in Allowed["service_level"] : Fitting(Rule(id, c, "service_level", v))
  BY RuleParts DEF Fitting, Fields
<1>2. Allowed["service_level"] = {"URGP", "NURG"}
  BY DEF Allowed
<1>3. PICK a, b :
        /\ ServiceRules = <<a, b>>
        /\ \A r \in {a, b} : Fitting(r)
  BY <1>1, <1>2 DEF ServiceRules
<1> QED
  BY <1>3, SectionOf2

\* The rule that defers the purpose asks for nothing but that none is known.
LEMMA DeferParts ==
  /\ DeferRule.field = "purpose_code" /\ DeferRule.value = "OTHR"
  /\ \A in : Criteria(DeferRule.condition, in)
<1>1. /\ DeferRule.field = "purpose_code" /\ DeferRule.value = "OTHR"
      /\ DeferRule.condition = [Any EXCEPT !.purpose_code_unset = TRUE]
  BY DEF DeferRule, Rule
<1>2. \A in : Criteria([Any EXCEPT !.purpose_code_unset = TRUE], in)
  BY DEF Criteria, Any
<1> QED
  BY <1>1, <1>2

LEMMA AlwaysParts == Always.always
BY DEF Always, Any

\* The table of the repository is a sequence of rules that fit; it has a rail that
\* always applies and the rule that defers the purpose.
LEMMA TableFits ==
  /\ \A r \in RulesOf(RulesYaml) : Fitting(r)
  /\ DeferRule \in RulesOf(RulesYaml)
  /\ Rail("RAIL-DEFAULT", Always, "INDA", "DOMESTIC") \in RulesOf(RulesYaml)
<1> DEFINE a == RegulatoryRules \o PurposeRules
           b == a \o RailRules
           c == b \o CurrencyRules
           d == c \o ChargeRules
           e == d \o ServiceRules
<1>1. /\ a \in Seq(RulesOf(a))
      /\ RulesOf(a) = RulesOf(RegulatoryRules) \cup RulesOf(PurposeRules)
  BY RegulatoryFits, PurposeFits, RulesOfBoth
<1> HIDE DEF a
<1>2. b \in Seq(RulesOf(b)) /\ RulesOf(b) = RulesOf(a) \cup RulesOf(RailRules)
  BY <1>1, RailFits, RulesOfBoth
<1> HIDE DEF b
<1>3. c \in Seq(RulesOf(c)) /\ RulesOf(c) = RulesOf(b) \cup RulesOf(CurrencyRules)
  BY <1>2, CurrencyFits, RulesOfBoth
<1> HIDE DEF c
<1>4. d \in Seq(RulesOf(d)) /\ RulesOf(d) = RulesOf(c) \cup RulesOf(ChargeRules)
  BY <1>3, ChargeFits, RulesOfBoth
<1> HIDE DEF d
<1>5. e \in Seq(RulesOf(e)) /\ RulesOf(e) = RulesOf(d) \cup RulesOf(ServiceRules)
  BY <1>4, ServiceFits, RulesOfBoth
<1> HIDE DEF e
<1>6. RulesOf(e \o <<DeferRule>>) = RulesOf(e) \cup {DeferRule}
  <2>1. /\ <<DeferRule>> \in Seq(RulesOf(<<DeferRule>>))
        /\ RulesOf(<<DeferRule>>) = {DeferRule}
    BY SectionOf1
  <2>2. RulesOf(e \o <<DeferRule>>) = RulesOf(e) \cup RulesOf(<<DeferRule>>)
    BY <1>5, <2>1, RulesOfBoth
  <2> QED
    BY <2>1, <2>2
<1>7. RulesYaml = e \o <<DeferRule>>
  BY DEF RulesYaml, a, b, c, d, e
<1>8. Fitting(DeferRule)
  BY DeferParts DEF Fitting, Fields, Allowed
<1> QED
  BY <1>1, <1>2, <1>3, <1>4, <1>5, <1>6, <1>7, <1>8, RegulatoryFits, PurposeFits,
     RailFits, CurrencyFits, ChargeFits, ServiceFits

----------------------------------------------------------------------------
(* What the table of the repository decides. *)

\* The table has a rule at some place.
LEMMA Placed ==
  ASSUME Rules = RulesYaml, NEW r \in RulesOf(RulesYaml)
  PROVE  \E k \in 1 .. Len(Rules) : Rules[k] = r
BY RulesAssumption DEF RulesOf

\* When the loop has ended, every field that a rule of it decides has a value that
\* the table gives to that field.
LEMMA DecisionFits ==
  ASSUME Rules = RulesYaml, EnrichInv, done, NEW f \in Fields
  PROVE  /\ f \in DOMAIN Defaults =>
              result[f] \in Allowed[f] \cup {Defaults[f].value}
         /\ f \notin DOMAIN Defaults => result[f] \in Allowed[f] \cup {""}
<1>1. next = Len(Rules) + 1 /\ Len(Rules) \in Nat
  BY RuleCount DEF EnrichInv
<1>2. \/ \E k \in 1 .. Len(Rules) : Applies(k, f) /\ result[f] = Rules[k].value
      \/ result[f] = IF f \in DOMAIN Defaults THEN Defaults[f].value ELSE ""
  <2>1. next - 1 = Len(Rules)
    BY <1>1
  <2>2. \/ \E k \in 1 .. next - 1 : Decides(k, f) /\ result[f] = Rules[k].value
        \/ result[f] = IF f \in DOMAIN Defaults THEN Defaults[f].value ELSE ""
    BY DEF EnrichInv, FirstMatchWins
  <2> QED
    BY <2>1, <2>2 DEF Decides
<1>3. ASSUME NEW k \in 1 .. Len(Rules), Applies(k, f) PROVE Rules[k].value \in Allowed[f]
  <2>1. Rules[k] \in RulesOf(RulesYaml)
    BY RulesAssumption DEF RulesOf
  <2>2. Rules[k].field = f
    BY <1>3 DEF Applies
  <2> QED
    BY <2>1, <2>2, TableFits DEF Fitting
<1> QED
  BY <1>2, <1>3

\* The last rule of the table applies unless another has told the purpose, and one
\* rail applies always.
LEMMA TableDecides ==
  ASSUME Rules = RulesYaml, EnrichInv, done
  PROVE  result["purpose_code"] # "" /\ result["settlement_method"] # ""
<1>1. next = Len(Rules) + 1 /\ Len(Rules) \in Nat
  BY RuleCount DEF EnrichInv
<1>2. result["purpose_code"] # ""
  <2>1. PICK k \in 1 .. Len(Rules) : Rules[k] = DeferRule
    BY Placed, TableFits
  <2>2. Holds(k) /\ Rules[k].field = "purpose_code"
    BY <2>1, DeferParts DEF Holds
  <2>3. PurposeBefore(next)
    BY <1>1, <2>2 DEF PurposeBefore
  <2> QED
    BY <2>3 DEF EnrichInv, PurposeKnown
<1>3. result["settlement_method"] # ""
  <2> DEFINE rail == Rail("RAIL-DEFAULT", Always, "INDA", "DOMESTIC")
  <2>1. PICK k \in 1 .. Len(Rules) : Rules[k] = rail
    BY Placed, TableFits
  <2>2. Applies(k, "settlement_method")
    <3>1. rail.field = "settlement_method" /\ rail.condition.always
      BY RuleParts, AlwaysParts
    <3> QED
      BY <2>1, <3>1 DEF Applies, Holds
  <2>3. \E j \in 1 .. Len(Rules) : result["settlement_method"] = Rules[j].value
    <3>1. "settlement_method" \in Fields
      BY DEF Fields
    <3>2. k \in 1 .. next - 1
      BY <1>1
    <3>3. \E j \in 1 .. next - 1 : result["settlement_method"] = Rules[j].value
      BY <2>2, <3>1, <3>2 DEF EnrichInv, FirstMatchWins
    <3> QED
      BY <1>1, <3>3
  <2> QED
    BY <2>3, RuleTypes
<1> QED
  BY <1>2, <1>3

\* With the table of the repository no field stays undecided (engine.go:223-239,
\* rules.yaml:171-179, 270-278).
THEOREM TableIsTotal ==
  ASSUME Rules = RulesYaml
  PROVE  TranslationSpec => []EveryFieldDecided
<1>1. Linked => EveryFieldDecided
  <2> SUFFICES ASSUME Linked, done, NEW f \in Fields
               PROVE  result[f] # ""
    BY DEF EveryFieldDecided
  <2>1. EnrichInv
    BY DEF Linked, TranslationInv
  <2>2. CASE f \in {"purpose_code", "settlement_method"}
    BY <2>1, <2>2, TableDecides
  <2>3. CASE f \notin {"purpose_code", "settlement_method"}
    <3>1. f \in DOMAIN Defaults
      BY <2>3 DEF Fields, Defaults
    <3>2. tx \in Inputs /\ next = Len(Rules) + 1
      BY <2>1 DEF EnrichInv, EnrichTypeOK
    <3>3. Defaults[f].value # ""
      BY <3>1, <3>2, DefaultTypes
    <3>4. \A k \in 1 .. next - 1 : Rules[k].value # ""
      <4>1. next - 1 = Len(Rules)
        BY <3>2, RuleCount
      <4> QED
        BY <4>1, RuleTypes
    <3> QED
      BY <2>1, <3>1, <3>3, <3>4 DEF EnrichInv, FirstMatchWins
  <2> QED
    BY <2>2, <2>3
<1> QED
  BY LinkedAlways, <1>1, PTL

\* A text without a character that XML forbids is written so that XML allows it.
LEMMA SanitizedIsAllowed ==
  ASSUME NEW s, s \notin Illegal
  PROVE  SanitizeXML(s) \notin Illegal \cup (DOMAIN Entity \ Escaped)
<1>1. TrimSpace(s) \notin Illegal
  BY TextAssumption DEF TrimSpace
<1>2. \A t \in DOMAIN Entity : Entity[t] \in Escaped /\ (t \notin Illegal => Entity[t] \notin Illegal)
  BY TextAssumption DEF Escaped
<1> QED
  BY <1>1, <1>2 DEF SanitizeXML

\* The program's own texts are written as they are.
LEMMA OwnTextsStay ==
  ASSUME NEW s \in OwnTexts
  PROVE  /\ SanitizeXML(s) = s
         /\ s \notin Illegal \cup (DOMAIN Entity \ Escaped)
BY TextAssumption DEF SanitizeXML, TrimSpace

\* The four codes that the table writes are letters of the currency map.
LEMMA TableCurrencies == {"KES", "USD", "EUR", "GBP"} \subseteq Letters
<1>1. \A n, a : IsoCode(n, a).numeric = n /\ IsoCode(n, a).alpha = a
  BY DEF IsoCode
<1>2. ASSUME NEW n, NEW a, IsoCode(n, a) \in Currencies,
             \A p \in Currencies : p.numeric = n => p = IsoCode(n, a)
      PROVE  a \in Letters
  <2>1. n \in DOMAIN AlphaCode
    BY <1>1, <1>2 DEF AlphaCode
  <2>2. (CHOOSE p \in Currencies : p.numeric = n) = IsoCode(n, a)
    BY <1>1, <1>2
  <2>3. AlphaCode[n] = a
    BY <1>1, <2>1, <2>2 DEF AlphaCode
  <2> QED
    BY <2>1, <2>3 DEF Letters
<1>3. ASSUME NEW n, NEW a,
             IsoCode(n, a) \in {IsoCode("404", "KES"), IsoCode("840", "USD"),
                                IsoCode("978", "EUR"), IsoCode("826", "GBP")}
      PROVE  /\ IsoCode(n, a) \in Currencies
             /\ \A p \in Currencies : p.numeric = n => p = IsoCode(n, a)
  BY <1>3 DEF Currencies, IsoCode
<1>4. "KES" \in Letters /\ "USD" \in Letters /\ "EUR" \in Letters /\ "GBP" \in Letters
  BY <1>2, <1>3
<1> QED
  BY <1>4

\* With the table of the repository every decision passes the assembler's checks, if
\* the message's currency has letters (engine.go:223-239, assembler.go:211-296).
LEMMA DecisionsPass ==
  ASSUME Rules = RulesYaml, Linked, done,
         IsoToCurrencyCode(CurrencyCode(msg)) \in Letters
  PROVE  /\ result["settlement_method"] \in {"CLRG", "INDA"}
         /\ result["purpose_code"] \in
              {"", "SALA", "TAXS", "LOAN", "BEXP", "SUPP", "RIMV", "OTHR"}
         /\ result["charge_bearer"] \in {"SHAR", "DEBT", "CRED", "SLEV"}
         /\ result["service_level"] \in {"URGP", "NURG"}
         /\ result["instructed_amount_currency"] \in Letters
<1>1. EnrichInv /\ tx.currency = CurrencyCode(msg)
  BY DEF Linked, TranslationInv, InputOf
<1>2. /\ \A f \in Fields : f \in DOMAIN Defaults =>
                             result[f] \in Allowed[f] \cup {Defaults[f].value}
      /\ \A f \in Fields : f \notin DOMAIN Defaults => result[f] \in Allowed[f] \cup {""}
  BY <1>1, DecisionFits
<1>3. /\ {"settlement_method", "purpose_code", "charge_bearer", "service_level",
          "instructed_amount_currency"} \subseteq Fields
      /\ "settlement_method" \notin DOMAIN Defaults
      /\ "purpose_code" \notin DOMAIN Defaults
      /\ {"charge_bearer", "service_level", "instructed_amount_currency"}
           \subseteq DOMAIN Defaults
  BY DEF Fields, Defaults
<1>4. /\ Defaults["charge_bearer"].value = "SHAR" /\ Defaults["service_level"].value = "NURG"
      /\ Defaults["instructed_amount_currency"].value = IsoToCurrencyCode(tx.currency)
  BY DEF Defaults, FieldEntry
<1>5. result["settlement_method"] # ""
  BY <1>1, TableDecides
<1>6. /\ result["settlement_method"] \in {"CLRG", "INDA", ""}
      /\ result["purpose_code"] \in {"SALA", "TAXS", "LOAN", "BEXP", "SUPP", "RIMV", "OTHR", ""}
      /\ result["charge_bearer"] \in {"SHAR", "DEBT"}
      /\ result["service_level"] \in {"URGP", "NURG"}
      /\ result["instructed_amount_currency"] \in
           {"KES", "USD", "EUR", "GBP", IsoToCurrencyCode(tx.currency)}
  BY <1>2, <1>3, <1>4 DEF Allowed
<1> QED
  BY <1>1, <1>5, <1>6, TableCurrencies

\* Each text of the template comes from one of the message that is used, or is the
\* program's own.
LEMMA TemplateTexts ==
  ASSUME UsedTexts(msg) \cap Illegal = {},
         result["instructed_amount_currency"] \in Letters
  PROVE  WellFormed(Template(msg))
<1> DEFINE Fine(t) == t \notin Illegal \cup (DOMAIN Entity \ Escaped)
<1>1. \A s : s \notin Illegal => Fine(SanitizeXML(s))
  BY SanitizedIsAllowed
<1>2. Fine("bundle") /\ Fine("UNKNOWN") /\ Fine("DEFERRED")
  BY OwnTextsStay DEF OwnTexts
<1>3. Fine(SanitizeXML(result["instructed_amount_currency"]))
  BY OwnTextsStay DEF OwnTexts
<1> HIDE DEF Fine
<1>4. \A s, d : Fine(s) /\ Fine(d) => Fine(Or(s, d))
  BY DEF Or
<1>5. /\ Fine(SanitizeXML(msg.F37)) /\ Fine(SanitizeXML(msg.F11))
      /\ Fine(SanitizeXML(msg.F32)) /\ Fine(SanitizeXML(msg.F33))
      /\ Fine(SanitizeXML(msg.F103))
  BY <1>1 DEF UsedTexts
<1>6. Fine(Or(SanitizeXML(msg.F102), Or(SanitizeXML(msg.F2), "UNKNOWN")))
  <2>1. CASE SanitizeXML(msg.F102) = ""
    <3>1. msg.F2 \notin Illegal
      BY <2>1, SanitizedIsSaid DEF UsedTexts
    <3>2. Fine(Or(SanitizeXML(msg.F2), "UNKNOWN"))
      BY <1>1, <1>2, <1>4, <3>1
    <3> QED
      BY <2>1, <3>2 DEF Or
  <2>2. CASE SanitizeXML(msg.F102) # ""
    <3>1. msg.F102 \notin Illegal
      BY <2>2, SanitizedIsSaid DEF UsedTexts
    <3>2. Fine(SanitizeXML(msg.F102))
      BY <1>1, <3>1
    <3> QED
      BY <2>2, <3>2 DEF Or
  <2> QED
    BY <2>1, <2>2
<1>7. \A k \in DOMAIN Template(msg) : Fine(Template(msg)[k])
  BY <1>2, <1>3, <1>4, <1>5, <1>6 DEF Template
<1> QED
  BY <1>7 DEF WellFormed, Fine

\* With the table of the repository a message is turned away for what it says, never
\* for what the engine made of it (engine.go:162-242, assembler.go:134-296).
THEOREM RejectionIsDeserved ==
  ASSUME Rules = RulesYaml
  PROVE  TranslationSpec => []RejectedForTheMessage
<1>1. Linked => RejectedForTheMessage
  <2> SUFFICES ASSUME Linked, outcome = "rejected",
                      IsoToCurrencyCode(CurrencyCode(msg)) \in Letters,
                      ~(AmountKES(msg) < 0), UsedTexts(msg) \cap Illegal = {}
               PROVE  Accepted
    BY DEF RejectedForTheMessage, Linked, TranslationInv
  <2>1. done
    BY DEF Linked, TranslationInv
  <2>2. /\ result["settlement_method"] \in {"CLRG", "INDA"}
        /\ result["purpose_code"] \in
             {"", "SALA", "TAXS", "LOAN", "BEXP", "SUPP", "RIMV", "OTHR"}
        /\ result["charge_bearer"] \in {"SHAR", "DEBT", "CRED", "SLEV"}
        /\ result["service_level"] \in {"URGP", "NURG"}
        /\ result["instructed_amount_currency"] \in Letters
    BY <2>1, DecisionsPass
  <2>3. WellFormed(Template(msg))
    BY <2>2, TemplateTexts
  <2>4. Template(msg).Currency = result["instructed_amount_currency"]
    BY <2>2, OwnTextsStay DEF Template, OwnTexts
  <2>5. Template(msg).DebtorAccount # "" /\ Template(msg).CreditorAccount # ""
    BY OrIsSaid DEF Template
  <2>6. ~FormatAmount(msg.F4).minus
    BY DEF FormatAmount, AmountKES
  <2> QED
    BY <2>2, <2>3, <2>4, <2>5, <2>6 DEF Accepted, ValidateNativeISO
<1> QED
  BY LinkedAlways, <1>1, PTL
=============================================================================
