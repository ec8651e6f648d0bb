--------------------------- MODULE MCTranslation ---------------------------
(***************************************************************************)
(* Translation with the rules of the repository, on messages that differ   *)
(* from a plain domestic transfer in what the rules look at, in the        *)
(* accounts, or in the agents and references.                              *)
(***************************************************************************)
EXTENDS Translation, RulesTable

MCStartsWith ==
  [p \in {"38", "40", "63902"} |->
    CASE p = "38" -> {"380000"} [] p = "40" -> {"400000", "401000"}
      [] p = "63902" -> {"6390212"}]

MCTrim == [s \in {" ", "  ", "acct "} |-> IF s = "acct " THEN "acct" ELSE ""]

MCEntity == [s \in {"A&B", "A&amp;B"} |->
              IF s = "A&B" THEN "A&amp;B" ELSE "A&amp;amp;B"]

MCIllegal == {"ctl"}

MCOtherCodes == {"XYZ"}

Texts == {"", " ", "acct", "acct ", "A&B", "A&amp;B", "ctl", "UNKNOWN"}

Plain == [F2 |-> "pan", F3 |-> "000000", F4 |-> 150000, F11 |-> "000001",
          F18 |-> "5411", F32 |-> "acct", F33 |-> "bank", F37 |-> "ref",
          F49 |-> "404", F102 |-> "", F103 |-> ""]

\* At every limit of the rules, and one cent below it.
Shillings == {0, 10, 9999, 10000, 99999, 100000, 999999, 1000000, 5000000}
Amounts   == {100 * s : s \in Shillings} \cup {100 * s - 1 : s \in Shillings}
               \cup {100 * s + 50 : s \in {9999, 99999, 999999}}

MCMessages ==
  {[Plain EXCEPT !.F3 = p, !.F4 = a, !.F18 = t, !.F32 = b, !.F33 = d, !.F49 = c] :
     p \in {"400000", "401000", "380000", "000000"}, a \in Amounts,
     t \in {"9311", "4911", "5411"}, b \in {"6390212", "bank"}, d \in {"", "bank"},
     c \in {"404", "840", "392", "999"}}
  \cup {[Plain EXCEPT !.F4 = a, !.F49 = c, !.F33 = b] :
          a \in {NotANumber, -150000, -5, 5},
          c \in {"", "404", "756", "KES", "XYZ", "  "}, b \in {"", "bank"}}
  \cup {[Plain EXCEPT !.F2 = s, !.F102 = u, !.F103 = v] :
          s \in Texts, u \in Texts, v \in Texts}
  \cup {[Plain EXCEPT !.F32 = s, !.F33 = u, !.F37 = v] :
          s \in Texts \cup {"6390212"}, u \in Texts, v \in Texts}

\* F4 that is not a number counts as 0.
MCInputs == [amount : Amounts \cup {-150000, -5, 5, 150000},
             currency : {"404", "840", "392", "756", "999", "KES", "XYZ", "  "},
             processing_code : {"400000", "401000", "380000", "000000"},
             merchant_type : {"9311", "4911", "5411"},
             acquiring_institution : Texts \cup {"6390212", "bank"},
             cross_institutional : BOOLEAN]
=============================================================================
