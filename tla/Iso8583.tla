------------------------------ MODULE Iso8583 ------------------------------
(***************************************************************************)
(* The ISO 8583 parser (internal/iso8583/parser.go): how Parse walks over  *)
(* the bytes of one message, in its ASCII and its BCD mode.                *)
(*                                                                         *)
(* The message is modelled by its length and by the bits of its bitmaps;   *)
(* every other byte is chosen when it is read, which no byte is twice      *)
(* before the loop has ended.  A slice or an index out of range is a       *)
(* panic, in either mode.                                                  *)
(***************************************************************************)
EXTENDS Integers, FiniteSets

CONSTANTS Sizes,      \* lengths of messages
          BitSets,    \* sets of bits that may be set in the bitmaps
          Numbers     \* bound: numbers that a length prefix may read

ASSUME SizesAssumption   == Sizes \subseteq Nat
ASSUME BitSetsAssumption == \A B \in BitSets : B \subseteq 1 .. 128
\* The secondary bitmap is there only if the first bit says so.
ASSUME SecondaryAssumption == \A B \in BitSets : B \cap 65 .. 128 # {} => 1 \in B
ASSUME NumbersAssumption == Numbers \subseteq Int

VARIABLES mode,    \* isBCD
          size,    \* len(raw)
          bits,    \* what the bitmaps say
          status,  \* where Parse is, and how it ended
          pos,
          todo,    \* present fields the loop has not come to
          fields   \* msg.Fields, with the bytes each value was taken from

input == <<mode, size, bits>>
vars  == <<input, status, pos, todo, fields>>

----------------------------------------------------------------------------
(* The table de. *)

LLVar  == {2, 32, 33, 35, 100, 102, 103}
LLLVar == {48, 54, 55} \cup 60 .. 63 \cup 120 .. 123
Fixed  == {1, 3, 4, 5, 7, 11, 12, 13, 14, 18, 22, 25, 37, 38, 39, 41, 42, 43,
           49, 50, 52, 70, 90, 128}
Known  == Fixed \cup LLVar \cup LLLVar

\* The length of a fixed field, the greatest of a variable one.
Length(f) == CASE f \in {25, 39}           -> 2
               [] f \in {22, 49, 50, 70}   -> 3
               [] f \in {13, 14, 18}       -> 4
               [] f \in {3, 11, 12, 38}    -> 6
               [] f \in {1, 41, 52, 128}   -> 8
               [] f = 7                    -> 10
               [] f \in {32, 33, 100}      -> 11
               [] f \in {4, 5, 37}         -> 12
               [] f = 42                   -> 15
               [] f = 2                    -> 19
               [] f \in {102, 103}         -> 28
               [] f = 35                   -> 37
               [] f = 43                   -> 40
               [] f = 90                   -> 42
               [] f = 54                   -> 120
               [] OTHER                    -> 999

----------------------------------------------------------------------------
Init ==
  /\ mode \in {"ascii", "bcd"}
  /\ size \in Sizes
  /\ bits \in BitSets
  /\ status = "start"
  /\ pos = 0
  /\ todo = {}
  /\ fields = <<>>

End(how) == status' = how /\ UNCHANGED <<input, pos, todo, fields>>

HeaderLength == (IF mode = "bcd" THEN 10 ELSE 12) + (IF 1 \in bits THEN 8 ELSE 0)

\* Too short for the header, or an ASCII MTI that is not four digits.
BadHeader ==
  /\ status = "start"
  /\ size < 12 \/ size < HeaderLength \/ mode = "ascii"
  /\ End("error")

Header ==
  /\ status = "start"
  /\ size >= 12
  /\ size >= HeaderLength
  /\ status' = "fields"
  /\ pos' = HeaderLength
  /\ todo' = bits \ {1}
  /\ UNCHANGED <<input, fields>>

----------------------------------------------------------------------------
(* The loop over the present fields, in order. *)

IsNext(f) ==
  /\ status = "fields"
  /\ f \in todo
  /\ \A g \in todo : f <= g

Unknown(f) == IsNext(f) /\ f \notin Known /\ End("error")

With(f, value) == [g \in DOMAIN fields \cup {f} |-> IF g = f THEN value ELSE fields[g]]

\* Mutant: the loop goes on after the announced length, not the bytes taken.
TakeAnnounced(f, p, n, want) ==
  IF 0 <= p /\ p <= p + n /\ p + n <= size
    THEN /\ fields' = With(f, [from |-> p, to |-> p + n, want |-> want])
         /\ pos' = p + want
         /\ todo' = todo \ {f}
         /\ UNCHANGED <<input, status>>
    ELSE End("panic")

\* The value of f is made of n bytes from p on; want digits were asked for.
Take(f, p, n, want) ==
  IF 0 <= p /\ p <= p + n /\ p + n <= size
    THEN /\ fields' = With(f, [from |-> p, to |-> p + n, want |-> want])
         /\ pos' = p + n
         /\ todo' = todo \ {f}
         /\ UNCHANGED <<input, status>>
    ELSE End("panic")

Empty(f) == Take(f, pos, 0, 0)

(* BCD: two digits a byte, and a value is cut at the limit. *)

\* Mutants: F11 is not held back; every field is.
NoLimit(f)    == size
SameLimit(f)  == size - 2

Limit(f) == IF f = 11 THEN size - 2 ELSE size

BcdBytes(digits) == (digits + 1) \div 2

\* Mutant: the value is not cut at the limit.
TakeUncut(f, head, want) == Take(f, pos + head, BcdBytes(want), want)

TakeBcd(f, head, want) ==
  LET p    == pos + head
      room == IF p <= Limit(f) THEN Limit(f) - p ELSE 0
  IN Take(f, p, IF BcdBytes(want) <= room THEN BcdBytes(want) ELSE room, want)

\* Mutant: an omitted F2 is left out of the message.
PanLeftOut(f) ==
  /\ IsNext(f) /\ mode = "bcd" /\ f = 2
  /\ todo' = todo \ {f}
  /\ UNCHANGED <<input, status, pos, fields>>

\* F2 is taken for omitted unless the next byte is 0x02.
BcdNoPan(f) == IsNext(f) /\ mode = "bcd" /\ f = 2 /\ Empty(f)

BcdExhausted(f) ==
  /\ IsNext(f) /\ mode = "bcd" /\ f \in Known \ {2}
  /\ pos >= Limit(f)
  /\ Empty(f)

BcdFixed(f) ==
  /\ IsNext(f) /\ mode = "bcd" /\ f \in Fixed
  /\ pos < Limit(f)
  /\ TakeBcd(f, 0, Length(f))

PrefixBytes(f) == IF f \in LLVar THEN 1 ELSE 2

\* What a BCD prefix can read: nibbles go up to 15.  The 0x02 that announces
\* F2 is not consumed, so F2 reads it as its length.
BcdPrefixes(f) == IF f = 2 THEN {2}
                  ELSE Numbers \cap 0 .. (IF f \in LLVar THEN 165 ELSE 16665)

BcdVariable(f) ==
  /\ IsNext(f) /\ mode = "bcd" /\ f \in LLVar \cup LLLVar
  /\ pos < Limit(f)
  /\ IF pos + PrefixBytes(f) > Limit(f) THEN End("error")
     ELSE \E n \in BcdPrefixes(f) :
            IF n > Length(f) THEN End("error") ELSE TakeBcd(f, PrefixBytes(f), n)

(* ASCII: one character a byte, and a value that does not fit is an error. *)

TakeAscii(f, head, n) ==
  IF pos + head + n > size THEN End("error") ELSE Take(f, pos + head, n, n)

AsciiFixed(f) ==
  /\ IsNext(f) /\ mode = "ascii" /\ f \in Fixed
  /\ TakeAscii(f, 0, Length(f))

\* What strconv.Atoi makes of two or three characters: a sign is a number's.
AsciiPrefixes(f) ==
  Numbers \cap (IF f \in LLVar THEN -9 .. 99 ELSE -99 .. 999)

\* Mutant: LLVAR lengths are not compared with the maximum either.
AsciiUncapped(f) ==
  LET head == IF f \in LLVar THEN 2 ELSE 3 IN
  /\ IsNext(f) /\ mode = "ascii" /\ f \in LLVar \cup LLLVar
  /\ IF pos + head > size THEN End("error")
     ELSE \E n \in AsciiPrefixes(f) : TakeAscii(f, head, n)

\* Only LLVAR lengths are compared with the maximum.
AsciiVariable(f) ==
  LET head == IF f \in LLVar THEN 2 ELSE 3 IN
  /\ IsNext(f) /\ mode = "ascii" /\ f \in LLVar \cup LLLVar
  /\ IF pos + head > size THEN End("error")
     ELSE \/ End("error")  \* not a number
          \/ \E n \in AsciiPrefixes(f) :
               IF f \in LLVar /\ n > Length(f) THEN End("error")
               ELSE TakeAscii(f, head, n)

\* After the loop, the last two bytes of a BCD message become its F18.
MerchantType == [from |-> size - 2, to |-> size, want |-> 4]

Finish ==
  /\ status = "fields"
  /\ todo = {}
  /\ status' = "ok"
  /\ fields' = IF mode = "bcd" THEN With(18, MerchantType) ELSE fields
  /\ UNCHANGED <<input, pos, todo>>

Next == \/ BadHeader \/ Header \/ Finish
        \/ \E f \in bits :
             \/ Unknown(f)
             \/ BcdNoPan(f) \/ BcdExhausted(f) \/ BcdFixed(f) \/ BcdVariable(f)
             \/ AsciiFixed(f) \/ AsciiVariable(f)

Spec == Init /\ [][Next]_vars

----------------------------------------------------------------------------
(* Properties. *)

Values == [from : Nat, to : Nat, want : Nat]

\* The variables have their types, and the value of a field its three numbers.
ParserTypeOK ==
  /\ mode \in {"ascii", "bcd"} /\ size \in Sizes /\ bits \in BitSets
  /\ status \in {"start", "fields", "ok", "error", "panic"}
  /\ pos \in Nat
  /\ todo \subseteq bits
  /\ DOMAIN fields \subseteq bits \cup {18}
  /\ \A f \in DOMAIN fields : fields[f] \in Values

\* The values are taken from the message from left to right, each byte at most
\* once, behind the header and inside the message: no field is read from the
\* bytes of another, however lengths are cut or announced (parser.go:198-342).
FieldsInOrder ==
  status = "fields" =>
    /\ pos <= size
    /\ \A f \in DOMAIN fields :
         /\ HeaderLength <= fields[f].from
         /\ fields[f].from <= fields[f].to
         /\ fields[f].to <= pos
         /\ \A g \in DOMAIN fields : f < g => fields[f].to <= fields[g].from

\* A message that is returned has a value for every bit that was set, empty
\* where the stream had ended, and in BCD mode a merchant type always
\* (parser.go:211-228, 344-349).
NothingForgotten ==
  status = "ok" =>
    DOMAIN fields = (bits \ {1}) \cup (IF mode = "bcd" THEN {18} ELSE {})

\* A value is shorter than it should be only where the BCD stream ends, but
\* for F11, which ends before the last two bytes; an ASCII value never is
\* (parser.go:219-237, 259-261, 281-283, 297-299).
OnlyTheEndIsCut ==
  \A f \in DOMAIN fields :
    LET v == fields[f] IN
    IF mode = "ascii" THEN v.to - v.from = v.want
    ELSE v.to - v.from < BcdBytes(v.want) => f = 11 \/ v.to = size

\* F11 and the merchant type that is read from the last two bytes have no byte
\* in common (parser.go:220-223, 344-349).
StanSparesMerchantType ==
  mode = "bcd" /\ 11 \in DOMAIN fields =>
    fields[11].from = fields[11].to \/ fields[11].to <= size - 2

\* Whatever a BCD message holds, no slice or index leaves it: the parser
\* returns a message or an error (parser.go:208-291).
BcdNeverPanics == mode = "bcd" => status # "panic"

\* The bytes that field f may take.  In ASCII mode no LLLVAR length is compared
\* with the maximum: what keeps one within 999 is that its prefix has three
\* characters, and F54, the one of another maximum, may be longer than its 120.
Room(f) == CASE mode = "bcd"              -> BcdBytes(Length(f))
             [] mode = "ascii" /\ f = 54 -> 999
             [] OTHER                     -> Length(f)

\* No value is longer than the table de allows, whatever its prefix announces,
\* F54 of an ASCII message excepted (parser.go:32, 63, 256-258, 278-280,
\* 315-317, 329-335).
ValuesFit ==
  \A f \in DOMAIN fields : fields[f].to - fields[f].from <= Room(f)

(***************************************************************************)
(* Between two fields, the loop stands inside the message and the fields   *)
(* it has done are the ones before those it has not: with the promises     *)
(* above, an invariant that every step preserves (parser.go:176-349).      *)
(***************************************************************************)
Walking ==
  status = "fields" =>
    /\ size >= 12 /\ HeaderLength <= pos /\ pos <= size
    /\ 1 \notin todo /\ DOMAIN fields = (bits \ {1}) \ todo
    /\ \A f \in DOMAIN fields, g \in todo : f < g

ParserInv == /\ ParserTypeOK
             /\ status = "start" => fields = <<>>
             /\ Walking
             /\ FieldsInOrder
             /\ NothingForgotten
             /\ OnlyTheEndIsCut
             /\ StanSparesMerchantType
             /\ BcdNeverPanics

\* What the comment at parser.go:5 says of malformed input: the answer is a
\* specific parse error.
ErrorsAreReported == status # "panic"
=============================================================================
