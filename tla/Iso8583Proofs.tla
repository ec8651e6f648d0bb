--------------------------- MODULE Iso8583Proofs ---------------------------
(***************************************************************************)
(* Proofs about Iso8583: ParserInv is inductive, for messages of every     *)
(* length, with every set of bits and every number in a length prefix.     *)
(***************************************************************************)
EXTENDS Iso8583, TLAPS

\* Every listed field has a positive length (parser.go:36-79).
LEMMA LengthPositive == \A f \in Known : Length(f) \in Nat \ {0}
  BY DEF Known, Fixed, LLVar, LLLVar, Length

\* Rounding digits up to bytes gives a natural number (parser.go:232, 258, 281).
LEMMA BcdBytesNat == \A n \in Nat : BcdBytes(n) \in Nat
  BY DEF BcdBytes

\* The header is ten, twelve, eighteen or twenty bytes (parser.go:156-190).
LEMMA HeaderLengthNat == HeaderLength \in Nat
  BY DEF HeaderLength

\* Initially nothing has been read.
LEMMA InitInv == Init => ParserInv
<1> SUFFICES ASSUME Init PROVE ParserInv
  OBVIOUS
<1>1. DOMAIN fields = {}
  BY DEF Init
<1> QED
  BY <1>1, SizesAssumption
  DEF Init, ParserInv, ParserTypeOK, Walking, FieldsInOrder, NothingForgotten,
      OnlyTheEndIsCut, StanSparesMerchantType, BcdNeverPanics

\* A step that ends the parse with an error keeps the invariant.
LEMMA EndInv ==
  ASSUME ParserInv, NEW how \in {"error", "panic"}, End(how),
         mode = "bcd" => how # "panic"
  PROVE  ParserInv'
  BY SMTT(30) DEF End, input, ParserInv, ParserTypeOK, Walking, FieldsInOrder,
         NothingForgotten, OnlyTheEndIsCut, StanSparesMerchantType,
         BcdNeverPanics, HeaderLength, Values

(***************************************************************************)
(* Taking a value keeps the invariant: if in BCD mode it lies inside the   *)
(* message, is cut at the limit only, and is not negative; in ASCII mode   *)
(* if it has the length that was asked for.                                *)
(***************************************************************************)
LEMMA TakeInv ==
  ASSUME ParserInv, NEW f \in bits, IsNext(f),
         NEW p \in Nat, NEW n \in Int, NEW want \in Int,
         pos <= p, Take(f, p, n, want),
         mode = "ascii" => n = want,
         mode = "bcd" => /\ want \in Nat /\ n >= 0 /\ p + n <= size
                         /\ n < BcdBytes(want) => f = 11 \/ p + n = size
                         /\ f = 11 => n = 0 \/ p + n <= size - 2
  PROVE  ParserInv'
<1>1. CASE ~(0 <= p /\ p <= p + n /\ p + n <= size)
  <2>1. End("panic")
    BY <1>1 DEF Take
  <2>2. size \in Nat
    BY SizesAssumption DEF ParserInv, ParserTypeOK
  <2>3. mode # "bcd"
    BY <1>1, <2>2
  <2> QED
    BY <2>1, <2>3, EndInv
<1>2. CASE 0 <= p /\ p <= p + n /\ p + n <= size
  <2> DEFINE v == [from |-> p, to |-> p + n, want |-> want]
  <2>1. /\ fields' = With(f, v)
        /\ pos' = p + n
        /\ todo' = todo \ {f}
        /\ mode' = mode /\ size' = size /\ bits' = bits /\ status' = status
    BY <1>2 DEF Take, input
  <2>2. /\ n \in Nat /\ want \in Nat /\ p + n \in Nat /\ size \in Nat
        /\ pos \in Nat /\ HeaderLength \in Nat /\ HeaderLength' = HeaderLength
    BY <1>2, <2>1, SizesAssumption, HeaderLengthNat
    DEF ParserInv, ParserTypeOK, HeaderLength
  <2>3. /\ status = "fields" /\ f \in todo /\ \A g \in todo : f <= g
        /\ f # 1 /\ f \in Int
    BY BitSetsAssumption DEF IsNext, ParserInv, ParserTypeOK, Walking
  <2>4. /\ DOMAIN fields' = DOMAIN fields \cup {f}
        /\ fields'[f] = v
        /\ \A g \in DOMAIN fields : g # f => fields'[g] = fields[g]
    BY <2>1 DEF With
  <2>5. /\ DOMAIN fields = (bits \ {1}) \ todo
        /\ \A g \in DOMAIN fields : g < f /\ g \in Int
    BY <2>3, BitSetsAssumption DEF ParserInv, ParserTypeOK, Walking
  <2> HIDE DEF v
  <2>6. v.from = p /\ v.to = p + n /\ v.want = want /\ v \in Values
    BY <2>2 DEF v, Values
  <2>7. ParserTypeOK'
    BY <2>1, <2>2, <2>4, <2>5, <2>6 DEF ParserInv, ParserTypeOK
  <2>8. Walking'
    <3>1. \A g \in todo' : g \in Int /\ f < g
      <4>1. todo' = todo \ {f} /\ todo \subseteq bits
        BY <2>1 DEF ParserInv, ParserTypeOK
      <4>2. \A g \in bits : g \in Int
        <5>1. bits \in BitSets
          BY DEF ParserInv, ParserTypeOK
        <5> QED
          BY <5>1, BitSetsAssumption
      <4> QED
        BY <2>3, <4>1, <4>2
    <3>2. \A h \in DOMAIN fields', g \in todo' : h < g
      BY <2>1, <2>3, <2>4, <3>1 DEF ParserInv, Walking
    <3> QED
      BY <1>2, <2>1, <2>2, <2>3, <2>4, <2>5, <3>2 DEF ParserInv, Walking
  <2>9. FieldsInOrder'
    <3> SUFFICES /\ pos' <= size
                 /\ \A h \in DOMAIN fields' :
                      /\ HeaderLength <= fields'[h].from
                      /\ fields'[h].from <= fields'[h].to
                      /\ fields'[h].to <= pos'
                      /\ \A g \in DOMAIN fields' :
                           h < g => fields'[h].to <= fields'[g].from
      BY <2>1, <2>2 DEF FieldsInOrder
    <3>1. pos' <= size /\ pos <= pos' /\ HeaderLength <= p
      BY <1>2, <2>1, <2>2, <2>3 DEF ParserInv, Walking
    <3>2. \A h \in DOMAIN fields :
            /\ fields[h] \in Values
            /\ HeaderLength <= fields[h].from
            /\ fields[h].from <= fields[h].to
            /\ fields[h].to <= pos
            /\ \A g \in DOMAIN fields : h < g => fields[h].to <= fields[g].from
      BY <2>3 DEF ParserInv, ParserTypeOK, FieldsInOrder
    <3>3. \A h \in DOMAIN fields : fields[h].to <= p /\ fields[h].to <= pos'
      BY <2>1, <2>2, <3>1, <3>2 DEF Values
    <3>4. \A h \in DOMAIN fields' : h = f \/ (h \in DOMAIN fields /\ h # f)
      BY <2>4
    <3>5. ASSUME NEW h \in DOMAIN fields'
          PROVE  /\ HeaderLength <= fields'[h].from
                 /\ fields'[h].from <= fields'[h].to
                 /\ fields'[h].to <= pos'
      BY <2>1, <2>2, <2>4, <2>6, <3>1, <3>2, <3>3, <3>4
    <3>6. ASSUME NEW h \in DOMAIN fields', NEW g \in DOMAIN fields', h < g
          PROVE  fields'[h].to <= fields'[g].from
      <4>1. CASE h = f
        BY <2>3, <2>5, <3>4, <3>6, <4>1
      <4>2. CASE h # f /\ g = f
        BY <2>4, <2>6, <3>3, <3>4, <4>2
      <4>3. CASE h # f /\ g # f
        BY <2>4, <3>2, <3>4, <3>6, <4>3
      <4> QED
        BY <4>1, <4>2, <4>3
    <3> QED
      BY <3>1, <3>5, <3>6
  <2>10. OnlyTheEndIsCut'
    <3>1. mode = "ascii" => v.to - v.from = v.want
      BY <2>2, <2>6
    <3>2. mode # "ascii" =>
            (v.to - v.from < BcdBytes(v.want) => f = 11 \/ v.to = size)
      <4>1. v.to - v.from = n
        BY <2>2, <2>6
      <4> QED
        BY <4>1, <2>6 DEF ParserInv, ParserTypeOK
    <3> QED
      BY <2>1, <2>4, <3>1, <3>2 DEF ParserInv, OnlyTheEndIsCut, BcdBytes
  <2>11. StanSparesMerchantType'
    <3>1. f = 11 /\ mode = "bcd" => v.from = v.to \/ v.to <= size - 2
      BY <2>2, <2>6
    <3> QED
      BY <2>1, <2>4, <3>1 DEF ParserInv, StanSparesMerchantType
  <2> QED
    BY <2>1, <2>3, <2>7, <2>8, <2>9, <2>10, <2>11
    DEF ParserInv, NothingForgotten, BcdNeverPanics
<1> QED
  BY <1>1, <1>2

----------------------------------------------------------------------------
\* A field that the loop comes to while it is inside the message, and its
\* limit there.
LEMMA AtField ==
  ASSUME ParserInv, NEW f \in bits, IsNext(f)
  PROVE  /\ status = "fields" /\ mode \in {"ascii", "bcd"} /\ f \in Int
         /\ size \in Nat /\ size >= 12 /\ pos \in Nat /\ pos <= size
         /\ Limit(f) \in Nat /\ Limit(f) <= size
         /\ f = 11 => Limit(f) = size - 2
         /\ f # 11 => Limit(f) = size
  BY SizesAssumption, BitSetsAssumption
  DEF IsNext, ParserInv, ParserTypeOK, Walking, Limit

\* An empty value keeps the invariant.
LEMMA EmptyInv ==
  ASSUME ParserInv, NEW f \in bits, IsNext(f), Empty(f)
  PROVE  ParserInv'
<1>1. ~(0 < BcdBytes(0))
  BY DEF BcdBytes
<1> QED
  BY <1>1, AtField, TakeInv DEF Empty

\* A BCD value, cut at the limit, keeps the invariant (parser.go:230-290).
LEMMA TakeBcdInv ==
  ASSUME ParserInv, NEW f \in bits, IsNext(f), mode = "bcd",
         NEW head \in Nat, NEW want \in Nat,
         pos + head <= Limit(f), TakeBcd(f, head, want)
  PROVE  ParserInv'
<1> DEFINE p == pos + head
           room == Limit(f) - p
           n == IF BcdBytes(want) <= room THEN BcdBytes(want) ELSE room
<1>1. p \in Nat /\ pos <= p /\ p <= Limit(f) /\ room \in Nat
  BY AtField
<1>2. BcdBytes(want) \in Nat
  BY BcdBytesNat
<1>3. Take(f, p, n, want)
  BY <1>1 DEF TakeBcd
<1>4. /\ n \in Nat /\ p + n <= Limit(f)
      /\ n < BcdBytes(want) => p + n = Limit(f)
  BY <1>1, <1>2, AtField
<1> HIDE DEF p, n
<1> QED
  BY <1>1, <1>3, <1>4, AtField, TakeInv

\* So does an ASCII value, whose length may be negative and then ends the
\* program (parser.go:294-341).
LEMMA TakeAsciiInv ==
  ASSUME ParserInv, NEW f \in bits, IsNext(f), mode = "ascii",
         NEW head \in Nat, NEW n \in Int, TakeAscii(f, head, n)
  PROVE  ParserInv'
<1>1. CASE pos + head + n > size
  BY <1>1, EndInv DEF TakeAscii
<1>2. CASE ~(pos + head + n > size)
  <2>1. Take(f, pos + head, n, n)
    BY <1>2 DEF TakeAscii
  <2>2. pos + head \in Nat /\ pos <= pos + head
    BY AtField
  <2> QED
    BY <2>1, <2>2, TakeInv
<1> QED
  BY <1>1, <1>2

----------------------------------------------------------------------------
\* Every step of the parser keeps the invariant.
LEMMA NextInv == ParserInv /\ [Next]_vars => ParserInv'
<1> SUFFICES ASSUME ParserInv, [Next]_vars PROVE ParserInv'
  OBVIOUS
<1>1. CASE UNCHANGED vars
  BY <1>1 DEF vars, input, ParserInv, ParserTypeOK, Walking, FieldsInOrder,
              NothingForgotten, OnlyTheEndIsCut, StanSparesMerchantType,
              BcdNeverPanics, HeaderLength
<1>2. CASE BadHeader
  BY <1>2, EndInv DEF BadHeader
<1>3. CASE Header
  <2>1. /\ mode' = mode /\ size' = size /\ bits' = bits /\ fields' = fields
        /\ status = "start" /\ status' = "fields" /\ fields = <<>>
        /\ pos' = HeaderLength /\ todo' = bits \ {1} /\ HeaderLength' = HeaderLength
        /\ size >= 12 /\ size >= HeaderLength /\ size \in Nat
    BY <1>3, SizesAssumption DEF Header, input, ParserInv, ParserTypeOK, HeaderLength
  <2>2. DOMAIN fields' = {}
    BY <2>1
  <2>3. ParserTypeOK' /\ Walking'
    BY <2>1, <2>2, HeaderLengthNat DEF ParserInv, ParserTypeOK, Walking
  <2> QED
    BY <2>1, <2>2, <2>3, HeaderLengthNat
    DEF ParserInv, FieldsInOrder, NothingForgotten, OnlyTheEndIsCut,
        StanSparesMerchantType, BcdNeverPanics
<1>4. CASE Finish
  <2>1. /\ mode' = mode /\ size' = size /\ bits' = bits /\ todo' = todo /\ pos' = pos
        /\ status = "fields" /\ status' = "ok" /\ todo = {}
        /\ DOMAIN fields = bits \ {1} /\ size >= 12 /\ size \in Nat
    BY <1>4, SizesAssumption DEF Finish, input, ParserInv, ParserTypeOK, Walking
  <2>2. CASE mode = "bcd"
    <3>1. fields' = With(18, MerchantType)
      BY <1>4, <2>2 DEF Finish
    <3>2. /\ DOMAIN fields' = DOMAIN fields \cup {18}
          /\ fields'[18] = MerchantType
          /\ \A g \in DOMAIN fields : g # 18 => fields'[g] = fields[g]
      BY <3>1 DEF With
    <3>3. MerchantType \in Values /\ MerchantType.to = size
      BY <2>1 DEF MerchantType, Values
    <3>4. ParserTypeOK' /\ Walking' /\ FieldsInOrder' /\ NothingForgotten'
      BY <2>1, <2>2, <3>2, <3>3
      DEF ParserInv, ParserTypeOK, Walking, FieldsInOrder, NothingForgotten
    <3>5. OnlyTheEndIsCut' /\ StanSparesMerchantType' /\ BcdNeverPanics'
      BY <2>1, <2>2, <3>2, <3>3
      DEF ParserInv, OnlyTheEndIsCut, StanSparesMerchantType, BcdNeverPanics, BcdBytes
    <3> QED
      BY <2>1, <3>4, <3>5 DEF ParserInv
  <2>3. CASE mode # "bcd"
    <3>1. fields' = fields
      BY <1>4, <2>3 DEF Finish
    <3> QED
      BY <2>1, <2>3, <3>1
      DEF ParserInv, ParserTypeOK, Walking, FieldsInOrder, NothingForgotten,
          OnlyTheEndIsCut, StanSparesMerchantType, BcdNeverPanics
  <2> QED
    BY <2>2, <2>3
<1>5. ASSUME NEW f \in bits, Unknown(f) PROVE ParserInv'
  BY <1>5, EndInv DEF Unknown
<1>6. ASSUME NEW f \in bits, BcdNoPan(f) \/ BcdExhausted(f) PROVE ParserInv'
  BY <1>6, EmptyInv DEF BcdNoPan, BcdExhausted
<1>7. ASSUME NEW f \in bits, BcdFixed(f) PROVE ParserInv'
  <2>1. /\ IsNext(f) /\ mode = "bcd" /\ pos < Limit(f)
        /\ TakeBcd(f, 0, Length(f)) /\ Length(f) \in Nat
    BY <1>7, LengthPositive DEF BcdFixed, Known
  <2>2. pos + 0 <= Limit(f)
    BY <2>1, AtField
  <2> QED
    BY <2>1, <2>2, TakeBcdInv
<1>8. ASSUME NEW f \in bits, BcdVariable(f) PROVE ParserInv'
  <2>1. IsNext(f) /\ mode = "bcd" /\ PrefixBytes(f) \in Nat
    BY <1>8 DEF BcdVariable, PrefixBytes
  <2>2. CASE End("error")
    BY <2>2, EndInv
  <2>3. ASSUME NEW n \in BcdPrefixes(f), TakeBcd(f, PrefixBytes(f), n),
               ~(pos + PrefixBytes(f) > Limit(f))
        PROVE  ParserInv'
    <3>1. n \in Nat
      BY NumbersAssumption DEF BcdPrefixes
    <3>2. pos + PrefixBytes(f) <= Limit(f)
      BY <2>1, <2>3, AtField
    <3> QED
      BY <2>1, <2>3, <3>1, <3>2, TakeBcdInv
  <2> QED
    BY <1>8, <2>2, <2>3 DEF BcdVariable
<1>9. ASSUME NEW f \in bits, AsciiFixed(f) PROVE ParserInv'
  <2>1. /\ IsNext(f) /\ mode = "ascii" /\ TakeAscii(f, 0, Length(f))
        /\ Length(f) \in Int
    BY <1>9, LengthPositive DEF AsciiFixed, Known
  <2> QED
    BY <2>1, TakeAsciiInv
<1>10. ASSUME NEW f \in bits, AsciiVariable(f) PROVE ParserInv'
  <2> DEFINE head == IF f \in LLVar THEN 2 ELSE 3
  <2>1. IsNext(f) /\ mode = "ascii" /\ head \in Nat
    BY <1>10 DEF AsciiVariable
  <2>2. CASE End("error")
    BY <2>2, EndInv
  <2>3. ASSUME NEW n \in AsciiPrefixes(f), TakeAscii(f, head, n)
        PROVE  ParserInv'
    <3>1. n \in Int
      BY NumbersAssumption DEF AsciiPrefixes
    <3> QED
      BY <2>1, <2>3, <3>1, TakeAsciiInv
  <2> QED
    BY <1>10, <2>2, <2>3 DEF AsciiVariable
<1> QED
  BY <1>1, <1>2, <1>3, <1>4, <1>5, <1>6, <1>7, <1>8, <1>9, <1>10 DEF Next

\* The invariant of the parser holds whatever the message is
\* (parser.go:143-352).
THEOREM ParserInvariant == Spec => []ParserInv
  BY InitInv, NextInv, PTL DEF Spec

\* Parse never slices or indexes a BCD message out of its range
\* (parser.go:208-291, 344-349).
THEOREM BcdSafe == Spec => []BcdNeverPanics
<1>1. ParserInv => BcdNeverPanics
  BY DEF ParserInv
<1> QED
  BY <1>1, ParserInvariant, PTL

\* Fields are read from left to right and share no byte (parser.go:198-342).
THEOREM ReadInOrder == Spec => []FieldsInOrder
<1>1. ParserInv => FieldsInOrder
  BY DEF ParserInv
<1> QED
  BY <1>1, ParserInvariant, PTL

\* Only the end of a BCD stream cuts a value short (parser.go:219-237).
THEOREM CutAtEnd == Spec => []OnlyTheEndIsCut
<1>1. ParserInv => OnlyTheEndIsCut
  BY DEF ParserInv
<1> QED
  BY <1>1, ParserInvariant, PTL

\* A parsed message has a value for each of its bits (parser.go:211-228).
THEOREM Complete == Spec => []NothingForgotten
<1>1. ParserInv => NothingForgotten
  BY DEF ParserInv
<1> QED
  BY <1>1, ParserInvariant, PTL

\* F11 stays clear of the bytes that become F18 (parser.go:220-223).
THEOREM MerchantTypeSpared == Spec => []StanSparesMerchantType
<1>1. ParserInv => StanSparesMerchantType
  BY DEF ParserInv
<1> QED
  BY <1>1, ParserInvariant, PTL

----------------------------------------------------------------------------
(* How long a value may be: nothing in ParserInv bounds it by the table. *)

\* More digits never fit into fewer bytes.
LEMMA BcdBytesMonotone ==
  ASSUME NEW m \in Nat, NEW n \in Nat, m <= n
  PROVE  BcdBytes(m) <= BcdBytes(n)
  BY DEF BcdBytes

\* Every field has some room, listed or not.
LEMMA RoomNat == ASSUME NEW f PROVE Length(f) \in Nat /\ Room(f) \in Nat
<1>1. Length(f) \in Nat
  BY DEF Length
<1> QED
  BY <1>1, BcdBytesNat DEF Room

\* Ending the parse adds no value.
LEMMA EndFits ==
  ASSUME ValuesFit, NEW how, End(how)
  PROVE  ValuesFit'
  BY DEF End, input, ValuesFit, Room

\* Taking a value that has room keeps all of them within theirs.
LEMMA TakeFits ==
  ASSUME ParserInv, ValuesFit, NEW f \in bits, NEW p \in Nat, NEW n \in Int,
         NEW want, Take(f, p, n, want),
         n <= Room(f)
  PROVE  ValuesFit'
<1>1. CASE End("panic")
  BY <1>1, EndFits
<1>2. CASE ~End("panic")
  <2> DEFINE v == [from |-> p, to |-> p + n, want |-> want]
  <2>1. fields' = With(f, v) /\ mode' = mode
    BY <1>2 DEF Take, input
  <2>2. /\ DOMAIN fields' = DOMAIN fields \cup {f}
        /\ fields'[f] = v
        /\ \A g \in DOMAIN fields : g # f => fields'[g] = fields[g]
    BY <2>1 DEF With
  <2>3. v.to - v.from = n
    OBVIOUS
  <2> HIDE DEF v
  <2>4. \A g \in DOMAIN fields : fields[g].to - fields[g].from <= Room(g)
    BY DEF ValuesFit
  <2>5. \A g \in DOMAIN fields' : fields'[g].to - fields'[g].from <= Room(g)
    BY <2>2, <2>3, <2>4
  <2> QED
    BY <2>1, <2>5 DEF ValuesFit, Room
<1> QED
  BY <1>1, <1>2

\* A BCD value is no longer than the digits that were asked for.
LEMMA TakeBcdFits ==
  ASSUME ParserInv, ValuesFit, NEW f \in bits, IsNext(f), mode = "bcd",
         NEW head \in Nat, NEW want \in Nat, want <= Length(f),
         TakeBcd(f, head, want)
  PROVE  ValuesFit'
<1> DEFINE p == pos + head
           room == IF p <= Limit(f) THEN Limit(f) - p ELSE 0
           n == IF BcdBytes(want) <= room THEN BcdBytes(want) ELSE room
<1>1. p \in Nat /\ room \in Nat
  BY AtField
<1>2. BcdBytes(want) \in Nat /\ BcdBytes(want) <= Room(f)
  BY BcdBytesNat, BcdBytesMonotone, RoomNat DEF Room
<1>3. n \in Int /\ n <= Room(f)
  BY <1>1, <1>2, RoomNat
<1>4. Take(f, p, n, want)
  BY DEF TakeBcd
<1> HIDE DEF p, n
<1> QED
  BY <1>1, <1>3, <1>4, TakeFits

\* An ASCII value has the length that was announced or is fixed.
LEMMA TakeAsciiFits ==
  ASSUME ParserInv, ValuesFit, NEW f \in bits, IsNext(f), mode = "ascii",
         NEW head \in Nat, NEW n \in Int, TakeAscii(f, head, n),
         n <= Room(f)
  PROVE  ValuesFit'
<1>1. CASE pos + head + n > size
  BY <1>1, EndFits DEF TakeAscii
<1>2. CASE ~(pos + head + n > size)
  <2>1. Take(f, pos + head, n, n) /\ pos + head \in Nat
    BY <1>2, AtField DEF TakeAscii
  <2> QED
    BY <2>1, TakeFits
<1> QED
  BY <1>1, <1>2

\* No step makes a value longer than the table allows.
LEMMA FitsStep == ParserInv /\ ValuesFit /\ [Next]_vars => ValuesFit'
<1> SUFFICES ASSUME ParserInv, ValuesFit, [Next]_vars PROVE ValuesFit'
  OBVIOUS
<1>1. CASE UNCHANGED vars \/ Header
  BY <1>1 DEF vars, input, Header, ValuesFit, Room
<1>2. CASE BadHeader \/ \E f \in bits : Unknown(f)
  BY <1>2, EndFits DEF BadHeader, Unknown
<1>3. CASE Finish
  <2>1. mode' = mode
    BY <1>3 DEF Finish, input
  <2>2. CASE mode = "bcd"
    <3>1. fields' = With(18, MerchantType)
      BY <1>3, <2>2 DEF Finish
    <3>2. /\ DOMAIN fields' = DOMAIN fields \cup {18}
          /\ fields'[18] = MerchantType
          /\ \A g \in DOMAIN fields : g # 18 => fields'[g] = fields[g]
      BY <3>1 DEF With
    <3>3. MerchantType.to - MerchantType.from <= BcdBytes(Length(18))
      <4>1. size \in Int
        BY SizesAssumption DEF ParserInv, ParserTypeOK
      <4>2. Length(18) = 4 /\ BcdBytes(4) = 2
        BY DEF Length, BcdBytes
      <4> QED
        BY <4>1, <4>2 DEF MerchantType
    <3> QED
      BY <2>1, <2>2, <3>2, <3>3 DEF ValuesFit, Room
  <2>3. CASE mode # "bcd"
    BY <1>3, <2>1, <2>3 DEF Finish, ValuesFit, Room
  <2> QED
    BY <2>2, <2>3
<1>4. ASSUME NEW f \in bits, BcdNoPan(f) \/ BcdExhausted(f) PROVE ValuesFit'
  <2>1. Take(f, pos, 0, 0) /\ IsNext(f)
    BY <1>4 DEF BcdNoPan, BcdExhausted, Empty
  <2> QED
    BY <2>1, AtField, RoomNat, TakeFits
<1>5. ASSUME NEW f \in bits, BcdFixed(f) PROVE ValuesFit'
  <2>1. IsNext(f) /\ mode = "bcd" /\ TakeBcd(f, 0, Length(f))
    BY <1>5 DEF BcdFixed
  <2> QED
    BY <2>1, RoomNat, TakeBcdFits
<1>6. ASSUME NEW f \in bits, BcdVariable(f) PROVE ValuesFit'
  <2>1. IsNext(f) /\ mode = "bcd" /\ PrefixBytes(f) \in Nat
    BY <1>6 DEF BcdVariable, PrefixBytes
  <2>2. CASE End("error")
    BY <2>2, EndFits
  <2>3. ASSUME NEW n \in BcdPrefixes(f), ~(n > Length(f)),
               TakeBcd(f, PrefixBytes(f), n)
        PROVE  ValuesFit'
    <3>1. n \in Nat /\ n <= Length(f)
      BY <2>3, NumbersAssumption, RoomNat DEF BcdPrefixes
    <3> QED
      BY <2>1, <2>3, <3>1, TakeBcdFits
  <2> QED
    BY <1>6, <2>2, <2>3 DEF BcdVariable
<1>7. ASSUME NEW f \in bits, AsciiFixed(f) PROVE ValuesFit'
  <2>1. IsNext(f) /\ mode = "ascii" /\ TakeAscii(f, 0, Length(f))
    BY <1>7 DEF AsciiFixed
  <2>2. Length(f) <= Room(f)
    <3>1. f # 54
      BY <1>7 DEF AsciiFixed, Fixed
    <3> QED
      BY <2>1, <3>1, RoomNat DEF Room
  <2> QED
    BY <2>1, <2>2, RoomNat, TakeAsciiFits
<1>8. ASSUME NEW f \in bits, AsciiVariable(f) PROVE ValuesFit'
  <2> DEFINE head == IF f \in LLVar THEN 2 ELSE 3
  <2>1. /\ IsNext(f) /\ mode = "ascii" /\ head \in Nat
        /\ f \in LLVar \cup LLLVar
    BY <1>8 DEF AsciiVariable
  <2>2. CASE End("error")
    BY <2>2, EndFits
  <2>3. ASSUME NEW n \in AsciiPrefixes(f), ~(f \in LLVar /\ n > Length(f)),
               TakeAscii(f, head, n)
        PROVE  ValuesFit'
    <3>1. n \in Int
      BY NumbersAssumption DEF AsciiPrefixes
    <3>2. n <= Room(f)
      <4>1. CASE f \in LLVar
        <5>1. n <= Length(f) /\ f # 54
          BY <2>3, <3>1, <4>1, RoomNat DEF LLVar
        <5> QED
          BY <2>1, <5>1 DEF Room
      <4>2. CASE f \notin LLVar
        <5>1. n <= 999
          BY <3>1, <4>2 DEF AsciiPrefixes
        <5>2. Room(f) = 999
          BY <2>1, <4>2 DEF Room, Length, LLLVar
        <5> QED
          BY <5>1, <5>2
      <4> QED
        BY <4>1, <4>2
    <3> QED
      BY <2>1, <2>3, <3>1, <3>2, TakeAsciiFits
  <2> QED
    BY <1>8, <2>2, <2>3 DEF AsciiVariable
<1> QED
  BY <1>1, <1>2, <1>3, <1>4, <1>5, <1>6, <1>7, <1>8 DEF Next

\* Only F54 of an ASCII message escapes the table's maximum
\* (parser.go:63, 256-258, 278-280, 315-317, 329-335).
THEOREM LengthsBounded == Spec => []ValuesFit
<1>1. Init => ValuesFit
  BY DEF Init, ValuesFit
<1> QED
  BY <1>1, FitsStep, ParserInvariant, PTL DEF Spec
=============================================================================
