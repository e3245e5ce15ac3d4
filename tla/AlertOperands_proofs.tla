-------------------------- MODULE AlertOperands_proofs --------------------------
(***************************************************************************)
(* Theorems about AlertOperands, for any numbers and any unknown strings,  *)
(* and any rounding of numbers to doubles that DoubleAssumption allows.    *)
(***************************************************************************)
EXTENDS AlertOperands, FiniteSetTheorems, TLAPS

-----------------------------------------------------------------------------
(* The conversions *)

\* The strings an average is shown as.
AverageNames == {"sma10", "sma50", "sma100", "sma200"}

\* A JSON value is a number, a string or null, and nothing else.
LEMMA JSONKinds ==
  ASSUME NEW j \in JSONValues
  PROVE  \/ IsNumber(j) /\ ~IsString(j) /\ j.number \in Numbers /\ j = [number |-> j.number]
         \/ IsString(j) /\ ~IsNumber(j) /\ j.string \in JSONStrings /\ j = [string |-> j.string]
         \/ ~IsNumber(j) /\ ~IsString(j)
<1>1. CASE j \in [number : Numbers] BY <1>1 DEF IsNumber, IsString
<1>2. CASE j \in [string : JSONStrings] BY <1>2 DEF IsNumber, IsString
<1>3. CASE j = [null |-> TRUE] BY <1>3 DEF IsNumber, IsString
<1>4. QED BY <1>1, <1>2, <1>3 DEF JSONValues

\* A number is decoded to at most one double, and a double is encoded to a number
\* that no other double is encoded to.
LEMMA DoubleFacts ==
  /\ \A n \in Numbers : Decode[n] \subseteq Doubles
  /\ \A d \in Doubles : Encode[d] \in Numbers /\ Decode[Encode[d]] = {d}
  /\ \A d, e \in Doubles : Encode[d] = Encode[e] => d = e
<1>1. \A n \in Numbers : Decode[n] \subseteq Doubles BY DoubleAssumption
<1>2. \A d \in Doubles : Encode[d] \in Numbers /\ Decode[Encode[d]] = {d} BY DoubleAssumption
<1>3. ASSUME NEW d \in Doubles, NEW e \in Doubles, Encode[d] = Encode[e] PROVE d = e
  <2>1. {d} = {e} BY <1>2, <1>3
  <2>2. QED BY <2>1
<1>4. QED BY <1>1, <1>2, <1>3

\* The six cases of the oneof.
LEMMA OperandKinds ==
  ASSUME NEW o \in Operands
  PROVE  /\ \/ o.case = "price" /\ o.value \in PriceNames
            \/ o.case = "band" /\ o.value \in BandNames
            \/ o.case = "average" /\ o.value \in {"SMA10", "SMA50", "SMA100", "SMA200"}
            \/ o.case = "strength" /\ o.value = "rsi"
            \/ o.case = "volume" /\ o.value = "volume"
            \/ o.case = "const" /\ o.value \in Doubles
         /\ o = Operand(o.case, o.value)
<1>1. PICK c \in DOMAIN Cases : o \in [case : {c}, value : Cases[c]] BY DEF Operands
<1>2. o.case = c /\ o.value \in Cases[c] /\ o = [case |-> o.case, value |-> o.value] BY <1>1
<1>3. c \in {"price", "band", "average", "strength", "volume", "const"} BY <1>1 DEF Cases
<1>4. /\ Cases["price"] = PriceNames /\ Cases["band"] = BandNames
      /\ Cases["average"] = {"SMA10", "SMA50", "SMA100", "SMA200"}
      /\ Cases["strength"] = {"rsi"} /\ Cases["volume"] = {"volume"}
      /\ Cases["const"] = Doubles
  BY DEF Cases
<1>5. QED BY <1>2, <1>3, <1>4 DEF Operand

\* Whatever has a case and a value of it is an operand.
LEMMA OperandOf ==
  /\ \A v \in PriceNames : Operand("price", v) \in Operands
  /\ \A v \in BandNames : Operand("band", v) \in Operands
  /\ \A v \in {"SMA10", "SMA50", "SMA100", "SMA200"} : Operand("average", v) \in Operands
  /\ Operand("strength", "rsi") \in Operands
  /\ Operand("volume", "volume") \in Operands
  /\ \A v \in Doubles : Operand("const", v) \in Operands
<1>1. ASSUME NEW c \in DOMAIN Cases, NEW v \in Cases[c] PROVE Operand(c, v) \in Operands
  BY DEF Operand, Operands
<1>2. DOMAIN Cases = {"price", "band", "average", "strength", "volume", "const"} BY DEF Cases
<1>3. /\ Cases["price"] = PriceNames /\ Cases["band"] = BandNames
      /\ Cases["average"] = {"SMA10", "SMA50", "SMA100", "SMA200"}
      /\ Cases["strength"] = {"rsi"} /\ Cases["volume"] = {"volume"}
      /\ Cases["const"] = Doubles
  BY DEF Cases
<1>4. QED BY <1>1, <1>2, <1>3

\* What an operand is shown as.
LEMMA ShownOperand ==
  ASSUME NEW o \in Operands
  PROVE  /\ o.case = "const" => ToJSON(o) = [number |-> Encode[o.value]]
         /\ o.case = "average" =>
              \/ o.value = "SMA10" /\ ToJSON(o) = [string |-> "sma10"]
              \/ o.value = "SMA50" /\ ToJSON(o) = [string |-> "sma50"]
              \/ o.value = "SMA100" /\ ToJSON(o) = [string |-> "sma100"]
              \/ o.value = "SMA200" /\ ToJSON(o) = [string |-> "sma200"]
         /\ o.case \in {"price", "band", "strength", "volume"} =>
              ToJSON(o) = [string |-> o.value]
<1>1. /\ SmaFromProto["SMA10"] = "sma10" /\ SmaFromProto["SMA50"] = "sma50"
      /\ SmaFromProto["SMA100"] = "sma100" /\ SmaFromProto["SMA200"] = "sma200"
  BY DEF SmaFromProto
<1>2. QED BY <1>1, OperandKinds DEF ToJSON

\* A string shows its case: the names of the cases have nothing in common.
LEMMA ShownString ==
  ASSUME NEW o \in Operands, o.case # "const"
  PROVE  \E s \in DocumentedNames :
           /\ ToJSON(o) = [string |-> s]
           /\ s \in PriceNames <=> o.case = "price"
           /\ s \in BandNames <=> o.case = "band"
           /\ s \in AverageNames <=> o.case = "average"
           /\ s = "rsi" <=> o.case = "strength"
           /\ s = "volume" <=> o.case = "volume"
<1> USE DEF DocumentedNames, DocumentedPriceNames, PriceNames, BandNames, AverageNames, NicheNames
<1>1. CASE o.case = "average" BY <1>1, ShownOperand
<1>2. CASE o.case \in {"price", "band", "strength", "volume"}
  <2>1. ToJSON(o) = [string |-> o.value] BY <1>2, ShownOperand
  <2>2. QED BY <1>2, <2>1, OperandKinds
<1>3. QED BY <1>1, <1>2, OperandKinds

\* protoOperandToJSON keeps operands apart, and yields what a body may hold.
LEMMA ToJSONInjective ==
  ASSUME NEW o \in Operands
  PROVE  /\ ToJSON(o) \in JSONValues
         /\ \A other \in Operands : ToJSON(other) = ToJSON(o) => other = o
<1>1. ToJSON(o) \in JSONValues
  <2>1. CASE o.case = "const"
    <3>1. ToJSON(o) = [number |-> Encode[o.value]] /\ Encode[o.value] \in Numbers
      BY <2>1, ShownOperand, OperandKinds, DoubleFacts
    <3>2. QED BY <3>1 DEF JSONValues
  <2>2. CASE o.case # "const"
    <3>1. PICK s \in DocumentedNames : ToJSON(o) = [string |-> s] BY <2>2, ShownString
    <3>2. s \in JSONStrings BY DEF JSONStrings
    <3>3. QED BY <3>1, <3>2 DEF JSONValues
  <2>3. QED BY <2>1, <2>2
<1>2. ASSUME NEW other \in Operands, ToJSON(other) = ToJSON(o) PROVE other = o
  <2>1. \A n, s : [number |-> n] # [string |-> s]
    <3>1. SUFFICES ASSUME NEW n, NEW s, [number |-> n] = [string |-> s] PROVE FALSE OBVIOUS
    <3>2. DOMAIN [number |-> n] = {"number"} /\ DOMAIN [string |-> s] = {"string"} OBVIOUS
    <3>3. "number" # "string" OBVIOUS
    <3>4. QED BY <3>1, <3>2, <3>3
  <2>2. \A n, m : [number |-> n] = [number |-> m] => n = m
    <3>1. SUFFICES ASSUME NEW n, NEW m, [number |-> n] = [number |-> m] PROVE n = m OBVIOUS
    <3>2. [number |-> n].number = n /\ [number |-> m].number = m OBVIOUS
    <3>3. QED BY <3>1, <3>2
  <2>3. \A s, t : [string |-> s] = [string |-> t] => s = t
    <3>1. SUFFICES ASSUME NEW s, NEW t, [string |-> s] = [string |-> t] PROVE s = t OBVIOUS
    <3>2. [string |-> s].string = s /\ [string |-> t].string = t OBVIOUS
    <3>3. QED BY <3>1, <3>2
  <2>4. other.case = o.case /\ other.value = o.value
    <3>1. CASE o.case = "const"
      <4>1. ToJSON(o) = [number |-> Encode[o.value]] BY <3>1, ShownOperand
      <4>2. other.case = "const" BY <1>2, <4>1, <2>1, ShownString
      <4>3. Encode[other.value] = Encode[o.value] BY <1>2, <4>1, <4>2, <2>2, ShownOperand
      <4>4. QED BY <3>1, <4>2, <4>3, OperandKinds, DoubleFacts
    <3>2. CASE o.case # "const"
      <4>1. other.case # "const"
        <5>1. PICK s : ToJSON(o) = [string |-> s] BY <3>2, ShownString
        <5>2. QED BY <1>2, <2>1, <5>1, ShownOperand
      <4>2. other.case = o.case
        BY <1>2, <2>3, <3>2, <4>1, ShownString, OperandKinds
      <4>3. other.value = o.value
        <5>1. CASE o.case = "average" BY <1>2, <2>3, <4>2, <5>1, ShownOperand
        <5>2. CASE o.case # "average"
          BY <1>2, <2>3, <3>2, <4>2, <5>2, ShownOperand, OperandKinds
        <5>3. QED BY <5>1, <5>2
      <4>4. QED BY <4>2, <4>3
    <3>3. QED BY <3>1, <3>2
  <2>5. QED BY <2>4, OperandKinds
<1>3. QED BY <1>1, <1>2

\* A string converts by its name, in one of the five ways.
LEMMA FromString ==
  ASSUME NEW j, IsString(j), ~IsNumber(j), NEW o \in FromJSON(j)
  PROVE  \/ j.string \in PriceNames /\ o = Operand("price", j.string)
         \/ j.string \in BandNames /\ o = Operand("band", j.string)
         \/ j.string = "sma10" /\ o = Operand("average", "SMA10")
         \/ j.string = "sma50" /\ o = Operand("average", "SMA50")
         \/ j.string = "ma100" /\ o = Operand("average", "SMA100")
         \/ j.string = "ma200" /\ o = Operand("average", "SMA200")
         \/ j.string = "rsi" /\ o = Operand("strength", "rsi")
         \/ j.string = "volume" /\ o = Operand("volume", "volume")
<1>1. /\ DOMAIN SmaFromJSON = {"sma10", "sma50", "ma100", "ma200"}
      /\ SmaFromJSON["sma10"] = "SMA10" /\ SmaFromJSON["sma50"] = "SMA50"
      /\ SmaFromJSON["ma100"] = "SMA100" /\ SmaFromJSON["ma200"] = "SMA200"
  BY DEF SmaFromJSON
<1>2. \/ j.string \in PriceNames /\ o = Operand("price", j.string)
      \/ j.string \in BandNames /\ o = Operand("band", j.string)
      \/ j.string \in DOMAIN SmaFromJSON /\ o = Operand("average", SmaFromJSON[j.string])
      \/ j.string = "rsi" /\ o = Operand("strength", "rsi")
      \/ j.string = "volume" /\ o = Operand("volume", "volume")
  BY DEF FromJSON
<1>3. QED BY <1>1, <1>2

\* What j is to be shown as once it was accepted.
ShownAs(j, k) ==
    /\ Exact(j) => k = j
    /\ IsNumber(j) => IsNumber(k) /\ Decode[k.number] = Decode[j.number]

\* jsonToProtoOperand yields at most one operand, and what is documented and
\* converted is shown again.
LEMMA FromJSONOperand ==
  ASSUME NEW j \in JSONValues
  PROVE  /\ FromJSON(j) \subseteq Operands
         /\ \A o, p \in FromJSON(j) : o = p
         /\ DocumentedOperand(j) => \A o \in FromJSON(j) : ShownAs(j, ToJSON(o))
<1>1. CASE IsNumber(j)
  <2>1. FromJSON(j) = {Operand("const", d) : d \in Decode[j.number]} BY <1>1 DEF FromJSON
  <2>2. j.number \in Numbers /\ j = [number |-> j.number] BY <1>1, JSONKinds
  <2>3. /\ Decode[j.number] \subseteq Doubles
        /\ \A d, e \in Decode[j.number] : d = e
    BY <2>2, DoubleAssumption
  <2>4. FromJSON(j) \subseteq Operands BY <2>1, <2>3, OperandOf
  <2>5. \A o, p \in FromJSON(j) : o = p BY <2>1, <2>3
  <2>6. ASSUME NEW o \in FromJSON(j) PROVE ShownAs(j, ToJSON(o))
    <3>1. PICK d \in Decode[j.number] : o = Operand("const", d) BY <2>1
    <3>2. ToJSON(o) = [number |-> Encode[d]] BY <3>1 DEF ToJSON, Operand
    <3>3. d \in Doubles /\ Decode[j.number] = {d} BY <2>3
    <3>4. IsNumber(ToJSON(o)) /\ Decode[ToJSON(o).number] = Decode[j.number]
      BY <3>2, <3>3, DoubleFacts DEF IsNumber
    <3>5. ASSUME Exact(j) PROVE ToJSON(o) = j
      <4>1. PICK e \in Doubles : Encode[e] = j.number BY <1>1, <3>5 DEF Exact
      <4>2. {e} = {d} BY <3>3, <4>1, DoubleFacts
      <4>3. QED BY <2>2, <3>2, <4>1, <4>2
    <3>6. QED BY <3>4, <3>5 DEF ShownAs
  <2>7. QED BY <2>4, <2>5, <2>6
<1>2. CASE ~IsNumber(j) /\ ~IsString(j)
  <2>1. FromJSON(j) = {Operand("const", 0)} BY <1>2 DEF FromJSON
  <2>2. ~DocumentedOperand(j) BY <1>2 DEF DocumentedOperand
  <2>3. QED BY <2>1, <2>2, OperandOf, DoubleAssumption
<1>3. CASE IsString(j) /\ ~IsNumber(j)
  <2>1. j = [string |-> j.string] BY <1>3, JSONKinds
  <2>2. ASSUME NEW o \in FromJSON(j) PROVE o \in Operands BY <1>3, <2>2, FromString, OperandOf
  <2>3. ASSUME NEW o \in FromJSON(j), NEW p \in FromJSON(j) PROVE o = p
    BY <1>3, <2>3, FromString DEF PriceNames, BandNames
  <2>4. ASSUME DocumentedOperand(j), NEW o \in FromJSON(j) PROVE ShownAs(j, ToJSON(o))
    <3>1. j.string \in DocumentedNames BY <1>3, <2>4 DEF DocumentedOperand
    <3>2. j.string \notin {"ma100", "ma200"}
      BY <3>1 DEF DocumentedNames, DocumentedPriceNames, PriceNames, BandNames, NicheNames
    <3>3. o \in Operands BY <2>2
    <3>4. ToJSON(o) = [string |-> j.string]
      BY <1>3, <3>2, <3>3, FromString, ShownOperand DEF Operand
    <3>5. QED BY <1>3, <2>1, <3>4 DEF ShownAs
  <2>5. QED BY <2>2, <2>3, <2>4
<1>4. QED BY <1>1, <1>2, <1>3, JSONKinds

\* What a body comes to: at most one pair, of operands that go together.
LEMMA AcceptedPair ==
  ASSUME NEW b \in Bodies
  PROVE  /\ Accepted(b) \subseteq Operands \X Operands
         /\ \A os, ot \in Accepted(b) : os = ot
         /\ \A os \in Accepted(b) : Compatible(os[1], os[2])
<1>1. b[1] \in JSONValues /\ b[2] \in JSONValues BY DEF Bodies
<1>2. \A os \in Accepted(b) : /\ os \in FromJSON(b[1]) \X FromJSON(b[2])
                              /\ Compatible(os[1], os[2])
  BY DEF Accepted
<1>3. FromJSON(b[1]) \subseteq Operands /\ FromJSON(b[2]) \subseteq Operands
  BY <1>1, FromJSONOperand
<1>4. ASSUME NEW os \in Accepted(b), NEW ot \in Accepted(b) PROVE os = ot
  <2>1. /\ os = <<os[1], os[2]>> /\ os[1] \in FromJSON(b[1]) /\ os[2] \in FromJSON(b[2])
        /\ ot = <<ot[1], ot[2]>> /\ ot[1] \in FromJSON(b[1]) /\ ot[2] \in FromJSON(b[2])
    BY <1>2
  <2>2. os[1] = ot[1] /\ os[2] = ot[2] BY <1>1, <2>1, FromJSONOperand
  <2>3. QED BY <2>1, <2>2
<1>5. QED BY <1>2, <1>3, <1>4

\* validateOperandCompatibility is the documented rule: it lets through the
\* operands that are shown as a documented pair, and no others.
LEMMA CompatibleIsDocumented ==
  ASSUME NEW o1 \in Operands, NEW o2 \in Operands
  PROVE  Compatible(o1, o2) <=> DocumentedPair(<<ToJSON(o1), ToJSON(o2)>>)
<1> DEFINE j1 == ToJSON(o1)
           j2 == ToJSON(o2)
<1>1. ASSUME NEW o \in Operands, o.case # "const"
      PROVE  /\ IsString(ToJSON(o)) /\ ToJSON(o).string \in DocumentedNames
             /\ ToJSON(o).string \in DocumentedPriceNames <=> IsPriceBased(o)
  <2>1. PICK s \in DocumentedNames :
          /\ ToJSON(o) = [string |-> s]
          /\ s \in PriceNames <=> o.case = "price"
          /\ s \in BandNames <=> o.case = "band"
          /\ s \in AverageNames <=> o.case = "average"
    BY <1>1, ShownString
  <2>2. s \in DocumentedPriceNames <=> IsPriceBased(o)
    BY <2>1 DEF DocumentedPriceNames, IsPriceBased, AverageNames
  <2>3. QED BY <2>1, <2>2 DEF IsString
<1>2. CASE o1.case = "const"
  <2>1. ~Compatible(o1, o2) BY <1>2 DEF Compatible, IsPriceBased, IsNicheBased
  <2>2. j1 = [number |-> Encode[o1.value]] BY <1>2, ShownOperand
  <2>3. ~IsString(j1) BY <2>2 DEF IsString
  <2>4. QED BY <2>1, <2>3 DEF DocumentedPair
<1>3. CASE o1.case # "const" /\ o2.case = "const"
  <2>1. IsString(j1) /\ j1.string \in DocumentedNames BY <1>1, <1>3
  <2>2. j2 = [number |-> Encode[o2.value]] BY <1>3, ShownOperand
  <2>3. IsNumber(j2) /\ ~IsString(j2) BY <2>2 DEF IsNumber, IsString
  <2>4. DocumentedPair(<<j1, j2>>) BY <2>1, <2>3 DEF DocumentedPair, DocumentedOperand
  <2>5. Compatible(o1, o2)
    BY <1>3, OperandKinds DEF Compatible, IsPriceBased, IsNicheBased, IsConst
  <2>6. QED BY <2>4, <2>5
<1>4. CASE o1.case # "const" /\ o2.case # "const"
  <2>1. /\ IsString(j1) /\ j1.string \in DocumentedNames
        /\ IsString(j2) /\ j2.string \in DocumentedNames
    BY <1>1, <1>4
  <2>2. Compatible(o1, o2) <=> (IsPriceBased(o1) <=> IsPriceBased(o2))
    BY <1>4, OperandKinds DEF Compatible, IsPriceBased, IsNicheBased, IsConst
  <2>3. /\ j1.string \in DocumentedPriceNames <=> IsPriceBased(o1)
        /\ j2.string \in DocumentedPriceNames <=> IsPriceBased(o2)
    BY <1>1, <1>4
  <2>4. QED BY <2>1, <2>2, <2>3 DEF DocumentedPair, DocumentedOperand
<1>5. QED BY <1>2, <1>3, <1>4

\* A documented pair that is converted is shown as a documented pair.
LEMMA ShownStaysDocumented ==
  ASSUME NEW b \in Bodies, DocumentedPair(b),
         NEW o1 \in FromJSON(b[1]), NEW o2 \in FromJSON(b[2])
  PROVE  DocumentedPair(<<ToJSON(o1), ToJSON(o2)>>)
<1>1. b[1] \in JSONValues /\ b[2] \in JSONValues BY DEF Bodies
<1>2. /\ DocumentedOperand(b[1]) /\ DocumentedOperand(b[2]) /\ IsString(b[1])
      /\ IsString(b[2]) =>
           (b[1].string \in DocumentedPriceNames <=> b[2].string \in DocumentedPriceNames)
  BY DEF DocumentedPair
<1>3. ShownAs(b[1], ToJSON(o1)) /\ ShownAs(b[2], ToJSON(o2)) BY <1>1, <1>2, FromJSONOperand
<1>4. ToJSON(o1) = b[1]
  <2>1. ~IsNumber(b[1]) BY <1>1, <1>2, JSONKinds
  <2>2. QED BY <1>3, <2>1 DEF ShownAs, Exact
<1>5. CASE IsString(b[2])
  <2>1. ~IsNumber(b[2]) BY <1>1, <1>5, JSONKinds
  <2>2. ToJSON(o2) = b[2] BY <1>3, <2>1 DEF ShownAs, Exact
  <2>3. QED BY <1>2, <1>4, <2>2 DEF DocumentedPair
<1>6. CASE ~IsString(b[2])
  <2>1. IsNumber(b[2]) BY <1>2, <1>6 DEF DocumentedOperand
  <2>2. IsNumber(ToJSON(o2)) BY <1>3, <2>1 DEF ShownAs
  <2>3. ~IsString(ToJSON(o2))
    <3>1. o2 \in Operands BY <1>1, FromJSONOperand
    <3>2. ToJSON(o2) \in JSONValues BY <3>1, ToJSONInjective
    <3>3. QED BY <2>2, <3>2, JSONKinds
  <2>4. QED BY <1>2, <1>4, <2>2, <2>3 DEF DocumentedPair, DocumentedOperand
<1>7. QED BY <1>5, <1>6

\* What jsonToProtoOperand misses of the documented operands.
Missed(j) == ~InRange(j) \/ (IsString(j) /\ j.string \in {"sma100", "sma200"})

LEMMA DocumentedConverts ==
  ASSUME NEW j \in JSONValues, DocumentedOperand(j)
  PROVE  FromJSON(j) = {} <=> Missed(j)
<1> USE DEF Missed, InRange
<1>1. CASE IsNumber(j)
  <2>1. FromJSON(j) = {} <=> Decode[j.number] = {} BY <1>1 DEF FromJSON
  <2>2. QED BY <1>1, <2>1, JSONKinds
<1>2. CASE IsString(j) /\ ~IsNumber(j) /\ j.string \in {"sma100", "sma200"}
  <2>1. \A o \in FromJSON(j) : FALSE BY <1>2, FromString DEF PriceNames, BandNames
  <2>2. QED BY <1>2, <2>1
<1>3. CASE IsString(j) /\ ~IsNumber(j) /\ j.string \notin {"sma100", "sma200"}
  <2>1. j.string \in DocumentedNames BY <1>3 DEF DocumentedOperand
  <2>2. \/ j.string \in PriceNames \/ j.string \in BandNames
        \/ j.string \in {"sma10", "sma50"} \/ j.string = "rsi" \/ j.string = "volume"
    BY <1>3, <2>1 DEF DocumentedNames, DocumentedPriceNames, NicheNames
  <2>3. {"sma10", "sma50"} \subseteq DOMAIN SmaFromJSON BY DEF SmaFromJSON
  <2>4. FromJSON(j) # {} BY <1>3, <2>2, <2>3 DEF FromJSON
  <2>5. QED BY <1>3, <2>4
<1>4. QED BY <1>1, <1>2, <1>3 DEF DocumentedOperand

-----------------------------------------------------------------------------
(* The inductive invariant *)

\* The service holds at most one pair, whose operands go together.
StoredInv ==
    /\ stored \subseteq Operands \X Operands
    /\ \A os, ot \in stored : os = ot
    /\ \A os \in stored : Compatible(os[1], os[2])

\* What was shown last is what the service holds, and after an answer that says
\* so, this is what the body came to.
ShownInv ==
    /\ shown \in {{}, {Shown(os) : os \in stored}}
    /\ answer \in {"200", "201"} => stored = Accepted(body)

IInv ==
    /\ body \in Bodies /\ answer \in {"none", "200", "201", "400", "500"}
    /\ StoredInv /\ ShownInv

LEMMA InitIInv == Init => IInv
<1> SUFFICES ASSUME Init PROVE IInv OBVIOUS
<1>1. [null |-> TRUE] \in JSONValues BY DEF JSONValues
<1>2. body \in Bodies BY <1>1 DEF Init, Bodies
<1>3. StoredInv /\ ShownInv BY DEF Init, StoredInv, ShownInv
<1>4. QED BY <1>2, <1>3 DEF Init, IInv

LEMMA SendStep ==
  ASSUME IInv, NEW b \in Bodies, NEW ok \in {"200", "201"}, Send(b, ok)
  PROVE  IInv'
<1>1. body' = b BY DEF Send
<1>2. CASE Accepted(b) = {} /\ answer' = "400" /\ shown' = {} /\ UNCHANGED stored
  BY <1>1, <1>2 DEF IInv, StoredInv, ShownInv
<1>3. CASE stored' = Accepted(b) /\ answer' = ok /\ shown' = {Shown(os) : os \in Accepted(b)}
  <2>1. StoredInv' BY <1>3, AcceptedPair DEF StoredInv
  <2>2. ShownInv' BY <1>1, <1>3 DEF ShownInv
  <2>3. QED BY <1>1, <1>3, <2>1, <2>2 DEF IInv
<1>4. CASE stored' = Accepted(b) /\ answer' = "500" /\ shown' = {}
  <2>1. StoredInv' BY <1>4, AcceptedPair DEF StoredInv
  <2>2. QED BY <1>1, <1>4, <2>1 DEF IInv, ShownInv
<1>5. CASE answer' = "500" /\ shown' = {} /\ UNCHANGED stored
  BY <1>1, <1>5 DEF IInv, StoredInv, ShownInv
<1>6. QED BY <1>2, <1>3, <1>4, <1>5 DEF Send

\* A client writes back what it was shown, which a body may hold.
LEMMA ShownIsBody ==
  ASSUME IInv, NEW b \in shown
  PROVE  b \in Bodies
<1>1. PICK os \in stored : b = Shown(os) BY DEF IInv, ShownInv
<1>2. os[1] \in Operands /\ os[2] \in Operands BY DEF IInv, StoredInv
<1>3. QED BY <1>1, <1>2, ToJSONInjective DEF Shown, Bodies

LEMMA NextIInv == IInv /\ [Next]_vars => IInv'
<1> SUFFICES ASSUME IInv, [Next]_vars PROVE IInv' OBVIOUS
<1>1. CASE Create BY <1>1, SendStep DEF Create
<1>2. CASE Update
  <2>1. PICK b \in shown, j \in JSONValues :
          \E c \in {b, <<j, b[2]>>, <<b[1], j>>} : Send(c, "200")
    BY <1>2 DEF Update
  <2>2. PICK c \in {b, <<j, b[2]>>, <<b[1], j>>} : Send(c, "200") BY <2>1
  <2>3. b \in Bodies BY ShownIsBody
  <2>4. c \in Bodies BY <2>3 DEF Bodies
  <2>5. QED BY <2>2, <2>4, SendStep
<1>3. CASE Get BY <1>3 DEF Get, IInv, StoredInv, ShownInv
<1>4. CASE UNCHANGED vars BY <1>4 DEF vars, IInv, StoredInv, ShownInv
<1>5. QED BY <1>1, <1>2, <1>3, <1>4 DEF Next

-----------------------------------------------------------------------------

\* The inductive invariant holds in every state.
THEOREM Invariance == Spec => []IInv
BY InitIInv, NextIInv, PTL DEF Spec

\* The service holds at most one alert, and at most one is shown.
THEOREM TypeCorrect == Spec => []TypeOK
<1>1. ASSUME NEW S, \A x, y \in S : x = y PROVE Cardinality(S) <= 1
  <2>1. CASE S = {} BY <2>1, FS_EmptySet
  <2>2. CASE S # {}
    <3>1. PICK x : S = {x} BY <1>1, <2>2
    <3>2. QED BY <3>1, FS_Singleton
  <2>3. QED BY <2>1, <2>2
<1>2. ASSUME IInv PROVE TypeOK
  <2>1. shown \subseteq Bodies BY <1>2, ShownIsBody
  <2>2. \A b, c \in shown : b = c BY <1>2 DEF IInv, ShownInv, StoredInv
  <2>3. Cardinality(shown) <= 1 BY <1>1, <2>2
  <2>4. Cardinality(stored) <= 1 BY <1>1, <1>2 DEF IInv, StoredInv
  <2>5. QED BY <1>2, <2>1, <2>3, <2>4 DEF IInv, StoredInv, TypeOK
<1>3. QED BY <1>2, Invariance, PTL

\* However an alert is made and edited, only documented pairs are shown of it.
THEOREM DocumentedAlerts == Spec => []ShownIsDocumented
<1>1. ASSUME IInv, NEW b \in shown PROVE DocumentedPair(b)
  <2>1. PICK os \in stored : b = Shown(os) BY <1>1 DEF IInv, ShownInv
  <2>2. os[1] \in Operands /\ os[2] \in Operands /\ Compatible(os[1], os[2])
    BY <1>1 DEF IInv, StoredInv
  <2>3. QED BY <2>1, <2>2, CompatibleIsDocumented DEF Shown
<1>2. IInv => ShownIsDocumented BY <1>1 DEF ShownIsDocumented
<1>3. QED BY <1>2, Invariance, PTL

\* Everything the service is made to store can be shown, and shows what it is.
THEOREM FaithfulAlerts == Spec => []ShownIsFaithful
<1>1. ASSUME IInv, NEW os \in stored, NEW i \in 1 .. 2
      PROVE  /\ ToJSON(os[i]) \in JSONValues
             /\ \A other \in Operands : ToJSON(other) = ToJSON(os[i]) => other = os[i]
  <2>1. i = 1 \/ i = 2 BY <1>1
  <2>2. os[i] \in Operands BY <1>1, <2>1 DEF IInv, StoredInv
  <2>3. QED BY <2>2, ToJSONInjective
<1>2. IInv => ShownIsFaithful BY <1>1 DEF ShownIsFaithful
<1>3. QED BY <1>2, Invariance, PTL

\* A documented pair that is accepted is shown again: strings as they were sent,
\* numbers as doubles are written.
THEOREM RoundTrip == Spec => []AcceptedIsShownAgain
<1>1. ASSUME IInv, answer \in {"200", "201"}, DocumentedPair(body), NEW b \in shown
      PROVE  ShownAs(body[1], b[1]) /\ ShownAs(body[2], b[2])
  <2>1. body \in Bodies /\ stored = Accepted(body) /\ shown = {Shown(os) : os \in stored}
    BY <1>1 DEF IInv, ShownInv
  <2>2. body[1] \in JSONValues /\ body[2] \in JSONValues BY <2>1 DEF Bodies
  <2>3. DocumentedOperand(body[1]) /\ DocumentedOperand(body[2])
    BY <1>1 DEF DocumentedPair
  <2>4. PICK os \in stored : b = Shown(os) BY <1>1, <2>1
  <2>5. os[1] \in FromJSON(body[1]) /\ os[2] \in FromJSON(body[2])
    BY <2>1 DEF Accepted
  <2>6. b[1] = ToJSON(os[1]) /\ b[2] = ToJSON(os[2]) BY <2>4 DEF Shown
  <2>7. QED BY <2>2, <2>3, <2>5, <2>6, FromJSONOperand
<1>2. ASSUME IInv PROVE AcceptedIsShownAgain
  <2>1. SUFFICES ASSUME answer \in {"200", "201"}, DocumentedPair(body),
                        NEW b \in shown, NEW i \in 1 .. 2
                 PROVE  ShownAs(body[i], b[i])
    BY DEF AcceptedIsShownAgain, ShownAs
  <2>2. i = 1 \/ i = 2 OBVIOUS
  <2>3. QED BY <1>1, <1>2, <2>1, <2>2
<1>3. QED BY <1>2, Invariance, PTL

\* Two averages of docs/openapi.yml that jsonToProtoOperand spells otherwise, and
\* numbers out of the range of a double, are all that is refused of what is
\* documented.
THEOREM RefusedDocumented ==
  ASSUME NEW b \in Bodies, DocumentedPair(b)
  PROVE  Accepted(b) = {} <=>
           \E i \in 1 .. 2 :
              ~InRange(b[i]) \/ (IsString(b[i]) /\ b[i].string \in {"sma100", "sma200"})
<1>1. b = <<b[1], b[2]>> /\ b[1] \in JSONValues /\ b[2] \in JSONValues BY DEF Bodies
<1>2. DocumentedOperand(b[1]) /\ DocumentedOperand(b[2]) BY DEF DocumentedPair
<1>3. Accepted(b) = {} <=> FromJSON(b[1]) = {} \/ FromJSON(b[2]) = {}
  <2>1. ASSUME NEW o1 \in FromJSON(b[1]), NEW o2 \in FromJSON(b[2])
        PROVE  <<o1, o2>> \in Accepted(b)
    <3>1. o1 \in Operands /\ o2 \in Operands BY <1>1, FromJSONOperand
    <3>2. DocumentedPair(<<ToJSON(o1), ToJSON(o2)>>) BY ShownStaysDocumented
    <3>3. Compatible(o1, o2) BY <3>1, <3>2, CompatibleIsDocumented
    <3>4. QED BY <3>3 DEF Accepted
  <2>2. \A os \in Accepted(b) : os[1] \in FromJSON(b[1]) /\ os[2] \in FromJSON(b[2])
    BY DEF Accepted
  <2>3. QED BY <2>1, <2>2
<1>4. (FromJSON(b[1]) = {} <=> Missed(b[1])) /\ (FromJSON(b[2]) = {} <=> Missed(b[2]))
  BY <1>1, <1>2, DocumentedConverts
<1>5. \A i \in 1 .. 2 : i = 1 \/ i = 2 OBVIOUS
<1>6. QED BY <1>3, <1>4, <1>5 DEF Missed
=============================================================================
