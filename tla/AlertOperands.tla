---------------------------- MODULE AlertOperands ----------------------------
(***************************************************************************)
(* The operands of an alert: the conversions between the JSON of the API   *)
(* and the messages of the strategy service in                             *)
(* internal/logic/http/strategy.go, and the life of one alert: created,    *)
(* read, and written back by a client that edits what it read.             *)
(***************************************************************************)
EXTENDS Integers, FiniteSets

CONSTANTS
    Numbers,       \* JSON numbers, of any size and precision
    Doubles,       \* the finite values of a float64
    Decode,        \* the double that encoding/json decodes a number to: the nearest
                   \* one, or none if the number is out of range
    Encode,        \* the number it encodes a double to: the shortest one that is
                   \* decoded to the same double
    Unknown        \* the JSON strings that name no operand

ASSUME DoubleAssumption ==
    /\ 0 \in Doubles
    /\ Decode \in [Numbers -> SUBSET Doubles]
    /\ \A n \in Numbers : \A d, e \in Decode[n] : d = e
    /\ Encode \in [Doubles -> Numbers]
    /\ \A d \in Doubles : Decode[Encode[d]] = {d}

PriceNames == {"open", "high", "low", "close"}
BandNames == {"middle", "lower", "upper"}
NicheNames == {"rsi", "volume"}

\* docs/openapi.yml: Price, BollingerBand, SimpleMovingAverage, OperandBasedOnNiche.
DocumentedPriceNames == PriceNames \cup BandNames \cup {"sma10", "sma50", "sma100", "sma200"}
DocumentedNames == DocumentedPriceNames \cup NicheNames

\* What stands for an operand in a body: a number, a string, or null, which an
\* operand left out of the body comes to as well.
JSONStrings == DocumentedNames \cup {"ma100", "ma200"} \cup Unknown
JSONValues == [number : Numbers] \cup [string : JSONStrings] \cup {[null |-> TRUE]}

IsNumber(j) == "number" \in DOMAIN j
IsString(j) == "string" \in DOMAIN j

\* An operand message: one of the cases of its oneof, with its value.
Cases == [price |-> PriceNames, band |-> BandNames,
          average |-> {"SMA10", "SMA50", "SMA100", "SMA200"},
          strength |-> {"rsi"}, volume |-> {"volume"}, const |-> Doubles]
Operands == UNION {[case : {c}, value : Cases[c]] : c \in DOMAIN Cases}
Operand(c, v) == [case |-> c, value |-> v]

-----------------------------------------------------------------------------
(* The conversions *)

\* Fault: two averages are mixed up.
SmaFromJSONMixed == [sma10 |-> "SMA10", sma50 |-> "SMA10", ma100 |-> "SMA100", ma200 |-> "SMA200"]

\* The strings that jsonToProtoOperand knows.
SmaFromJSON == [sma10 |-> "SMA10", sma50 |-> "SMA50", ma100 |-> "SMA100", ma200 |-> "SMA200"]

\* Fault: two averages look the same.
SmaFromProtoMixed ==
    [SMA10 |-> "sma10", SMA50 |-> "sma50", SMA100 |-> "sma100", SMA200 |-> "sma100"]

\* smaFromProto
SmaFromProto == [SMA10 |-> "sma10", SMA50 |-> "sma50", SMA100 |-> "sma100", SMA200 |-> "sma200"]

\* jsonToProtoOperand: the operand a JSON value converts to, if any.  A number
\* out of range fails to decode, and then fails as a string.  Decoding null into
\* a number succeeds and leaves the number 0.
FromJSON(j) ==
    IF IsNumber(j) THEN {Operand("const", d) : d \in Decode[j.number]}
    ELSE IF ~IsString(j) THEN {Operand("const", 0)}
    ELSE {Operand("price", s) : s \in PriceNames \cap {j.string}}
         \cup {Operand("band", s) : s \in BandNames \cap {j.string}}
         \cup {Operand("average", SmaFromJSON[s]) : s \in DOMAIN SmaFromJSON \cap {j.string}}
         \cup {Operand("strength", s) : s \in {"rsi"} \cap {j.string}}
         \cup {Operand("volume", s) : s \in {"volume"} \cap {j.string}}

\* protoOperandToJSON
ToJSON(o) ==
    IF o.case = "const" THEN [number |-> Encode[o.value]]
    ELSE IF o.case = "average" THEN [string |-> SmaFromProto[o.value]]
    ELSE [string |-> o.value]

IsPriceBased(o) == o.case \in {"price", "band", "average"}
IsNicheBased(o) == o.case \in {"strength", "volume"}
IsConst(o) == o.case = "const"

\* Fault: a constant is let through as the first operand.
CompatibleConst(o1, o2) ==
    \/ IsPriceBased(o1) /\ (IsConst(o2) \/ IsPriceBased(o2))
    \/ IsNicheBased(o1) /\ (IsConst(o2) \/ IsNicheBased(o2))
    \/ IsConst(o1)

\* validateOperandCompatibility
Compatible(o1, o2) ==
    \/ IsPriceBased(o1) /\ (IsConst(o2) \/ IsPriceBased(o2))
    \/ IsNicheBased(o1) /\ (IsConst(o2) \/ IsNicheBased(o2))

\* The pairs of operands that CreateStrategyAlert and UpdateStrategyAlert pass
\* on for a body: one, or none when they answer 400.
Accepted(b) == {os \in FromJSON(b[1]) \X FromJSON(b[2]) : Compatible(os[1], os[2])}

Shown(os) == <<ToJSON(os[1]), ToJSON(os[2])>>

-----------------------------------------------------------------------------
(* One alert *)

VARIABLES
    stored,      \* the operands the strategy service holds: a set of at most one pair
    body,        \* the operands of the last request to create or update
    answer,      \* its status
    shown        \* the operands the last answer showed: at most one pair

vars == <<stored, body, answer, shown>>

Bodies == JSONValues \X JSONValues

TypeOK ==
    /\ stored \subseteq Operands \X Operands /\ Cardinality(stored) <= 1
    /\ body \in Bodies
    /\ answer \in {"none", "200", "201", "400", "500"}
    /\ shown \subseteq Bodies /\ Cardinality(shown) <= 1

Init ==
    /\ stored = {} /\ shown = {} /\ answer = "none"
    /\ body = <<[null |-> TRUE], [null |-> TRUE]>>

\* A body b is sent and, when it is accepted and the strategy service does
\* not fail, stored; the answer shows what was stored.  The service may also
\* fail after it stored the alert.
Send(b, ok) ==
    /\ body' = b
    /\ \/ /\ Accepted(b) = {}
          /\ answer' = "400" /\ shown' = {}
          /\ UNCHANGED stored
       \/ /\ Accepted(b) # {}
          /\ stored' = Accepted(b)
          /\ \/ answer' = ok /\ shown' = {Shown(os) : os \in Accepted(b)}
             \/ answer' = "500" /\ shown' = {}
       \/ /\ Accepted(b) # {}
          /\ answer' = "500" /\ shown' = {}
          /\ UNCHANGED stored

\* CreateStrategyAlert
Create == stored = {} /\ \E b \in Bodies : Send(b, "201")

\* UpdateStrategyAlert, by a client that writes back what it was shown, one
\* operand changed or none.
Update ==
    /\ stored # {}
    /\ \E b \in shown, j \in JSONValues : \E c \in {b, <<j, b[2]>>, <<b[1], j>>} : Send(c, "200")

\* GetStrategyAlert and GetStrategyAlerts
Get ==
    /\ stored # {}
    /\ shown' = {Shown(os) : os \in stored}
    /\ UNCHANGED <<stored, body, answer>>

Next == Create \/ Update \/ Get

Spec == Init /\ [][Next]_vars

-----------------------------------------------------------------------------
(* Properties *)

DocumentedOperand(j) == IsNumber(j) \/ (IsString(j) /\ j.string \in DocumentedNames)

\* The rule of docs/openapi.yml for the two operands, on their JSON.
DocumentedPair(b) ==
    /\ IsString(b[1]) /\ DocumentedOperand(b[1]) /\ DocumentedOperand(b[2])
    /\ IsString(b[2]) =>
         (b[1].string \in DocumentedPriceNames <=> b[2].string \in DocumentedPriceNames)

\* Whatever was sent, and however often an alert was edited, what is shown of
\* it is a pair that the documentation allows.
ShownIsDocumented == \A b \in shown : DocumentedPair(b)

\* Everything the program has the service store, it can show, and two alerts
\* that differ are shown differently: no edit loses an operand on the way.
ShownIsFaithful ==
    \A os \in stored, i \in 1 .. 2 :
        /\ ToJSON(os[i]) \in JSONValues
        /\ \A other \in Operands : ToJSON(other) = ToJSON(os[i]) => other = os[i]

\* A number that is a double's own way of being written.
Exact(j) == IsNumber(j) => \E d \in Doubles : Encode[d] = j.number

\* A documented pair is either refused or shown again: every string as it was
\* sent, every number as one that reads as the same double, and as it was sent
\* if a double is written so.  So whatever was shown once is written back and
\* shown again unchanged.
AcceptedIsShownAgain ==
    answer \in {"200", "201"} /\ DocumentedPair(body) =>
        \A b \in shown, i \in 1 .. 2 :
            /\ Exact(body[i]) => b[i] = body[i]
            /\ IsNumber(body[i]) =>
                 IsNumber(b[i]) /\ Decode[b[i].number] = Decode[body[i].number]

InRange(j) == IsNumber(j) => Decode[j.number] # {}

\* docs/openapi.yml lists sma100 and sma200 among the values of
\* SimpleMovingAverage: a documented pair is not refused, unless it has a number
\* out of the range of a double.
DocumentedIsAccepted ==
    DocumentedPair(body) /\ InRange(body[1]) /\ InRange(body[2]) => answer # "400"
=============================================================================
