------------------------------- MODULE Values -------------------------------
(***************************************************************************)
(* The kernel's scalars (internal/semantic/value.go), the signed integer   *)
(* arithmetic the evaluators do on them (evaluate_expr.go) and their       *)
(* canonical bytes (canonical.go).  Machine integers keep their width:     *)
(* they wrap at IntMax as int64 does at 2^63 - 1.                          *)
(*                                                                         *)
(* A text is a sequence of integers: characters for a string or an atom,   *)
(* the characters of Decimals for a decimal, the fields of Temporal for a  *)
(* date or a timestamp.                                                    *)
(***************************************************************************)
EXTENDS Decimals, Temporal

CONSTANT IntMax        \* 2^63 - 1 in the code

ASSUME IntAssumption == IntMax \in Nat \ {0}

IntMin == -IntMax - 1
Int64 == IntMin .. IntMax

\* What a machine word keeps of an integer.
Wrap(n) == ((n - IntMin) % (2 * IntMax + 2)) + IntMin

ValueKinds == <<"string", "atom", "int64", "timestamp", "duration", "decimal", "date">>
ValueKindByte(kind) == CHOOSE b \in DOMAIN ValueKinds : ValueKinds[b] = kind

TypedValue(kind, text, integer) == [kind |-> kind, text |-> text, integer |-> integer]
NoValue == TypedValue("none", <<>>, 0)

NewStringValue(text) == TypedValue("string", text, 0)
NewAtomValue(text) == TypedValue("atom", text, 0)
NewInt64Value(n) == TypedValue("int64", <<>>, n)
NewDurationValue(n) == TypedValue("duration", <<>>, n)

\* The three constructors that parse answer NoValue beside the error their callers may drop.
TimestampValue(ts) == IF ts.ok THEN TypedValue("timestamp", TimestampText(ts.nano), ts.nano) ELSE NoValue
NewTimestampValue(text) == TimestampValue(ParseTimestamp(text))

DateValue(d) == IF d.ok THEN TypedValue("date", DateText(d.days), d.days) ELSE NoValue
NewDateValue(text) == DateValue(ParseDate(text))

DecimalValue(d) == IF d.ok THEN TypedValue("decimal", DecimalText(d.d), 0) ELSE NoValue
NewDecimalValue(text) == DecimalValue(ParseDecimal(text))

\* Valid.
ValidValue(v) ==
    CASE v.kind = "timestamp" -> ParseTimestamp(v.text).ok
      [] v.kind = "date"      -> ParseDate(v.text).ok
      [] v.kind = "decimal"   -> ParseDecimal(v.text).ok
      [] OTHER                -> v.kind # "none"

\* Equal: by text or by integer, never by both; a value without a kind equals nothing.
ValueEqual(v, w) ==
    /\ v.kind = w.kind
    /\ v.kind # "none"
    /\ IF v.kind \in {"int64", "duration"} THEN v.integer = w.integer ELSE v.text = w.text

-----------------------------------------------------------------------------
(* The text form of a value inside a stored declaration.                   *)
Colon == -4

\* MarshalText.
MarshalText(v) ==
    <<ValueKindByte(v.kind), Colon>>
      \o (IF v.kind \in {"int64", "duration"} THEN <<v.integer>> ELSE v.text)

\* A variant that separates the kind from the payload at the last colon.
UnmarshalTextAtLast(text) ==
    LET cut == Max({i \in DOMAIN text : text[i] = Colon})
        payload == SubSeq(text, cut + 1, Len(text))
    IN  CASE text[1] = 1 -> NewStringValue(payload)
          [] text[1] = 2 -> NewAtomValue(payload)
          [] text[1] = 3 -> NewInt64Value(text[Len(text)])
          [] text[1] = 4 -> NewTimestampValue(payload)
          [] text[1] = 5 -> NewDurationValue(text[Len(text)])
          [] text[1] = 6 -> NewDecimalValue(payload)
          [] OTHER       -> NewDateValue(payload)

\* UnmarshalText: the first colon ends the kind, and the payload goes through the constructors.
UnmarshalText(text) ==
    LET cut == Min({i \in DOMAIN text : text[i] = Colon})
        payload == SubSeq(text, cut + 1, Len(text))
    IN  CASE text[1] = 1 -> NewStringValue(payload)
          [] text[1] = 2 -> NewAtomValue(payload)
          [] text[1] = 3 -> NewInt64Value(payload[1])
          [] text[1] = 4 -> NewTimestampValue(payload)
          [] text[1] = 5 -> NewDurationValue(payload[1])
          [] text[1] = 6 -> NewDecimalValue(payload)
          [] OTHER       -> NewDateValue(payload)

-----------------------------------------------------------------------------
(* Checked machine arithmetic: [ok, n].                                    *)

\* A variant that looks for the overflow of a positive addend only.
AddInt64PositiveOnly(a, b) ==
    LET sum == Wrap(a + b) IN [ok |-> ~(b > 0 /\ sum < a), n |-> sum]

AddInt64(a, b) ==
    LET sum == Wrap(a + b)
    IN  [ok |-> ~((b > 0 /\ sum < a) \/ (b < 0 /\ sum > a)), n |-> sum]

SubInt64(a, b) ==
    LET diff == Wrap(a - b)
    IN  [ok |-> ~((b > 0 /\ diff > a) \/ (b < 0 /\ diff < a)), n |-> diff]

\* Go defines the smallest integer divided by -1 as itself, which Wrap gives.
MulInt64(a, b) ==
    LET prod == Wrap(a * b)
    IN  IF a = 0 \/ b = 0
          THEN [ok |-> TRUE, n |-> 0]
          ELSE [ok |-> ~(Wrap(Quo(prod, b)) # a \/ (a = -1 /\ b = IntMin)), n |-> prod]

\* The division of the int64 arm of divide.
DivInt64(a, b) ==
    [ok |-> b # 0 /\ ~(a = IntMin /\ b = -1), n |-> IF b = 0 THEN 0 ELSE Wrap(Quo(a, b))]

\* The remainder of modulo.
ModInt64(a, b) ==
    [ok |-> b # 0 /\ ~(a = IntMin /\ b = -1), n |-> IF b = 0 THEN 0 ELSE Rem(a, b)]

\* The magnitude abs takes of an int64 or a duration.
AbsInt64(a) == [ok |-> a # IntMin, n |-> IF a < 0 THEN -a ELSE a]

-----------------------------------------------------------------------------
(* Canonical bytes: a byte, a count and an integer are one element each,   *)
(* a string is its length and its characters.                              *)

EncodeString(text) == <<Len(text)>> \o text

\* canonicalEncoder.int64: the bits of the integer, as an unsigned number.
EncodeInt64(n) == n % (2 * IntMax + 2)

\* canonicalEncoder.value; the caller has checked that the value is valid.
EncodeValue(v) ==
    <<ValueKindByte(v.kind)>>
      \o (IF v.kind \in {"int64", "duration"} THEN <<EncodeInt64(v.integer)>> ELSE EncodeString(v.text))
=============================================================================
