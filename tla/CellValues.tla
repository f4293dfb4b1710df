----------------------------- MODULE CellValues -----------------------------
(***************************************************************************)
(* How a value reaches the window (drivers/postgres/value.rs,               *)
(* drivers/bigquery/value.rs): as JSON, whose numbers JavaScript holds      *)
(* exactly only up to a bound. PostgreSQL's values come decoded, BigQuery's *)
(* as text its schema says how to read, lists and structs wrapped.          *)
(***************************************************************************)
EXTENDS Integers, Sequences, SequencesExt, FiniteSets

CONSTANTS SafeInteger, \* 2^53 - 1 in the code
          MostInteger, \* 2^63 - 1 in the code
          Numerics,    \* a numeric is its digits before its point and behind it
          Instants,    \* an instant is counted in its smallest units
          Structs,     \* a struct has an integer and an array of instants
          MaxElements  \* bound: elements of an array

Digit == 0..9

ASSUME CellValuesAssumption ==
    /\ SafeInteger \in Nat /\ MostInteger \in Nat /\ SafeInteger < MostInteger
    /\ MaxElements \in Nat

ASSUME ValuesAssumption ==
    /\ Numerics \subseteq [whole : Seq(Digit), behind : Seq(Digit)]
    /\ Instants \subseteq Int
    /\ Structs \subseteq [whole : (-MostInteger - 1)..MostInteger, instants : Seq(Int)]

VARIABLES
    source,
    field, \* the column's type: what it is, or is an array of
    held   \* the value, or the array's elements

cvVars == <<source, field, held>>

Abs(n) == IF n < 0 THEN -n ELSE n

FieldKinds == {"integer", "numeric", "instant", "struct"}
Values(kind) ==
    CASE kind = "integer" -> (-MostInteger - 1)..MostInteger
      [] kind = "numeric" -> Numerics
      [] kind = "instant" -> Instants
      [] kind = "struct"  -> Structs

CvTypeOK ==
    /\ source \in {"postgres", "bigquery"} /\ field \in [kind : FieldKinds, array : BOOLEAN]
    /\ field.kind = "struct" => source = "bigquery"
    /\ Len(held) <= IF field.array THEN MaxElements ELSE 1
    /\ \A i \in DOMAIN held : held[i].is = "null" \/ held[i].v \in Values(field.kind)

CvInit == source = "postgres" /\ field = [kind |-> "integer", array |-> FALSE] /\ held = <<>>

Describe == \E f \in [kind : FieldKinds, array : BOOLEAN], d \in {"postgres", "bigquery"} :
    /\ f.kind = "struct" => d = "bigquery"
    /\ source' = d /\ field' = f /\ held' = <<>>

\* PostgreSQL's elements may be null, BigQuery's may not.
Put == \E cell \in {[is |-> "null"]} \cup {[is |-> "value", v |-> x] : x \in Values(field.kind)} :
    /\ Len(held) < IF field.array THEN MaxElements ELSE 1
    /\ cell.is = "null" => source = "postgres" \/ ~field.array
    /\ held' = Append(held, cell)
    /\ UNCHANGED <<source, field>>

CvNext == Describe \/ Put

CvSpec == CvInit /\ [][CvNext]_cvVars

-----------------------------------------------------------------------------
(* BigQuery's notation of an instant, as a float: its digits, how many of them    *)
(* follow the point, and an exponent, as "1735812000.0" or "1.735812E9"           *)

Notations(n) ==
    {[negative |-> n < 0, digits |-> digits, fraction |-> by[1], exponent |-> by[2]] :
        digits \in {Abs(n)}, by \in {<<1, 0>>, <<2, 1>>, <<0, -1>>}}
    \cup {[negative |-> n < 0, digits |-> 10 * Abs(n), fraction |-> 2, exponent |-> 0]}

\* Digits of a second in the smallest unit, 6 in the code.
Places == 1

TenTo[n \in Nat] == IF n = 0 THEN 1 ELSE 10 * TenTo[n - 1]

-----------------------------------------------------------------------------
(* The code. JSON is a number, a text, null, a list or an object. *)

Number(n)  == [json |-> "number", n |-> n]
TextJson(x)    == [json |-> "text", text |-> x]
JsonNull   == [json |-> "null"]
List(items) == [json |-> "list", items |-> items]

\* Mutant: every integer is a number.
AlwaysNumber(n) == Number(n)

\* What JavaScript would round is sent as text.
IntegerJson(n) == IF Abs(n) <= SafeInteger THEN Number(n) ELSE TextJson(n)

WithoutZeros(digits) ==
    SubSeq(digits, 1, CHOOSE n \in 0..Len(digits) :
                        (n = 0 \/ digits[n] # 0) /\ \A i \in (n + 1)..Len(digits) : digits[i] = 0)

\* The decoder pads a numeric to whole groups of digits.
Group == 4
Padded(digits) ==
    LET kept == WithoutZeros(digits)
    IN  kept \o [i \in 1..((Group - (Len(kept) % Group)) % Group) |-> 0]

\* The digits as the decoder's number writes itself, with an exponent below 10^-6: times
\* ten to the minus exponent, 0 for none. There is a point where digits are behind it.
MostLeading == 5
FirstDigit(digits) == CHOOSE n \in DOMAIN digits : digits[n] # 0 /\ \A i \in 1..(n - 1) : digits[i] = 0

Small(v) ==
    /\ \A i \in DOMAIN v.whole : v.whole[i] = 0
    /\ \E i \in DOMAIN v.behind : v.behind[i] # 0
    /\ FirstDigit(v.behind) - 1 > MostLeading

Displayed(v) ==
    LET behind == Padded(v.behind)
        first  == FirstDigit(v.behind)
    IN  IF Small(v)
        THEN [whole |-> <<behind[first]>>, behind |-> SubSeq(behind, first + 1, Len(behind)), exponent |-> first]
        ELSE [whole |-> v.whole, behind |-> behind, exponent |-> 0]

\* An exponent, of five digits at most, without the zeros it ends in.
CutOff(exponent) ==
    IF exponent % 10 # 0 THEN exponent
    ELSE CHOOSE n \in 1..exponent : n % 10 # 0 /\ \E k \in 1..4 : n * TenTo[k] = exponent

\* The zeros taken off are those the text ends in, an exponent's where there is one.
WithoutPadding(written) ==
    IF written.behind = <<>> THEN written
    ELSE IF written.exponent = 0 THEN [written EXCEPT !.behind = WithoutZeros(@)]
    ELSE [written EXCEPT !.exponent = CutOff(@)]

AsWritten(v) == [whole |-> v.whole, behind |-> v.behind, exponent |-> 0]

\* Read digit by digit: how far the point moves to make the digits whole units.
Instant(written) ==
    LET shift == written.exponent - written.fraction + Places
        units == IF shift >= 0 THEN written.digits * TenTo[shift] ELSE written.digits \div TenTo[-shift]
    IN  IF written.negative THEN -units ELSE units

ScalarJson(kind, v) ==
    CASE kind = "integer" -> IntegerJson(v)
      [] kind = "numeric" -> TextJson(IF source = "postgres" THEN WithoutPadding(Displayed(v)) ELSE AsWritten(v))
      [] kind = "instant" -> TextJson(v)

\* A struct crosses as an object, its fields named by the schema.
StructJson(v, instants) ==
    [json |-> "object", whole |-> IntegerJson(v.whole),
     instants |-> List([i \in DOMAIN instants |-> TextJson(Instant(instants[i]))])]

CellJson(cell) ==
    IF cell.is = "null" THEN JsonNull
    ELSE CASE field.kind = "struct" -> StructJson(cell.v, cell.written)
           [] field.kind = "instant" /\ source = "bigquery" -> TextJson(Instant(cell.written))
           [] OTHER -> ScalarJson(field.kind, cell.v)

ValueJson(cells) ==
    IF field.array THEN List([i \in DOMAIN cells |-> CellJson(cells[i])])
    ELSE IF cells = <<>> THEN JsonNull ELSE CellJson(cells[1])

\* Marked as instants: the values, or the elements, but not what is in a struct.
HoldsInstants == field.kind = "instant"

-----------------------------------------------------------------------------
(* Properties *)

\* JavaScript's number nearest to an integer.
Rounded(n) == IF Abs(n) <= SafeInteger + 1 THEN n ELSE 2 * (n \div 2)

\* The digit at a place: the first behind the point is at 1, the one before it at 0.
Place(digits, n) ==
    IF n \in DOMAIN digits.behind THEN digits.behind[n]
    ELSE IF n + Len(digits.whole) \in DOMAIN digits.whole /\ n < 1 THEN digits.whole[n + Len(digits.whole)] ELSE 0

\* A text is the numeric when it is so at every place.
SameNumeric(written, v) ==
    \A n \in -(Len(written.whole) + Len(v.whole))..(Len(written.behind) + Len(v.behind) + written.exponent) :
       Place(written, n - written.exponent) = Place(v, n)

\* An exponent that ends in a zero, behind digits with a point, is cut off with the padding.
LosesExponent(v) ==
    source = "postgres" /\ Small(v) /\ Displayed(v).behind # <<>> /\ Displayed(v).exponent % 10 = 0

Shows(json, kind, cell) ==
    IF cell.is = "null" THEN json = JsonNull
    ELSE /\ kind = "integer" => cell.v = IF json.json = "number" THEN Rounded(json.n) ELSE json.text
         /\ kind = "numeric" => SameNumeric(json.text, cell.v) \/ LosesExponent(cell.v)
         /\ kind = "instant" => json.text = cell.v
         /\ kind = "struct" =>
              /\ cell.v.whole = IF json.whole.json = "number" THEN Rounded(json.whole.n)
                                ELSE json.whole.text
              /\ [i \in DOMAIN json.instants.items |-> json.instants.items[i].text] = cell.v.instants

\* The ways a cell may be written where it comes as text.
Written(cell) ==
    IF cell.is = "null" THEN {cell}
    ELSE CASE field.kind = "instant" ->
                {[is |-> "value", v |-> cell.v, written |-> w] : w \in Notations(cell.v)}
           [] field.kind = "struct" ->
                {[is |-> "value", v |-> cell.v,
                  written |-> [i \in DOMAIN cell.v.instants |-> pick[cell.v.instants[i]]]] :
                   pick \in {p \in [Range(cell.v.instants) ->
                                       UNION {Notations(n) : n \in Range(cell.v.instants)}] :
                               \A n \in DOMAIN p : p[n] \in Notations(n)}}
           [] OTHER -> {cell}

\* Every value the database holds is the one the window shows, however large,
\* padded, negative or nested it is and whichever way its instants are written;
\* nulls and the order of elements are kept. Not so a numeric below 10^-6 whose
\* exponent ends in a zero behind several digits: 1E-10 is written "1.00E-10" and
\* shown as "1.00E-1" (cell_to_json, decode, from_i64, without_padding, timestamp).
ArrivesWhole ==
    /\ field.array =>
         \A i \in DOMAIN held : \A cell \in Written(held[i]) :
           LET json == ValueJson([j \in DOMAIN held |-> IF j = i THEN cell
                                   ELSE CHOOSE w \in Written(held[j]) : TRUE])
           IN  Len(json.items) = Len(held) /\ Shows(json.items[i], field.kind, held[i])
    /\ ~field.array /\ held # <<>> =>
         \A cell \in Written(held[1]) : Shows(ValueJson(<<cell>>), field.kind, held[1])
    /\ HoldsInstants => \A i \in DOMAIN held :
           held[i].is = "null" \/ CellJson(CHOOSE w \in Written(held[i]) : TRUE).json = "text"

=============================================================================
