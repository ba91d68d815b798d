------------------------------- MODULE Values -------------------------------
(***************************************************************************)
(* JSON as the pipeline's code reads it.  A scalar is                       *)
(*   [k |-> "num", neg, digits]   a number, its decimal text as digits,     *)
(*   [k |-> "str", neg, digits]   a string that is a decimal integer,       *)
(*   [k |-> "hex", v]             a string 0x..., with its value,           *)
(*   [k |-> "text", s]            any other string, [k |-> "null"].         *)
(* A record is a function from dotted paths to scalars; the paths in Nested *)
(* lie inside a nested object.                                              *)
(***************************************************************************)
EXTENDS Integers, Sequences, FiniteSets, SequencesExt, FiniteSetsExt, TLC

CONSTANT None    \* an absent value

ASSUME NoneAssumption == None \notin Int

Or(v, default) == IF v = None THEN default ELSE v

Dot == -1        \* the decimal point: sorts before the digits, as in ASCII
Nested == {"params.value"}

Digits[n \in Nat] == IF n < 10 THEN <<n>> ELSE Append(Digits[n \div 10], n % 10)
Abs(n) == IF n < 0 THEN -n ELSE n
Num(n) == [k |-> "num", neg |-> n < 0, digits |-> Digits[Abs(n)]]
Str(n) == [k |-> "str", neg |-> n < 0, digits |-> Digits[Abs(n)]]
Text(s) == [k |-> "text", s |-> s]

IsInteger(v) == v.k \in {"num", "str"} /\ \A i \in DOMAIN v.digits : v.digits[i] # Dot
Magnitude(v) == FoldLeft(LAMBDA a, d : 10 * a + d, 0, v.digits)
IntOf(v) == (IF v.neg THEN -1 ELSE 1) * Magnitude(v)

\* resolve_path on a record: the value at a dotted path, if there is one.
Get(rec, path) == IF path \in DOMAIN rec THEN rec[path] ELSE None
Put(rec, path, v) == [p \in DOMAIN rec \cup {path} |-> IF p = path THEN v ELSE rec[p]]

\* One function laid over another: the second where the first says nothing.
LaidOver(f, g) == [x \in DOMAIN f \cup DOMAIN g |-> IF x \in DOMAIN f THEN f[x] ELSE g[x]]

\* The elements of a sequence that pass, in order: SelectSeq, as a comprehension.
Passed(seq, Keeps(_)) == FlattenSeq([i \in DOMAIN seq |-> IF Keeps(seq[i]) THEN <<seq[i]>> ELSE <<>>])

\* flex_u64: a number, a decimal string or a 0x-hex string, if it is a u64.
FlexU64(v) ==
    IF v = None THEN None
    ELSE IF v.k = "hex" THEN v.v
    ELSE IF IsInteger(v) /\ ~v.neg THEN IntOf(v)
    ELSE None
=============================================================================
