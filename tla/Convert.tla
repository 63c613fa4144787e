------------------------------ MODULE Convert ------------------------------
(***************************************************************************)
(* Conversions: string2uint_range of src/common/convert.c, as the          *)
(* automaton it is, and uint2float.  A text is a sequence of characters.   *)
(* A function that may end the process, or that is undefined somewhere,    *)
(* returns the set of what it may return: {} if it exits.                  *)
(***************************************************************************)
EXTENDS Integers, Sequences

CONSTANTS
    HALF,           \* 2^63; a number is 0 .. 2 * HALF - 1 and wraps around
    UINT_BITS,      \* bits of the number that becomes a float; 32
    FRACTION_BITS,  \* bits of a float's fraction; 23
    BIAS            \* of its exponent; 127

\* A blank, which is one character of a text
Blank == " "

Digits == <<"0", "1", "2", "3", "4", "5", "6", "7", "8", "9", "a", "b", "c", "d", "e", "f">>
DigitOf == [c \in {Digits[i] : i \in DOMAIN Digits} |-> (CHOOSE i \in DOMAIN Digits : Digits[i] = c) - 1]

\* What the automaton tells apart
Kind(c) ==
    CASE c = Blank -> "blank"
      [] c = "-" -> "minus"
      [] c = "x" -> "x"
      [] c = "0" -> "zero"
      [] c \in DOMAIN DigitOf \ {"0"} -> IF DigitOf[c] < 10 THEN "digit" ELSE "letter"
      [] OTHER   -> "other"

\* 0 start, 1 a leading zero, 2 decimal, 3 a minus, 4 the x, 5 hexadecimal, 6 blanks behind
Arrows ==
    {<<0, "blank", 0>>, <<0, "zero", 1>>, <<0, "digit", 2>>, <<0, "minus", 3>>,
     <<1, "zero", 2>>, <<1, "digit", 2>>, <<1, "x", 4>>, <<1, "blank", 6>>,
     <<2, "zero", 2>>, <<2, "digit", 2>>, <<2, "blank", 6>>,
     <<3, "zero", 1>>, <<3, "digit", 2>>,
     <<4, "zero", 5>>, <<4, "digit", 5>>, <<4, "letter", 5>>,
     <<5, "zero", 5>>, <<5, "digit", 5>>, <<5, "letter", 5>>,
     <<6, "blank", 6>>}

Value(uv, target, c) ==
    IF c \in DOMAIN DigitOf THEN (uv * (IF target = 5 THEN 16 ELSE 10) + DigitOf[c]) % (2 * HALF) ELSE uv

\* A value that got smaller has overflowed; many that overflow get larger, and after
\* a letter nobody looks.
OverflowsUnlessLarger(uv, new, c) == Kind(c) # "letter" /\ new <= uv
Overflows(uv, new, c) == Kind(c) # "letter" /\ new < uv

Read(m, c) ==
    {[state |-> t, uv |-> Value(m.uv, t, c), negative |-> m.negative \/ Kind(c) = "minus"] :
        t \in {t \in 0 .. 6 : /\ <<m.state, Kind(c), t>> \in Arrows
                              /\ ~Overflows(m.uv, Value(m.uv, t, c), c)}}

\* What there is after all characters have been read
Reading(s) ==
    LET after[k \in 0 .. Len(s)] ==
            IF k = 0 THEN {[state |-> 0, uv |-> 0, negative |-> FALSE]}
            ELSE UNION {Read(m, s[k]) : m \in after[k - 1]}
    IN  after[Len(s)]

string2uint(s) ==
    {IF m.negative THEN (-m.uv) % (2 * HALF) ELSE m.uv :
        m \in {m \in Reading(s) : ~(m.negative /\ m.uv >= HALF)}}

-----------------------------------------------------------------------------
(* uint2float *)

Highest(u) == CHOOSE n \in 0 .. UINT_BITS - 1 : u \div 2^n = 1
BitAt(u, j) == (u \div 2^j) % 2

\* (e << 23) | f, which is their sum but for an f with the lowest bit of e
Packed(e, f) ==
    e * 2^FRACTION_BITS
        + (IF f >= 2^FRACTION_BITS /\ e % 2 = 1 THEN f - 2^FRACTION_BITS ELSE f)

\* The mask of the n lowest bits is shifted out of 32, and the shift by 32 is undefined.
Masked(u, n) == IF n = 0 THEN {0, u} ELSE {u % 2^n}
Exactly(u, n) ==
    {Packed(n + BIAS, f * 2^(FRACTION_BITS - n)) : f \in Masked(u, n)}

\* Guard, round and sticky bit decide on the carry.
Carry(u, n) ==
    IF /\ BitAt(u, n - FRACTION_BITS - 1) = 1
       /\ \/ BitAt(u, n - FRACTION_BITS) = 1
          \/ \E j \in 0 .. n - FRACTION_BITS - 2 : BitAt(u, j) = 1
    THEN 1 ELSE 0

Rounded(u, n) ==
    LET a == (u \div 2^(n - FRACTION_BITS)) + Carry(u, n)
    IN  IF a \div 2^FRACTION_BITS = 1 THEN Packed(n + BIAS, a % 2^FRACTION_BITS)
        ELSE Packed(n + 1 + BIAS, 0)

uint2float(u) ==
    IF u = 0 THEN {0}
    ELSE IF u < 2^(FRACTION_BITS + 1) THEN Exactly(u, Highest(u))
    ELSE {Rounded(u, Highest(u))}
=============================================================================
