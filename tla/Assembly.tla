------------------------------ MODULE Assembly ------------------------------
(***************************************************************************)
(* The decoding of src/hardware/cpu/isa.c: parse_instruction and           *)
(* parse_operand turn the text of an instruction into its operator and its *)
(* operands as they are written, from which module ISA goes on.            *)
(*                                                                         *)
(* A text is a sequence of characters, with the name of an operator and    *)
(* the name of a register for one character each.  As in module Convert, a *)
(* function that may end the process returns a set, {} if it exits.        *)
(***************************************************************************)
EXTENDS ISA, Sequences, FiniteSetsExt

CONSTANTS
    Styles,         \* ways to write a program
    UINT_BITS,      \* of module Convert, with HALF
    FRACTION_BITS,
    BIAS

INSTANCE Convert

ASSUME FloatAssumption ==
    /\ FRACTION_BITS \in Nat /\ UINT_BITS \in Nat /\ FRACTION_BITS < UINT_BITS
    /\ BIAS \in Nat /\ BIAS % 2 = 1

VARIABLES
    text,       \* the text at each address of the program
    listing     \* what its author means by it

asmVars == <<vars, text, listing>>

Comma == ","

\* An operand that is no address, and one before anything is parsed
Simply(form, has_imm, imm, reg1) ==
    [form |-> form, has_imm |-> has_imm, imm |-> imm, commas |-> 0,
     reg1 |-> reg1, reg2 |-> NoRegister, scal |-> 0]
None == Simply("", FALSE, 0, NoRegister)

-----------------------------------------------------------------------------
(* The tables of names *)

\* reg_name_list, but for the names of the second byte of a register
RegisterNames ==
    [rax |-> <<"%rax", "%eax", "%ax", "%al">>,     rbx |-> <<"%rbx", "%ebx", "%bx", "%bl">>,
     rcx |-> <<"%rcx", "%ecx", "%cx", "%cl">>,     rdx |-> <<"%rdx", "%edx", "%dx", "%dl">>,
     rsi |-> <<"%rsi", "%esi", "%si", "%sil">>,    rdi |-> <<"%rdi", "%edi", "%di", "%dil">>,
     rbp |-> <<"%rbp", "%ebp", "%bp", "%bpl">>,    rsp |-> <<"%rsp", "%esp", "%sp", "%spl">>,
     r8  |-> <<"%r8",  "%r8d",  "%r8w",  "%r8b">>,  r9  |-> <<"%r9",  "%r9d",  "%r9w",  "%r9b">>,
     r10 |-> <<"%r10", "%r10d", "%r10w", "%r10b">>, r11 |-> <<"%r11", "%r11d", "%r11w", "%r11b">>,
     r12 |-> <<"%r12", "%r12d", "%r12w", "%r12b">>, r13 |-> <<"%r13", "%r13d", "%r13w", "%r13b">>,
     r14 |-> <<"%r14", "%r14d", "%r14w", "%r14b">>, r15 |-> <<"%r15", "%r15d", "%r15w", "%r15b">>]

IsIn(list, s) == \E k \in DOMAIN list : s = <<list[k]>>

reflect_registers(s) == {r \in Register : IsIn(RegisterNames[r], s)}

\* A text that begins with %
NamesRegister(s) == s[1] = "%?" \/ \E r \in DOMAIN RegisterNames : IsIn(RegisterNames[r], <<s[1]>>)

OperatorNames ==
    [mov  |-> <<"mov", "movq">>, push |-> <<"push">>, pop |-> <<"pop">>, leave |-> <<"leaveq">>,
     call |-> <<"callq">>,       ret  |-> <<"retq">>, add |-> <<"add">>, sub   |-> <<"sub">>,
     cmp  |-> <<"cmpq">>,        jne  |-> <<"jne">>,  jmp |-> <<"jmp">>]

Operators(s) == {o \in Operator : IsIn(OperatorNames[o], s)}

-----------------------------------------------------------------------------
(* parse_operand *)

\* imm(reg1,reg2,scal) is cut up by counting its brackets and commas.
Collect(f, c) ==
    CASE c \in {"(", ")"} -> [f EXCEPT !.brackets = @ + 1]
      [] c = Comma      -> [f EXCEPT !.commas = @ + 1]
      [] OTHER          ->
            CASE f.brackets = 0                  -> [f EXCEPT !.imm = Append(@, c)]
              [] f.brackets = 1 /\ f.commas = 0  -> [f EXCEPT !.reg1 = Append(@, c)]
              [] f.brackets = 1 /\ f.commas = 1  -> [f EXCEPT !.reg2 = Append(@, c)]
              [] f.brackets = 1 /\ f.commas = 2  -> [f EXCEPT !.scal = Append(@, c)]
              [] OTHER                           -> f

Cut(s) ==
    LET after[k \in 0 .. Len(s)] ==
            IF k = 0 THEN [brackets |-> 0, commas |-> 0, imm |-> <<>>, reg1 |-> <<>>, reg2 |-> <<>>, scal |-> <<>>]
            ELSE Collect(after[k - 1], s[k])
    IN  after[Len(s)]

Optional(s, parse(_), default) == IF s = <<>> THEN {default} ELSE parse(s)
Scale(s) == string2uint(s) \cap {1, 2, 4, 8}

\* Brackets with more than two commas leave the type empty.
Form(f) == IF f.brackets = 0 THEN "imm" ELSE IF f.commas <= 2 THEN "()" ELSE ""

MemoryOperand(f) ==
    {[form |-> Form(f), has_imm |-> f.imm # <<>>, imm |-> i,
      commas |-> IF Form(f) = "()" THEN f.commas ELSE 0, reg1 |-> r1, reg2 |-> r2, scal |-> n] :
        i \in Optional(f.imm, string2uint, 0),
        r1 \in Optional(f.reg1, reflect_registers, NoRegister),
        r2 \in Optional(f.reg2, reflect_registers, NoRegister),
        n \in Optional(f.scal, Scale, 0)}

parse_operand(s) ==
    IF s = <<>> THEN {None}
    ELSE IF s[1] = "$"
         THEN {Simply("$", TRUE, i, NoRegister) : i \in string2uint(Tail(s))}
    ELSE IF NamesRegister(s)
         THEN {Simply("%", FALSE, 0, r) : r \in reflect_registers(s)}
    ELSE MemoryOperand(Cut(s))

-----------------------------------------------------------------------------
(* parse_instruction *)

\* 0 blanks, 1 operator, 2 blanks, 3 source, 4 comma and blanks, 5 destination, 6 rest.
\* A comma within brackets does not end the source.
AnyCommaEndsSource(p) == TRUE
CommaEndsSource(p) == p.brackets \in {0, 2}

State(p, c) ==
    CASE p.state = 0 /\ c # Blank                         -> 1
      [] p.state = 1 /\ c = Blank                         -> 2
      [] p.state = 2 /\ c # Blank                         -> 3
      [] p.state = 3 /\ c = Comma /\ CommaEndsSource(p)   -> 4
      [] p.state = 4 /\ c \notin {Blank, Comma}           -> 5
      [] p.state = 5 /\ c = Blank                         -> 6
      [] OTHER                                            -> p.state

Split(p, c) ==
    LET s == State(p, c)
        add(part, here) == IF here THEN Append(part, c) ELSE part
    IN  [state    |-> s,
         brackets |-> IF c \in {"(", ")"} THEN p.brackets + 1 ELSE p.brackets,
         op       |-> add(p.op, s = 1),
         src      |-> add(p.src, s = 3),
         dst      |-> add(p.dst, s = 5)]

Separate(t) ==
    LET after[k \in 0 .. Len(t)] ==
            IF k = 0 THEN [state |-> 0, brackets |-> 0, op |-> <<>>, src |-> <<>>, dst |-> <<>>]
            ELSE Split(after[k - 1], t[k])
    IN  after[Len(t)]

\* The parts, parsed
Parsed(p) ==
    {[op |-> o, src |-> s, dst |-> d] :
        o \in Operators(p.op), s \in parse_operand(p.src), d \in parse_operand(p.dst)}
parse_instruction(t) == Parsed(Separate(t))

\* The instructions of a program; where its text cannot be parsed there is none.
Assemble(t) ==
    [a \in {a \in DOMAIN t : parse_instruction(t[a]) # {}} |-> CHOOSE i \in parse_instruction(t[a]) : TRUE]

-----------------------------------------------------------------------------
\* Boots have their text and its meaning.
AsmInit == \E b \in Boots : Boot(b) /\ text = b.text /\ listing = b.listing

AsmSpec ==
    /\ AsmInit
    /\ [][instruction_cycle /\ UNCHANGED <<text, listing>>]_asmVars
    /\ WF_vars(instruction_cycle)

-----------------------------------------------------------------------------
(* How an instruction is written *)

\* A style: the blanks before the operator, behind it, behind the comma and behind
\* the destination; whether numbers are hexadecimal, and the upper half
\* negative; and which of their names operators and registers have.
Style ==
    [lead : Nat, gap : Nat \ {0}, comma : Nat, tail : Nat, hex : BOOLEAN, signed : BOOLEAN, name : 1 .. 4]

ASSUME StyleAssumption == Styles \subseteq Style

Blanks(n) == [i \in 1 .. n |-> Blank]

Numeral(x, hex) ==
    LET base == IF hex THEN 16 ELSE 10
        digits[n \in Word] == IF n < base THEN <<Digits[n + 1]>>
                              ELSE Append(digits[n \div base], Digits[(n % base) + 1])
    IN  (IF hex THEN <<"0", "x">> ELSE <<>>) \o digits[x]

\* The least number, -HALF, cannot be written as one.
Number(x, st) ==
    IF st.signed /\ x > HALF THEN <<"-">> \o Numeral(2 * HALF - x, st.hex) ELSE Numeral(x, st.hex)

Name(list, st) == <<list[IF st.name \in DOMAIN list THEN st.name ELSE 1]>>
RegisterText(r, st) == IF r = NoRegister THEN <<>> ELSE Name(RegisterNames[r], st)

OperandText(w, st) ==
    CASE w.form = ""    -> <<>>
      [] w.form = "%"   -> RegisterText(w.reg1, st)
      [] w.form = "$"   -> <<"$">> \o Number(w.imm, st)
      [] w.form = "imm" -> Number(w.imm, st)
      [] w.form = "()"  ->
            (IF w.has_imm THEN Number(w.imm, st) ELSE <<>>)
            \o <<"(">> \o RegisterText(w.reg1, st)
            \o (IF w.commas > 0 THEN <<Comma>> \o RegisterText(w.reg2, st) ELSE <<>>)
            \o (IF w.commas > 1 THEN <<Comma>> \o (IF w.scal = 0 THEN <<>> ELSE Numeral(w.scal, FALSE)) ELSE <<>>)
            \o <<")">>

InstructionText(i, st) ==
    Blanks(st.lead) \o Name(OperatorNames[i.op], st)
    \o Blanks(st.gap) \o OperandText(i.src, st)
    \o (IF i.dst.form = "" THEN <<>>
        ELSE <<Comma>> \o Blanks(st.comma) \o OperandText(i.dst, st) \o Blanks(st.tail))

\* An operand that says nothing but what is written of it
Writable(w) ==
    /\ w \in Written /\ w.scal \in Word
    /\ w.form \in {"$", "imm"} => w.has_imm
    /\ w.form \in {"", "%"} => ~w.has_imm
    /\ ~w.has_imm => w.imm = 0
    /\ w.form = "%" => w.reg1 \in Register
    /\ w.form \notin {"%", "()"} => w.reg1 = NoRegister
    /\ w.form # "()" => w.commas = 0
    /\ w.commas = 0 => w.reg2 = NoRegister
    /\ w.commas < 2 => w.scal = 0

\* A boot has texts and the instructions that they are parsed into, and what its author
\* means can be written; a destination comes behind a source.
ASSUME TextAssumption ==
    /\ Register \subseteq DOMAIN RegisterNames
    /\ \A b \in Boots :
        /\ \A a \in DOMAIN b.text : b.text[a] \in Seq(STRING)
        /\ b.code = Assemble(b.text)
        /\ DOMAIN b.listing \subseteq DOMAIN b.text
        /\ \A a \in DOMAIN b.listing :
            /\ b.listing[a] \in Instruction
            /\ Writable(b.listing[a].src) /\ Writable(b.listing[a].dst)
            /\ b.listing[a].src.form = "" => b.listing[a].dst.form = ""

-----------------------------------------------------------------------------
(* Properties *)

\* An instruction that is written as its author means it, with blanks wherever the
\* automaton at line 161 has room for them, numbers in both bases and with or without
\* sign, is parsed as what it means: all operators, all operand types, on both sides
\* of the comma.
ParsedAsWritten ==
    \A a \in DOMAIN listing : \A st \in Styles :
        text[a] = InstructionText(listing[a], st) => a \in DOMAIN code /\ code[a] = listing[a]

\* The number in `mov $number,%reg`, if that is what an instruction is
IsImmediateMove(t) ==
    /\ Len(t) > 4
    /\ SubSeq(t, 1, 3) = <<"mov", Blank, "$">>
    /\ t[Len(t) - 1] = Comma /\ reflect_registers(<<t[Len(t)]>>) # {}
    /\ \A k \in 4 .. Len(t) - 2 : t[k] # Comma
Immediate(t) == SubSeq(t, 4, Len(t) - 2)

\* The value of digits
Amount(digits, base) ==
    LET size[k \in 0 .. Len(digits)] ==
            IF k = 0 THEN 0
            ELSE size[k - 1] * base + IF digits[k] \in DOMAIN DigitOf THEN DigitOf[digits[k]] ELSE 0
    IN  size[Len(digits)]

\* What a text says by the comment at convert.c:8 to 13: blanks, a sign, decimal digits
\* or 0x and hexadecimal digits, blanks.
Says(s) ==
    LET ink      == {k \in DOMAIN s : s[k] # Blank}
        first    == IF ink = {} THEN 1 ELSE Min(ink)
        last     == IF ink = {} THEN 0 ELSE Max(ink)
        negative == ink # {} /\ s[first] = "-"
        sign     == IF negative THEN first ELSE first - 1
        hex      == sign + 2 <= last /\ s[sign + 1] = "0" /\ s[sign + 2] = "x"
        digits   == SubSeq(s, IF hex THEN sign + 3 ELSE sign + 1, last)
        base     == IF hex THEN 16 ELSE 10
    IN  [empty    |-> digits = <<>>,
         refused  |-> hex /\ s[Len(s)] = Blank,
         numeral  |-> \A k \in DOMAIN digits :
                        digits[k] \in DOMAIN DigitOf /\ DigitOf[digits[k]] < base,
         negative |-> negative,
         size     |-> Amount(digits, base)]

\* A number that fits is never refused, however it is spelled, but for a hexadecimal
\* number with blanks behind it; and what is converted is
\* a number, and the right one but for multiples of 2^64: the test for overflow, which
\* only compares with the value before the digit, lets some of them pass.  Text without
\* a digit may pass as 0.
NumbersAsWritten ==
    \A a \in {a \in DOMAIN text : IsImmediateMove(text[a])} :
        LET says == Says(Immediate(text[a]))
            converted == a \in DOMAIN code
        IN  /\ converted /\ says.empty => code[a].src.imm = 0
            /\ converted /\ ~says.empty =>
                    /\ says.numeral
                    /\ code[a].src.imm = Wrap(IF says.negative THEN -says.size ELSE says.size)
            /\ /\ ~says.empty /\ says.numeral /\ ~says.refused
               /\ says.size < (IF says.negative THEN HALF ELSE 2 * HALF)
               => converted

\* Twice to the FRACTION_BITS, the number that a float is; 0 is the only one without a
\* leading 1.
Scaled(x) ==
    IF x = 0 THEN 0
    ELSE (2^FRACTION_BITS + (x % 2^FRACTION_BITS)) * 2^((x \div 2^FRACTION_BITS) - BIAS)
Distance(x, u) ==
    LET d == Scaled(x) - u * 2^FRACTION_BITS IN IF d < 0 THEN -d ELSE d

\* uint2float returns the float that is nearest, of two that are equally near the
\* even one, for all numbers, also where rounding carries into the exponent and where
\* the mask is undefined.
FloatIsNearest ==
    \A u \in 0 .. 2^UINT_BITS - 1 : \A x \in uint2float(u) :
        \A y \in {0} \cup (BIAS * 2^FRACTION_BITS .. (BIAS + UINT_BITS + 1) * 2^FRACTION_BITS - 1) :
            \/ Distance(x, u) < Distance(y, u)
            \/ Distance(x, u) = Distance(y, u) /\ (x = y \/ x % 2 = 0)
=============================================================================
