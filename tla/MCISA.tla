------------------------------- MODULE MCISA -------------------------------
(* The two programs for all inputs of Summands and Counts; all programs of one  *)
(* instruction that tell the operand types and the flags apart, in all Styles;  *)
(* and moves of an immediate that is any text of up to MAX_NUMBER_CHAR of Chars. *)
EXTENDS ISAPrograms

CONSTANTS
    Corners,            \* words to compute with
    Chars,              \* characters of numbers
    MAX_NUMBER_CHAR     \* bound on their length

Single(instruction, st, registers) == BootAt([a \in {0} |-> instruction], st, 0, registers)

Arithmetic ==
    {Single(i, TestStyle, [Idle EXCEPT !["rax"] = x, !["rdx"] = y]) :
        x \in Corners, y \in Corners, i \in {Does("add", Reg("rdx"), Reg("rax"))}}
    \cup {Single(Does("sub", Imm(y), Reg("rax")), TestStyle, [Idle EXCEPT !["rax"] = x]) :
            x \in Corners, y \in Corners}
    \cup {Single(Does("cmp", Imm(y), Addr(x)), TestStyle, Idle) : x \in Corners, y \in Corners}

Brackets ==
    {[None EXCEPT !.form = "()", !.has_imm = i # 0, !.imm = Wrap(i), !.commas = c,
                  !.reg1 = r, !.reg2 = IF c = 0 THEN NoRegister ELSE "rdx",
                  !.scal = IF c = 2 THEN s ELSE 0] :
        i \in {0, 3, -1}, c \in 0 .. 2, r \in {NoRegister, "rax"}, s \in {0, 1, 2, 8}}

Moves ==
    {Single(Does("mov", w, Reg("rdi")), st, [Idle EXCEPT !["rax"] = 5, !["rdx"] = 9]) :
        w \in Brackets \cup {Addr(3)}, st \in Styles}
    \cup {Single(Does("mov", Reg("rdi"), w), st, [Idle EXCEPT !["rax"] = 5, !["rdx"] = 9]) :
            w \in Brackets \cup {Addr(3)}, st \in Styles}

Operands == {None, Reg("rax"), Reg("rsp"), Imm(1), Local(-1)}

Others ==
    {Single(i, st, Idle) :
        i \in {i \in [op : Operator \ {"call", "jne", "jmp"}, src : Operands, dst : Operands] :
                    i.src = None => i.dst = None}
                \cup [op : {"call", "jne", "jmp"}, src : {Addr(0), Addr(1)}, dst : {None}],
        st \in Styles}

\* A program that is no more than its text
TextBoot(t) ==
    [text |-> [a \in {0} |-> t], listing |-> <<>>, code |-> Assemble([a \in {0} |-> t]),
     rip |-> 0, reg |-> Idle, mem |-> Untouched]

Numbers ==
    {TextBoot(<<"mov", " ", "$">> \o s \o <<",", "%rax">>) :
        s \in UNION {[1 .. n -> Chars] : n \in 0 .. MAX_NUMBER_CHAR}}

\* An unknown operator and an unknown register, a blank that becomes part of the source,
\* a scale that is none, a third comma, and texts that end early
Malformed ==
    {TextBoot(t) : t \in
        {<<>>, <<" ">>, <<"halt">>, <<"mov", " ", "%?", ",", "%rax">>,
         <<"mov", " ", "%rax", " ", ",", "%rdi">>, <<"mov", "%rax", ",", "%rdi">>,
         <<"mov", " ", "(", "%rax", ",", "%rdx", ",", "3", ")", ",", "%rdi">>,
         <<"mov", " ", "(", "%rax", ",", "%rdx", ",", "1", ",", "1", ")", ",", "%rdi">>,
         <<"mov", " ", "%rax", ",", "1", ",", "2", "(", "%rdx">>,
         <<"mov", " ", ",">>, <<"push", " ", "%rax", ",">>}}

\* Each blank there is and is not, in both bases, with and without a sign.
AllStyles ==
    {TestStyle,
     [TestStyle EXCEPT !.gap = 1, !.hex = FALSE, !.name = 2],
     [TestStyle EXCEPT !.lead = 1, !.gap = 1, !.comma = 1, !.signed = FALSE, !.name = 3],
     [TestStyle EXCEPT !.lead = 2, !.gap = 2, !.comma = 2, !.tail = 2, !.hex = FALSE, !.signed = FALSE, !.name = 4]}

AllBoots == AddBoots \cup SumBoots \cup Arithmetic \cup Moves \cup Others \cup Numbers \cup Malformed

\* Checked once, ahead of the states
ASSUME FloatIsNearest
=============================================================================
