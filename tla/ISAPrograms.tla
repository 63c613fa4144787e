---------------------------- MODULE ISAPrograms ----------------------------
(***************************************************************************)
(* The two programs that isa.c tests the processor with, for all inputs:   *)
(* an addition in a function (TestAddFunctionCallAndComputation) and a     *)
(* recursive sum (TestSumRecursiveCondition).                              *)
(***************************************************************************)
EXTENDS Assembly

CONSTANTS
    Summands,   \* numbers to add; the test has 0xabcd and 0x12340000
    Counts,     \* numbers to sum up to; the test has 3
    Stack       \* the address in rsp when a program starts; 0x7ffffffee220

ASSUME ProgramAssumption ==
    /\ Summands \subseteq Word /\ Counts \subseteq Word /\ Stack \in Word
    /\ {"rax", "rdx", "rdi", "rsi"} \subseteq Register

\* Both programs fit below the largest address, with the address behind the longer
\* one's last instruction; the stack has room for the frames of main, of the addition
\* and of each call of the sum.
ASSUME RoomAssumption ==
    /\ 19 * MAX_INSTRUCTION_CHAR < 2 * HALF
    /\ Stack + 2 * WORD_BYTES < 2 * HALF
    /\ 6 * WORD_BYTES <= Stack
    /\ \A n \in Counts : 4 * WORD_BYTES * (n + 1) <= Stack

Reg(r)   == [None EXCEPT !.form = "%", !.reg1 = r]
Imm(x)   == [None EXCEPT !.form = "$", !.has_imm = TRUE, !.imm = Wrap(x)]
Addr(x)  == [None EXCEPT !.form = "imm", !.has_imm = TRUE, !.imm = Wrap(x)]
\* x words from the frame pointer; -0x8(%rbp) is Local(-1)
Local(x) == [None EXCEPT !.form = "()", !.has_imm = TRUE, !.imm = Wrap(x * WORD_BYTES), !.reg1 = "rbp"]

Does(op, s, d) == [op |-> op, src |-> s, dst |-> d]

\* The address of instruction i, from 0
At(i) == i * MAX_INSTRUCTION_CHAR

Loaded(list) ==
    [a \in {At(i - 1) : i \in DOMAIN list} |->
        list[CHOOSE i \in DOMAIN list : At(i - 1) = a]]

AddCode == <<
    Does("push", Reg("rbp"), None),
    Does("mov", Reg("rsp"), Reg("rbp")),
    Does("mov", Reg("rdi"), Local(-3)),
    Does("mov", Reg("rsi"), Local(-4)),
    Does("mov", Local(-3), Reg("rdx")),
    Does("mov", Local(-4), Reg("rax")),
    Does("add", Reg("rdx"), Reg("rax")),
    Does("mov", Reg("rax"), Local(-1)),
    Does("mov", Local(-1), Reg("rax")),
    Does("pop", Reg("rbp"), None),
    Does("ret", None, None),
    Does("mov", Reg("rdx"), Reg("rsi")),
    Does("mov", Reg("rax"), Reg("rdi")),
    Does("call", Addr(At(0)), None),
    Does("mov", Reg("rax"), Local(-1))>>
AddProgram == Loaded(AddCode)

\* The handlers write all 8 bytes of a register, so that %eax and %edi are %rax and %rdi.
SumCode(n) == <<
    Does("push", Reg("rbp"), None),
    Does("mov", Reg("rsp"), Reg("rbp")),
    Does("sub", Imm(2 * WORD_BYTES), Reg("rsp")),
    Does("mov", Reg("rdi"), Local(-1)),
    Does("cmp", Imm(0), Local(-1)),
    Does("jne", Addr(At(8)), None),
    Does("mov", Imm(0), Reg("rax")),
    Does("jmp", Addr(At(14)), None),
    Does("mov", Local(-1), Reg("rax")),
    Does("sub", Imm(1), Reg("rax")),
    Does("mov", Reg("rax"), Reg("rdi")),
    Does("call", Addr(At(0)), None),
    Does("mov", Local(-1), Reg("rdx")),
    Does("add", Reg("rdx"), Reg("rax")),
    Does("leave", None, None),
    Does("ret", None, None),
    Does("mov", Imm(n), Reg("rdi")),
    Does("call", Addr(At(0)), None),
    Does("mov", Reg("rax"), Local(-1))>>
SumProgram(n) == Loaded(SumCode(n))

\* The stack before a program starts; its words are told apart by their addresses.
Untouched == [a \in Word |-> a]

\* A program as its author means it, written in a style and decoded
BootAt(program, st, i, registers) ==
    LET t == [a \in DOMAIN program |-> InstructionText(program[a], st)]
    IN  [text |-> t, listing |-> program, code |-> Assemble(t),
         rip |-> At(i), reg |-> registers, mem |-> Untouched]

\* main has a frame of two words.
Idle == [r \in Register |-> IF r = "rsp" THEN Stack
                            ELSE IF r = "rbp" THEN Stack + 2 * WORD_BYTES ELSE 0]

\* The tests have four blanks behind mov and hexadecimal numbers.
TestStyle == [lead |-> 0, gap |-> 4, comma |-> 0, tail |-> 0, hex |-> TRUE, signed |-> TRUE,
              name |-> 1]

AddBoot(x, y) == BootAt(AddProgram, TestStyle, 11, [Idle EXCEPT !["rdx"] = x, !["rax"] = y])
SumBoot(n) == BootAt(SumProgram(n), TestStyle, 16, Idle)
AddBoots == {AddBoot(x, y) : x \in Summands, y \in Summands}
SumBoots == {SumBoot(n) : n \in Counts}

\* The two programs are started as the tests start them.
ASSUME BootsAssumption ==
    /\ TestStyle \in Styles
    /\ \A b \in Boots : /\ b.listing = AddProgram => b \in AddBoots
                       /\ \A n \in Counts : b.listing = SumProgram(n) => b \in SumBoots

-----------------------------------------------------------------------------
(* Properties *)

\* main is back in its frame, and of its stack only the variable at -0x8(%rbp) has
\* changed, which has the result.
BackInMain(result) ==
    /\ reg["rsp"] = Stack
    /\ reg["rbp"] = Stack + 2 * WORD_BYTES
    /\ reg["rax"] = result
    /\ \A a \in Word : a >= Stack =>
        mem[a] = IF a = Stack + WORD_BYTES THEN result ELSE Untouched[a]

\* The functions of the two programs compute what their names say, whatever their
\* arguments are, and every call, however deep in the recursion, returns to its caller
\* with the caller's frame as it was: the assertions at lines 1403 to 1416 and 1484 to
\* 1494 for all inputs.
ProgramsCompute ==
    /\ listing = AddProgram /\ rip = At(15) => BackInMain(Wrap(reg["rdi"] + reg["rsi"]))
    /\ \A n \in Counts :
        listing = SumProgram(n) /\ rip = At(19) => BackInMain(Wrap((n * (n + 1)) \div 2))

\* Both programs come to their end.
ProgramsEnd ==
    /\ (listing = AddProgram) ~> (rip = At(15))
    /\ \A n \in Counts : (listing = SumProgram(n)) ~> (rip = At(19))
=============================================================================
