------------------------------ MODULE ISAProofs ------------------------------
(***************************************************************************)
(* Proofs about modules ISA, Convert, Assembly and ISAPrograms, for every  *)
(* width of a word and every program: types, flags and loads; that the     *)
(* text of an instruction is parsed as it is written; and what the two     *)
(* programs compute.                                                       *)
(***************************************************************************)
EXTENDS ISAPrograms, TLAPS, WellFoundedInduction, SequenceTheorems

(* Wrapping is addition or subtraction of 2 * HALF where one is enough. *)
LEMMA WrapIsWord ==
    ASSUME NEW x \in Int
    PROVE  Wrap(x) \in Word
BY WordAssumption DEF Wrap, Word

\* A word is not changed.
LEMMA WrapWord ==
    ASSUME NEW x \in Word
    PROVE  Wrap(x) = x
BY WordAssumption DEF Wrap, Word

\* A sum of two words that is too large loses 2 * HALF.
LEMMA WrapCarry ==
    ASSUME NEW x \in Int, 2 * HALF <= x, x < 4 * HALF
    PROVE  Wrap(x) = x - 2 * HALF
BY WordAssumption, SMTT(60) DEF Wrap

\* A difference that is negative gains it.
LEMMA WrapBorrow ==
    ASSUME NEW x \in Int, -2 * HALF <= x, x < 0
    PROVE  Wrap(x) = x + 2 * HALF
BY WordAssumption, SMTT(60) DEF Wrap

-----------------------------------------------------------------------------
(* Type correctness *)

(* What BootAssumption says of the program, which no step changes. *)
CodeOK ==
    \A a \in DOMAIN code :
        /\ code[a] \in Instruction
        /\ code[a].src.form = "%" => code[a].src.reg1 \in Register
        /\ code[a].dst.form = "%" => code[a].dst.reg1 \in Register
        /\ code[a].op \in {"call", "jne", "jmp"} => code[a].src.form = "imm"
        /\ Unbracketed(code[a].src)

IInv == TypeOK /\ CodeOK

(* The address of an operand that has its registers is a word. *)
LEMMA AddressIsWord ==
    ASSUME TypeOK, NEW w \in Written, IsMem(w), ~IsNull(w)
    PROVE  vaddr(w) \in Word
<1> DEFINE i == IF "imm" \in Parts(w) THEN w.imm ELSE 0
           b == IF "reg1" \in Parts(w) THEN reg[w.reg1] ELSE 0
           x == IF "reg2" \notin Parts(w) THEN 0
                ELSE IF w.commas = 2 THEN reg[w.reg2] * w.scal ELSE reg[w.reg2]
<1>1. /\ w.imm \in Int
      /\ w.scal \in Int
      /\ "reg1" \in Parts(w) => w.reg1 \in Register
      /\ "reg2" \in Parts(w) => w.reg2 \in Register
  <2>1. w.imm \in Word /\ w.scal \in {0, 1, 2, 4, 8}
    BY DEF Written
  <2>2. w.reg1 \in Register \cup {NoRegister} /\ w.reg2 \in Register \cup {NoRegister}
    BY DEF Written
  <2>3. w.imm \in Int /\ w.scal \in Int
    BY <2>1, WordAssumption DEF Word
  <2> QED
    BY <2>2, <2>3 DEF IsNull
<1>2. \A r \in Register : reg[r] \in Int
  BY WordAssumption DEF TypeOK, Word
<1>3. i \in Int /\ b \in Int
  BY <1>1, <1>2
<1>4. x \in Int
  BY <1>1, <1>2
<1>5. i + b + x \in Int
  BY <1>3, <1>4
<1>6. vaddr(w) = Wrap(i + b + x)
  BY DEF vaddr
<1> QED
  BY <1>5, <1>6, WrapIsWord

(* What an instruction that is executed finds in its operands. *)
LEMMA OperandsOK ==
    ASSUME IInv, NEW op \in Operator, Executes(op)
    PROVE  /\ rip \in DOMAIN code
           /\ src \in Written /\ dst \in Written
           /\ IsReg(src) => src.reg1 \in Register
           /\ IsReg(dst) => dst.reg1 \in Register
           /\ src.imm \in Word
           /\ \A w \in Decoded(op) : IsMem(w) => vaddr(w) \in Word
           /\ op \in {"call", "jne", "jmp"} => vaddr(src) \in Word
<1>1. rip \in DOMAIN code /\ code[rip].op = op /\ code[rip] \in Instruction
  BY DEF IInv, CodeOK, Executes, Fetched
<1>2. src \in Written /\ dst \in Written
  BY <1>1 DEF Instruction, src, dst
<1>3. /\ IsReg(src) => src.reg1 \in Register
      /\ IsReg(dst) => dst.reg1 \in Register
  BY <1>1 DEF IInv, CodeOK, IsReg, src, dst
<1>4. src.imm \in Word
  BY <1>2 DEF Written
<1>5. Decoded(op) \subseteq Written
  BY <1>2 DEF Decoded
<1>6. \A w \in Decoded(op) : IsMem(w) => vaddr(w) \in Word
  BY <1>5, AddressIsWord DEF IInv, Executes
<1>7. op \in {"call", "jne", "jmp"} => IsMem(src) /\ src \in Decoded(op)
  BY <1>1 DEF IInv, CodeOK, IsMem, Decoded, src
<1> QED
  BY <1>1, <1>2, <1>3, <1>4, <1>6, <1>7

\* Every boot has the types of a machine.
LEMMA InitOK == Init => IInv
<1> SUFFICES ASSUME Init PROVE IInv
  OBVIOUS
<1>1. PICK b \in Boots : code = b.code /\ rip = b.rip /\ reg = b.reg /\ mem = b.mem
                     /\ flags = Cleared /\ status = "running"
  BY DEF Init, Boot
<1>2. TypeOK
  BY <1>1, BootAssumption DEF TypeOK, Cleared
<1>3. CodeOK
  BY <1>1, BootAssumption DEF CodeOK
<1> QED
  BY <1>2, <1>3 DEF IInv

(* The next instruction, and the neighbours of the stack pointer, are at words. *)
LEMMA PointersOK ==
    ASSUME TypeOK
    PROVE  /\ Wrap(rip + MAX_INSTRUCTION_CHAR) \in Word
           /\ \A sp \in Word : Below(sp) \in Word /\ Above(sp) \in Word
<1>1. \A sp \in Word : sp - WORD_BYTES \in Int /\ sp + WORD_BYTES \in Int
  BY WordAssumption DEF Word
<1>2. rip + MAX_INSTRUCTION_CHAR \in Int
  BY WordAssumption DEF TypeOK, Word
<1> QED
  BY <1>1, <1>2, WrapIsWord DEF Below, Above

\* Results are words and flags are bits.
LEMMA FlagsOK ==
    ASSUME NEW s \in Word, NEW d \in Word
    PROVE  /\ Sum(s, d) \in Word /\ Difference(s, d) \in Word
           /\ AddFlags(s, d) \in [Flag -> {0, 1}]
           /\ SubFlags(s, d) \in [Flag -> {0, 1}]
<1>1. s + d \in Int /\ d - s \in Int
  BY WordAssumption DEF Word
<1>2. Sum(s, d) \in Word /\ Difference(s, d) \in Word
  BY <1>1, WrapIsWord DEF Sum, Difference
<1>3. AddFlags(s, d) \in [Flag -> {0, 1}]
  BY DEF AddFlags, FlagsOf, Flag, Bit, Sign
<1>4. SubFlags(s, d) \in [Flag -> {0, 1}]
  BY DEF SubFlags, FlagsOf, Flag, Bit, Sign
<1> QED
  BY <1>2, <1>3, <1>4

\* Every handler keeps them, and none writes to the program.
LEMMA StepOK == IInv /\ [instruction_cycle]_vars => IInv'
<1> SUFFICES ASSUME IInv, [instruction_cycle]_vars PROVE IInv'
  OBVIOUS
<1> USE DEF IInv
<1>1. /\ rip \in Word
      /\ reg \in [Register -> Word]
      /\ flags \in [Flag -> {0, 1}]
      /\ mem \in [Word -> Word]
      /\ Cleared \in [Flag -> {0, 1}]
      /\ "rsp" \in Register /\ "rbp" \in Register
  BY RegisterAssumption DEF TypeOK, Cleared
<1>2. UNCHANGED code => CodeOK'
  BY DEF CodeOK
<1>3. CASE ParseError
  BY <1>1, <1>2, <1>3 DEF ParseError, TypeOK
<1>4. CASE NullPointer
  BY <1>1, <1>2, <1>4 DEF NullPointer, TypeOK
<1>5. CASE mov_handler
  <2>1. Executes("mov") /\ "mov" \in Operator
    BY <1>5 DEF mov_handler, Operator
  <2>2. src \in Decoded("mov") /\ dst \in Decoded("mov")
    BY DEF Decoded
  <2>3. reg' \in [Register -> Word] /\ mem' \in [Word -> Word]
    BY <1>1, <1>5, <2>1, <2>2, OperandsOK DEF mov_handler
  <2> QED
    BY <1>1, <1>2, <1>5, <2>3, PointersOK DEF mov_handler, TypeOK, increase_pc, reset_cflags
<1>6. CASE push_handler
  <2>1. Executes("push") /\ "push" \in Operator
    BY <1>6 DEF push_handler, Operator
  <2>2. reg' \in [Register -> Word]
    BY <1>1, <1>6, PointersOK DEF push_handler
  <2>3. mem' \in [Word -> Word]
    BY <1>1, <1>6, <2>1, <2>2, OperandsOK DEF push_handler
  <2> QED
    BY <1>1, <1>2, <1>6, <2>2, <2>3, PointersOK DEF push_handler, TypeOK, increase_pc, reset_cflags
<1>7. CASE pop_handler
  <2>1. Executes("pop") /\ "pop" \in Operator
    BY <1>7 DEF pop_handler, Operator
  <2>2. [reg EXCEPT !["rsp"] = Above(@)] \in [Register -> Word]
    BY <1>1, PointersOK
  <2>3. reg' \in [Register -> Word]
    BY <1>1, <1>7, <2>1, <2>2, OperandsOK DEF pop_handler
  <2> QED
    BY <1>1, <1>2, <1>7, <2>3, PointersOK DEF pop_handler, TypeOK, increase_pc, reset_cflags
<1>8. CASE leave_handler
  <2>1. reg' \in [Register -> Word]
    BY <1>1, <1>8, PointersOK DEF leave_handler
  <2> QED
    BY <1>1, <1>2, <1>8, <2>1, PointersOK DEF leave_handler, TypeOK, increase_pc, reset_cflags
<1>9. CASE call_handler
  <2>1. Executes("call") /\ "call" \in Operator
    BY <1>9 DEF call_handler, Operator
  <2>2. reg' \in [Register -> Word] /\ mem' \in [Word -> Word]
    BY <1>1, <1>9, PointersOK DEF call_handler
  <2>3. rip' \in Word
    BY <1>9, <2>1, OperandsOK DEF call_handler
  <2> QED
    BY <1>1, <1>2, <1>9, <2>2, <2>3 DEF call_handler, TypeOK, reset_cflags
<1>10. CASE ret_handler
  <2>1. reg' \in [Register -> Word] /\ rip' \in Word
    BY <1>1, <1>10, PointersOK DEF ret_handler
  <2> QED
    BY <1>1, <1>2, <1>10, <2>1 DEF ret_handler, TypeOK, reset_cflags
<1>11. CASE add_handler
  <2>1. Executes("add") /\ "add" \in Operator
    BY <1>11 DEF add_handler, Operator
  <2>2. reg[src.reg1] \in Word /\ reg[dst.reg1] \in Word
    BY <1>1, <1>11, <2>1, OperandsOK DEF add_handler
  <2>3. reg' \in [Register -> Word] /\ flags' \in [Flag -> {0, 1}]
    BY <1>1, <1>11, <2>2, FlagsOK DEF add_handler
  <2> QED
    BY <1>1, <1>2, <1>11, <2>3, PointersOK DEF add_handler, TypeOK, increase_pc
<1>12. CASE sub_handler
  <2>1. Executes("sub") /\ "sub" \in Operator
    BY <1>12 DEF sub_handler, Operator
  <2>2. src.imm \in Word /\ reg[dst.reg1] \in Word
    BY <1>1, <1>12, <2>1, OperandsOK DEF sub_handler
  <2>3. reg' \in [Register -> Word] /\ flags' \in [Flag -> {0, 1}]
    BY <1>1, <1>12, <2>2, FlagsOK DEF sub_handler
  <2> QED
    BY <1>1, <1>2, <1>12, <2>3, PointersOK DEF sub_handler, TypeOK, increase_pc
<1>13. CASE cmp_handler
  <2>1. Executes("cmp") /\ "cmp" \in Operator
    BY <1>13 DEF cmp_handler, Operator
  <2>2. dst \in Decoded("cmp")
    BY DEF Decoded
  <2>3. src.imm \in Word /\ vaddr(dst) \in Word
    BY <1>13, <2>1, <2>2, OperandsOK DEF cmp_handler
  <2>4. mem[vaddr(dst)] \in Word
    BY <1>1, <2>3
  <2>5. flags' \in [Flag -> {0, 1}]
    BY <1>13, <2>3, <2>4, FlagsOK DEF cmp_handler
  <2> QED
    BY <1>1, <1>2, <1>13, <2>5, PointersOK DEF cmp_handler, TypeOK, increase_pc
<1>14. CASE jne_handler
  <2>1. Executes("jne") /\ "jne" \in Operator
    BY <1>14 DEF jne_handler, Operator
  <2>2. rip' \in Word
    BY <1>14, <2>1, OperandsOK, PointersOK DEF jne_handler, increase_pc
  <2> QED
    BY <1>1, <1>2, <1>14, <2>2 DEF jne_handler, TypeOK, reset_cflags
<1>15. CASE jmp_handler
  <2>1. Executes("jmp") /\ "jmp" \in Operator
    BY <1>15 DEF jmp_handler, Operator
  <2>2. rip' \in Word
    BY <1>15, <2>1, OperandsOK DEF jmp_handler
  <2> QED
    BY <1>1, <1>2, <1>15, <2>2 DEF jmp_handler, TypeOK
<1>16. CASE UNCHANGED vars
  BY <1>1, <1>2, <1>16 DEF vars, TypeOK
<1>17. NoCase => UNCHANGED vars
  BY DEF NoCase
<1> QED
  BY <1>3, <1>4, <1>5, <1>6, <1>7, <1>8, <1>9, <1>10, <1>11, <1>12, <1>13, <1>14,
     <1>15, <1>16, <1>17 DEF instruction_cycle

\* Types and program, at all times.
LEMMA Invariant == Spec => []IInv
<1>1. Init => IInv
  BY InitOK
<1>2. IInv /\ [instruction_cycle]_vars => IInv'
  BY StepOK
<1> QED
  BY <1>1, <1>2, PTL DEF Spec

(* Registers, memory and the program counter hold words and flags hold bits,    *)
(* whatever program the handlers execute, for every width of a word.            *)
THEOREM TypeCorrect == Spec => []TypeOK
<1>1. IInv => TypeOK
  BY DEF IInv
<1> QED
  BY <1>1, Invariant, PTL

-----------------------------------------------------------------------------
(* The flags *)

(* What an addition finds out from the wrapped sum. *)
LEMMA AddFlagsRight ==
    ASSUME NEW s \in Word, NEW d \in Word
    PROVE  /\ AddFlags(s, d)["CF"] = 1 <=> s + d \notin Word
           /\ AddFlags(s, d)["OF"] = 1 <=> ~IsSigned(Signed(s) + Signed(d))
           /\ AddFlags(s, d)["ZF"] = 1 <=> Sum(s, d) = 0
           /\ AddFlags(s, d)["SF"] = 1 <=> Signed(Sum(s, d)) < 0
<1>1. HALF \in Int /\ HALF > 0 /\ s \in Int /\ d \in Int
      /\ 0 <= s /\ s < 2 * HALF /\ 0 <= d /\ d < 2 * HALF
  BY WordAssumption DEF Word
<1>2. s + d \in Word <=> s + d < 2 * HALF
  BY <1>1 DEF Word
<1>3. Sum(s, d) = IF s + d < 2 * HALF THEN s + d ELSE s + d - 2 * HALF
  <2>1. CASE s + d < 2 * HALF
    BY <1>2, <2>1, WrapWord DEF Sum
  <2>2. CASE 2 * HALF <= s + d
    BY <1>1, <2>2, WrapCarry DEF Sum
  <2> QED
    BY <1>1, <2>1, <2>2
<1>4. /\ AddFlags(s, d)["CF"] = Bit(Sum(s, d) < s)
      /\ AddFlags(s, d)["ZF"] = Bit(Sum(s, d) = 0)
      /\ AddFlags(s, d)["SF"] = Sign(Sum(s, d))
      /\ AddFlags(s, d)["OF"] = Bit(Sign(s) = Sign(d) /\ Sign(s) # Sign(Sum(s, d)))
  BY DEF AddFlags, FlagsOf
<1>5. AddFlags(s, d)["CF"] = 1 <=> s + d \notin Word
  BY <1>1, <1>2, <1>3, <1>4 DEF Bit
<1>6. AddFlags(s, d)["OF"] = 1 <=> ~IsSigned(Signed(s) + Signed(d))
  BY <1>1, <1>3, <1>4 DEF Bit, Sign, Signed, IsSigned
<1>7. AddFlags(s, d)["ZF"] = 1 <=> Sum(s, d) = 0
  BY <1>4 DEF Bit
<1>8. AddFlags(s, d)["SF"] = 1 <=> Signed(Sum(s, d)) < 0
  BY <1>1, <1>3, <1>4 DEF Sign, Signed
<1> QED
  BY <1>5, <1>6, <1>7, <1>8

(* What a subtraction or comparison finds out from the wrapped difference. *)
LEMMA SubFlagsRight ==
    ASSUME NEW s \in Word, NEW d \in Word
    PROVE  /\ SubFlags(s, d)["CF"] = 1 <=> s > d
           /\ SubFlags(s, d)["ZF"] = 1 <=> s = d
           /\ SubFlags(s, d)["SF"] = 1 <=> Signed(Wrap(d - s)) < 0
<1>1. HALF \in Int /\ HALF > 0 /\ s \in Int /\ d \in Int
      /\ 0 <= s /\ s < 2 * HALF /\ 0 <= d /\ d < 2 * HALF
  BY WordAssumption DEF Word
<1>2. s <= d => d - s \in Word
  BY <1>1 DEF Word
<1>3. Difference(s, d) = IF s <= d THEN d - s ELSE d - s + 2 * HALF
  <2>1. CASE s <= d
    BY <1>2, <2>1, WrapWord DEF Difference
  <2>2. CASE d < s
    <3>1. d - s \in Int /\ -2 * HALF <= d - s /\ d - s < 0
      BY <1>1, <2>2
    <3> QED
      BY <1>1, <2>2, <3>1, WrapBorrow DEF Difference
  <2> QED
    BY <1>1, <2>1, <2>2
<1>4. /\ SubFlags(s, d)["CF"] = Bit(Difference(s, d) > d)
      /\ SubFlags(s, d)["ZF"] = Bit(Difference(s, d) = 0)
      /\ SubFlags(s, d)["SF"] = Sign(Difference(s, d))
  BY DEF SubFlags, FlagsOf
<1>5. SubFlags(s, d)["CF"] = 1 <=> s > d
  BY <1>1, <1>3, <1>4 DEF Bit
<1>6. SubFlags(s, d)["ZF"] = 1 <=> s = d
  BY <1>1, <1>3, <1>4 DEF Bit
<1>7. SubFlags(s, d)["SF"] = 1 <=> Signed(Wrap(d - s)) < 0
  BY <1>1, <1>3, <1>4 DEF Sign, Signed, Difference
<1> QED
  BY <1>5, <1>6, <1>7

(* An instruction has the handler of its operator and no other. *)
LEMMA OneHandler ==
    ASSUME NEW op \in {"mov", "add", "sub", "cmp"}, Takes(op), [instruction_cycle]_vars
    PROVE  \/ op = "mov" /\ mov_handler
           \/ op = "add" /\ add_handler
           \/ op = "sub" /\ sub_handler
           \/ op = "cmp" /\ cmp_handler
           \/ UNCHANGED vars
<1>1. Executes(op) /\ HasCase(op) /\ code[rip].op = op /\ rip \in DOMAIN code
  BY DEF Takes, Executes, Fetched
<1>2. ~ParseError
  BY <1>1 DEF ParseError
<1>3. ~NullPointer
  BY <1>1 DEF NullPointer, Executes
<1>4. \A other \in Operator \ {op} : ~Executes(other)
  BY <1>1 DEF Executes
<1>5. ~push_handler /\ ~pop_handler /\ ~leave_handler
  BY <1>4 DEF push_handler, pop_handler, leave_handler, Operator
<1>6. ~call_handler /\ ~ret_handler /\ ~jne_handler /\ ~jmp_handler
  BY <1>4 DEF call_handler, ret_handler, jne_handler, jmp_handler, Operator
<1>7. /\ mov_handler => op = "mov"
      /\ add_handler => op = "add"
      /\ sub_handler => op = "sub"
      /\ cmp_handler => op = "cmp"
  BY <1>4 DEF mov_handler, add_handler, sub_handler, cmp_handler, Operator
<1>8. NoCase => UNCHANGED vars
  BY DEF NoCase
<1> QED
  BY <1>2, <1>3, <1>5, <1>6, <1>7, <1>8 DEF instruction_cycle

(* The carry, zero and sign flags are right about the numbers the words stand  *)
(* for, and the overflow flag is after additions, for every width of a word.   *)
THEOREM FlagsRight == Spec => FlagsTellTheTruth
<1>1. IInv /\ [instruction_cycle]_vars => [AdditionTells]_vars
  <2> SUFFICES ASSUME IInv, instruction_cycle, ~UNCHANGED vars, Takes("add")
               PROVE  AdditionTells
    BY DEF AdditionTells
  <2>1. add_handler
    BY OneHandler
  <2>2. /\ Executes("add") /\ "add" \in Operator
        /\ src.reg1 \in Register /\ dst.reg1 \in Register
    BY <2>1, OperandsOK DEF add_handler, Operator
  <2>3. reg[src.reg1] \in Word /\ reg[dst.reg1] \in Word
    BY <2>2 DEF IInv, TypeOK
  <2>4. /\ flags' = AddFlags(reg[src.reg1], reg[dst.reg1])
        /\ reg'[dst.reg1] = Sum(reg[src.reg1], reg[dst.reg1])
    BY <2>1, <2>2 DEF add_handler, IInv, TypeOK
  <2> QED
    BY <2>3, <2>4, AddFlagsRight DEF AdditionTells
<1>2. IInv /\ [instruction_cycle]_vars => [SubtractionTells]_vars
  <2> SUFFICES ASSUME IInv, instruction_cycle, ~UNCHANGED vars, Takes("sub") \/ Takes("cmp")
               PROVE  SubtractionTells
    BY DEF SubtractionTells
  <2>1. CASE Takes("sub")
    <3>1. sub_handler
      BY <2>1, OneHandler
    <3>2. Executes("sub") /\ "sub" \in Operator
      BY <3>1 DEF sub_handler, Operator
    <3>3. src.imm \in Word /\ dst.reg1 \in Register
      BY <3>1, <3>2, OperandsOK DEF sub_handler
    <3>4. reg[dst.reg1] \in Word
      BY <3>3 DEF IInv, TypeOK
    <3>5. flags' = SubFlags(src.imm, reg[dst.reg1])
      BY <3>1 DEF sub_handler
    <3> QED
      BY <2>1, <3>3, <3>4, <3>5, SubFlagsRight DEF SubtractionTells
  <2>2. CASE Takes("cmp")
    <3>1. cmp_handler
      BY <2>2, OneHandler
    <3>2. Executes("cmp") /\ "cmp" \in Operator /\ dst \in Decoded("cmp")
      BY <3>1 DEF cmp_handler, Operator, Decoded
    <3>3. src.imm \in Word /\ vaddr(dst) \in Word
      BY <3>1, <3>2, OperandsOK DEF cmp_handler
    <3>4. mem[vaddr(dst)] \in Word
      BY <3>3 DEF IInv, TypeOK
    <3>5. flags' = SubFlags(src.imm, mem[vaddr(dst)])
      BY <3>1 DEF cmp_handler
    <3>6. ~Takes("sub")
      BY <2>2 DEF Takes, Executes
    <3> QED
      BY <3>3, <3>4, <3>5, <3>6, SubFlagsRight DEF SubtractionTells
  <2> QED
    BY <2>1, <2>2
<1>3. IInv /\ [instruction_cycle]_vars => [AdditionTells /\ SubtractionTells]_vars
  BY <1>1, <1>2
<1> QED
  BY <1>3, Invariant, PTL DEF Spec, FlagsTellTheTruth

-----------------------------------------------------------------------------
(* Addresses *)

(* A well-formed operand names every register that its type takes an address from. *)
LEMMA WellFormedIsThere ==
    ASSUME NEW w \in Written, WellFormed(w), Unbracketed(w)
    PROVE  ~IsNull(w)
<1>1. CASE w.form = "imm"
  BY <1>1 DEF IsNull, Parts, Unbracketed
<1>2. CASE w.form = "()"
  <2>1. w.commas \in 0 .. 2
    BY DEF Written
  <2> QED
    BY <1>2, <2>1 DEF IsNull, Parts, WellFormed
<1> QED
  BY <1>1, <1>2 DEF WellFormed, IsMem

(* The sum over the parts that the type names is the sum of what is written. *)
LEMMA AddressIsMeant ==
    ASSUME TypeOK, NEW w \in Written, WellFormed(w), Unbracketed(w)
    PROVE  vaddr(w) = Meaning(w)
<1> DEFINE of(r) == IF r = NoRegister THEN 0 ELSE reg[r]
           scal == IF w.commas = 2 THEN w.scal ELSE 1
           imm == IF w.has_imm THEN w.imm ELSE 0
<1>1. /\ w.commas \in {0, 1, 2}
      /\ w.has_imm \in BOOLEAN
      /\ w.imm \in Int
      /\ scal \in Int
      /\ \A r \in Register : reg[r] \in Int
      /\ w.reg1 \in Register \cup {NoRegister}
      /\ w.reg2 \in Register \cup {NoRegister}
  <2>1. /\ w.commas \in 0 .. 2 /\ w.has_imm \in BOOLEAN
        /\ w.imm \in Word /\ w.scal \in {0, 1, 2, 4, 8}
        /\ w.reg1 \in Register \cup {NoRegister}
        /\ w.reg2 \in Register \cup {NoRegister}
    BY DEF Written
  <2>2. \A x \in Word : x \in Int
    BY WordAssumption DEF Word
  <2>3. \A r \in Register : reg[r] \in Int
    BY <2>2 DEF TypeOK
  <2>4. scal \in Int
    BY <2>1
  <2> QED
    BY <2>1, <2>2, <2>3, <2>4
<1>2. of(w.reg1) \in Int /\ of(w.reg2) \in Int /\ imm \in Int
  BY <1>1
<1>3. ("imm" \in Parts(w) => w.imm = imm) /\ ("imm" \notin Parts(w) => imm = 0)
  BY <1>1 DEF Parts, Unbracketed
<1>4. CASE w.form = "imm"
  <2>1. Parts(w) = {"imm"}
    BY <1>4 DEF Parts, Unbracketed
  <2>2. vaddr(w) = Wrap(imm + 0 + 0)
    BY <1>3, <2>1 DEF vaddr
  <2>3. Meaning(w) = Wrap(imm + 0)
    BY <1>4 DEF Meaning
  <2> HIDE DEF imm
  <2> QED
    BY <1>2, <2>2, <2>3
<1>5. CASE w.form = "()"
  <2>1. (IF "reg1" \in Parts(w) THEN reg[w.reg1] ELSE 0) = of(w.reg1)
    BY <1>1, <1>5 DEF Parts, WellFormed
  <2>2. (IF "reg2" \notin Parts(w) THEN 0
         ELSE IF w.commas = 2 THEN reg[w.reg2] * w.scal ELSE reg[w.reg2])
            = of(w.reg2) * scal
    <3>1. CASE w.commas = 0
      <4>1. of(w.reg2) = 0 /\ scal = 1 /\ "reg2" \notin Parts(w)
        BY <1>5, <3>1 DEF Parts, WellFormed
      <4> QED
        BY <4>1
    <3>2. CASE w.commas = 1
      <4>1. of(w.reg2) = reg[w.reg2] /\ scal = 1 /\ "reg2" \in Parts(w)
        BY <1>5, <3>2 DEF Parts, WellFormed
      <4> QED
        BY <1>2, <3>2, <4>1
    <3>3. CASE w.commas = 2
      <4>1. of(w.reg2) = reg[w.reg2] /\ scal = w.scal /\ "reg2" \in Parts(w)
        BY <1>5, <3>3 DEF Parts, WellFormed
      <4> QED
        BY <3>3, <4>1
    <3> QED
      BY <1>1, <3>1, <3>2, <3>3
  <2>3. of(w.reg2) * scal \in Int
    BY <1>1, <1>2
  <2>4. vaddr(w) = Wrap(imm + of(w.reg1) + of(w.reg2) * scal)
    BY <1>3, <2>1, <2>2 DEF vaddr
  <2>5. Meaning(w) = Wrap(imm + (of(w.reg1) + of(w.reg2) * scal))
    BY <1>5 DEF Meaning
  <2> DEFINE product == of(w.reg2) * scal
             base == of(w.reg1)
  <2>6. product \in Int /\ base \in Int /\ imm \in Int
    BY <1>2, <2>3
  <2>7. vaddr(w) = Wrap(imm + base + product) /\ Meaning(w) = Wrap(imm + (base + product))
    BY <2>4, <2>5
  <2> HIDE DEF imm, of, scal, product, base
  <2> QED
    BY <2>6, <2>7
<1> QED
  BY <1>4, <1>5 DEF WellFormed, IsMem

(* A load from a well-formed operand is executed, and finds the word at the       *)
(* address that the operand means, for every width, program and set of registers. *)
THEOREM LoadsAreMeant == Spec => LoadsFromMeaning
<1>1. ASSUME IInv, instruction_cycle, ~UNCHANGED vars, Fetched, code[rip].op = "mov",
             WellFormed(src), IsReg(dst)
      PROVE  reg'[dst.reg1] = mem[Meaning(src)]
  <2>1. src \in Written /\ dst \in Written /\ Unbracketed(src)
    BY <1>1 DEF IInv, CodeOK, Fetched, Instruction, src, dst
  <2>2. ~IsNull(src) /\ ~IsNull(dst)
    BY <1>1, <2>1, WellFormedIsThere DEF IsNull, IsMem, IsReg
  <2>3. Executes("mov") /\ "mov" \in Operator
    BY <1>1, <2>2 DEF Executes, Decoded, Operator
  <2>4. Takes("mov")
    BY <1>1, <2>3 DEF Takes, HasCase, WellFormed
  <2>5. mov_handler
    BY <1>1, <2>4, OneHandler
  <2>6. IsMem(src) /\ ~IsReg(src) /\ ~IsImm(src) /\ ~IsMem(dst)
    BY <1>1 DEF WellFormed, IsMem, IsReg, IsImm
  <2>7. reg' = [reg EXCEPT ![dst.reg1] = mem[vaddr(src)]]
    BY <2>5, <2>6 DEF mov_handler
  <2>8. dst.reg1 \in Register
    BY <1>1, <2>3, OperandsOK
  <2>9. vaddr(src) = Meaning(src)
    BY <1>1, <2>1, AddressIsMeant DEF IInv
  <2> QED
    BY <1>1, <2>7, <2>8, <2>9 DEF IInv, TypeOK
<1>2. IInv /\ [instruction_cycle]_vars =>
        [Fetched /\ code[rip].op = "mov" /\ WellFormed(src) /\ IsReg(dst) =>
            reg'[dst.reg1] = mem[Meaning(src)]]_vars
  BY <1>1
<1> QED
  BY <1>2, Invariant, PTL DEF Spec, LoadsFromMeaning

-----------------------------------------------------------------------------
(* Induction *)

\* What is so at 0, and at n + 1 if it is so at n, is so of every number.
LEMMA Induction ==
    ASSUME NEW N \in Nat, NEW S, 0 \in S, \A n \in 0 .. N - 1 : n \in S => n + 1 \in S
    PROVE  \A n \in 0 .. N : n \in S
<1> SUFFICES ASSUME NEW n \in 0 .. N, n \notin S PROVE FALSE
  OBVIOUS
<1> DEFINE T == {k \in Nat : k <= N /\ k \notin S}
<1>1. n \in T
  OBVIOUS
<1>2. PICK k \in T : \A j \in T : ~ (<<j, k>> \in OpToRel(<, Nat))
  <2>1. T \subseteq Nat /\ T # {}
    BY <1>1
  <2> HIDE DEF T
  <2> QED
    BY <2>1, WFMin, NatLessThanWellFounded
<1>3. k # 0
  OBVIOUS
<1>4. k - 1 \in 0 .. N - 1 /\ (k - 1) + 1 = k
  BY <1>3
<1>5. k - 1 \notin S
  BY <1>4
<1>6. k - 1 \in T /\ k - 1 < k
  BY <1>4, <1>5
<1>7. <<k - 1, k>> \in OpToRel(<, Nat)
  BY <1>4, <1>6 DEF OpToRel
<1> QED
  BY <1>2, <1>6, <1>7

-----------------------------------------------------------------------------
(* Automata: f takes a state and a character to the next state *)

\* The next state after a state in S and a character in C is in S.
Steps(f, S, C) == \A q \in S, c \in C : f[<<q, c>>] \in S

\* g is a run of f from x over the characters of s, as long as it stays in S.
IsRun(g, S, f, x, s) ==
    g[0] = x /\ \A k \in 1 .. Len(s) : g[k - 1] \in S => g[k] = f[<<g[k - 1], s[k]>>]

\* g is the run that f[k \in 0 .. Len(s)] == ... defines.
IsRunOf(g, S, f, x, s) ==
    /\ g \in [0 .. Len(s) -> S]
    /\ g = [k \in 0 .. Len(s) |-> IF k = 0 THEN x ELSE f[<<g[k - 1], s[k]>>]]

\* There is a run over every text.
LEMMA RunExists ==
    ASSUME NEW S, NEW x \in S, NEW C, NEW f, Steps(f, S, C), NEW s \in Seq(C)
    PROVE  \E g : IsRunOf(g, S, f, x, s)
<1> DEFINE Upto(n, g) == g \in [0 .. n -> S] /\ g = [k \in 0 .. n |-> IF k = 0 THEN x ELSE f[<<g[k - 1], s[k]>>]]
           T == {n \in Nat : \E g : Upto(n, g)}
<1>1. Len(s) \in Nat /\ \A k \in 1 .. Len(s) : s[k] \in C
  OBVIOUS
<1>2. 0 \in T
  <2> DEFINE g == [k \in 0 .. 0 |-> x]
  <2>1. Upto(0, g)
    OBVIOUS
  <2> QED
    BY <2>1
<1>3. ASSUME NEW n \in 0 .. Len(s) - 1, n \in T PROVE n + 1 \in T
  <2>1. PICK g : Upto(n, g)
    BY <1>3
  <2> DEFINE v == f[<<g[n], s[n + 1]>>]
             h == [k \in 0 .. n + 1 |-> IF k = n + 1 THEN v ELSE g[k]]
  <2>2. n \in Nat /\ n + 1 \in Nat /\ n + 1 \in 1 .. Len(s)
    BY <1>1
  <2>3. g[n] \in S /\ s[n + 1] \in C
    BY <1>1, <2>1, <2>2
  <2>4. v \in S
    BY <2>3 DEF Steps
  <2> HIDE DEF v
  <2>5. h \in [0 .. n + 1 -> S]
    BY <2>1, <2>2, <2>4
  <2>6. ASSUME NEW k \in 0 .. n + 1 PROVE h[k] = IF k = 0 THEN x ELSE f[<<h[k - 1], s[k]>>]
    <3>1. CASE k = n + 1
      <4>1. k # 0 /\ k - 1 = n /\ h[n] = g[n]
        BY <2>2, <3>1
      <4> QED
        BY <3>1, <4>1 DEF v
    <3>2. CASE k \in 0 .. n
      <4>1. h[k] = g[k] /\ (k # 0 => k - 1 \in 0 .. n + 1 /\ k - 1 # n + 1 /\ h[k - 1] = g[k - 1])
        BY <2>2, <3>2
      <4>2. g[k] = IF k = 0 THEN x ELSE f[<<g[k - 1], s[k]>>]
        BY <2>1, <3>2
      <4> QED
        BY <4>1, <4>2
    <3> QED
      BY <2>2, <3>1, <3>2
  <2>7. h = [k \in 0 .. n + 1 |-> IF k = 0 THEN x ELSE f[<<h[k - 1], s[k]>>]]
    BY <2>6
  <2>8. Upto(n + 1, h)
    BY <2>5, <2>7
  <2> QED
    BY <2>2, <2>8
<1> HIDE DEF T
<1>4. Len(s) \in T
  <2>1. Len(s) \in Nat /\ Len(s) \in 0 .. Len(s)
    BY <1>1
  <2>2. \A n \in 0 .. Len(s) : n \in T
    BY <2>1, <1>2, <1>3, Induction
  <2> QED
    BY <2>1, <2>2
<1> QED
  BY <1>4 DEF T, IsRunOf

\* A run over one more character is one more step.
LEMMA RunStep ==
    ASSUME NEW S, NEW x \in S, NEW C, NEW f, Steps(f, S, C), NEW s \in Seq(C), NEW c \in C,
           NEW g, IsRun(g, S, f, x, s), NEW h, IsRun(h, S, f, x, Append(s, c))
    PROVE  g[Len(s)] \in S /\ h[Len(Append(s, c))] = f[<<g[Len(s)], c>>]
<1> DEFINE t == Append(s, c)
           T == {k \in Nat : k <= Len(s) => g[k] = h[k] /\ g[k] \in S}
<1>1. /\ Len(s) \in Nat /\ \A k \in 1 .. Len(s) : s[k] \in C /\ t[k] = s[k]
      /\ Len(t) = Len(s) + 1 /\ t[Len(s) + 1] = c
  OBVIOUS
<1> HIDE DEF t
<1>2. /\ g[0] = x /\ \A k \in 1 .. Len(s) : g[k - 1] \in S => g[k] = f[<<g[k - 1], s[k]>>]
      /\ h[0] = x /\ \A k \in 1 .. Len(s) + 1 : h[k - 1] \in S => h[k] = f[<<h[k - 1], t[k]>>]
  BY <1>1 DEF IsRun, t
<1>3. 0 \in T
  BY <1>1, <1>2
<1>4. ASSUME NEW n \in 0 .. Len(s) - 1, n \in T PROVE n + 1 \in T
  <2>1. n + 1 \in Nat /\ n + 1 \in 1 .. Len(s) /\ n + 1 \in 1 .. Len(s) + 1 /\ (n + 1) - 1 = n /\ n <= Len(s)
    BY <1>1
  <2>2. g[n] = h[n] /\ g[n] \in S
    BY <1>4, <2>1
  <2>3. g[n + 1] = f[<<g[n], s[n + 1]>>] /\ h[n + 1] = f[<<h[n], s[n + 1]>>] /\ s[n + 1] \in C
    BY <1>1, <1>2, <2>1, <2>2
  <2> QED
    BY <2>1, <2>2, <2>3 DEF Steps
<1> HIDE DEF T
<1>5. Len(s) \in T
  <2>1. Len(s) \in Nat /\ Len(s) \in 0 .. Len(s)
    BY <1>1
  <2>2. \A n \in 0 .. Len(s) : n \in T
    BY <2>1, <1>3, <1>4, Induction
  <2> QED
    BY <2>1, <2>2
<1>6. g[Len(s)] = h[Len(s)] /\ g[Len(s)] \in S
  BY <1>1, <1>5 DEF T
<1>7. h[Len(s) + 1] = f[<<h[Len(s)], c>>]
  <2>1. Len(s) + 1 \in 1 .. Len(s) + 1 /\ (Len(s) + 1) - 1 = Len(s)
    BY <1>1
  <2> QED
    BY <1>1, <1>2, <1>6, <2>1
<1> QED
  BY <1>1, <1>6, <1>7 DEF t

\* What is so of the empty text, and of a text with one more character if it is so of
\* the text, is so of every text.
LEMMA TextInduction ==
    ASSUME NEW C, NEW T, <<>> \in T, \A s \in Seq(C), c \in C : s \in T => Append(s, c) \in T
    PROVE  \A s \in Seq(C) : s \in T
<1> DEFINE U == {n \in Nat : \A s \in Seq(C) : Len(s) = n => s \in T}
<1>1. 0 \in U
  BY EmptySeq
<1>2. ASSUME NEW n \in Nat, n \in U PROVE n + 1 \in U
  <2> SUFFICES ASSUME NEW s \in Seq(C), Len(s) = n + 1 PROVE s \in T
    OBVIOUS
  <2>1. s # <<>>
    OBVIOUS
  <2>2. PICK t \in Seq(C), c \in C : s = Append(t, c)
    BY <2>1, SequenceEmptyOrAppend
  <2>3. Len(t) \in Nat /\ Len(s) = Len(t) + 1
    BY <2>2, AppendProperties, LenProperties
  <2>4. t \in T
    BY <1>2, <2>3
  <2> QED
    BY <2>2, <2>4
<1> HIDE DEF U
<1>3. ASSUME NEW s \in Seq(C) PROVE s \in T
  <2>1. Len(s) \in Nat /\ Len(s) \in 0 .. Len(s)
    BY LenProperties
  <2>2. \A n \in 0 .. Len(s) - 1 : n \in U => n + 1 \in U
    BY <1>2, <2>1
  <2>3. \A n \in 0 .. Len(s) : n \in U
    BY <1>1, <2>1, <2>2, Induction
  <2>4. Len(s) \in U
    BY <2>1, <2>3
  <2> QED
    BY <2>4 DEF U
<1> QED
  BY <1>3

\* W[s] ends a run over s.
Ends(W, S, f, x, C) == \A s \in Seq(C) : \E g : IsRun(g, S, f, x, s) /\ W[s] = g[Len(s)]
Follows(W, S, f, x, C) ==
    /\ W[<<>>] = x
    /\ \A s \in Seq(C), c \in C : W[s] \in S /\ W[Append(s, c)] = f[<<W[s], c>>]

\* What ends such runs starts and goes on.
LEMMA Automaton ==
    ASSUME NEW S, NEW x \in S, NEW C, NEW f, Steps(f, S, C), NEW W, Ends(W, S, f, x, C)
    PROVE  Follows(W, S, f, x, C)
<1>1. \A s \in Seq(C) : \E g : IsRun(g, S, f, x, s) /\ W[s] = g[Len(s)]
  BY DEF Ends
<1>2. W[<<>>] = x
  <2>1. <<>> \in Seq(C) /\ Len(<<>>) = 0
    BY EmptySeq
  <2>2. PICK g : IsRun(g, S, f, x, <<>>) /\ W[<<>>] = g[Len(<<>>)]
    BY <1>1, <2>1
  <2> QED
    BY <2>1, <2>2 DEF IsRun
<1>3. ASSUME NEW s \in Seq(C), NEW c \in C PROVE W[s] \in S /\ W[Append(s, c)] = f[<<W[s], c>>]
  <2>1. Append(s, c) \in Seq(C)
    BY AppendProperties
  <2>2. PICK g : IsRun(g, S, f, x, s) /\ W[s] = g[Len(s)]
    BY <1>1
  <2>3. PICK h : IsRun(h, S, f, x, Append(s, c)) /\ W[Append(s, c)] = h[Len(Append(s, c))]
    BY <1>1, <2>1
  <2>4. g[Len(s)] \in S /\ h[Len(Append(s, c))] = f[<<g[Len(s)], c>>]
    BY <2>2, <2>3, RunStep
  <2> QED
    BY <2>2, <2>3, <2>4
<1> QED
  BY <1>2, <1>3 DEF Follows

-----------------------------------------------------------------------------
(* The automata of modules Assembly and Convert *)

\* Blanks and commas are no other characters.
LEMMA Marks ==
    /\ Blank \notin {Comma, "(", ")", "$", "-", "x", "0", "%?"}
    /\ Comma \notin {"(", ")", "$", "-", "x", "0", "%?"}
  BY Zenon DEF Blank, Comma

\* parse_operand before its text, and while it reads.
CutStart == [brackets |-> 0, commas |-> 0, imm |-> <<>>, reg1 |-> <<>>, reg2 |-> <<>>, scal |-> <<>>]
CutState(C) ==
    [brackets : Nat, commas : Nat, imm : Seq(C), reg1 : Seq(C), reg2 : Seq(C), scal : Seq(C)]

\* Cutting up starts and goes on.
LEMMA CutRuns ==
    ASSUME NEW C
    PROVE  /\ Cut(<<>>) = CutStart
           /\ \A s \in Seq(C), c \in C : /\ Cut(s) \in CutState(C)
                                       /\ Cut(Append(s, c)) = Collect(Cut(s), c)
<1> DEFINE S == CutState(C)
           x == CutStart
           f == [q \in S \X C |-> Collect(q[1], q[2])]
           W == [s \in Seq(C) |-> Cut(s)]
           Eq(h, s) == h = [k \in 0 .. Len(s) |-> IF k = 0 THEN x ELSE Collect(h[k - 1], s[k])]
           run(s) == CHOOSE h : Eq(h, s)
<1>1. x \in S
  BY EmptySeq DEF CutStart, CutState
<1>2. \A q \in S, c \in C : Collect(q, c) \in S
  <2> SUFFICES ASSUME NEW q \in CutState(C), NEW c \in C PROVE Collect(q, c) \in CutState(C)
    OBVIOUS
  <2>1. \A u \in Seq(C) : Append(u, c) \in Seq(C)
    BY AppendProperties
  <2>2. CASE c \in {"(", ")"}
    <3>1. Collect(q, c) = [q EXCEPT !.brackets = @ + 1]
      BY <2>2, Marks DEF Collect
    <3> QED
      BY <3>1 DEF CutState
  <2>3. CASE c = Comma
    <3>1. Collect(q, c) = [q EXCEPT !.commas = @ + 1]
      BY <2>3 DEF Collect
    <3> QED
      BY <3>1 DEF CutState
  <2>4. CASE c \notin {"(", ")", Comma}
    BY <2>1, <2>4 DEF Collect, CutState
  <2> QED
    BY <2>2, <2>3, <2>4
<1>3. \A q \in S, c \in C : f[<<q, c>>] = Collect(q, c)
  <2> HIDE DEF S
  <2> QED
    OBVIOUS
<1>4. \A s : Cut(s) = run(s)[Len(s)]
  BY DEF Cut, CutStart
<1> HIDE DEF S, f, x
<1>5. Steps(f, S, C)
  BY <1>2, <1>3 DEF Steps
<1>6. ASSUME NEW s \in Seq(C) PROVE \E g : IsRun(g, S, f, x, s) /\ W[s] = g[Len(s)]
  <2>1. PICK g : IsRunOf(g, S, f, x, s)
    BY <1>1, <1>5, RunExists
  <2>2. /\ g \in [0 .. Len(s) -> S]
        /\ g = [k \in 0 .. Len(s) |-> IF k = 0 THEN x ELSE f[<<g[k - 1], s[k]>>]]
    BY <2>1 DEF IsRunOf
  <2>3. Len(s) \in Nat /\ \A k \in 1 .. Len(s) : s[k] \in C
    BY LenProperties, ElementOfSeq
  <2>4. \A k \in 0 .. Len(s) : k # 0 => k - 1 \in 0 .. Len(s) /\ s[k] \in C
    BY <2>3
  <2>5. \A k \in 0 .. Len(s) : k # 0 => g[k - 1] \in S
    BY <2>2, <2>4
  <2>6. Eq(g, s)
    <3>1. \A k \in 0 .. Len(s) : g[k] = IF k = 0 THEN x ELSE f[<<g[k - 1], s[k]>>]
      BY <2>2
    <3>2. \A k \in 0 .. Len(s) : k # 0 => f[<<g[k - 1], s[k]>>] = Collect(g[k - 1], s[k])
      BY <1>3, <2>4, <2>5
    <3>3. \A k \in 0 .. Len(s) : g[k] = IF k = 0 THEN x ELSE Collect(g[k - 1], s[k])
      BY <3>1, <3>2
    <3>4. g = [k \in 0 .. Len(s) |-> g[k]]
      BY <2>2
    <3> QED
      BY <3>3, <3>4
  <2>7. Eq(run(s), s)
    BY <2>6
  <2> DEFINE r == run(s)
  <2>8. Eq(r, s)
    BY <2>7
  <2>9. W[s] = r[Len(s)]
    BY <1>4
  <2> HIDE DEF r, W
  <2>10. r[0] = x
    BY <2>3, <2>8
  <2>11. ASSUME NEW k \in 1 .. Len(s), r[k - 1] \in S PROVE r[k] = f[<<r[k - 1], s[k]>>]
    <3>1. k \in 0 .. Len(s) /\ k # 0 /\ s[k] \in C
      BY <2>3
    <3> QED
      BY <1>3, <2>8, <2>11, <3>1
  <2>12. IsRun(r, S, f, x, s)
    BY <2>10, <2>11 DEF IsRun
  <2> QED
    BY <2>9, <2>12
<1> HIDE DEF run
<1>7. /\ W[<<>>] = x
      /\ \A s \in Seq(C), c \in C : W[s] \in S /\ W[Append(s, c)] = f[<<W[s], c>>]
  <2> HIDE DEF W
  <2>1. Ends(W, S, f, x, C)
    BY <1>6 DEF Ends
  <2>2. Follows(W, S, f, x, C)
    BY <1>1, <1>5, <2>1, Automaton
  <2> QED
    BY <2>2 DEF Follows
<1>8. W[<<>>] = Cut(<<>>)
  BY EmptySeq
<1>9. ASSUME NEW s \in Seq(C), NEW c \in C
      PROVE  Cut(s) \in S /\ Cut(Append(s, c)) = Collect(Cut(s), c)
  <2>1. W[s] = Cut(s) /\ W[Append(s, c)] = Cut(Append(s, c))
    BY AppendProperties
  <2> HIDE DEF W
  <2>2. Cut(s) \in S
    BY <1>7, <2>1
  <2>3. Cut(Append(s, c)) = f[<<Cut(s), c>>]
    BY <1>7, <2>1
  <2> QED
    BY <1>3, <2>2, <2>3
<1> QED
  BY <1>7, <1>8, <1>9 DEF S, x

\* parse_instruction before its text, and while it reads.
SplitStart == [state |-> 0, brackets |-> 0, op |-> <<>>, src |-> <<>>, dst |-> <<>>]
SplitState(C) == [state : 0 .. 6, brackets : Nat, op : Seq(C), src : Seq(C), dst : Seq(C)]

\* Separating starts and goes on.
LEMMA SplitRuns ==
    ASSUME NEW C
    PROVE  /\ Separate(<<>>) = SplitStart
           /\ \A s \in Seq(C), c \in C : /\ Separate(s) \in SplitState(C)
                                       /\ Separate(Append(s, c)) = Split(Separate(s), c)
<1> DEFINE S == SplitState(C)
           x == SplitStart
           f == [q \in S \X C |-> Split(q[1], q[2])]
           W == [s \in Seq(C) |-> Separate(s)]
           Eq(h, s) == h = [k \in 0 .. Len(s) |-> IF k = 0 THEN x ELSE Split(h[k - 1], s[k])]
           run(s) == CHOOSE h : Eq(h, s)
<1>1. x \in S
  BY EmptySeq DEF SplitStart, SplitState
<1>2. \A q \in S, c \in C : Split(q, c) \in S
  <2> SUFFICES ASSUME NEW q \in SplitState(C), NEW c \in C PROVE Split(q, c) \in SplitState(C)
    OBVIOUS
  <2>1. \A u \in Seq(C) : Append(u, c) \in Seq(C)
    BY AppendProperties
  <2>2. State(q, c) \in 0 .. 6
    <3>1. q.state \in 0 .. 6
      BY DEF SplitState
    <3>2. State(q, c) \in {1, 2, 3, 4, 5, 6, q.state}
      BY DEF State, CommaEndsSource
    <3> QED
      BY <3>1, <3>2
  <2> QED
    BY <2>1, <2>2 DEF Split, SplitState
<1>3. \A q \in S, c \in C : f[<<q, c>>] = Split(q, c)
  <2> HIDE DEF S
  <2> QED
    OBVIOUS
<1>4. \A s : Separate(s) = run(s)[Len(s)]
  BY DEF Separate, SplitStart
<1> HIDE DEF S, f, x
<1>5. Steps(f, S, C)
  BY <1>2, <1>3 DEF Steps
<1>6. ASSUME NEW s \in Seq(C) PROVE \E g : IsRun(g, S, f, x, s) /\ W[s] = g[Len(s)]
  <2>1. PICK g : IsRunOf(g, S, f, x, s)
    BY <1>1, <1>5, RunExists
  <2>2. /\ g \in [0 .. Len(s) -> S]
        /\ g = [k \in 0 .. Len(s) |-> IF k = 0 THEN x ELSE f[<<g[k - 1], s[k]>>]]
    BY <2>1 DEF IsRunOf
  <2>3. Len(s) \in Nat /\ \A k \in 1 .. Len(s) : s[k] \in C
    BY LenProperties, ElementOfSeq
  <2>4. \A k \in 0 .. Len(s) : k # 0 => k - 1 \in 0 .. Len(s) /\ s[k] \in C
    BY <2>3
  <2>5. \A k \in 0 .. Len(s) : k # 0 => g[k - 1] \in S
    BY <2>2, <2>4
  <2>6. Eq(g, s)
    <3>1. \A k \in 0 .. Len(s) : g[k] = IF k = 0 THEN x ELSE f[<<g[k - 1], s[k]>>]
      BY <2>2
    <3>2. \A k \in 0 .. Len(s) : k # 0 => f[<<g[k - 1], s[k]>>] = Split(g[k - 1], s[k])
      BY <1>3, <2>4, <2>5
    <3>3. \A k \in 0 .. Len(s) : g[k] = IF k = 0 THEN x ELSE Split(g[k - 1], s[k])
      BY <3>1, <3>2
    <3>4. g = [k \in 0 .. Len(s) |-> g[k]]
      BY <2>2
    <3> QED
      BY <3>3, <3>4
  <2>7. Eq(run(s), s)
    BY <2>6
  <2> DEFINE r == run(s)
  <2>8. Eq(r, s)
    BY <2>7
  <2>9. W[s] = r[Len(s)]
    BY <1>4
  <2> HIDE DEF r, W
  <2>10. r[0] = x
    BY <2>3, <2>8
  <2>11. ASSUME NEW k \in 1 .. Len(s), r[k - 1] \in S PROVE r[k] = f[<<r[k - 1], s[k]>>]
    <3>1. k \in 0 .. Len(s) /\ k # 0 /\ s[k] \in C
      BY <2>3
    <3> QED
      BY <1>3, <2>8, <2>11, <3>1
  <2>12. IsRun(r, S, f, x, s)
    BY <2>10, <2>11 DEF IsRun
  <2> QED
    BY <2>9, <2>12
<1> HIDE DEF run
<1>7. /\ W[<<>>] = x
      /\ \A s \in Seq(C), c \in C : W[s] \in S /\ W[Append(s, c)] = f[<<W[s], c>>]
  <2> HIDE DEF W
  <2>1. Ends(W, S, f, x, C)
    BY <1>6 DEF Ends
  <2>2. Follows(W, S, f, x, C)
    BY <1>1, <1>5, <2>1, Automaton
  <2> QED
    BY <2>2 DEF Follows
<1>8. W[<<>>] = Separate(<<>>)
  BY EmptySeq
<1>9. ASSUME NEW s \in Seq(C), NEW c \in C
      PROVE  Separate(s) \in S /\ Separate(Append(s, c)) = Split(Separate(s), c)
  <2>1. W[s] = Separate(s) /\ W[Append(s, c)] = Separate(Append(s, c))
    BY AppendProperties
  <2> HIDE DEF W
  <2>2. Separate(s) \in S
    BY <1>7, <2>1
  <2>3. Separate(Append(s, c)) = f[<<Separate(s), c>>]
    BY <1>7, <2>1
  <2> QED
    BY <1>3, <2>2, <2>3
<1> QED
  BY <1>7, <1>8, <1>9 DEF S, x

\* The sixteen digits and what they stand for
LEMMA DigitsAre ==
    /\ DOMAIN Digits = 1 .. 16
    /\ \A n \in 0 .. 15 : Digits[n + 1] \in DOMAIN DigitOf /\ DigitOf[Digits[n + 1]] = n
    /\ \A c \in DOMAIN DigitOf : DigitOf[c] \in 0 .. 15 /\ c = Digits[DigitOf[c] + 1]
<1>1. DOMAIN Digits = 1 .. 16
  BY DEF Digits
<1>2. \A i \in 1 .. 16, j \in 1 .. 16 : Digits[i] = Digits[j] => i = j
  BY DEF Digits
<1>3. DOMAIN DigitOf = {Digits[i] : i \in 1 .. 16}
  BY <1>1 DEF DigitOf
<1>4. ASSUME NEW i \in 1 .. 16 PROVE Digits[i] \in DOMAIN DigitOf /\ DigitOf[Digits[i]] = i - 1
  <2>1. (CHOOSE j \in 1 .. 16 : Digits[j] = Digits[i]) = i
    BY <1>2
  <2> QED
    BY <1>1, <1>3, <2>1 DEF DigitOf
<1>5. \A n \in 0 .. 15 : n + 1 \in 1 .. 16 /\ (n + 1) - 1 = n
  OBVIOUS
<1>6. \A i \in 1 .. 16 : i - 1 \in 0 .. 15 /\ (i - 1) + 1 = i
  OBVIOUS
<1> QED
  BY <1>1, <1>3, <1>4, <1>5, <1>6

\* string2uint before its text, and while it reads.
ReadStart == {[state |-> 0, uv |-> 0, negative |-> FALSE]}
Readings == [state : 0 .. 6, uv : Word, negative : BOOLEAN]

\* Reading starts and goes on.
LEMMA ReadRuns ==
    ASSUME NEW C
    PROVE  /\ Reading(<<>>) = ReadStart
           /\ \A s \in Seq(C), c \in C : /\ Reading(s) \in SUBSET Readings
                                       /\ Reading(Append(s, c)) = UNION {Read(m, c) : m \in Reading(s)}
<1> DEFINE S == SUBSET Readings
           x == ReadStart
           f == [q \in S \X C |-> UNION {Read(m, q[2]) : m \in q[1]}]
           W == [s \in Seq(C) |-> Reading(s)]
           Eq(h, s) == h = [k \in 0 .. Len(s) |-> IF k = 0 THEN x ELSE UNION {Read(m, s[k]) : m \in h[k - 1]}]
           run(s) == CHOOSE h : Eq(h, s)
<1>1. x \in S
  BY WordAssumption DEF ReadStart, Readings, Word
<1>2. \A q \in S, c \in C : UNION {Read(m, c) : m \in q} \in S
  <2>1. ASSUME NEW m \in Readings, NEW c \in C PROVE Read(m, c) \subseteq Readings
    <3>1. ASSUME NEW t \in 0 .. 6 PROVE Value(m.uv, t, c) \in Word
      <4>1. CASE c \in DOMAIN DigitOf
        <5>1. DigitOf[c] \in Int
          BY <4>1, DigitsAre
        <5>2. m.uv \in Int
          BY WordAssumption DEF Readings, Word
        <5>3. m.uv * (IF t = 5 THEN 16 ELSE 10) + DigitOf[c] \in Int
          BY <5>1, <5>2
        <5>4. \A n \in Int : n % (2 * HALF) \in Word
          BY WordAssumption DEF Word
        <5> QED
          BY <4>1, <5>3, <5>4 DEF Value
      <4>2. CASE c \notin DOMAIN DigitOf
        BY <4>2 DEF Value, Readings
      <4> QED
        BY <4>1, <4>2
    <3>2. m.negative \in BOOLEAN
      BY DEF Readings
    <3>3. ASSUME NEW r \in Read(m, c) PROVE r \in Readings
      <4>1. PICK t \in 0 .. 6 : r = [state |-> t, uv |-> Value(m.uv, t, c),
                                   negative |-> m.negative \/ Kind(c) = "minus"]
        BY DEF Read
      <4>2. (m.negative \/ Kind(c) = "minus") \in BOOLEAN
        BY <3>2
      <4>3. Value(m.uv, t, c) \in Word
        BY <3>1
      <4> QED
        BY <4>1, <4>2, <4>3 DEF Readings
    <3> QED
      BY <3>3
  <2> QED
    BY <2>1
<1>3. \A q \in S, c \in C : f[<<q, c>>] = UNION {Read(m, c) : m \in q}
  <2> HIDE DEF S
  <2> QED
    OBVIOUS
<1>4. \A s : Reading(s) = run(s)[Len(s)]
  BY DEF Reading, ReadStart
<1> HIDE DEF S, f, x
<1>5. Steps(f, S, C)
  BY <1>2, <1>3 DEF Steps
<1>6. ASSUME NEW s \in Seq(C) PROVE \E g : IsRun(g, S, f, x, s) /\ W[s] = g[Len(s)]
  <2>1. PICK g : IsRunOf(g, S, f, x, s)
    BY <1>1, <1>5, RunExists
  <2>2. /\ g \in [0 .. Len(s) -> S]
        /\ g = [k \in 0 .. Len(s) |-> IF k = 0 THEN x ELSE f[<<g[k - 1], s[k]>>]]
    BY <2>1 DEF IsRunOf
  <2>3. Len(s) \in Nat /\ \A k \in 1 .. Len(s) : s[k] \in C
    BY LenProperties, ElementOfSeq
  <2>4. \A k \in 0 .. Len(s) : k # 0 => k - 1 \in 0 .. Len(s) /\ s[k] \in C
    BY <2>3
  <2>5. \A k \in 0 .. Len(s) : k # 0 => g[k - 1] \in S
    BY <2>2, <2>4
  <2>6. Eq(g, s)
    <3>1. \A k \in 0 .. Len(s) : g[k] = IF k = 0 THEN x ELSE f[<<g[k - 1], s[k]>>]
      BY <2>2
    <3>2. \A k \in 0 .. Len(s) : k # 0 => f[<<g[k - 1], s[k]>>] = UNION {Read(m, s[k]) : m \in g[k - 1]}
      BY <1>3, <2>4, <2>5
    <3>3. \A k \in 0 .. Len(s) : g[k] = IF k = 0 THEN x ELSE UNION {Read(m, s[k]) : m \in g[k - 1]}
      BY <3>1, <3>2
    <3>4. g = [k \in 0 .. Len(s) |-> g[k]]
      BY <2>2
    <3> QED
      BY <3>3, <3>4
  <2>7. Eq(run(s), s)
    BY <2>6
  <2> DEFINE r == run(s)
  <2>8. Eq(r, s)
    BY <2>7
  <2>9. W[s] = r[Len(s)]
    BY <1>4
  <2> HIDE DEF r, W
  <2>10. r[0] = x
    BY <2>3, <2>8
  <2>11. ASSUME NEW k \in 1 .. Len(s), r[k - 1] \in S PROVE r[k] = f[<<r[k - 1], s[k]>>]
    <3>1. k \in 0 .. Len(s) /\ k # 0 /\ s[k] \in C
      BY <2>3
    <3> QED
      BY <1>3, <2>8, <2>11, <3>1
  <2>12. IsRun(r, S, f, x, s)
    BY <2>10, <2>11 DEF IsRun
  <2> QED
    BY <2>9, <2>12
<1> HIDE DEF run
<1>7. /\ W[<<>>] = x
      /\ \A s \in Seq(C), c \in C : W[s] \in S /\ W[Append(s, c)] = f[<<W[s], c>>]
  <2> HIDE DEF W
  <2>1. Ends(W, S, f, x, C)
    BY <1>6 DEF Ends
  <2>2. Follows(W, S, f, x, C)
    BY <1>1, <1>5, <2>1, Automaton
  <2> QED
    BY <2>2 DEF Follows
<1>8. W[<<>>] = Reading(<<>>)
  BY EmptySeq
<1>9. ASSUME NEW s \in Seq(C), NEW c \in C
      PROVE  Reading(s) \in S /\ Reading(Append(s, c)) = UNION {Read(m, c) : m \in Reading(s)}
  <2>1. W[s] = Reading(s) /\ W[Append(s, c)] = Reading(Append(s, c))
    BY AppendProperties
  <2> HIDE DEF W
  <2>2. Reading(s) \in S
    BY <1>7, <2>1
  <2>3. Reading(Append(s, c)) = f[<<Reading(s), c>>]
    BY <1>7, <2>1
  <2> QED
    BY <1>3, <2>2, <2>3
<1> QED
  BY <1>7, <1>8, <1>9 DEF S, x

\* Texts are put together.
LEMMA Texts ==
    ASSUME NEW D
    PROVE  /\ <<>> \in Seq(D) /\ \A c \in D : <<c>> \in Seq(D)
           /\ \A s \in Seq(D), c \in D : s \o <<c>> = Append(s, c) /\ s \o <<c>> \in Seq(D)
           /\ \A s \in Seq(D), t \in Seq(D) : s \o t \in Seq(D)
           /\ \A s \in Seq(D), t \in Seq(D), u \in Seq(D) : s \o (t \o u) = (s \o t) \o u
           /\ \A s \in Seq(D) : s \o <<>> = s /\ <<>> \o s = s
<1>1. <<>> \in Seq(D) /\ \A c \in D : <<c>> \in Seq(D)
  OBVIOUS
<1>2. ASSUME NEW s \in Seq(D), NEW c \in D PROVE s \o <<c>> = Append(s, c) /\ s \o <<c>> \in Seq(D)
  <2>1. s \o <<c>> = Append(s, c)
    BY AppendIsConcat
  <2>2. Append(s, c) \in Seq(D)
    BY AppendProperties
  <2> QED
    BY <2>1, <2>2
<1>3. ASSUME NEW s \in Seq(D), NEW t \in Seq(D) PROVE s \o t \in Seq(D)
  BY ConcatProperties
<1>4. ASSUME NEW s \in Seq(D), NEW t \in Seq(D), NEW u \in Seq(D) PROVE s \o (t \o u) = (s \o t) \o u
  BY ConcatAssociative
<1>5. ASSUME NEW s \in Seq(D) PROVE s \o <<>> = s /\ <<>> \o s = s
  BY ConcatEmptySeq
<1> QED
  BY <1>1, <1>2, <1>3, <1>4, <1>5

\* A text of fewer characters is a text.
LEMMA Wider ==
    ASSUME NEW C, NEW D \in SUBSET C
    PROVE  \A s \in Seq(D) : s \in Seq(C)
  BY SeqMonotonic

\* Characters of a text, names among them
RegisterChar == UNION {{RegisterNames[r][k] : k \in 1 .. 4} : r \in DOMAIN RegisterNames}
OperatorChar == UNION {{OperatorNames[o][k] : k \in DOMAIN OperatorNames[o]} : o \in Operator}
Char == {Blank, "(", ")", Comma, "$", "-", "x"} \cup DOMAIN DigitOf \cup RegisterChar \cup OperatorChar
\* Characters of a number or a name, and what there is between brackets
Plain == Char \ {Blank, "(", ")", Comma}
Inner == Char \ {Blank, "(", ")"}

-----------------------------------------------------------------------------
(* parse_instruction, character by character *)

\* The parts after the text w with b brackets has been added to the source (k = 3) or
\* to the destination (k = 5).
After(p, w, b, k) ==
    [state |-> k, brackets |-> p.brackets + b, op |-> p.op,
     src |-> IF k = 3 THEN p.src \o w ELSE p.src,
     dst |-> IF k = 5 THEN p.dst \o w ELSE p.dst]

\* A character that does not end an operand is added to it.
LEMMA SplitChar ==
    ASSUME NEW k \in {3, 5}, NEW p \in SplitState(Char), p.state \in {k - 1, k},
           NEW c \in Char, c # Blank, c = Comma => p.state = k /\ (k = 5 \/ p.brackets = 1),
           NEW b, b = IF c \in {"(", ")"} THEN 1 ELSE 0
    PROVE  Split(p, c) = After(p, <<c>>, b, k)
<1>1. State(p, c) = k
  <2>1. CASE k = 3
    <3>1. p.state \in {2, 3} /\ (c = Comma => p.state = 3 /\ p.brackets = 1)
      BY <2>1
    <3> QED
      BY <2>1, <3>1 DEF State, CommaEndsSource
  <2>2. CASE k = 5
    <3>1. p.state \in {4, 5} /\ (c = Comma => p.state = 5)
      BY <2>2
    <3> QED
      BY <2>2, <3>1 DEF State
  <2> QED
    BY <2>1, <2>2
<1>2. Append(p.src, c) = p.src \o <<c>> /\ Append(p.dst, c) = p.dst \o <<c>>
  <2>1. p.src \in Seq(Char) /\ p.dst \in Seq(Char)
    BY DEF SplitState
  <2> QED
    BY <2>1, Texts
<1>3. p.brackets \in Nat
  BY DEF SplitState
<1>4. /\ (IF c \in {"(", ")"} THEN p.brackets + 1 ELSE p.brackets)
            = p.brackets + b
      /\ k # 1
  BY <1>3
<1> QED
  BY <1>1, <1>2, <1>4 DEF Split, After

\* What is added one after the other is added.
LEMMA AfterTwo ==
    ASSUME NEW k \in {3, 5}, NEW p \in SplitState(Char), NEW v \in Seq(Char), NEW w \in Seq(Char)
    PROVE  /\ After(p, v, 0, k) \in SplitState(Char)
           /\ After(p, v, 1, k) \in SplitState(Char)
           /\ After(After(p, v, 0, k), w, 0, k) = After(p, v \o w, 0, k)
           /\ After(After(p, v, 0, k), w, 1, k) = After(p, v \o w, 1, k)
           /\ After(After(p, v, 1, k), w, 0, k) = After(p, v \o w, 1, k)
           /\ After(After(p, v, 1, k), w, 1, k) = After(p, v \o w, 2, k)
<1>1. p.src \in Seq(Char) /\ p.dst \in Seq(Char) /\ p.op \in Seq(Char) /\ p.brackets \in Nat
  BY DEF SplitState
<1>2. ASSUME NEW t \in Seq(Char) PROVE t \o v \in Seq(Char) /\ (t \o v) \o w = t \o (v \o w)
  BY Texts
<1>3. ASSUME NEW a \in Nat PROVE After(p, v, a, k) \in SplitState(Char)
  BY <1>1, <1>2 DEF After, SplitState
<1>4. ASSUME NEW a \in Nat, NEW b \in Nat
      PROVE  After(After(p, v, a, k), w, b, k) = After(p, v \o w, a + b, k)
  <2>1. (p.brackets + a) + b = p.brackets + (a + b)
    BY <1>1
  <2> QED
    BY <1>1, <1>2, <2>1 DEF After
<1>5. 0 + 0 = 0 /\ 0 + 1 = 1 /\ 1 + 0 = 1 /\ 1 + 1 = 2 /\ 0 \in Nat /\ 1 \in Nat
  OBVIOUS
<1> QED
  BY <1>3, <1>4, <1>5

\* Separating a text and one more character
LEMMA SplitMore ==
    ASSUME NEW s \in Seq(Char), NEW c \in Char
    PROVE  /\ s \o <<c>> \in Seq(Char)
           /\ Separate(s) \in SplitState(Char)
           /\ Separate(s \o <<c>>) = Split(Separate(s), c)
<1>1. s \o <<c>> = Append(s, c) /\ s \o <<c>> \in Seq(Char)
  BY Texts
<1>2. Separate(s) \in SplitState(Char) /\ Separate(Append(s, c)) = Split(Separate(s), c)
  BY SplitRuns
<1> QED
  BY <1>1, <1>2

\* A word is added to the operand that it is in.
LEMMA SplitWord ==
    ASSUME NEW k \in {3, 5}, NEW s \in Seq(Char), Separate(s).state \in {k - 1, k},
           NEW D \in SUBSET Inner,
           Comma \in D => Separate(s).state = k /\ (k = 5 \/ Separate(s).brackets = 1),
           NEW w \in Seq(D)
    PROVE  /\ w \in Seq(Char) /\ s \o w \in Seq(Char)
           /\ IF w = <<>> THEN s \o w = s ELSE Separate(s \o w) = After(Separate(s), w, 0, k)
<1> DEFINE p == Separate(s)
           T == {v \in Seq(D) : v # <<>> => Separate(s \o v) = After(p, v, 0, k)}
<1>1. D \subseteq Char /\ p \in SplitState(Char) /\ \A v \in Seq(D) : v \in Seq(Char)
  <2>1. D \subseteq Char
    BY DEF Inner
  <2>2. Blank \in Char
    BY DEF Char
  <2>3. p \in SplitState(Char)
    BY <2>2, SplitMore
  <2> QED
    BY <2>1, <2>3, Wider
<1>2. <<>> \in T
  BY EmptySeq
<1>3. ASSUME NEW v \in Seq(D), NEW c \in D, v \in T PROVE Append(v, c) \in T
  <2>1. /\ Append(v, c) \in Seq(D) /\ v \in Seq(Char) /\ c \in Char
        /\ Append(v, c) = v \o <<c>> /\ <<c>> \in Seq(Char) /\ v \o <<c>> # <<>>
    <3>1. v \o <<c>> = Append(v, c) /\ v \o <<c>> \in Seq(D)
      BY Texts
    <3>2. Append(v, c) # <<>>
      BY AppendProperties
    <3>3. c \in Char /\ v \in Seq(Char)
      BY <1>1
    <3>4. <<c>> \in Seq(Char)
      BY <3>3, Texts
    <3> QED
      BY <3>1, <3>2, <3>3, <3>4
  <2>2. s \o (v \o <<c>>) = (s \o v) \o <<c>> /\ s \o v \in Seq(Char)
    BY <2>1, Texts
  <2>3. Separate((s \o v) \o <<c>>) = Split(Separate(s \o v), c)
    BY <2>1, <2>2, SplitMore
  <2>4. c \notin {Blank, "(", ")"}
    BY DEF Inner
  <2>5. CASE v = <<>>
    <3>1. s \o v = s /\ v \o <<c>> = <<c>>
      BY <2>1, <2>5, Texts
    <3>2. Split(p, c) = After(p, <<c>>, 0, k)
      BY <1>1, <2>1, <2>4, SplitChar
    <3> QED
      BY <2>1, <2>2, <2>3, <3>1, <3>2
  <2>6. CASE v # <<>>
    <3> DEFINE q == After(p, v, 0, k)
    <3>1. Separate(s \o v) = q
      BY <1>3, <2>6
    <3>2. q \in SplitState(Char) /\ After(q, <<c>>, 0, k) = After(p, v \o <<c>>, 0, k)
      <4> HIDE DEF p
      <4> QED
        BY <1>1, <2>1, AfterTwo
    <3>3. q.state = k /\ q.brackets = p.brackets
      BY <1>1 DEF After, SplitState
    <3> HIDE DEF q
    <3>4. Split(q, c) = After(q, <<c>>, 0, k)
      BY <2>1, <2>4, <3>2, <3>3, SplitChar
    <3> QED
      BY <2>1, <2>2, <2>3, <3>1, <3>2, <3>4
  <2> QED
    BY <2>5, <2>6
<1> HIDE DEF T
<1>4. w \in T
  BY <1>2, <1>3, TextInduction
<1>5. w \in Seq(Char) /\ s \o w \in Seq(Char) /\ s \o <<>> = s
  BY <1>1, Texts, Texts
<1> QED
  BY <1>4, <1>5 DEF T

\* Text with brackets around what is not a plain word
Bracketed(u, m) == ((u \o <<"(">>) \o m) \o <<")">>

\* All of an operand is added to it.
LEMMA SplitOperand ==
    ASSUME NEW k \in {3, 5}, NEW s \in Seq(Char), Separate(s).state = k - 1,
           k = 3 => Separate(s).brackets = 0,
           NEW t,
           \/ t \in Seq(Plain) /\ t # <<>>
           \/ \E u \in Seq(Plain), m \in Seq(Inner) : t = Bracketed(u, m)
    PROVE  /\ t \in Seq(Char) /\ s \o t \in Seq(Char)
           /\ \E b \in {0, 2} : Separate(s \o t) = After(Separate(s), t, b, k)
<1> DEFINE p == Separate(s)
<1>1. /\ p \in SplitState(Char) /\ Plain \in SUBSET Inner /\ Comma \notin Plain /\ Inner \in SUBSET Inner
      /\ Blank # "(" /\ Blank # ")" /\ Comma # "(" /\ Comma # ")"
      /\ "(" \in Char /\ ")" \in Char /\ k - 1 \in {k - 1, k} /\ k \in {k - 1, k}
  <2>1. "(" \in Char /\ ")" \in Char
    BY DEF Char
  <2>2. Blank # "(" /\ Blank # ")" /\ Comma # "(" /\ Comma # ")"
    BY Marks
  <2> QED
    BY <2>1, <2>2, SplitMore DEF Plain, Inner
<1>2. CASE t \in Seq(Plain) /\ t # <<>>
  BY <1>1, <1>2, SplitWord
<1>3. ASSUME NEW u \in Seq(Plain), NEW m \in Seq(Inner), t = Bracketed(u, m)
      PROVE  /\ t \in Seq(Char) /\ s \o t \in Seq(Char)
             /\ Separate(s \o t) = After(p, t, 2, k)
  <2>1. /\ u \in Seq(Char) /\ s \o u \in Seq(Char)
        /\ IF u = <<>> THEN s \o u = s ELSE Separate(s \o u) = After(p, u, 0, k)
    BY <1>1, SplitWord
  <2> DEFINE u1 == u \o <<"(">>
             u2 == u1 \o m
             u3 == u2 \o <<")">>
  <2>2. <<"(">> \in Seq(Char) /\ <<")">> \in Seq(Char) /\ m \in Seq(Char)
    <3>1. Inner \in SUBSET Char
      BY DEF Inner
    <3> QED
      BY <1>1, <3>1, Wider, Texts
  <2>3. u1 \in Seq(Char) /\ u2 \in Seq(Char) /\ u3 \in Seq(Char)
    BY <2>1, <2>2, Texts
  <2>4. /\ s \o u1 = (s \o u) \o <<"(">> /\ s \o u2 = (s \o u1) \o m /\ s \o u3 = (s \o u2) \o <<")">>
        /\ s \o u1 \in Seq(Char) /\ s \o u2 \in Seq(Char) /\ s \o u3 \in Seq(Char)
    <3>1. s \o u1 = (s \o u) \o <<"(">>
      BY <2>1, <2>2, Texts
    <3>2. u1 \in Seq(Char) /\ u2 \in Seq(Char) /\ u3 \in Seq(Char)
      BY <2>3
    <3> HIDE DEF u1
    <3>3. s \o u2 = (s \o u1) \o m
      BY <2>2, <3>2, Texts
    <3> HIDE DEF u2
    <3>4. s \o u3 = (s \o u2) \o <<")">>
      BY <2>2, <3>2, Texts
    <3> HIDE DEF u3
    <3> QED
      BY <3>1, <3>2, <3>3, <3>4, Texts
  <2>5. Separate(s \o u1) = After(p, u1, 1, k)
    <3>1. Separate(s \o u1) = Split(Separate(s \o u), "(")
      BY <1>1, <2>1, <2>4, SplitMore
    <3>2. CASE u = <<>>
      <4>1. Split(p, "(") = After(p, <<"(">>, 1, k)
        BY <1>1, SplitChar
      <4>2. u1 = <<"(">> /\ s \o u = s
        BY <2>1, <2>2, <3>2, Texts
      <4> QED
        BY <3>1, <4>1, <4>2
    <3>3. CASE u # <<>>
      <4> DEFINE q == After(p, u, 0, k)
      <4>1. Separate(s \o u) = q
        BY <2>1, <3>3
      <4>2. q \in SplitState(Char) /\ After(q, <<"(">>, 1, k) = After(p, u1, 1, k)
        <5>1. p \in SplitState(Char) /\ u \in Seq(Char) /\ <<"(">> \in Seq(Char)
          BY <1>1, <2>1, <2>2
        <5> HIDE DEF p
        <5> QED
          BY <5>1, AfterTwo
      <4>3. q.state = k
        BY DEF After
      <4> HIDE DEF q, u1
      <4>4. Split(q, "(") = After(q, <<"(">>, 1, k)
        BY <1>1, <4>2, <4>3, SplitChar
      <4> QED
        BY <3>1, <4>1, <4>2, <4>4
    <3> QED
      BY <3>2, <3>3
  <2> HIDE DEF u1
  <2> DEFINE q1 == After(p, u1, 1, k)
  <2>6. /\ q1 \in SplitState(Char) /\ q1.state = k /\ (k = 3 => q1.brackets = 1)
        /\ After(q1, m, 0, k) = After(p, u2, 1, k)
    <3>1. q1.state = k /\ (k = 3 => q1.brackets = 1)
      BY DEF After
    <3> QED
      BY <1>1, <2>2, <2>3, <3>1, AfterTwo
  <2> HIDE DEF q1
  <2>7. Separate(s \o u1) = q1
    BY <2>5 DEF q1
  <2>8. Separate(s \o u2) = After(p, u2, 1, k)
    <3>1. IF m = <<>> THEN (s \o u1) \o m = s \o u1 ELSE Separate((s \o u1) \o m) = After(q1, m, 0, k)
      BY <1>1, <2>4, <2>6, <2>7, SplitWord
    <3>2. CASE m = <<>>
      <4>1. u2 = u1
        BY <2>3, <3>2, Texts
      <4> QED
        BY <2>5, <4>1
    <3>3. CASE m # <<>>
      BY <2>4, <2>6, <3>1, <3>3
    <3> QED
      BY <3>2, <3>3
  <2> HIDE DEF u2
  <2> DEFINE q2 == After(p, u2, 1, k)
  <2>9. q2 \in SplitState(Char) /\ q2.state = k /\ After(q2, <<")">>, 1, k) = After(p, u3, 2, k)
    <3>1. q2.state = k
      BY DEF After
    <3>2. p \in SplitState(Char) /\ u2 \in Seq(Char) /\ <<")">> \in Seq(Char)
      BY <1>1, <2>2, <2>3
    <3> HIDE DEF p
    <3> QED
      BY <3>1, <3>2, AfterTwo
  <2> HIDE DEF q2
  <2>10. Separate(s \o u2) = q2
    BY <2>8 DEF q2
  <2>11. Separate(s \o u3) = Split(q2, ")")
    BY <1>1, <2>4, <2>10, SplitMore
  <2>12. Split(q2, ")") = After(q2, <<")">>, 1, k)
    BY <1>1, <2>9, SplitChar
  <2>13. t = u3
    BY <1>3 DEF Bracketed, u1, u2
  <2> HIDE DEF u3
  <2> QED
    BY <2>3, <2>4, <2>9, <2>11, <2>12, <2>13
<1> QED
  BY <1>2, <1>3

\* Blanks are a text of blanks.
LEMMA BlanksAre ==
    ASSUME NEW n \in Nat
    PROVE  Blanks(n) \in Seq({Blank}) /\ (n # 0 => Blanks(n) # <<>>)
<1>1. Blanks(n) \in [1 .. n -> {Blank}]
  BY DEF Blanks
<1>2. Blanks(n) \in Seq({Blank})
  BY <1>1, SeqDef
<1>3. ASSUME n # 0 PROVE Blanks(n) # <<>>
  <2>1. 1 \in DOMAIN Blanks(n) /\ DOMAIN <<>> = {}
    BY <1>1, <1>3
  <2> QED
    BY <2>1
<1> QED
  BY <1>2, <1>3

\* Blanks end an operator or the destination, and are skipped elsewhere.
LEMMA SplitBlanks ==
    ASSUME NEW s \in Seq(Char), Separate(s).state # 3, NEW v \in Seq({Blank})
    PROVE  /\ v \in Seq(Char) /\ s \o v \in Seq(Char)
           /\ Separate(s \o v) =
                IF v # <<>> /\ Separate(s).state \in {1, 5}
                THEN [Separate(s) EXCEPT !.state = Separate(s).state + 1] ELSE Separate(s)
<1> DEFINE p == Separate(s)
           q == [p EXCEPT !.state = p.state + 1]
           T == {x \in Seq({Blank}) :
                    Separate(s \o x) = IF x # <<>> /\ p.state \in {1, 5} THEN q ELSE p}
<1>1. {Blank} \in SUBSET Char /\ Blank \in Char /\ p \in SplitState(Char)
  <2>1. Blank \in Char
    BY DEF Char
  <2> QED
    BY <2>1, SplitMore
<1>2. <<>> \in T
  BY Texts
<1>3. ASSUME NEW r \in SplitState(Char), r.state # 3
      PROVE  Split(r, Blank) = IF r.state \in {1, 5} THEN [r EXCEPT !.state = r.state + 1] ELSE r
  <2>1. Blank \notin {"(", ")"} /\ Blank # Comma
    BY Marks
  <2>2. r.state \in {0, 1, 2, 4, 5, 6}
    BY <1>3 DEF SplitState
  <2>3. State(r, Blank) = IF r.state \in {1, 5} THEN r.state + 1 ELSE r.state
    BY <2>1, <2>2 DEF State
  <2>4. State(r, Blank) \in {0, 2, 4, 6}
    BY <2>2, <2>3
  <2>5. /\ r = [state |-> r.state, brackets |-> r.brackets, op |-> r.op, src |-> r.src, dst |-> r.dst]
        /\ Split(r, Blank) = [state |-> State(r, Blank), brackets |-> r.brackets,
                              op |-> r.op, src |-> r.src, dst |-> r.dst]
    BY <2>1, <2>4 DEF Split, SplitState
  <2> QED
    BY <2>3, <2>5
<1>4. ASSUME NEW x \in Seq({Blank}), NEW c \in {Blank}, x \in T PROVE Append(x, c) \in T
  <2>1. /\ Append(x, Blank) \in Seq({Blank}) /\ x \in Seq(Char) /\ Append(x, Blank) # <<>>
        /\ Append(x, Blank) = x \o <<Blank>> /\ <<Blank>> \in Seq(Char)
    <3>1. Append(x, Blank) \in Seq({Blank}) /\ Append(x, Blank) # <<>>
      BY AppendProperties
    <3>2. x \in Seq(Char)
      BY <1>1, Wider
    <3> QED
      BY <1>1, <3>1, <3>2, Texts
  <2>2. s \o (x \o <<Blank>>) = (s \o x) \o <<Blank>> /\ s \o x \in Seq(Char)
    BY <2>1, Texts
  <2>3. Separate((s \o x) \o <<Blank>>) = Split(Separate(s \o x), Blank)
    BY <1>1, <2>2, SplitMore
  <2>4. p.state \in 0 .. 6 /\ p.state # 3
    BY <1>1 DEF SplitState
  <2>5. CASE p.state \notin {1, 5} \/ x = <<>>
    <3>1. Separate(s \o x) = p
      BY <1>4, <2>5
    <3>2. Split(p, Blank) = IF p.state \in {1, 5} THEN q ELSE p
      BY <1>1, <1>3
    <3> QED
      BY <2>1, <2>2, <2>3, <3>1, <3>2
  <2>6. CASE p.state \in {1, 5} /\ x # <<>>
    <3>1. Separate(s \o x) = q
      BY <1>4, <2>6
    <3>2. q \in SplitState(Char) /\ q.state \in {2, 6}
      <4>1. p.state + 1 \in {2, 6} /\ p.state + 1 \in 0 .. 6
        BY <2>6
      <4> HIDE DEF p
      <4>2. /\ p.brackets \in Nat /\ p.op \in Seq(Char) /\ p.src \in Seq(Char) /\ p.dst \in Seq(Char)
            /\ p = [state |-> p.state, brackets |-> p.brackets, op |-> p.op, src |-> p.src, dst |-> p.dst]
        BY <1>1 DEF SplitState
      <4>3. q = [state |-> p.state + 1, brackets |-> p.brackets, op |-> p.op, src |-> p.src, dst |-> p.dst]
        BY <4>2
      <4> HIDE DEF q
      <4> QED
        BY <4>1, <4>2, <4>3 DEF SplitState
    <3>3. q.state # 3 /\ q.state \notin {1, 5}
      BY <3>2
    <3> HIDE DEF q
    <3>4. Split(q, Blank) = q
      BY <1>3, <3>2, <3>3
    <3> QED
      BY <2>1, <2>2, <2>3, <2>6, <3>1, <3>4
  <2> QED
    BY <2>5, <2>6
<1> HIDE DEF T
<1>5. v \in T
  BY <1>2, <1>4, TextInduction
<1>6. v \in Seq(Char)
  BY <1>1, Wider
<1>7. s \o v \in Seq(Char)
  BY <1>6, Texts
<1> QED
  BY <1>5, <1>6, <1>7 DEF T

\* A text of an operand that is not empty
IsText(t) ==
    \/ t \in Seq(Plain) /\ t # <<>>
    \/ \E u \in Seq(Plain), m \in Seq(Inner) : t = Bracketed(u, m)

\* The parts of an instruction up to its source, which is s
UpToSource(t, c, s) ==
    /\ t \in Seq(Char)
    /\ \E b \in {0, 2} :
            Separate(t) = [state |-> IF s = <<>> THEN 2 ELSE 3, brackets |-> b,
                           op |-> <<c>>, src |-> s, dst |-> <<>>]

\* The operator and the source are separated.
LEMMA SourceParts ==
    ASSUME NEW lead \in Seq({Blank}), NEW c \in Plain,
           NEW gap \in Seq({Blank}), gap # <<>>, NEW s, s = <<>> \/ IsText(s),
           NEW t, t = ((lead \o <<c>>) \o gap) \o s
    PROVE  UpToSource(t, c, s)
<1> DEFINE t1 == lead \o <<c>>
           t2 == t1 \o gap
           p(k, o) == [state |-> k, brackets |-> 0, op |-> o, src |-> <<>>, dst |-> <<>>]
<1>1. c \in Char /\ c # Blank /\ c \notin {"(", ")"}
  BY DEF Plain
<1>2. lead \in Seq(Char) /\ Separate(lead) = p(0, <<>>)
  <2>1. <<>> \in Seq(Char) /\ Separate(<<>>) = p(0, <<>>)
    BY SplitRuns, Texts DEF SplitStart
  <2>2. Separate(<<>>).state # 3 /\ Separate(<<>>).state \notin {1, 5}
    BY <2>1
  <2>3. lead \in Seq(Char) /\ Separate(<<>> \o lead) = Separate(<<>>)
    BY <2>1, <2>2, SplitBlanks
  <2>4. <<>> \o lead = lead
    BY <2>3, Texts
  <2> QED
    BY <2>1, <2>3, <2>4
<1>3. t1 \in Seq(Char) /\ Separate(t1) = p(1, <<c>>)
  <2>1. t1 \in Seq(Char) /\ Separate(t1) = Split(Separate(lead), c)
    BY <1>1, <1>2, SplitMore
  <2> DEFINE q == p(0, <<>>)
  <2>2. q.state = 0 /\ q.brackets = 0 /\ q.op = <<>> /\ q.src = <<>> /\ q.dst = <<>>
    OBVIOUS
  <2> HIDE DEF q
  <2>3. State(q, c) = 1
    BY <1>1, <2>2 DEF State
  <2>4. Split(q, c) = p(1, <<c>>)
    <3>1. Append(<<>>, c) = <<c>>
      OBVIOUS
    <3> QED
      BY <1>1, <2>2, <2>3, <3>1 DEF Split
  <2> QED
    BY <1>2, <2>1, <2>4 DEF q
<1> HIDE DEF t1
<1>4. t2 \in Seq(Char) /\ Separate(t2) = p(2, <<c>>)
  <2>1. Separate(t1).state = 1
    BY <1>3
  <2>2. t2 \in Seq(Char) /\ Separate(t2) = [Separate(t1) EXCEPT !.state = Separate(t1).state + 1]
    BY <1>3, <2>1, SplitBlanks
  <2> QED
    BY <1>3, <2>2
<1> HIDE DEF t2
<1>5. t = t2 \o s
  BY DEF t1, t2
<1>6. CASE s = <<>>
  <2>1. t = t2
    BY <1>4, <1>5, <1>6, Texts
  <2> QED
    BY <1>4, <1>6, <2>1 DEF UpToSource
<1>7. CASE s # <<>>
  <2>1. IsText(s) /\ Separate(t2).state = 3 - 1 /\ Separate(t2).brackets = 0 /\ 3 \in {3, 5}
    BY <1>4, <1>7
  <2>2. /\ s \in Seq(Char) /\ t2 \o s \in Seq(Char)
        /\ \E b \in {0, 2} : Separate(t2 \o s) = After(Separate(t2), s, b, 3)
    BY <1>4, <2>1, SplitOperand DEF IsText
  <2>3. PICK b \in {0, 2} : Separate(t) = After(p(2, <<c>>), s, b, 3)
    BY <1>4, <1>5, <2>2
  <2>4. <<>> \o s = s
    BY <2>2, Texts
  <2>5. After(p(2, <<c>>), s, b, 3) = [state |-> 3, brackets |-> b, op |-> <<c>>, src |-> s, dst |-> <<>>]
    BY <2>4 DEF After
  <2> QED
    BY <1>5, <1>7, <2>2, <2>3, <2>5 DEF UpToSource
<1> QED
  BY <1>6, <1>7

\* What there is in the text of an instruction behind its source, and its parts
Behind(t, u, s, comma, d, tail) ==
    \/ d = <<>> /\ t = u \o <<>>
    \/ IsText(s) /\ IsText(d) /\ t = u \o (((<<Comma>> \o comma) \o d) \o tail)
IsSeparated(t, c, s, d) == Separate(t).op = <<c>> /\ Separate(t).src = s /\ Separate(t).dst = d

\* An instruction without a destination, and one with it
LEMMA InstructionParts ==
    ASSUME NEW c \in Plain, NEW s, NEW u, UpToSource(u, c, s),
           NEW comma \in Seq({Blank}), NEW d, NEW tail \in Seq({Blank}),
           NEW t, Behind(t, u, s, comma, d, tail)
    PROVE  IsSeparated(t, c, s, d)
<1> DEFINE p(k, b, e) == [state |-> k, brackets |-> b, op |-> <<c>>, src |-> s, dst |-> e]
<1>1. u \in Seq(Char)
  BY DEF UpToSource
<1>2. PICK b \in {0, 2} : Separate(u) = p(IF s = <<>> THEN 2 ELSE 3, b, <<>>)
  BY DEF UpToSource
<1>3. CASE d = <<>> /\ t = u \o <<>>
  <2>1. t = u
    BY <1>1, <1>3, Texts
  <2>2. Separate(u).op = <<c>> /\ Separate(u).src = s /\ Separate(u).dst = <<>>
    BY <1>2
  <2> QED
    BY <1>3, <2>1, <2>2 DEF IsSeparated
<1>4. CASE IsText(s) /\ IsText(d) /\ t = u \o (((<<Comma>> \o comma) \o d) \o tail)
  <2>1. s # <<>>
    <3>1. ASSUME NEW v \in Seq(Plain), NEW m \in Seq(Inner) PROVE Bracketed(v, m) # <<>>
      <4>1. v \in Seq(Char) /\ m \in Seq(Char) /\ "(" \in Char /\ ")" \in Char
        <5>1. Plain \in SUBSET Char /\ Inner \in SUBSET Char /\ "(" \in Char /\ ")" \in Char
          BY DEF Plain, Inner, Char
        <5> QED
          BY <5>1, Wider
      <4>2. (v \o <<"(">>) \o m \in Seq(Char)
        BY <4>1, Texts
      <4>3. Bracketed(v, m) = Append((v \o <<"(">>) \o m, ")")
        BY <4>1, <4>2, Texts DEF Bracketed
      <4> DEFINE x == (v \o <<"(">>) \o m
      <4>4. x \in Seq(Char) /\ Bracketed(v, m) = Append(x, ")")
        BY <4>2, <4>3
      <4> HIDE DEF x
      <4>5. Append(x, ")") # <<>>
        BY <4>1, <4>4, AppendProperties
      <4> QED
        BY <4>4, <4>5
    <3> QED
      BY <1>4, <3>1 DEF IsText
  <2>2. Separate(u) = p(3, b, <<>>)
    BY <1>2, <2>1
  <2> DEFINE t1 == u \o <<Comma>>
             t2 == t1 \o comma
             t3 == t2 \o d
  <2>3. t1 \in Seq(Char) /\ Separate(t1) = p(4, b, <<>>)
    <3>1. Comma \in Char
      BY DEF Char
    <3>2. t1 \in Seq(Char) /\ Separate(t1) = Split(Separate(u), Comma)
      BY <1>1, <3>1, SplitMore
    <3> DEFINE q == p(3, b, <<>>)
    <3>3. q.state = 3 /\ q.brackets = b /\ q.op = <<c>> /\ q.src = s /\ q.dst = <<>>
      OBVIOUS
    <3> HIDE DEF q
    <3>4. State(q, Comma) = 4
      BY <3>3, Marks DEF State, CommaEndsSource
    <3>5. Split(q, Comma) = p(4, b, <<>>)
      BY <3>3, <3>4, Marks DEF Split
    <3> QED
      BY <2>2, <3>2, <3>5 DEF q
  <2> HIDE DEF t1
  <2>4. t2 \in Seq(Char) /\ Separate(t2) = p(4, b, <<>>)
    <3>1. Separate(t1).state # 3 /\ Separate(t1).state \notin {1, 5}
      BY <2>3
    <3>2. t2 \in Seq(Char) /\ Separate(t2) = Separate(t1)
      BY <2>3, <3>1, SplitBlanks
    <3> QED
      BY <2>3, <3>2
  <2>5. comma \in Seq(Char) /\ tail \in Seq(Char) /\ <<Comma>> \in Seq(Char)
    <3>1. {Blank} \in SUBSET Char /\ Comma \in Char
      BY DEF Char
    <3> QED
      BY <3>1, Wider, Texts
  <2> HIDE DEF t2
  <2>6. /\ d \in Seq(Char) /\ t3 \in Seq(Char)
        /\ \E e \in {0, 2} : Separate(t3) = p(5, b + e, d)
    <3>1. Separate(t2).state = 5 - 1 /\ 5 \in {3, 5} /\ 5 # 3
      BY <2>4
    <3>2. /\ d \in Seq(Char) /\ t3 \in Seq(Char)
          /\ \E e \in {0, 2} : Separate(t3) = After(Separate(t2), d, e, 5)
      BY <1>4, <2>4, <3>1, SplitOperand DEF IsText
    <3>3. <<>> \o d = d
      BY <3>2, Texts
    <3>4. \A e : After(p(4, b, <<>>), d, e, 5) = p(5, b + e, d)
      BY <3>3 DEF After
    <3> QED
      BY <2>4, <3>2, <3>4
  <2>7. PICK e \in {0, 2} : Separate(t3) = p(5, b + e, d)
    BY <2>6
  <2> HIDE DEF t3
  <2>8. LET r == Separate(t3 \o tail) IN r.op = <<c>> /\ r.src = s /\ r.dst = d
    <3> DEFINE q == Separate(t3)
               r == Separate(t3 \o tail)
    <3>1. q.state = 5 /\ q.op = <<c>> /\ q.src = s /\ q.dst = d
      BY <2>7
    <3>2. q \in SplitState(Char)
      <4>1. Comma \in Char
        BY DEF Char
      <4> QED
        BY <2>6, <4>1, SplitMore
    <3>3. r = [q EXCEPT !.state = q.state + 1] \/ r = q
      <4>1. t3 \in Seq(Char) /\ Separate(t3).state # 3
        BY <2>6, <3>1
      <4>2. Separate(t3 \o tail) =
                IF tail # <<>> /\ Separate(t3).state \in {1, 5}
                THEN [Separate(t3) EXCEPT !.state = Separate(t3).state + 1] ELSE Separate(t3)
        BY <4>1, SplitBlanks
      <4> QED
        BY <4>2
    <3> HIDE DEF q, r
    <3>4. r.op = q.op /\ r.src = q.src /\ r.dst = q.dst
      BY <3>2, <3>3 DEF SplitState
    <3> QED
      BY <3>1, <3>4 DEF r
  <2>9. t = t3 \o tail
    <3> DEFINE v1 == <<Comma>> \o comma
               v2 == v1 \o d
    <3>1. v1 \in Seq(Char) /\ u \o v1 = t2
      BY <1>1, <2>5, Texts DEF t1, t2
    <3> HIDE DEF v1
    <3>2. v2 \in Seq(Char) /\ u \o v2 = t3
      <4>1. v1 \in Seq(Char) /\ d \in Seq(Char) /\ u \in Seq(Char)
        BY <1>1, <2>6, <3>1
      <4>2. v1 \o d \in Seq(Char)
        BY <4>1, Texts
      <4>3. u \o (v1 \o d) = (u \o v1) \o d
        BY <4>1, Texts
      <4> QED
        BY <3>1, <4>2, <4>3 DEF t3
    <3>3. t = u \o (v2 \o tail)
      BY <1>4 DEF v1
    <3> HIDE DEF v2
    <3> QED
      <4>1. v2 \in Seq(Char) /\ tail \in Seq(Char) /\ u \in Seq(Char)
        BY <1>1, <2>5, <3>2
      <4>2. u \o (v2 \o tail) = (u \o v2) \o tail
        BY <4>1, Texts
      <4> QED
        BY <3>2, <3>3, <4>2
  <2> QED
    BY <2>8, <2>9 DEF IsSeparated
<1> QED
  BY <1>3, <1>4 DEF Behind

-----------------------------------------------------------------------------
(* parse_operand, character by character *)

\* The parts of an operand, and after the word w has been added to the part it is in
Cuts(b, n, i, r, q, m) == [brackets |-> b, commas |-> n, imm |-> i, reg1 |-> r, reg2 |-> q, scal |-> m]
Into(f, w) ==
    Cuts(f.brackets, f.commas,
         IF f.brackets = 0 THEN f.imm \o w ELSE f.imm,
         IF f.brackets = 1 /\ f.commas = 0 THEN f.reg1 \o w ELSE f.reg1,
         IF f.brackets = 1 /\ f.commas = 1 THEN f.reg2 \o w ELSE f.reg2,
         IF f.brackets = 1 /\ f.commas = 2 THEN f.scal \o w ELSE f.scal)

\* Cutting up a text and one more character
LEMMA CutMore ==
    ASSUME NEW s \in Seq(Char), NEW c \in Char
    PROVE  /\ s \o <<c>> \in Seq(Char)
           /\ Cut(s) \in CutState(Char)
           /\ Cut(s \o <<c>>) = Collect(Cut(s), c)
<1>1. s \o <<c>> = Append(s, c) /\ s \o <<c>> \in Seq(Char)
  BY Texts
<1>2. Cut(s) \in CutState(Char) /\ Cut(Append(s, c)) = Collect(Cut(s), c)
  BY CutRuns
<1> QED
  BY <1>1, <1>2

\* What a character of a word does
LEMMA IntoChar ==
    ASSUME NEW b \in Nat, NEW n \in Nat, NEW i \in Seq(Char), NEW r \in Seq(Char),
           NEW q \in Seq(Char), NEW m \in Seq(Char), NEW c \in Plain,
           NEW g, g = Cuts(b, n, i, r, q, m)
    PROVE  Collect(g, c) = Into(g, <<c>>)
<1>1. c \notin {"(", ")"} /\ c # Comma /\ c \in Char
  BY DEF Plain
<1>2. ASSUME NEW t \in Seq(Char) PROVE Append(t, c) = t \o <<c>>
  BY <1>1, Texts
<1>3. /\ g.brackets = b /\ g.commas = n /\ g.imm = i /\ g.reg1 = r /\ g.reg2 = q /\ g.scal = m
  BY DEF Cuts
<1>4. /\ [g EXCEPT !.imm = Append(i, c)] = Cuts(b, n, Append(i, c), r, q, m)
      /\ [g EXCEPT !.reg1 = Append(r, c)] = Cuts(b, n, i, Append(r, c), q, m)
      /\ [g EXCEPT !.reg2 = Append(q, c)] = Cuts(b, n, i, r, Append(q, c), m)
      /\ [g EXCEPT !.scal = Append(m, c)] = Cuts(b, n, i, r, q, Append(m, c))
  <2> DEFINE i1 == Append(i, c)
             r1 == Append(r, c)
             q1 == Append(q, c)
             m1 == Append(m, c)
             h == Cuts(b, n, i, r, q, m)
  <2>1. g = h
    OBVIOUS
  <2> HIDE DEF i1, r1, q1, m1
  <2>2. [h EXCEPT !.imm = i1] = Cuts(b, n, i1, r, q, m)
    BY DEF Cuts
  <2>3. [h EXCEPT !.reg1 = r1] = Cuts(b, n, i, r1, q, m)
    BY DEF Cuts
  <2>4. [h EXCEPT !.reg2 = q1] = Cuts(b, n, i, r, q1, m)
    BY DEF Cuts
  <2>5. [h EXCEPT !.scal = m1] = Cuts(b, n, i, r, q, m1)
    BY DEF Cuts
  <2> HIDE DEF h
  <2> QED
    BY <2>1, <2>2, <2>3, <2>4, <2>5 DEF i1, r1, q1, m1
<1>5. Into(g, <<c>>) = Cuts(b, n,
         IF b = 0 THEN Append(i, c) ELSE i,
         IF b = 1 /\ n = 0 THEN Append(r, c) ELSE r,
         IF b = 1 /\ n = 1 THEN Append(q, c) ELSE q,
         IF b = 1 /\ n = 2 THEN Append(m, c) ELSE m)
  BY <1>2, <1>3 DEF Into
<1>6. Collect(g, c) =
            CASE b = 0            -> [g EXCEPT !.imm = Append(i, c)]
              [] b = 1 /\ n = 0  -> [g EXCEPT !.reg1 = Append(r, c)]
              [] b = 1 /\ n = 1  -> [g EXCEPT !.reg2 = Append(q, c)]
              [] b = 1 /\ n = 2  -> [g EXCEPT !.scal = Append(m, c)]
              [] OTHER           -> g
  BY <1>1, <1>3 DEF Collect
<1> HIDE DEF Collect
<1> DEFINE g1 == [g EXCEPT !.imm = Append(i, c)]
           g2 == [g EXCEPT !.reg1 = Append(r, c)]
           g3 == [g EXCEPT !.reg2 = Append(q, c)]
           g4 == [g EXCEPT !.scal = Append(m, c)]
<1>7. /\ b = 0 => Collect(g, c) = g1
      /\ b = 1 /\ n = 0 => Collect(g, c) = g2
      /\ b = 1 /\ n = 1 => Collect(g, c) = g3
      /\ b = 1 /\ n = 2 => Collect(g, c) = g4
      /\ b # 0 /\ ~(b = 1 /\ n \in {0, 1, 2}) => Collect(g, c) = g
  <2> HIDE DEF g1, g2, g3, g4
  <2>1. Collect(g, c) =
            CASE b = 0            -> g1
              [] b = 1 /\ n = 0  -> g2
              [] b = 1 /\ n = 1  -> g3
              [] b = 1 /\ n = 2  -> g4
              [] OTHER           -> g
    BY <1>6 DEF g1, g2, g3, g4
  <2> QED
    BY <2>1
<1>8. /\ g1 = Cuts(b, n, Append(i, c), r, q, m) /\ g2 = Cuts(b, n, i, Append(r, c), q, m)
      /\ g3 = Cuts(b, n, i, r, Append(q, c), m) /\ g4 = Cuts(b, n, i, r, q, Append(m, c))
  BY <1>4
<1> HIDE DEF g1, g2, g3, g4
<1>9. CASE b = 0
  BY <1>5, <1>7, <1>8, <1>9
<1>10. CASE b = 1
  <2>1. n = 0 \/ n = 1 \/ n = 2 \/ n \notin {0, 1, 2}
    OBVIOUS
  <2> QED
    BY <1>5, <1>7, <1>8, <1>10, <2>1
<1>11. CASE b # 0 /\ b # 1
  BY <1>5, <1>7, <1>11
<1> QED
  BY <1>9, <1>10, <1>11

\* Texts that are added one after the other
LEMMA ThreeTexts ==
    ASSUME NEW t \in Seq(Char), NEW v \in Seq(Char), NEW w \in Seq(Char)
    PROVE  t \o <<>> = t /\ t \o v \in Seq(Char) /\ (t \o v) \o w = t \o (v \o w)
  BY Texts

\* What words do
LEMMA IntoParts ==
    ASSUME NEW f \in CutState(Char)
    PROVE  /\ Into(f, <<>>) = f
           /\ \A c \in Plain : Collect(f, c) = Into(f, <<c>>)
           /\ \A v \in Seq(Char), w \in Seq(Char) :
                Into(f, v) \in CutState(Char) /\ Into(Into(f, v), w) = Into(f, v \o w)
<1>1. PICK b \in Nat, n \in Nat, i \in Seq(Char), r \in Seq(Char), q \in Seq(Char), m \in Seq(Char) :
            f = Cuts(b, n, i, r, q, m)
  BY DEF CutState, Cuts
<1>2. f.brackets = b /\ f.commas = n /\ f.imm = i /\ f.reg1 = r /\ f.reg2 = q /\ f.scal = m
  BY <1>1 DEF Cuts
<1>3. Into(f, <<>>) = f
  <2>1. i \o <<>> = i /\ r \o <<>> = r /\ q \o <<>> = q /\ m \o <<>> = m
    BY ThreeTexts
  <2> QED
    BY <1>1, <1>2, <2>1 DEF Into
<1>4. ASSUME NEW c \in Plain PROVE Collect(f, c) = Into(f, <<c>>)
  BY <1>1, IntoChar
<1>5. ASSUME NEW v \in Seq(Char), NEW w \in Seq(Char)
      PROVE  Into(f, v) \in CutState(Char) /\ Into(Into(f, v), w) = Into(f, v \o w)
  <2>1. /\ i \o v \in Seq(Char) /\ (i \o v) \o w = i \o (v \o w)
        /\ r \o v \in Seq(Char) /\ (r \o v) \o w = r \o (v \o w)
        /\ q \o v \in Seq(Char) /\ (q \o v) \o w = q \o (v \o w)
        /\ m \o v \in Seq(Char) /\ (m \o v) \o w = m \o (v \o w)
    <3>1. i \o v \in Seq(Char) /\ (i \o v) \o w = i \o (v \o w)
      BY ThreeTexts
    <3>2. r \o v \in Seq(Char) /\ (r \o v) \o w = r \o (v \o w)
      BY ThreeTexts
    <3>3. q \o v \in Seq(Char) /\ (q \o v) \o w = q \o (v \o w)
      BY ThreeTexts
    <3>4. m \o v \in Seq(Char) /\ (m \o v) \o w = m \o (v \o w)
      BY ThreeTexts
    <3> QED
      BY <3>1, <3>2, <3>3, <3>4
  <2>2. Into(f, v) \in CutState(Char)
    BY <1>1, <1>2, <2>1 DEF Into, Cuts, CutState
  <2>3. Into(Into(f, v), w) = Into(f, v \o w)
    BY <1>1, <1>2, <2>1 DEF Into, Cuts
  <2> QED
    BY <2>2, <2>3
<1> QED
  BY <1>3, <1>4, <1>5

\* A word is added to the part it is in.
LEMMA CutWord ==
    ASSUME NEW s \in Seq(Char), NEW w \in Seq(Plain)
    PROVE  /\ w \in Seq(Char) /\ s \o w \in Seq(Char)
           /\ Cut(s \o w) = Into(Cut(s), w)
<1> DEFINE f == Cut(s)
           T == {v \in Seq(Plain) : Cut(s \o v) = Into(f, v)}
<1>1. Plain \in SUBSET Char /\ f \in CutState(Char)
  <2>1. Plain \in SUBSET Char /\ Comma \in Char
    BY DEF Plain, Char
  <2> QED
    BY <2>1, CutMore
<1>2. <<>> \in T
  <2>1. s \o <<>> = s /\ <<>> \in Seq(Plain)
    BY Texts
  <2>2. Into(f, <<>>) = f
    BY <1>1, IntoParts
  <2> QED
    BY <2>1, <2>2
<1>3. ASSUME NEW v \in Seq(Plain), NEW c \in Plain, v \in T PROVE Append(v, c) \in T
  <2>1. v \in Seq(Char) /\ c \in Char
    BY <1>1, Wider
  <2>2. v \o <<c>> = Append(v, c) /\ v \o <<c>> \in Seq(Plain)
    BY Texts
  <2>3. s \o v \in Seq(Char) /\ <<c>> \in Seq(Char)
    BY <2>1, Texts
  <2>4. s \o (v \o <<c>>) = (s \o v) \o <<c>>
    BY <2>1, <2>3, Texts
  <2>5. Cut((s \o v) \o <<c>>) = Collect(Cut(s \o v), c)
    BY <2>1, <2>3, CutMore
  <2> DEFINE q == Into(f, v)
  <2>6. Cut(s \o v) = q
    BY <1>3
  <2>7. q \in CutState(Char) /\ Into(q, <<c>>) = Into(f, v \o <<c>>)
    BY <1>1, <2>1, <2>3, IntoParts
  <2> HIDE DEF q
  <2>8. Collect(q, c) = Into(q, <<c>>)
    BY <2>7, IntoParts
  <2> QED
    BY <2>2, <2>4, <2>5, <2>6, <2>7, <2>8
<1> HIDE DEF T
<1>4. w \in T
  BY <1>2, <1>3, TextInduction
<1>5. w \in Seq(Char)
  BY <1>1, Wider
<1>6. s \o w \in Seq(Char)
  BY <1>5, Texts
<1> QED
  BY <1>4, <1>5, <1>6 DEF T

\* A plain word is an immediate number.
LEMMA CutPlain ==
    ASSUME NEW u \in Seq(Plain)
    PROVE  u \in Seq(Char) /\ Cut(u) = Cuts(0, 0, u, <<>>, <<>>, <<>>)
<1>1. <<>> \in Seq(Char) /\ Cut(<<>>) = Cuts(0, 0, <<>>, <<>>, <<>>, <<>>)
  BY CutRuns, Texts DEF CutStart, Cuts
<1>2. u \in Seq(Char) /\ Cut(<<>> \o u) = Into(Cut(<<>>), u)
  BY <1>1, CutWord
<1>3. <<>> \o u = u
  BY <1>2, Texts
<1>4. Into(Cuts(0, 0, <<>>, <<>>, <<>>, <<>>), u) = Cuts(0, 0, u, <<>>, <<>>, <<>>)
  BY <1>3 DEF Into, Cuts
<1> QED
  BY <1>1, <1>2, <1>3, <1>4

\* A comma and a word behind it
LEMMA CutComma ==
    ASSUME NEW s \in Seq(Char), NEW u, NEW r, NEW q,
           NEW n \in {0, 1}, Cut(s) = Cuts(1, n, u, r, q, <<>>), n = 0 => q = <<>>,
           NEW w \in Seq(Plain)
    PROVE  /\ <<Comma>> \o w \in Seq(Char) /\ s \o (<<Comma>> \o w) \in Seq(Char)
           /\ Cut(s \o (<<Comma>> \o w)) = IF n = 0 THEN Cuts(1, 1, u, r, w, <<>>) ELSE Cuts(1, 2, u, r, q, w)
<1>1. Comma \in Char /\ w \in Seq(Char)
  <2>1. Comma \in Char /\ Plain \in SUBSET Char
    BY DEF Char, Plain
  <2> QED
    BY <2>1, Wider
<1>2. <<Comma>> \in Seq(Char) /\ <<Comma>> \o w \in Seq(Char)
  BY <1>1, Texts
<1> DEFINE t == s \o <<Comma>>
<1>3. t \in Seq(Char) /\ Cut(t) = Collect(Cut(s), Comma)
  BY <1>1, CutMore
<1>4. s \o (<<Comma>> \o w) = t \o w
  BY <1>1, <1>2, Texts
<1>5. Collect(Cuts(1, n, u, r, q, <<>>), Comma) = Cuts(1, n + 1, u, r, q, <<>>)
  BY Marks DEF Collect, Cuts
<1> HIDE DEF t
<1>6. t \o w \in Seq(Char) /\ Cut(t \o w) = Into(Cut(t), w)
  BY <1>3, CutWord
<1>7. <<>> \o w = w
  BY <1>1, Texts
<1>8. Into(Cuts(1, n + 1, u, r, q, <<>>), w) = IF n = 0 THEN Cuts(1, 1, u, r, w, <<>>) ELSE Cuts(1, 2, u, r, q, w)
  <2>1. CASE n = 0
    BY <1>7, <2>1 DEF Into, Cuts
  <2>2. CASE n = 1
    BY <1>7, <2>2 DEF Into, Cuts
  <2> QED
    BY <2>1, <2>2
<1> QED
  BY <1>2, <1>3, <1>4, <1>5, <1>6, <1>8

\* The text of an address in brackets
BracketText(u, r, q, m, n) ==
    ((((u \o <<"(">>) \o r)
       \o (IF n > 0 THEN <<Comma>> \o q ELSE <<>>))
      \o (IF n > 1 THEN <<Comma>> \o m ELSE <<>>)) \o <<")">>

\* What is cut out of an address in brackets
LEMMA CutBrackets ==
    ASSUME NEW u \in Seq(Plain), NEW r \in Seq(Plain), NEW q \in Seq(Plain), NEW m \in Seq(Plain),
           NEW n \in 0 .. 2
    PROVE  Cut(BracketText(u, r, q, m, n))
            = Cuts(2, n, u, r, IF n > 0 THEN q ELSE <<>>, IF n > 1 THEN m ELSE <<>>)
<1> DEFINE t1 == u \o <<"(">>
           t2 == t1 \o r
           t3 == t2 \o (IF n > 0 THEN <<Comma>> \o q ELSE <<>>)
           t4 == t3 \o (IF n > 1 THEN <<Comma>> \o m ELSE <<>>)
           t5 == t4 \o <<")">>
           x == IF n > 0 THEN q ELSE <<>>
           y == IF n > 1 THEN m ELSE <<>>
<1>1. "(" \in Char /\ ")" \in Char /\ "(" # Comma /\ ")" # Comma
  <2>1. "(" \in Char /\ ")" \in Char
    BY DEF Char
  <2> QED
    BY <2>1, Marks
<1>2. t1 \in Seq(Char) /\ Cut(t1) = Cuts(1, 0, u, <<>>, <<>>, <<>>)
  <2>1. u \in Seq(Char) /\ Cut(u) = Cuts(0, 0, u, <<>>, <<>>, <<>>)
    BY CutPlain
  <2>2. t1 \in Seq(Char) /\ Cut(t1) = Collect(Cut(u), "(")
    BY <1>1, <2>1, CutMore
  <2>3. Collect(Cuts(0, 0, u, <<>>, <<>>, <<>>), "(") = Cuts(1, 0, u, <<>>, <<>>, <<>>)
    <3> DEFINE g == Cuts(0, 0, u, <<>>, <<>>, <<>>)
    <3>1. [g EXCEPT !.brackets = @ + 1] = Cuts(1, 0, u, <<>>, <<>>, <<>>)
      BY DEF Cuts
    <3> HIDE DEF g
    <3>2. Collect(g, "(") = [g EXCEPT !.brackets = @ + 1]
      BY <1>1 DEF Collect
    <3> QED
      BY <3>1, <3>2 DEF g
  <2> QED
    BY <2>1, <2>2, <2>3
<1> HIDE DEF t1
<1>3. t2 \in Seq(Char) /\ Cut(t2) = Cuts(1, 0, u, r, <<>>, <<>>)
  <2>1. r \in Seq(Char) /\ t2 \in Seq(Char) /\ Cut(t2) = Into(Cut(t1), r)
    BY <1>2, CutWord
  <2>2. <<>> \o r = r
    BY <2>1, Texts
  <2>3. Into(Cuts(1, 0, u, <<>>, <<>>, <<>>), r) = Cuts(1, 0, u, r, <<>>, <<>>)
    BY <2>2 DEF Into, Cuts
  <2> QED
    BY <1>2, <2>1, <2>3
<1> HIDE DEF t2
<1>4. t3 \in Seq(Char) /\ Cut(t3) = Cuts(1, IF n > 0 THEN 1 ELSE 0, u, r, x, <<>>)
  <2>1. CASE n > 0
    <3>1. 0 \in {0, 1} /\ t3 = t2 \o (<<Comma>> \o q)
      BY <2>1
    <3> HIDE DEF t3
    <3>2. t2 \o (<<Comma>> \o q) \in Seq(Char) /\ Cut(t2 \o (<<Comma>> \o q)) = Cuts(1, 1, u, r, q, <<>>)
      BY <1>3, <3>1, CutComma
    <3> QED
      BY <2>1, <3>1, <3>2
  <2>2. CASE n = 0
    <3>1. t3 = t2
      BY <1>3, <2>2, Texts
    <3> QED
      BY <1>3, <2>2, <3>1
  <2> QED
    BY <2>1, <2>2
<1> HIDE DEF t3
<1>5. t4 \in Seq(Char) /\ Cut(t4) = Cuts(1, n, u, r, x, y)
  <2>1. CASE n > 1
    <3>1. 1 \in {0, 1} /\ t4 = t3 \o (<<Comma>> \o m) /\ n = 2 /\ Cut(t3) = Cuts(1, 1, u, r, x, <<>>)
      BY <1>4, <2>1
    <3> HIDE DEF t4, x
    <3>2. t3 \o (<<Comma>> \o m) \in Seq(Char) /\ Cut(t3 \o (<<Comma>> \o m)) = Cuts(1, 2, u, r, x, m)
      BY <1>4, <3>1, CutComma
    <3> QED
      BY <2>1, <3>1, <3>2
  <2>2. CASE ~(n > 1)
    <3>1. t4 = t3
      BY <1>4, <2>2, Texts
    <3>2. n = IF n > 0 THEN 1 ELSE 0
      BY <2>2
    <3> QED
      BY <1>4, <2>2, <3>1, <3>2
  <2> QED
    BY <2>1, <2>2
<1> HIDE DEF t4, x, y
<1>6. Cut(t5) = Cuts(2, n, u, r, x, y)
  <2>1. Cut(t5) = Collect(Cut(t4), ")")
    BY <1>1, <1>5, CutMore
  <2>2. Collect(Cuts(1, n, u, r, x, y), ")") = Cuts(2, n, u, r, x, y)
    <3> DEFINE g == Cuts(1, n, u, r, x, y)
    <3>1. [g EXCEPT !.brackets = @ + 1] = Cuts(2, n, u, r, x, y)
      BY DEF Cuts
    <3> HIDE DEF g
    <3>2. Collect(g, ")") = [g EXCEPT !.brackets = @ + 1]
      BY <1>1 DEF Collect
    <3> QED
      BY <3>1, <3>2 DEF g
  <2> QED
    BY <1>5, <2>1, <2>2
<1> QED
  BY <1>6 DEF BracketText, t1, t2, t3, t4, t5, x, y

-----------------------------------------------------------------------------
(* string2uint, character by character *)

\* Characters of a number
NumChar == DOMAIN DigitOf \cup {"-", "x"}

\* The digits are told apart from each other and from all else in a number.
LEMMA Kinds ==
    /\ \A n \in 0 .. 15 :
        /\ Digits[n + 1] \in NumChar
        /\ Kind(Digits[n + 1]) = IF n = 0 THEN "zero" ELSE IF n < 10 THEN "digit" ELSE "letter"
    /\ Kind("-") = "minus" /\ Kind("x") = "x" /\ Kind("0") = "zero"
    /\ "-" \notin DOMAIN DigitOf /\ "x" \notin DOMAIN DigitOf
    /\ Digits[1] = "0"
<1>1. /\ DOMAIN DigitOf = {"0", "1", "2", "3", "4", "5", "6", "7", "8", "9", "a", "b", "c", "d", "e", "f"}
      /\ Digits[1] = "0"
  <2>1. {i \in 1 .. 16 : TRUE} = {1, 2, 3, 4, 5, 6, 7, 8, 9, 10, 11, 12, 13, 14, 15, 16}
    OBVIOUS
  <2>2. DOMAIN DigitOf = {Digits[i] : i \in {1, 2, 3, 4, 5, 6, 7, 8, 9, 10, 11, 12, 13, 14, 15, 16}}
    BY <2>1, DigitsAre
  <2> QED
    BY <2>2 DEF Digits
<1>2. Blank \notin {"0", "1", "2", "3", "4", "5", "6", "7", "8", "9", "a", "b", "c", "d", "e", "f"}
  BY Zenon DEF Blank
<1>3. "-" \notin DOMAIN DigitOf /\ "x" \notin DOMAIN DigitOf /\ "0" \in DOMAIN DigitOf
  BY <1>1
<1>4. Kind("-") = "minus" /\ Kind("x") = "x" /\ Kind("0") = "zero"
  <2>1. Blank # "-" /\ Blank # "x" /\ Blank # "0"
    BY Marks
  <2>2. Kind("-") = "minus"
    BY <1>3, <2>1 DEF Kind
  <2>3. Kind("x") = "x"
    BY <1>3, <2>1 DEF Kind
  <2>4. Kind("0") = "zero"
    BY <2>1 DEF Kind
  <2> QED
    BY <2>2, <2>3, <2>4
<1>5. ASSUME NEW n \in 0 .. 15
      PROVE  /\ Digits[n + 1] \in NumChar
             /\ Kind(Digits[n + 1]) = IF n = 0 THEN "zero" ELSE IF n < 10 THEN "digit" ELSE "letter"
  <2> DEFINE c == Digits[n + 1]
  <2>1. c \in DOMAIN DigitOf /\ DigitOf[c] = n
    BY DigitsAre
  <2>2. c = "0" => n = 0
    <3>1. 0 \in 0 .. 15 /\ 0 + 1 = 1
      OBVIOUS
    <3>2. DigitOf["0"] = 0
      BY <1>1, <3>1, DigitsAre
    <3> QED
      BY <2>1, <3>2
  <2>3. n = 0 => c = "0"
    BY <1>1
  <2>4. c # Blank /\ c # "-" /\ c # "x"
    BY <1>1, <1>2, <1>3, <2>1
  <2> HIDE DEF c
  <2>5. Kind(c) = IF n = 0 THEN "zero" ELSE IF n < 10 THEN "digit" ELSE "letter"
    <3>1. CASE n = 0
      BY <1>4, <2>3, <3>1
    <3>2. CASE n # 0
      BY <2>1, <2>2, <2>4, <3>2 DEF Kind
    <3> QED
      BY <3>1, <3>2
  <2> QED
    BY <2>1, <2>5 DEF c, NumChar
<1> QED
  BY <1>1, <1>3, <1>4, <1>5

\* One thing that may have been read
Here(k, v, n) == [state |-> k, uv |-> v, negative |-> n]
IsRead(s, k, v, n) == Reading(s) = {Here(k, v, n)}

\* The only arrow from state k for character c is to state t.
OnlyArrow(k, c, t) == \A x \in 0 .. 6 : <<k, Kind(c), x>> \in Arrows <=> x = t

\* Reading a text and one more character, where there is one arrow
LEMMA ReadMore ==
    ASSUME NEW s \in Seq(NumChar), NEW c \in NumChar,
           NEW k \in 0 .. 6, NEW v \in Word, NEW n \in BOOLEAN, IsRead(s, k, v, n),
           NEW t \in 0 .. 6, OnlyArrow(k, c, t),
           ~Overflows(v, Value(v, t, c), c), NEW e, e = IF Kind(c) = "minus" THEN TRUE ELSE n
    PROVE  /\ s \o <<c>> \in Seq(NumChar)
           /\ IsRead(s \o <<c>>, t, Value(v, t, c), e)
<1>1. s \o <<c>> = Append(s, c) /\ s \o <<c>> \in Seq(NumChar)
  BY Texts
<1>2. Reading(Append(s, c)) = UNION {Read(m, c) : m \in Reading(s)}
  BY ReadRuns
<1> DEFINE m == Here(k, v, n)
<1>3. m.state = k /\ m.uv = v /\ m.negative = n
  BY DEF Here
<1> HIDE DEF m
<1>4. Reading(s \o <<c>>) = Read(m, c)
  <2>1. Reading(s) = {m}
    BY DEF m, IsRead
  <2>2. UNION {Read(x, c) : x \in {m}} = Read(m, c)
    OBVIOUS
  <2> QED
    BY <1>1, <1>2, <2>1, <2>2
<1>5. {x \in 0 .. 6 : <<k, Kind(c), x>> \in Arrows /\ ~Overflows(v, Value(v, x, c), c)} = {t}
  BY DEF OnlyArrow
<1>6. Read(m, c) = {[state |-> x, uv |-> Value(v, x, c), negative |-> n \/ Kind(c) = "minus"] : x \in {t}}
  BY <1>3, <1>5 DEF Read, OnlyArrow
<1>7. (n \/ Kind(c) = "minus") = e
  OBVIOUS
<1> QED
  BY <1>1, <1>4, <1>6, <1>7 DEF Here, IsRead

\* The state that a digit leads to
Target(base, k, d) == IF base = 16 THEN 5 ELSE IF k \in {0, 3} /\ d = 0 THEN 1 ELSE 2

\* Reading one more digit, of a number that is not too large
LEMMA ReadDigit ==
    ASSUME NEW s \in Seq(NumChar), NEW base \in {10, 16}, NEW d \in 0 .. base - 1,
           NEW k, k \in (IF base = 16 THEN {4, 5} ELSE {0, 1, 2, 3}),
           NEW v \in Word, NEW n \in BOOLEAN, IsRead(s, k, v, n),
           v * base + d \in Word
    PROVE  /\ s \o <<Digits[d + 1]>> \in Seq(NumChar)
           /\ IsRead(s \o <<Digits[d + 1]>>, Target(base, k, d), v * base + d, n)
<1> DEFINE c == Digits[d + 1]
           t == Target(base, k, d)
<1>1. d \in 0 .. 15
  OBVIOUS
<1>2. /\ c \in NumChar /\ c \in DOMAIN DigitOf /\ DigitOf[c] = d
      /\ Kind(c) = IF d = 0 THEN "zero" ELSE IF d < 10 THEN "digit" ELSE "letter"
  BY <1>1, Kinds, DigitsAre
<1> HIDE DEF c
<1>3. k \in 0 .. 6 /\ t \in {1, 2, 5} /\ t \in 0 .. 6 /\ (t = 5 <=> base = 16)
  BY DEF Target
<1>4. OnlyArrow(k, c, t)
  <2>1. CASE base = 16
    BY <1>2, <2>1 DEF Arrows, Target, OnlyArrow
  <2>2. CASE base = 10
    BY <1>2, <2>2 DEF Arrows, Target, OnlyArrow
  <2> QED
    BY <2>1, <2>2
<1> HIDE DEF t
<1>5. Value(v, t, c) = v * base + d
  <2>1. (IF t = 5 THEN 16 ELSE 10) = base
    BY <1>3
  <2>2. \A x \in Word : x % (2 * HALF) = x
    BY WordAssumption DEF Word
  <2> QED
    BY <1>2, <2>1, <2>2 DEF Value
<1>6. v <= v * base + d
  <2>1. v \in Nat
    BY WordAssumption DEF Word
  <2> QED
    BY <2>1
<1>7. ~Overflows(v, Value(v, t, c), c)
  <2>1. v \in Int /\ v * base + d \in Int
    BY WordAssumption DEF Word
  <2> QED
    BY <1>5, <1>6, <2>1 DEF Overflows
<1>8. n = IF Kind(c) = "minus" THEN TRUE ELSE n
  BY <1>2
<1>9. /\ s \o <<c>> \in Seq(NumChar)
      /\ IsRead(s \o <<c>>, t, Value(v, t, c), n)
  <2>1. s \in Seq(NumChar) /\ c \in NumChar /\ k \in 0 .. 6 /\ v \in Word /\ n \in BOOLEAN
    BY <1>2, <1>3
  <2>2. IsRead(s, k, v, n) /\ t \in 0 .. 6
    BY <1>3
  <2> QED
    BY <1>4, <1>7, <1>8, <2>1, <2>2, ReadMore
<1> QED
  BY <1>5, <1>9 DEF c, t

-----------------------------------------------------------------------------
(* Numbers as they are written *)

\* The digits of a number, from 0 up to N
IsDigits(g, base, N) ==
    \A n \in 0 .. N :
        /\ g[n] \in Seq(NumChar)
        /\ g[n] = IF n < base THEN <<Digits[n + 1]>>
                  ELSE Append(g[n \div base], Digits[(n % base) + 1])

\* A number has a last digit, and fewer in front.
LEMMA LastDigit ==
    ASSUME NEW base \in {10, 16}, NEW n \in Nat
    PROVE  /\ n \div base \in 0 .. n /\ n % base \in 0 .. base - 1
           /\ n = (n \div base) * base + (n % base)
           /\ n >= base => n \div base # 0 /\ n \div base < n
<1>1. CASE base = 10
  <2>1. /\ n \div 10 \in Int /\ n % 10 \in 0 .. 9
        /\ n = (n \div 10) * 10 + (n % 10)
    <3>1. n \div 10 \in Int
      OBVIOUS
    <3>2. n % 10 \in 0 .. 9
      OBVIOUS
    <3>3. n = (n \div 10) * 10 + (n % 10)
      OBVIOUS
    <3> QED
      BY <3>1, <3>2, <3>3
  <2>2. n \div 10 >= 0 /\ n \div 10 <= n /\ (n >= 10 => n \div 10 # 0 /\ n \div 10 < n)
    BY <2>1
  <2>3. n \div 10 \in 0 .. n
    BY <2>1, <2>2
  <2> QED
    BY <1>1, <2>1, <2>2, <2>3
<1>2. CASE base = 16
  <2>1. /\ n \div 16 \in Int /\ n % 16 \in 0 .. 15
        /\ n = (n \div 16) * 16 + (n % 16)
    <3>1. n \div 16 \in Int
      OBVIOUS
    <3>2. n % 16 \in 0 .. 15
      OBVIOUS
    <3>3. n = (n \div 16) * 16 + (n % 16)
      OBVIOUS
    <3> QED
      BY <3>1, <3>2, <3>3
  <2>2. n \div 16 >= 0 /\ n \div 16 <= n /\ (n >= 16 => n \div 16 # 0 /\ n \div 16 < n)
    BY <2>1
  <2>3. n \div 16 \in 0 .. n
    BY <2>1, <2>2
  <2> QED
    BY <1>2, <2>1, <2>2, <2>3
<1> QED
  BY <1>1, <1>2

\* There are digits of all numbers.
LEMMA DigitsExist ==
    ASSUME NEW base \in {10, 16}, NEW N \in Nat
    PROVE  \E g : g \in [0 .. N -> Seq(NumChar)] /\ IsDigits(g, base, N)
<1> DEFINE T == {n \in Nat : \E g : g \in [0 .. n -> Seq(NumChar)] /\ IsDigits(g, base, n)}
<1>1. ASSUME NEW d \in 0 .. base - 1
      PROVE  Digits[d + 1] \in NumChar /\ <<Digits[d + 1]>> \in Seq(NumChar)
  <2>1. Digits[d + 1] \in NumChar
    BY Kinds
  <2> QED
    BY <2>1, Texts
<1>2. 0 \in T
  <2> DEFINE g == [n \in 0 .. 0 |-> <<Digits[1]>>]
  <2>1. <<Digits[1]>> \in Seq(NumChar)
    <3>1. 0 \in 0 .. base - 1 /\ 0 + 1 = 1
      OBVIOUS
    <3> QED
      BY <1>1, <3>1
  <2>2. g \in [0 .. 0 -> Seq(NumChar)] /\ IsDigits(g, base, 0)
    BY <2>1 DEF IsDigits
  <2> QED
    BY <2>2
<1>3. ASSUME NEW n \in 0 .. N - 1, n \in T PROVE n + 1 \in T
  <2>1. n \in Nat /\ n + 1 \in Nat
    OBVIOUS
  <2>2. PICK g : g \in [0 .. n -> Seq(NumChar)] /\ IsDigits(g, base, n)
    BY <1>3
  <2> DEFINE k == n + 1
             v == IF k < base THEN <<Digits[k + 1]>> ELSE Append(g[k \div base], Digits[(k % base) + 1])
             h == [j \in 0 .. k |-> IF j = k THEN v ELSE g[j]]
  <2>3. /\ k \div base \in 0 .. k /\ k % base \in 0 .. base - 1
        /\ k >= base => k \div base \in 0 .. n /\ k \div base # k
    <3>1. k \in Nat
      BY <2>1
    <3> HIDE DEF k
    <3>2. /\ k \div base \in 0 .. k /\ k % base \in 0 .. base - 1
          /\ k >= base => k \div base # 0 /\ k \div base < k
      BY <3>1, LastDigit
    <3>3. \A j \in 0 .. k : j < k => j \in 0 .. n
      BY <2>1 DEF k
    <3> QED
      BY <3>1, <3>2, <3>3
  <2>4. v \in Seq(NumChar)
    <3>1. CASE k < base
      <4>1. k \in 0 .. base - 1
        BY <2>1, <3>1
      <4> HIDE DEF k
      <4> QED
        BY <1>1, <3>1, <4>1
    <3>2. CASE ~(k < base)
      <4>1. k >= base
        BY <2>1, <3>2
      <4> HIDE DEF k
      <4>2. g[k \div base] \in Seq(NumChar)
        BY <2>2, <2>3, <4>1
      <4>3. Digits[(k % base) + 1] \in NumChar
        BY <1>1, <2>3
      <4>4. Append(g[k \div base], Digits[(k % base) + 1]) \in Seq(NumChar)
        BY <4>2, <4>3, AppendProperties
      <4> QED
        BY <3>2, <4>4
    <3> QED
      BY <3>1, <3>2
  <2> HIDE DEF v
  <2>5. /\ h \in [0 .. k -> Seq(NumChar)] /\ h[k] = v
        /\ \A j \in 0 .. n : j \in 0 .. k /\ h[j] = g[j]
    BY <2>1, <2>2, <2>4
  <2> HIDE DEF h
  <2>6. ASSUME NEW j \in 0 .. k
        PROVE  h[j] = IF j < base THEN <<Digits[j + 1]>>
                      ELSE Append(h[j \div base], Digits[(j % base) + 1])
    <3>1. CASE j = k
      <4>1. k >= base => h[k \div base] = g[k \div base]
        BY <2>3, <2>5
      <4>2. k >= base \/ k < base
        BY <2>1
      <4> HIDE DEF k
      <4> QED
        BY <2>5, <3>1, <4>1, <4>2 DEF v
    <3>2. CASE j # k
      <4>1. j \in 0 .. n /\ j \in Nat
        BY <2>1, <3>2
      <4>2. j >= base => j \div base \in 0 .. n
        <5>1. j \div base \in 0 .. j
          BY <4>1, LastDigit
        <5>2. j <= n
          BY <4>1
        <5> QED
          BY <2>1, <5>1, <5>2, <4>1
      <4>3. g[j] = IF j < base THEN <<Digits[j + 1]>>
                   ELSE Append(g[j \div base], Digits[(j % base) + 1])
        BY <2>2, <4>1 DEF IsDigits
      <4>4. h[j] = g[j] /\ (j >= base => h[j \div base] = g[j \div base])
        BY <2>5, <4>1, <4>2
      <4>5. j >= base \/ j < base
        BY <4>1
      <4> QED
        BY <4>3, <4>4, <4>5
    <3> QED
      BY <3>1, <3>2
  <2>7. IsDigits(h, base, k)
    BY <2>5, <2>6 DEF IsDigits
  <2> QED
    BY <2>1, <2>5, <2>7
<1> HIDE DEF T
<1>4. N \in T
  <2>1. N \in 0 .. N
    OBVIOUS
  <2>2. \A n \in 0 .. N : n \in T
    BY <1>2, <1>3, Induction
  <2> QED
    BY <2>1, <2>2
<1> QED
  BY <1>4 DEF T

\* What is in front of the digits of a hexadecimal number, and the digits behind it
Base1(hex) == IF hex THEN <<"0", "x">> ELSE <<>>
Writes(g, hex) == \A x : Numeral(x, hex) = Base1(hex) \o g[x]

\* A number is written as its digits.
LEMMA NumeralDigits ==
    ASSUME NEW hex \in BOOLEAN, NEW base, base = IF hex THEN 16 ELSE 10
    PROVE  \E g : IsDigits(g, base, 2 * HALF - 1) /\ Writes(g, hex)
<1> DEFINE Eq(h) == h = [n \in Word |-> IF n < base THEN <<Digits[n + 1]>>
                                        ELSE Append(h[n \div base], Digits[(n % base) + 1])]
           g == CHOOSE h : Eq(h)
           N == 2 * HALF - 1
<1>1. base \in {10, 16} /\ N \in Nat /\ Word = 0 .. N
  BY WordAssumption DEF Word
<1>2. PICK f : f \in [0 .. N -> Seq(NumChar)] /\ IsDigits(f, base, N)
  BY <1>1, DigitsExist
<1>3. Eq(f)
  BY <1>1, <1>2 DEF IsDigits
<1>4. Eq(g)
  BY <1>3
<1>5. Writes(g, hex)
  BY DEF Numeral, Writes, Base1
<1> HIDE DEF g, N
<1>6. \A n \in 0 .. N : g[n] = IF n < base THEN <<Digits[n + 1]>>
                               ELSE Append(g[n \div base], Digits[(n % base) + 1])
  BY <1>1, <1>4
<1> DEFINE T == {n \in Nat : n <= N => \A j \in 0 .. n : g[j] = f[j]}
<1>7. ASSUME NEW n \in 0 .. N, n >= base => g[n \div base] = f[n \div base] PROVE g[n] = f[n]
  <2>1. f[n] = IF n < base THEN <<Digits[n + 1]>> ELSE Append(f[n \div base], Digits[(n % base) + 1])
    BY <1>2 DEF IsDigits
  <2>2. n < base \/ n >= base
    BY <1>1
  <2> QED
    BY <1>6, <1>7, <2>1, <2>2
<1>8. 0 \in T
  <2>1. 0 \in 0 .. N /\ ~(0 >= base) /\ \A j \in 0 .. 0 : j = 0
    BY <1>1
  <2> QED
    BY <1>7, <2>1
<1>9. ASSUME NEW n \in 0 .. N - 1, n \in T PROVE n + 1 \in T
  <2>1. n + 1 \in 0 .. N /\ n + 1 \in Nat /\ n <= N
    BY <1>1
  <2>2. \A j \in 0 .. n : g[j] = f[j]
    BY <1>9, <2>1
  <2>3. n + 1 >= base => (n + 1) \div base \in 0 .. n
    <3> DEFINE k == n + 1
    <3>1. k \in Nat
      BY <2>1
    <3> HIDE DEF k
    <3>2. k >= base => k \div base \in 0 .. k /\ k \div base < k
      BY <1>1, <3>1, LastDigit
    <3>3. \A j \in 0 .. k : j < k => j \in 0 .. n
      BY <1>1, <2>1 DEF k
    <3> QED
      BY <3>2, <3>3 DEF k
  <2>4. g[n + 1] = f[n + 1]
    BY <1>7, <2>1, <2>2, <2>3
  <2>5. \A j \in 0 .. n + 1 : j \in 0 .. n \/ j = n + 1
    BY <1>1
  <2> QED
    BY <2>1, <2>2, <2>4, <2>5
<1> HIDE DEF T
<1>10. \A n \in 0 .. N : n \in T
  BY <1>1, <1>8, <1>9, Induction
<1>11. ASSUME NEW n \in 0 .. N PROVE g[n] = f[n]
  <2>1. n \in T /\ n \in Nat /\ n <= N /\ n \in 0 .. n
    BY <1>1, <1>10
  <2> QED
    BY <2>1 DEF T
<1>12. IsDigits(g, base, N)
  <2>1. \A n \in 0 .. N : g[n] \in Seq(NumChar)
    BY <1>2, <1>11
  <2> QED
    BY <1>6, <2>1 DEF IsDigits
<1> QED
  BY <1>5, <1>12 DEF N

\* The state after the digits of n
AfterDigits(base, n) == IF base = 16 THEN 5 ELSE IF n = 0 THEN 1 ELSE 2

\* The digits of a number are read as the number.
LEMMA ReadDigits ==
    ASSUME NEW base \in {10, 16}, NEW g, IsDigits(g, base, 2 * HALF - 1),
           NEW p \in Seq(NumChar), NEW k, k \in (IF base = 16 THEN {4} ELSE {0, 3}),
           NEW neg \in BOOLEAN, IsRead(p, k, 0, neg), NEW x \in Word
    PROVE  /\ g[x] \in Seq(NumChar) /\ g[x] # <<>>
           /\ p \o g[x] \in Seq(NumChar)
           /\ IsRead(p \o g[x], AfterDigits(base, x), x, neg)
<1> DEFINE N == 2 * HALF - 1
           P(n) == /\ g[n] # <<>>
                   /\ p \o g[n] \in Seq(NumChar)
                   /\ IsRead(p \o g[n], AfterDigits(base, n), n, neg)
           T == {n \in Nat : n <= N => \A j \in 0 .. n : P(j)}
<1>1. N \in Nat /\ Word = 0 .. N /\ 0 \in Word
  BY WordAssumption DEF Word
<1>2. \A n \in 0 .. N : /\ g[n] \in Seq(NumChar)
                       /\ g[n] = IF n < base THEN <<Digits[n + 1]>>
                                 ELSE Append(g[n \div base], Digits[(n % base) + 1])
  BY DEF IsDigits
<1> HIDE DEF N
<1>3. ASSUME NEW d \in 0 .. base - 1
      PROVE  Digits[d + 1] \in NumChar /\ <<Digits[d + 1]>> \in Seq(NumChar)
  <2>1. Digits[d + 1] \in NumChar
    BY Kinds
  <2> QED
    BY <2>1, Texts
<1>4. ASSUME NEW n \in 0 .. N, n < base PROVE P(n)
  <2>1. n \in 0 .. base - 1 /\ n \in Nat /\ g[n] = <<Digits[n + 1]>>
    <3>1. n \in 0 .. base - 1 /\ n \in Nat
      BY <1>1, <1>4
    <3>2. g[n] = IF n < base THEN <<Digits[n + 1]>> ELSE Append(g[n \div base], Digits[(n % base) + 1])
      BY <1>2
    <3> QED
      BY <1>4, <3>1, <3>2
  <2>2. 0 * base + n \in Word /\ 0 * base + n = n /\ k \in (IF base = 16 THEN {4, 5} ELSE {0, 1, 2, 3})
    BY <1>1, <2>1
  <2>3. Target(base, k, n) = AfterDigits(base, n)
    BY DEF Target, AfterDigits
  <2>4. /\ p \o <<Digits[n + 1]>> \in Seq(NumChar)
        /\ IsRead(p \o <<Digits[n + 1]>>, Target(base, k, n), 0 * base + n, neg)
    BY <1>1, <2>1, <2>2, ReadDigit
  <2>5. <<Digits[n + 1]>> # <<>>
    OBVIOUS
  <2> QED
    BY <2>1, <2>2, <2>3, <2>4, <2>5
<1>5. ASSUME NEW n \in 0 .. N, n >= base, P(n \div base) PROVE P(n)
  <2> DEFINE m == n \div base
             d == n % base
             c == Digits[d + 1]
  <2>1. n \in Nat /\ ~(n < base)
    BY <1>1, <1>5
  <2>2. m \in 0 .. n /\ d \in 0 .. base - 1 /\ n = m * base + d /\ m # 0 /\ m < n
    BY <1>5, <2>1, LastDigit
  <2>3. g[n] = Append(g[m], c)
    BY <1>2, <2>1
  <2>4. P(m)
    BY <1>5
  <2> HIDE DEF m, d
  <2>5. m \in 0 .. N /\ m \in Word /\ m * base + d \in Word
    BY <1>1, <2>2
  <2>6. g[m] \in Seq(NumChar) /\ c \in NumChar /\ <<c>> \in Seq(NumChar)
    BY <1>2, <1>3, <2>2, <2>5
  <2>7. g[n] = g[m] \o <<c>> /\ g[n] # <<>>
    <3> DEFINE s == g[m]
    <3>1. s \in Seq(NumChar) /\ g[n] = Append(s, c)
      BY <2>3, <2>6
    <3> HIDE DEF s, c
    <3>2. Append(s, c) = s \o <<c>>
      BY <2>6, <3>1, Texts
    <3>3. Append(s, c) # <<>>
      BY <2>6, <3>1, AppendProperties
    <3> QED
      BY <3>1, <3>2, <3>3 DEF s
  <2>8. p \o g[n] = (p \o g[m]) \o <<c>>
    <3> DEFINE s == g[m]
               z == <<c>>
    <3>1. s \in Seq(NumChar) /\ z \in Seq(NumChar) /\ g[n] = s \o z
      BY <2>6, <2>7
    <3> HIDE DEF s, z
    <3>2. p \o (s \o z) = (p \o s) \o z
      BY <3>1, Texts
    <3> QED
      BY <3>1, <3>2 DEF s, z
  <2> DEFINE q == p \o g[m]
             l == AfterDigits(base, m)
  <2>9. q \in Seq(NumChar) /\ IsRead(q, l, m, neg) /\ l \in (IF base = 16 THEN {4, 5} ELSE {0, 1, 2, 3})
    BY <2>4 DEF AfterDigits
  <2>10. Target(base, l, d) = AfterDigits(base, n)
    BY <2>1, <2>2 DEF Target, AfterDigits
  <2> HIDE DEF q, l
  <2>11. q \o <<Digits[d + 1]>> \in Seq(NumChar) /\ IsRead(q \o <<Digits[d + 1]>>, Target(base, l, d), m * base + d, neg)
    BY <2>2, <2>5, <2>9, ReadDigit
  <2>12. p \o g[n] = q \o <<c>>
    BY <2>8 DEF q
  <2> QED
    BY <2>2, <2>7, <2>10, <2>11, <2>12
<1> HIDE DEF P
<1>6. 0 \in T
  <2>1. 0 \in 0 .. N /\ 0 < base /\ \A j \in 0 .. 0 : j = 0
    BY <1>1
  <2> QED
    BY <1>4, <2>1
<1>7. ASSUME NEW n \in 0 .. N - 1, n \in T PROVE n + 1 \in T
  <2>1. n + 1 \in 0 .. N /\ n + 1 \in Nat /\ n <= N
    BY <1>1
  <2>2. \A j \in 0 .. n : P(j)
    BY <1>7, <2>1
  <2>3. P(n + 1)
    <3> DEFINE i == n + 1
    <3>1. i \in Nat /\ i \in 0 .. N /\ \A j \in 0 .. i : j < i => j \in 0 .. n
      BY <1>1, <2>1
    <3> HIDE DEF i
    <3>2. ASSUME i < base PROVE P(i)
      BY <1>4, <3>1, <3>2
    <3>3. ASSUME i >= base PROVE P(i)
      <4>1. i \div base \in 0 .. i /\ i \div base < i
        BY <3>1, <3>3, LastDigit
      <4>2. P(i \div base)
        BY <2>2, <3>1, <4>1
      <4> QED
        BY <1>5, <3>1, <3>3, <4>2
    <3>4. i < base \/ i >= base
      BY <3>1
    <3> QED
      BY <3>2, <3>3, <3>4 DEF i
  <2>4. \A j \in 0 .. n + 1 : j \in 0 .. n \/ j = n + 1
    BY <1>1
  <2> QED
    BY <2>1, <2>2, <2>3, <2>4
<1> HIDE DEF T
<1>8. \A n \in 0 .. N : n \in T
  BY <1>1, <1>6, <1>7, Induction
<1>9. P(x)
  <2>1. x \in T /\ x \in Nat /\ x <= N /\ x \in 0 .. x
    BY <1>1, <1>8
  <2> QED
    BY <2>1 DEF T
<1> QED
  BY <1>1, <1>2, <1>9 DEF P

\* The sign in front of it
Sign1(neg) == IF neg THEN <<"-">> ELSE <<>>

\* A sign and the mark of a hexadecimal number are read.
LEMMA ReadFront ==
    ASSUME NEW neg \in BOOLEAN, NEW hex \in BOOLEAN
    PROVE  /\ Sign1(neg) \in Seq(NumChar) /\ Base1(hex) \in Seq(NumChar)
           /\ Sign1(neg) \o Base1(hex) \in Seq(NumChar)
           /\ IsRead(Sign1(neg) \o Base1(hex), IF hex THEN 4 ELSE IF neg THEN 3 ELSE 0, 0, neg)
<1>1. "-" \in NumChar /\ "x" \in NumChar /\ "0" \in NumChar
  <2>1. 0 \in 0 .. 15 /\ 0 + 1 = 1
    OBVIOUS
  <2>2. Digits[1] \in NumChar /\ Digits[1] = "0"
    BY <2>1, Kinds
  <2> QED
    BY <2>2 DEF NumChar
<1>2. <<>> \in Seq(NumChar) /\ IsRead(<<>>, 0, 0, FALSE)
  BY ReadRuns, Texts DEF ReadStart, IsRead, Here
<1> DEFINE s1 == Sign1(neg)
           k1 == IF neg THEN 3 ELSE 0
<1>3. 0 \in Word
  BY WordAssumption DEF Word
<1>4. ASSUME NEW c \in {"-", "x"}, NEW t PROVE Value(0, t, c) = 0 /\ ~Overflows(0, Value(0, t, c), c)
  <2>1. Value(0, t, c) = 0
    BY Kinds DEF Value
  <2> QED
    BY <2>1 DEF Overflows
<1>5. s1 \in Seq(NumChar) /\ IsRead(s1, k1, 0, neg)
  <2>1. CASE neg
    <3>1. <<>> \o <<"-">> = <<"-">> /\ <<"-">> \in Seq(NumChar)
      BY <1>1, Texts
    <3>2. OnlyArrow(0, "-", 3)
      BY Kinds DEF OnlyArrow, Arrows
    <3>3. TRUE = IF Kind("-") = "minus" THEN TRUE ELSE FALSE
      BY Kinds
    <3>4. IsRead(<<>> \o <<"-">>, 3, Value(0, 3, "-"), TRUE)
      <4>1. 0 \in 0 .. 6 /\ 3 \in 0 .. 6 /\ FALSE \in BOOLEAN /\ ~Overflows(0, Value(0, 3, "-"), "-")
        BY <1>4
      <4> QED
        BY <1>1, <1>2, <1>3, <3>2, <3>3, <4>1, ReadMore
    <3>5. Value(0, 3, "-") = 0
      BY <1>4
    <3>6. s1 = <<"-">> /\ k1 = 3 /\ neg = TRUE
      BY <2>1 DEF Sign1
    <3> QED
      BY <3>1, <3>4, <3>5, <3>6
  <2>2. CASE ~neg
    <3>1. s1 = <<>> /\ k1 = 0 /\ neg = FALSE
      BY <2>2 DEF Sign1
    <3> QED
      BY <1>2, <3>1
  <2> QED
    BY <2>1, <2>2
<1>6. k1 \in {0, 3} /\ k1 \in 0 .. 6
  OBVIOUS
<1> HIDE DEF s1, k1
<1>7. CASE hex
  <2> DEFINE z == <<"0">>
             b == <<"0", "x">>
  <2>1. /\ z \in Seq(NumChar) /\ b = z \o <<"x">> /\ b \in Seq(NumChar) /\ <<"x">> \in Seq(NumChar)
    <3>1. z \in Seq(NumChar) /\ <<"x">> \in Seq(NumChar)
      BY <1>1, Texts
    <3>2. b = Append(z, "x")
      OBVIOUS
    <3>3. z \o <<"x">> = Append(z, "x") /\ z \o <<"x">> \in Seq(NumChar)
      <4> HIDE DEF z
      <4> QED
        BY <1>1, <3>1, Texts
    <3> QED
      BY <3>1, <3>2, <3>3
  <2>2. s1 \o z \in Seq(NumChar) /\ IsRead(s1 \o z, 1, 0, neg)
    <3>1. 0 \in 0 .. 10 - 1 /\ 0 + 1 = 1 /\ 0 * 10 + 0 = 0 /\ 10 \in {10, 16}
      OBVIOUS
    <3>2. k1 \in (IF 10 = 16 THEN {4, 5} ELSE {0, 1, 2, 3})
      BY <1>6
    <3>3. Target(10, k1, 0) = 1
      BY <1>6 DEF Target
    <3>4. s1 \o <<Digits[0 + 1]>> \in Seq(NumChar) /\ IsRead(s1 \o <<Digits[0 + 1]>>, Target(10, k1, 0), 0 * 10 + 0, neg)
      BY <1>3, <1>5, <3>1, <3>2, ReadDigit
    <3>5. <<Digits[0 + 1]>> = z
      BY <3>1, Kinds
    <3> QED
      BY <3>1, <3>3, <3>4, <3>5
  <2> DEFINE q == s1 \o z
  <2>3. s1 \o b = q \o <<"x">>
    <3> HIDE DEF z, b
    <3>1. s1 \o (z \o <<"x">>) = (s1 \o z) \o <<"x">>
      BY <1>5, <2>1, Texts
    <3> QED
      BY <2>1, <3>1
  <2> HIDE DEF q
  <2>4. q \o <<"x">> \in Seq(NumChar) /\ IsRead(q \o <<"x">>, 4, Value(0, 4, "x"), neg)
    <3>1. OnlyArrow(1, "x", 4)
      BY Kinds DEF OnlyArrow, Arrows
    <3>2. neg = IF Kind("x") = "minus" THEN TRUE ELSE neg
      BY Kinds
    <3>3. 1 \in 0 .. 6 /\ 4 \in 0 .. 6 /\ ~Overflows(0, Value(0, 4, "x"), "x")
      BY <1>4
    <3>4. q \in Seq(NumChar) /\ IsRead(q, 1, 0, neg)
      BY <2>2 DEF q
    <3> QED
      BY <1>1, <1>3, <3>1, <3>2, <3>3, <3>4, ReadMore
  <2>5. Value(0, 4, "x") = 0
    BY <1>4
  <2>6. Base1(hex) = b
    BY <1>7 DEF Base1
  <2> HIDE DEF b
  <2> QED
    BY <1>5, <1>7, <2>1, <2>3, <2>4, <2>5, <2>6 DEF s1
<1>8. CASE ~hex
  <2>1. Base1(hex) = <<>> /\ s1 \o <<>> = s1
    BY <1>5, <1>8, Texts DEF Base1
  <2> QED
    BY <1>2, <1>5, <1>8, <2>1 DEF s1, k1
<1> QED
  BY <1>7, <1>8

\* Texts that are put together are empty if both are.
LEMMA NotEmpty ==
    ASSUME NEW D, NEW s \in Seq(D), NEW t \in Seq(D), s # <<>> \/ t # <<>>
    PROVE  s \o t # <<>>
<1>1. Len(s) \in Nat /\ Len(t) \in Nat /\ (Len(s) # 0 \/ Len(t) # 0)
  BY EmptySeq, LenProperties
<1>2. Len(s \o t) = Len(s) + Len(t)
  BY ConcatProperties
<1>3. Len(<<>>) = 0
  BY EmptySeq
<1>4. Len(s) + Len(t) # 0
  BY <1>1
<1> QED
  BY <1>2, <1>3, <1>4

\* A numeral is read as its number, with the sign that is in front.
LEMMA NumeralIs ==
    ASSUME NEW neg \in BOOLEAN, NEW hex \in BOOLEAN, NEW x \in Word
    PROVE  /\ Numeral(x, hex) \in Seq(NumChar) /\ Numeral(x, hex) # <<>>
           /\ Sign1(neg) \in Seq(NumChar)
           /\ \E k : IsRead(Sign1(neg) \o Numeral(x, hex), k, x, neg)
<1> DEFINE base == IF hex THEN 16 ELSE 10
           k == IF hex THEN 4 ELSE IF neg THEN 3 ELSE 0
           b == Base1(hex)
           s == Sign1(neg)
           p == s \o b
<1>1. PICK g : IsDigits(g, base, 2 * HALF - 1) /\ Writes(g, hex)
  BY NumeralDigits
<1>2. base \in {10, 16} /\ k \in (IF base = 16 THEN {4} ELSE {0, 3})
  OBVIOUS
<1>3. s \in Seq(NumChar) /\ b \in Seq(NumChar) /\ p \in Seq(NumChar) /\ IsRead(p, k, 0, neg)
  BY ReadFront
<1> HIDE DEF base, k, b, s
<1>4. /\ g[x] \in Seq(NumChar) /\ g[x] # <<>>
      /\ IsRead(p \o g[x], AfterDigits(base, x), x, neg)
  <2> HIDE DEF p
  <2> QED
    BY <1>1, <1>2, <1>3, ReadDigits
<1> DEFINE t == g[x]
<1>5. Numeral(x, hex) = b \o t
  BY <1>1 DEF b, Writes
<1>6. t \in Seq(NumChar) /\ t # <<>>
  BY <1>4
<1>7. IsRead(p \o t, AfterDigits(base, x), x, neg)
  BY <1>4
<1> HIDE DEF t
<1>8. p \o t = s \o (b \o t)
  BY <1>3, <1>6, Texts
<1>9. b \o t \in Seq(NumChar)
  BY <1>3, <1>6, Texts
<1>10. b \o t # <<>>
  BY <1>3, <1>6, NotEmpty
<1>11. IsRead(s \o Numeral(x, hex), AfterDigits(base, x), x, neg)
  BY <1>5, <1>7, <1>8
<1> QED
  BY <1>3, <1>5, <1>9, <1>10, <1>11 DEF s

\* What has been read is returned, or its negation.
LEMMA Converted ==
    ASSUME NEW s, NEW k, NEW v \in Word, NEW n \in BOOLEAN, IsRead(s, k, v, n), ~(n /\ v >= HALF)
    PROVE  string2uint(s) = {IF n THEN (-v) % (2 * HALF) ELSE v}
<1> DEFINE m == Here(k, v, n)
<1>1. m.uv = v /\ m.negative = n
  BY DEF Here
<1>2. Reading(s) = {m}
  BY DEF IsRead
<1> HIDE DEF m
<1>3. {r \in Reading(s) : ~(r.negative /\ r.uv >= HALF)} = {m}
  BY <1>1, <1>2
<1>4. string2uint(s) = {IF r.negative THEN (-r.uv) % (2 * HALF) ELSE r.uv : r \in {m}}
  BY <1>3 DEF string2uint
<1> QED
  BY <1>1, <1>4

\* A numeral is converted to its number.
LEMMA NumeralConverted ==
    ASSUME NEW hex \in BOOLEAN, NEW x \in Word
    PROVE  /\ Numeral(x, hex) \in Seq(NumChar) /\ Numeral(x, hex) # <<>>
           /\ string2uint(Numeral(x, hex)) = {x}
<1> DEFINE t == Numeral(x, hex)
<1>1. /\ t \in Seq(NumChar) /\ t # <<>>
      /\ \E k : IsRead(Sign1(FALSE) \o t, k, x, FALSE)
  BY NumeralIs
<1> HIDE DEF t
<1>2. Sign1(FALSE) \o t = t
  BY <1>1, Texts DEF Sign1
<1>3. PICK k : IsRead(t, k, x, FALSE)
  BY <1>1, <1>2
<1>4. string2uint(t) = {IF FALSE THEN (-x) % (2 * HALF) ELSE x}
  BY <1>3, Converted
<1> QED
  BY <1>1, <1>4 DEF t

\* A number is converted to what it means, however it is written.
LEMMA NumberConverted ==
    ASSUME NEW st \in Style, NEW x \in Word
    PROVE  /\ Number(x, st) \in Seq(NumChar) /\ Number(x, st) # <<>>
           /\ string2uint(Number(x, st)) = {x}
<1>1. st.hex \in BOOLEAN /\ st.signed \in BOOLEAN
  BY DEF Style
<1>2. CASE ~(st.signed /\ x > HALF)
  <2>1. Number(x, st) = Numeral(x, st.hex)
    BY <1>2 DEF Number
  <2> QED
    BY <1>1, <2>1, NumeralConverted
<1>3. CASE st.signed /\ x > HALF
  <2> DEFINE y == 2 * HALF - x
             hex == st.hex
             t == Numeral(y, hex)
             z == <<"-">>
  <2>1. y \in Word /\ y < HALF /\ y > 0 /\ x = 2 * HALF - y
    BY <1>3, WordAssumption DEF Word
  <2>2. Number(x, st) = z \o t
    BY <1>3 DEF Number
  <2>3. hex \in BOOLEAN
    BY <1>1
  <2> HIDE DEF hex, y
  <2>4. /\ t \in Seq(NumChar) /\ t # <<>> /\ Sign1(TRUE) \in Seq(NumChar)
        /\ \E k : IsRead(Sign1(TRUE) \o t, k, y, TRUE)
    BY <2>1, <2>3, NumeralIs
  <2> HIDE DEF t
  <2>5. Sign1(TRUE) = z
    BY DEF Sign1
  <2> HIDE DEF z
  <2>6. z \o t \in Seq(NumChar) /\ z \o t # <<>>
    BY <2>4, <2>5, Texts, NotEmpty
  <2>7. PICK k : IsRead(z \o t, k, y, TRUE)
    BY <2>4, <2>5
  <2>8. string2uint(z \o t) = {IF TRUE THEN (-y) % (2 * HALF) ELSE y}
    <3>1. ~(TRUE /\ y >= HALF)
      BY <2>1, WordAssumption DEF Word
    <3> QED
      BY <2>1, <2>7, <3>1, Converted
  <2>9. (-y) % (2 * HALF) = x
    <3> DEFINE M == 2 * HALF
    <3>1. M \in Nat /\ M > 0 /\ y \in 1 .. M - 1 /\ x = M - y
      BY <2>1, WordAssumption DEF Word
    <3> HIDE DEF M
    <3>2. x \in Int /\ 0 <= x /\ x < M /\ -y = x - M
      BY <3>1
    <3>3. (x - M) % M = x
      BY <3>1, <3>2
    <3> QED
      BY <3>2, <3>3 DEF M
  <2> QED
    BY <2>2, <2>6, <2>8, <2>9
<1> QED
  BY <1>2, <1>3

-----------------------------------------------------------------------------
(* The names of registers and operators *)

\* The register of a name
Owner(c) ==
    IF c \in {"%rax", "%eax", "%ax", "%al"} THEN "rax"
    ELSE IF c \in {"%rbx", "%ebx", "%bx", "%bl"} THEN "rbx"
    ELSE IF c \in {"%rcx", "%ecx", "%cx", "%cl"} THEN "rcx"
    ELSE IF c \in {"%rdx", "%edx", "%dx", "%dl"} THEN "rdx"
    ELSE IF c \in {"%rsi", "%esi", "%si", "%sil"} THEN "rsi"
    ELSE IF c \in {"%rdi", "%edi", "%di", "%dil"} THEN "rdi"
    ELSE IF c \in {"%rbp", "%ebp", "%bp", "%bpl"} THEN "rbp"
    ELSE IF c \in {"%rsp", "%esp", "%sp", "%spl"} THEN "rsp"
    ELSE IF c \in {"%r8", "%r8d", "%r8w", "%r8b"} THEN "r8"
    ELSE IF c \in {"%r9", "%r9d", "%r9w", "%r9b"} THEN "r9"
    ELSE IF c \in {"%r10", "%r10d", "%r10w", "%r10b"} THEN "r10"
    ELSE IF c \in {"%r11", "%r11d", "%r11w", "%r11b"} THEN "r11"
    ELSE IF c \in {"%r12", "%r12d", "%r12w", "%r12b"} THEN "r12"
    ELSE IF c \in {"%r13", "%r13d", "%r13w", "%r13b"} THEN "r13"
    ELSE IF c \in {"%r14", "%r14d", "%r14w", "%r14b"} THEN "r14"
    ELSE IF c \in {"%r15", "%r15d", "%r15w", "%r15b"} THEN "r15"
    ELSE ""

\* The operator of a name
Meant(c) ==
    IF c \in {"mov", "movq"} THEN "mov"
    ELSE IF c \in {"push"} THEN "push"
    ELSE IF c \in {"pop"} THEN "pop"
    ELSE IF c \in {"leaveq"} THEN "leave"
    ELSE IF c \in {"callq"} THEN "call"
    ELSE IF c \in {"retq"} THEN "ret"
    ELSE IF c \in {"add"} THEN "add"
    ELSE IF c \in {"sub"} THEN "sub"
    ELSE IF c \in {"cmpq"} THEN "cmp"
    ELSE IF c \in {"jne"} THEN "jne"
    ELSE IF c \in {"jmp"} THEN "jmp"
    ELSE ""

\* Registers have their names, and no two share one.
LEMMA RegisterNamesOwned ==
    /\ DOMAIN RegisterNames = {"rax", "rbx", "rcx", "rdx", "rsi", "rdi", "rbp", "rsp", "r8", "r9", "r10", "r11", "r12", "r13", "r14", "r15"}
    /\ \A r \in DOMAIN RegisterNames :
        /\ DOMAIN RegisterNames[r] = {1, 2, 3, 4}
        /\ \A k \in DOMAIN RegisterNames[r] : Owner(RegisterNames[r][k]) = r
<1>1. DOMAIN RegisterNames = {"rax", "rbx", "rcx", "rdx", "rsi", "rdi", "rbp", "rsp", "r8", "r9", "r10", "r11", "r12", "r13", "r14", "r15"}
  BY DEF RegisterNames
<1>2. DOMAIN RegisterNames["rax"] = {1, 2, 3, 4} /\ \A k \in {1, 2, 3, 4} : Owner(RegisterNames["rax"][k]) = "rax"
  <2>1. RegisterNames["rax"] = <<"%rax", "%eax", "%ax", "%al">>
    BY DEF RegisterNames
  <2>2. DOMAIN <<"%rax", "%eax", "%ax", "%al">> = {1, 2, 3, 4}
    OBVIOUS
  <2>3. \A c \in {"%rax", "%eax", "%ax", "%al"} : Owner(c) = "rax"
    BY DEF Owner
  <2>4. \A k \in {1, 2, 3, 4} : <<"%rax", "%eax", "%ax", "%al">>[k] \in {"%rax", "%eax", "%ax", "%al"}
    OBVIOUS
  <2> QED
    BY <2>1, <2>2, <2>3, <2>4
<1>3. DOMAIN RegisterNames["rbx"] = {1, 2, 3, 4} /\ \A k \in {1, 2, 3, 4} : Owner(RegisterNames["rbx"][k]) = "rbx"
  <2>1. RegisterNames["rbx"] = <<"%rbx", "%ebx", "%bx", "%bl">>
    BY DEF RegisterNames
  <2>2. DOMAIN <<"%rbx", "%ebx", "%bx", "%bl">> = {1, 2, 3, 4}
    OBVIOUS
  <2>3. \A c \in {"%rbx", "%ebx", "%bx", "%bl"} : Owner(c) = "rbx"
    BY DEF Owner
  <2>4. \A k \in {1, 2, 3, 4} : <<"%rbx", "%ebx", "%bx", "%bl">>[k] \in {"%rbx", "%ebx", "%bx", "%bl"}
    OBVIOUS
  <2> QED
    BY <2>1, <2>2, <2>3, <2>4
<1>4. DOMAIN RegisterNames["rcx"] = {1, 2, 3, 4} /\ \A k \in {1, 2, 3, 4} : Owner(RegisterNames["rcx"][k]) = "rcx"
  <2>1. RegisterNames["rcx"] = <<"%rcx", "%ecx", "%cx", "%cl">>
    BY DEF RegisterNames
  <2>2. DOMAIN <<"%rcx", "%ecx", "%cx", "%cl">> = {1, 2, 3, 4}
    OBVIOUS
  <2>3. \A c \in {"%rcx", "%ecx", "%cx", "%cl"} : Owner(c) = "rcx"
    BY DEF Owner
  <2>4. \A k \in {1, 2, 3, 4} : <<"%rcx", "%ecx", "%cx", "%cl">>[k] \in {"%rcx", "%ecx", "%cx", "%cl"}
    OBVIOUS
  <2> QED
    BY <2>1, <2>2, <2>3, <2>4
<1>5. DOMAIN RegisterNames["rdx"] = {1, 2, 3, 4} /\ \A k \in {1, 2, 3, 4} : Owner(RegisterNames["rdx"][k]) = "rdx"
  <2>1. RegisterNames["rdx"] = <<"%rdx", "%edx", "%dx", "%dl">>
    BY DEF RegisterNames
  <2>2. DOMAIN <<"%rdx", "%edx", "%dx", "%dl">> = {1, 2, 3, 4}
    OBVIOUS
  <2>3. \A c \in {"%rdx", "%edx", "%dx", "%dl"} : Owner(c) = "rdx"
    BY DEF Owner
  <2>4. \A k \in {1, 2, 3, 4} : <<"%rdx", "%edx", "%dx", "%dl">>[k] \in {"%rdx", "%edx", "%dx", "%dl"}
    OBVIOUS
  <2> QED
    BY <2>1, <2>2, <2>3, <2>4
<1>6. DOMAIN RegisterNames["rsi"] = {1, 2, 3, 4} /\ \A k \in {1, 2, 3, 4} : Owner(RegisterNames["rsi"][k]) = "rsi"
  <2>1. RegisterNames["rsi"] = <<"%rsi", "%esi", "%si", "%sil">>
    BY DEF RegisterNames
  <2>2. DOMAIN <<"%rsi", "%esi", "%si", "%sil">> = {1, 2, 3, 4}
    OBVIOUS
  <2>3. \A c \in {"%rsi", "%esi", "%si", "%sil"} : Owner(c) = "rsi"
    BY DEF Owner
  <2>4. \A k \in {1, 2, 3, 4} : <<"%rsi", "%esi", "%si", "%sil">>[k] \in {"%rsi", "%esi", "%si", "%sil"}
    OBVIOUS
  <2> QED
    BY <2>1, <2>2, <2>3, <2>4
<1>7. DOMAIN RegisterNames["rdi"] = {1, 2, 3, 4} /\ \A k \in {1, 2, 3, 4} : Owner(RegisterNames["rdi"][k]) = "rdi"
  <2>1. RegisterNames["rdi"] = <<"%rdi", "%edi", "%di", "%dil">>
    BY DEF RegisterNames
  <2>2. DOMAIN <<"%rdi", "%edi", "%di", "%dil">> = {1, 2, 3, 4}
    OBVIOUS
  <2>3. \A c \in {"%rdi", "%edi", "%di", "%dil"} : Owner(c) = "rdi"
    BY DEF Owner
  <2>4. \A k \in {1, 2, 3, 4} : <<"%rdi", "%edi", "%di", "%dil">>[k] \in {"%rdi", "%edi", "%di", "%dil"}
    OBVIOUS
  <2> QED
    BY <2>1, <2>2, <2>3, <2>4
<1>8. DOMAIN RegisterNames["rbp"] = {1, 2, 3, 4} /\ \A k \in {1, 2, 3, 4} : Owner(RegisterNames["rbp"][k]) = "rbp"
  <2>1. RegisterNames["rbp"] = <<"%rbp", "%ebp", "%bp", "%bpl">>
    BY DEF RegisterNames
  <2>2. DOMAIN <<"%rbp", "%ebp", "%bp", "%bpl">> = {1, 2, 3, 4}
    OBVIOUS
  <2>3. \A c \in {"%rbp", "%ebp", "%bp", "%bpl"} : Owner(c) = "rbp"
    BY DEF Owner
  <2>4. \A k \in {1, 2, 3, 4} : <<"%rbp", "%ebp", "%bp", "%bpl">>[k] \in {"%rbp", "%ebp", "%bp", "%bpl"}
    OBVIOUS
  <2> QED
    BY <2>1, <2>2, <2>3, <2>4
<1>9. DOMAIN RegisterNames["rsp"] = {1, 2, 3, 4} /\ \A k \in {1, 2, 3, 4} : Owner(RegisterNames["rsp"][k]) = "rsp"
  <2>1. RegisterNames["rsp"] = <<"%rsp", "%esp", "%sp", "%spl">>
    BY DEF RegisterNames
  <2>2. DOMAIN <<"%rsp", "%esp", "%sp", "%spl">> = {1, 2, 3, 4}
    OBVIOUS
  <2>3. \A c \in {"%rsp", "%esp", "%sp", "%spl"} : Owner(c) = "rsp"
    BY DEF Owner
  <2>4. \A k \in {1, 2, 3, 4} : <<"%rsp", "%esp", "%sp", "%spl">>[k] \in {"%rsp", "%esp", "%sp", "%spl"}
    OBVIOUS
  <2> QED
    BY <2>1, <2>2, <2>3, <2>4
<1>10. DOMAIN RegisterNames["r8"] = {1, 2, 3, 4} /\ \A k \in {1, 2, 3, 4} : Owner(RegisterNames["r8"][k]) = "r8"
  <2>1. RegisterNames["r8"] = <<"%r8", "%r8d", "%r8w", "%r8b">>
    BY DEF RegisterNames
  <2>2. DOMAIN <<"%r8", "%r8d", "%r8w", "%r8b">> = {1, 2, 3, 4}
    OBVIOUS
  <2>3. \A c \in {"%r8", "%r8d", "%r8w", "%r8b"} : Owner(c) = "r8"
    BY DEF Owner
  <2>4. \A k \in {1, 2, 3, 4} : <<"%r8", "%r8d", "%r8w", "%r8b">>[k] \in {"%r8", "%r8d", "%r8w", "%r8b"}
    OBVIOUS
  <2> QED
    BY <2>1, <2>2, <2>3, <2>4
<1>11. DOMAIN RegisterNames["r9"] = {1, 2, 3, 4} /\ \A k \in {1, 2, 3, 4} : Owner(RegisterNames["r9"][k]) = "r9"
  <2>1. RegisterNames["r9"] = <<"%r9", "%r9d", "%r9w", "%r9b">>
    BY DEF RegisterNames
  <2>2. DOMAIN <<"%r9", "%r9d", "%r9w", "%r9b">> = {1, 2, 3, 4}
    OBVIOUS
  <2>3. \A c \in {"%r9", "%r9d", "%r9w", "%r9b"} : Owner(c) = "r9"
    BY DEF Owner
  <2>4. \A k \in {1, 2, 3, 4} : <<"%r9", "%r9d", "%r9w", "%r9b">>[k] \in {"%r9", "%r9d", "%r9w", "%r9b"}
    OBVIOUS
  <2> QED
    BY <2>1, <2>2, <2>3, <2>4
<1>12. DOMAIN RegisterNames["r10"] = {1, 2, 3, 4} /\ \A k \in {1, 2, 3, 4} : Owner(RegisterNames["r10"][k]) = "r10"
  <2>1. RegisterNames["r10"] = <<"%r10", "%r10d", "%r10w", "%r10b">>
    BY DEF RegisterNames
  <2>2. DOMAIN <<"%r10", "%r10d", "%r10w", "%r10b">> = {1, 2, 3, 4}
    OBVIOUS
  <2>3. \A c \in {"%r10", "%r10d", "%r10w", "%r10b"} : Owner(c) = "r10"
    BY DEF Owner
  <2>4. \A k \in {1, 2, 3, 4} : <<"%r10", "%r10d", "%r10w", "%r10b">>[k] \in {"%r10", "%r10d", "%r10w", "%r10b"}
    OBVIOUS
  <2> QED
    BY <2>1, <2>2, <2>3, <2>4
<1>13. DOMAIN RegisterNames["r11"] = {1, 2, 3, 4} /\ \A k \in {1, 2, 3, 4} : Owner(RegisterNames["r11"][k]) = "r11"
  <2>1. RegisterNames["r11"] = <<"%r11", "%r11d", "%r11w", "%r11b">>
    BY DEF RegisterNames
  <2>2. DOMAIN <<"%r11", "%r11d", "%r11w", "%r11b">> = {1, 2, 3, 4}
    OBVIOUS
  <2>3. \A c \in {"%r11", "%r11d", "%r11w", "%r11b"} : Owner(c) = "r11"
    BY DEF Owner
  <2>4. \A k \in {1, 2, 3, 4} : <<"%r11", "%r11d", "%r11w", "%r11b">>[k] \in {"%r11", "%r11d", "%r11w", "%r11b"}
    OBVIOUS
  <2> QED
    BY <2>1, <2>2, <2>3, <2>4
<1>14. DOMAIN RegisterNames["r12"] = {1, 2, 3, 4} /\ \A k \in {1, 2, 3, 4} : Owner(RegisterNames["r12"][k]) = "r12"
  <2>1. RegisterNames["r12"] = <<"%r12", "%r12d", "%r12w", "%r12b">>
    BY DEF RegisterNames
  <2>2. DOMAIN <<"%r12", "%r12d", "%r12w", "%r12b">> = {1, 2, 3, 4}
    OBVIOUS
  <2>3. \A c \in {"%r12", "%r12d", "%r12w", "%r12b"} : Owner(c) = "r12"
    BY DEF Owner
  <2>4. \A k \in {1, 2, 3, 4} : <<"%r12", "%r12d", "%r12w", "%r12b">>[k] \in {"%r12", "%r12d", "%r12w", "%r12b"}
    OBVIOUS
  <2> QED
    BY <2>1, <2>2, <2>3, <2>4
<1>15. DOMAIN RegisterNames["r13"] = {1, 2, 3, 4} /\ \A k \in {1, 2, 3, 4} : Owner(RegisterNames["r13"][k]) = "r13"
  <2>1. RegisterNames["r13"] = <<"%r13", "%r13d", "%r13w", "%r13b">>
    BY DEF RegisterNames
  <2>2. DOMAIN <<"%r13", "%r13d", "%r13w", "%r13b">> = {1, 2, 3, 4}
    OBVIOUS
  <2>3. \A c \in {"%r13", "%r13d", "%r13w", "%r13b"} : Owner(c) = "r13"
    BY DEF Owner
  <2>4. \A k \in {1, 2, 3, 4} : <<"%r13", "%r13d", "%r13w", "%r13b">>[k] \in {"%r13", "%r13d", "%r13w", "%r13b"}
    OBVIOUS
  <2> QED
    BY <2>1, <2>2, <2>3, <2>4
<1>16. DOMAIN RegisterNames["r14"] = {1, 2, 3, 4} /\ \A k \in {1, 2, 3, 4} : Owner(RegisterNames["r14"][k]) = "r14"
  <2>1. RegisterNames["r14"] = <<"%r14", "%r14d", "%r14w", "%r14b">>
    BY DEF RegisterNames
  <2>2. DOMAIN <<"%r14", "%r14d", "%r14w", "%r14b">> = {1, 2, 3, 4}
    OBVIOUS
  <2>3. \A c \in {"%r14", "%r14d", "%r14w", "%r14b"} : Owner(c) = "r14"
    BY DEF Owner
  <2>4. \A k \in {1, 2, 3, 4} : <<"%r14", "%r14d", "%r14w", "%r14b">>[k] \in {"%r14", "%r14d", "%r14w", "%r14b"}
    OBVIOUS
  <2> QED
    BY <2>1, <2>2, <2>3, <2>4
<1>17. DOMAIN RegisterNames["r15"] = {1, 2, 3, 4} /\ \A k \in {1, 2, 3, 4} : Owner(RegisterNames["r15"][k]) = "r15"
  <2>1. RegisterNames["r15"] = <<"%r15", "%r15d", "%r15w", "%r15b">>
    BY DEF RegisterNames
  <2>2. DOMAIN <<"%r15", "%r15d", "%r15w", "%r15b">> = {1, 2, 3, 4}
    OBVIOUS
  <2>3. \A c \in {"%r15", "%r15d", "%r15w", "%r15b"} : Owner(c) = "r15"
    BY DEF Owner
  <2>4. \A k \in {1, 2, 3, 4} : <<"%r15", "%r15d", "%r15w", "%r15b">>[k] \in {"%r15", "%r15d", "%r15w", "%r15b"}
    OBVIOUS
  <2> QED
    BY <2>1, <2>2, <2>3, <2>4
<1> QED
  BY <1>1, <1>2, <1>3, <1>4, <1>5, <1>6, <1>7, <1>8, <1>9, <1>10, <1>11, <1>12, <1>13, <1>14, <1>15, <1>16, <1>17

\* Operators have their names, and no two share one.
LEMMA OperatorNamesOwned ==
    /\ DOMAIN OperatorNames = {"mov", "push", "pop", "leave", "call", "ret", "add", "sub", "cmp", "jne", "jmp"}
    /\ \A r \in DOMAIN OperatorNames :
        /\ DOMAIN OperatorNames[r] \in {{1}, {1, 2}}
        /\ \A k \in DOMAIN OperatorNames[r] : Meant(OperatorNames[r][k]) = r
<1>1. DOMAIN OperatorNames = {"mov", "push", "pop", "leave", "call", "ret", "add", "sub", "cmp", "jne", "jmp"}
  BY DEF OperatorNames
<1>2. DOMAIN OperatorNames["mov"] = {1, 2} /\ \A k \in {1, 2} : Meant(OperatorNames["mov"][k]) = "mov"
  <2>1. OperatorNames["mov"] = <<"mov", "movq">>
    BY DEF OperatorNames
  <2>2. DOMAIN <<"mov", "movq">> = {1, 2}
    OBVIOUS
  <2>3. \A c \in {"mov", "movq"} : Meant(c) = "mov"
    BY DEF Meant
  <2>4. \A k \in {1, 2} : <<"mov", "movq">>[k] \in {"mov", "movq"}
    OBVIOUS
  <2> QED
    BY <2>1, <2>2, <2>3, <2>4
<1>3. DOMAIN OperatorNames["push"] = {1} /\ \A k \in {1} : Meant(OperatorNames["push"][k]) = "push"
  <2>1. OperatorNames["push"] = <<"push">>
    BY DEF OperatorNames
  <2>2. DOMAIN <<"push">> = {1}
    OBVIOUS
  <2>3. \A c \in {"push"} : Meant(c) = "push"
    BY DEF Meant
  <2>4. \A k \in {1} : <<"push">>[k] \in {"push"}
    OBVIOUS
  <2> QED
    BY <2>1, <2>2, <2>3, <2>4
<1>4. DOMAIN OperatorNames["pop"] = {1} /\ \A k \in {1} : Meant(OperatorNames["pop"][k]) = "pop"
  <2>1. OperatorNames["pop"] = <<"pop">>
    BY DEF OperatorNames
  <2>2. DOMAIN <<"pop">> = {1}
    OBVIOUS
  <2>3. \A c \in {"pop"} : Meant(c) = "pop"
    BY DEF Meant
  <2>4. \A k \in {1} : <<"pop">>[k] \in {"pop"}
    OBVIOUS
  <2> QED
    BY <2>1, <2>2, <2>3, <2>4
<1>5. DOMAIN OperatorNames["leave"] = {1} /\ \A k \in {1} : Meant(OperatorNames["leave"][k]) = "leave"
  <2>1. OperatorNames["leave"] = <<"leaveq">>
    BY DEF OperatorNames
  <2>2. DOMAIN <<"leaveq">> = {1}
    OBVIOUS
  <2>3. \A c \in {"leaveq"} : Meant(c) = "leave"
    BY DEF Meant
  <2>4. \A k \in {1} : <<"leaveq">>[k] \in {"leaveq"}
    OBVIOUS
  <2> QED
    BY <2>1, <2>2, <2>3, <2>4
<1>6. DOMAIN OperatorNames["call"] = {1} /\ \A k \in {1} : Meant(OperatorNames["call"][k]) = "call"
  <2>1. OperatorNames["call"] = <<"callq">>
    BY DEF OperatorNames
  <2>2. DOMAIN <<"callq">> = {1}
    OBVIOUS
  <2>3. \A c \in {"callq"} : Meant(c) = "call"
    BY DEF Meant
  <2>4. \A k \in {1} : <<"callq">>[k] \in {"callq"}
    OBVIOUS
  <2> QED
    BY <2>1, <2>2, <2>3, <2>4
<1>7. DOMAIN OperatorNames["ret"] = {1} /\ \A k \in {1} : Meant(OperatorNames["ret"][k]) = "ret"
  <2>1. OperatorNames["ret"] = <<"retq">>
    BY DEF OperatorNames
  <2>2. DOMAIN <<"retq">> = {1}
    OBVIOUS
  <2>3. \A c \in {"retq"} : Meant(c) = "ret"
    BY DEF Meant
  <2>4. \A k \in {1} : <<"retq">>[k] \in {"retq"}
    OBVIOUS
  <2> QED
    BY <2>1, <2>2, <2>3, <2>4
<1>8. DOMAIN OperatorNames["add"] = {1} /\ \A k \in {1} : Meant(OperatorNames["add"][k]) = "add"
  <2>1. OperatorNames["add"] = <<"add">>
    BY DEF OperatorNames
  <2>2. DOMAIN <<"add">> = {1}
    OBVIOUS
  <2>3. \A c \in {"add"} : Meant(c) = "add"
    BY DEF Meant
  <2>4. \A k \in {1} : <<"add">>[k] \in {"add"}
    OBVIOUS
  <2> QED
    BY <2>1, <2>2, <2>3, <2>4
<1>9. DOMAIN OperatorNames["sub"] = {1} /\ \A k \in {1} : Meant(OperatorNames["sub"][k]) = "sub"
  <2>1. OperatorNames["sub"] = <<"sub">>
    BY DEF OperatorNames
  <2>2. DOMAIN <<"sub">> = {1}
    OBVIOUS
  <2>3. \A c \in {"sub"} : Meant(c) = "sub"
    BY DEF Meant
  <2>4. \A k \in {1} : <<"sub">>[k] \in {"sub"}
    OBVIOUS
  <2> QED
    BY <2>1, <2>2, <2>3, <2>4
<1>10. DOMAIN OperatorNames["cmp"] = {1} /\ \A k \in {1} : Meant(OperatorNames["cmp"][k]) = "cmp"
  <2>1. OperatorNames["cmp"] = <<"cmpq">>
    BY DEF OperatorNames
  <2>2. DOMAIN <<"cmpq">> = {1}
    OBVIOUS
  <2>3. \A c \in {"cmpq"} : Meant(c) = "cmp"
    BY DEF Meant
  <2>4. \A k \in {1} : <<"cmpq">>[k] \in {"cmpq"}
    OBVIOUS
  <2> QED
    BY <2>1, <2>2, <2>3, <2>4
<1>11. DOMAIN OperatorNames["jne"] = {1} /\ \A k \in {1} : Meant(OperatorNames["jne"][k]) = "jne"
  <2>1. OperatorNames["jne"] = <<"jne">>
    BY DEF OperatorNames
  <2>2. DOMAIN <<"jne">> = {1}
    OBVIOUS
  <2>3. \A c \in {"jne"} : Meant(c) = "jne"
    BY DEF Meant
  <2>4. \A k \in {1} : <<"jne">>[k] \in {"jne"}
    OBVIOUS
  <2> QED
    BY <2>1, <2>2, <2>3, <2>4
<1>12. DOMAIN OperatorNames["jmp"] = {1} /\ \A k \in {1} : Meant(OperatorNames["jmp"][k]) = "jmp"
  <2>1. OperatorNames["jmp"] = <<"jmp">>
    BY DEF OperatorNames
  <2>2. DOMAIN <<"jmp">> = {1}
    OBVIOUS
  <2>3. \A c \in {"jmp"} : Meant(c) = "jmp"
    BY DEF Meant
  <2>4. \A k \in {1} : <<"jmp">>[k] \in {"jmp"}
    OBVIOUS
  <2> QED
    BY <2>1, <2>2, <2>3, <2>4
<1> QED
  BY <1>1, <1>2, <1>3, <1>4, <1>5, <1>6, <1>7, <1>8, <1>9, <1>10, <1>11, <1>12

\* The characters of a number
LEMMA NumChars ==
    NumChar = {"0", "1", "2", "3", "4", "5", "6", "7", "8", "9", "a", "b", "c", "d", "e", "f", "-", "x"}
<1>1. {i \in 1 .. 16 : TRUE} = {1, 2, 3, 4, 5, 6, 7, 8, 9, 10, 11, 12, 13, 14, 15, 16}
  OBVIOUS
<1>2. DOMAIN DigitOf = {Digits[i] : i \in {1, 2, 3, 4, 5, 6, 7, 8, 9, 10, 11, 12, 13, 14, 15, 16}}
  BY <1>1, DigitsAre
<1>3. DOMAIN DigitOf = {"0", "1", "2", "3", "4", "5", "6", "7", "8", "9", "a", "b", "c", "d", "e", "f"}
  BY <1>2 DEF Digits
<1> QED
  BY <1>3 DEF NumChar

\* Blanks, commas and brackets are no names.
LEMMA NoNames ==
    /\ \A c \in {Blank, Comma, "(", ")", "$", "%?"} \cup NumChar : Owner(c) = ""
    /\ \A c \in {Blank, Comma, "(", ")"} : Meant(c) = "" /\ c \notin NumChar
<1>1. NumChar = {"0", "1", "2", "3", "4", "5", "6", "7", "8", "9", "a", "b", "c", "d", "e", "f", "-", "x"}
  BY NumChars
<1>2. Owner(Blank) = ""
  BY Zenon DEF Blank, Owner
<1>3. Owner(Comma) = ""
  BY Zenon DEF Comma, Owner
<1>4. Meant(Blank) = ""
  BY Zenon DEF Blank, Meant
<1>5. Meant(Comma) = ""
  BY Zenon DEF Comma, Meant
<1>6. \A c \in {"(", ")", "$", "%?"} : Owner(c) = ""
  BY DEF Owner
<1>7. \A c \in {"(", ")"} : Meant(c) = "" /\ c \notin NumChar
  BY <1>1 DEF Meant
<1>8. \A c \in NumChar : Owner(c) = ""
  BY <1>1 DEF Owner
<1>9. Blank \notin NumChar
  <2>1. Blank \notin {"0", "1", "2", "3", "4", "5", "6", "7", "8", "9", "a", "b", "c", "d", "e", "f", "-", "x"}
    BY Zenon DEF Blank
  <2> QED
    BY <1>1, <2>1
<1>10. Comma \notin NumChar
  <2>1. Comma \notin {"0", "1", "2", "3", "4", "5", "6", "7", "8", "9", "a", "b", "c", "d", "e", "f", "-", "x"}
    BY Zenon DEF Comma
  <2> QED
    BY <1>1, <2>1
<1> QED
  BY <1>2, <1>3, <1>4, <1>5, <1>6, <1>7, <1>8, <1>9, <1>10

\* Numbers are plain words.
LEMMA NumberIsPlain == NumChar \in SUBSET Plain
<1>1. \A c \in NumChar : c \in Char
  BY DEF NumChar, Char
<1> QED
  BY <1>1, NoNames DEF Plain

\* The name of a register is a plain word that names it and no other.
LEMMA RegisterName ==
    ASSUME Register \subseteq DOMAIN RegisterNames, NEW st \in Style, NEW r \in Register
    PROVE  /\ RegisterText(r, st) \in Seq(Plain) /\ RegisterText(r, st) # <<>>
           /\ NamesRegister(RegisterText(r, st))
           /\ RegisterText(r, st)[1] # "$"
           /\ reflect_registers(RegisterText(r, st)) = {r}
<1> DEFINE list == RegisterNames[r]
           k == IF st.name \in DOMAIN list THEN st.name ELSE 1
           c == list[k]
           t == RegisterText(r, st)
<1>1. r \in DOMAIN RegisterNames /\ r # ""
  BY RegisterNamesOwned
<1>2. DOMAIN list = {1, 2, 3, 4}
  BY <1>1, RegisterNamesOwned
<1>3. k \in {1, 2, 3, 4} /\ k \in 1 .. 4 /\ k \in DOMAIN list
  BY <1>2
<1>4. t = <<c>>
  BY RegisterAssumption DEF RegisterText, Name
<1>5. Owner(c) = r
  <2> HIDE DEF k
  <2> QED
    BY <1>1, <1>3, RegisterNamesOwned
<1>6. c \in Char
  <2> HIDE DEF k
  <2> DEFINE W == {{RegisterNames[q][j] : j \in 1 .. 4} : q \in DOMAIN RegisterNames}
  <2>1. c \in {RegisterNames[r][j] : j \in 1 .. 4}
    BY <1>3
  <2>2. {RegisterNames[r][j] : j \in 1 .. 4} \in W
    BY <1>1
  <2>3. UNION W \subseteq Char
    <3>1. UNION W = RegisterChar
      BY DEF RegisterChar
    <3> HIDE DEF W
    <3> QED
      BY <3>1 DEF Char
  <2> HIDE DEF c, W
  <2> QED
    BY <2>1, <2>2, <2>3
<1>7. c \notin {Blank, Comma, "(", ")", "$", "%?"}
  <2> HIDE DEF c
  <2> QED
    BY <1>1, <1>5, NoNames
<1>8. \E j \in DOMAIN list : <<c>> = <<list[j]>>
  BY <1>3
<1> HIDE DEF k, c, t
<1>9. c \in Plain
  BY <1>6, <1>7 DEF Plain
<1>10. <<c>> \in Seq(Plain) /\ <<c>> # <<>> /\ <<c>>[1] = c
  BY <1>9
<1>11. NamesRegister(<<c>>)
  BY <1>1, <1>8, <1>10 DEF NamesRegister, IsIn
<1>12. ASSUME NEW p \in Register, IsIn(RegisterNames[p], <<c>>) PROVE p = r
  <2>1. PICK j \in DOMAIN RegisterNames[p] : <<c>> = <<RegisterNames[p][j]>>
    BY <1>12 DEF IsIn
  <2>2. c = RegisterNames[p][j]
    BY <2>1
  <2>3. Owner(RegisterNames[p][j]) = p
    BY <2>1, RegisterNamesOwned
  <2> QED
    BY <1>5, <2>2, <2>3
<1>13. reflect_registers(<<c>>) = {r}
  BY <1>8, <1>12 DEF reflect_registers, IsIn
<1> QED
  BY <1>4, <1>7, <1>10, <1>11, <1>13 DEF t

\* The name of an operator is a plain word that means it and no other.
LEMMA OperatorName ==
    ASSUME NEW st \in Style, NEW o \in Operator
    PROVE  \E c \in Plain : /\ Name(OperatorNames[o], st) = <<c>>
                           /\ {p \in Operator : IsIn(OperatorNames[p], <<c>>)} = {o}
<1> DEFINE list == OperatorNames[o]
           k == IF st.name \in DOMAIN list THEN st.name ELSE 1
           c == list[k]
<1>1. Operator = DOMAIN OperatorNames /\ o # ""
  BY OperatorNamesOwned DEF Operator
<1>2. DOMAIN list \in {{1}, {1, 2}}
  BY <1>1, OperatorNamesOwned
<1>3. k \in DOMAIN list
  BY <1>2
<1>4. Name(list, st) = <<c>>
  BY DEF Name
<1> HIDE DEF k
<1>5. Meant(c) = o
  BY <1>1, <1>3, OperatorNamesOwned
<1>6. c \in Char
  <2> DEFINE W == {{OperatorNames[q][j] : j \in DOMAIN OperatorNames[q]} : q \in Operator}
  <2>1. c \in {OperatorNames[o][j] : j \in DOMAIN OperatorNames[o]}
    BY <1>3
  <2>2. {OperatorNames[o][j] : j \in DOMAIN OperatorNames[o]} \in W
    OBVIOUS
  <2>3. UNION W \subseteq Char
    <3>1. UNION W = OperatorChar
      BY DEF OperatorChar
    <3> HIDE DEF W
    <3> QED
      BY <3>1 DEF Char
  <2> HIDE DEF c, W
  <2> QED
    BY <2>1, <2>2, <2>3
<1>7. \E j \in DOMAIN list : <<c>> = <<list[j]>>
  BY <1>3
<1> HIDE DEF c
<1>8. c \in Plain
  <2>1. c \notin {Blank, Comma, "(", ")"}
    BY <1>1, <1>5, NoNames
  <2> QED
    BY <1>6, <2>1 DEF Plain
<1>9. ASSUME NEW p \in Operator, IsIn(OperatorNames[p], <<c>>) PROVE p = o
  <2>1. PICK j \in DOMAIN OperatorNames[p] : <<c>> = <<OperatorNames[p][j]>>
    BY <1>9 DEF IsIn
  <2>2. c = OperatorNames[p][j]
    BY <2>1
  <2>3. Meant(OperatorNames[p][j]) = p
    BY <1>1, <2>1, OperatorNamesOwned
  <2> QED
    BY <1>5, <2>2, <2>3
<1>10. {p \in Operator : IsIn(OperatorNames[p], <<c>>)} = {o}
  BY <1>7, <1>9 DEF IsIn
<1> QED
  BY <1>4, <1>8, <1>10

-----------------------------------------------------------------------------
(* parse_operand *)

\* A text begins as its first part does.
LEMMA FirstOf ==
    ASSUME NEW D, NEW s \in Seq(D), s # <<>>, NEW t \in Seq(D)
    PROVE  s \o t \in Seq(D) /\ s \o t # <<>> /\ (s \o t)[1] = s[1]
<1>1. Len(s) \in Nat /\ Len(s) # 0 /\ Len(t) \in Nat
  BY EmptySeq, LenProperties
<1>2. 1 \in 1 .. Len(s) + Len(t) /\ 1 <= Len(s)
  BY <1>1
<1>3. (s \o t)[1] = s[1]
  BY <1>2, ConcatProperties
<1> QED
  BY <1>3, NotEmpty, Texts

\* The characters of a number are digits, a sign or an x.
LEMMA FirstOfNumber ==
    ASSUME NEW u \in Seq(NumChar), u # <<>>
    PROVE  u[1] \in NumChar
<1>1. Len(u) \in Nat /\ Len(u) # 0
  BY EmptySeq, LenProperties
<1>2. 1 \in 1 .. Len(u)
  BY <1>1
<1> QED
  BY <1>2, ElementOfSeq

\* What does not begin with $ or a name is an address.
LEMMA AddressParsed ==
    ASSUME NEW t, t # <<>>, t[1] \in NumChar \cup {"("}
    PROVE  parse_operand(t) = MemoryOperand(Cut(t))
<1>1. t[1] # "$" /\ t[1] # "%?" /\ Owner(t[1]) = ""
  <2>1. Owner("$") = "" /\ "$" \notin NumChar /\ "%?" \notin NumChar
    <3>1. NumChar = {"0", "1", "2", "3", "4", "5", "6", "7", "8", "9", "a", "b", "c", "d", "e", "f", "-", "x"}
      BY NumChars
    <3> QED
      BY <3>1, NoNames
  <2> QED
    BY <2>1, NoNames
<1>2. ~NamesRegister(t)
  <2> SUFFICES ASSUME NEW r \in DOMAIN RegisterNames, IsIn(RegisterNames[r], <<t[1]>>) PROVE FALSE
    BY <1>1 DEF NamesRegister
  <2>1. PICK j \in DOMAIN RegisterNames[r] : <<t[1]>> = <<RegisterNames[r][j]>>
    BY DEF IsIn
  <2>2. t[1] = RegisterNames[r][j]
    BY <2>1
  <2>3. Owner(RegisterNames[r][j]) = r /\ r # ""
    BY <2>1, RegisterNamesOwned
  <2> QED
    BY <1>1, <2>2, <2>3
<1> QED
  BY <1>1, <1>2 DEF parse_operand

\* What there is behind the first character
LEMMA TailOf ==
    ASSUME NEW D, NEW c \in D, NEW s \in Seq(D)
    PROVE  Tail(<<c>> \o s) = s
<1> DEFINE z == <<c>>
           t == z \o s
<1>1. z \in Seq(D) /\ z # <<>> /\ Len(z) = 1
  OBVIOUS
<1> HIDE DEF z
<1>2. /\ t \in Seq(D) /\ t # <<>> /\ Len(t) = 1 + Len(s) /\ Len(s) \in Nat
      /\ \A i \in 1 .. 1 + Len(s) : t[i] = IF i <= 1 THEN z[i] ELSE s[i - 1]
  <2>1. t \in Seq(D) /\ t # <<>>
    BY <1>1, FirstOf
  <2>2. Len(t) = 1 + Len(s) /\ \A i \in 1 .. 1 + Len(s) : t[i] = IF i <= 1 THEN z[i] ELSE s[i - 1]
    <3>1. /\ Len(z \o s) = Len(z) + Len(s)
          /\ \A i \in 1 .. Len(z) + Len(s) : (z \o s)[i] = IF i <= Len(z) THEN z[i] ELSE s[i - Len(z)]
      BY <1>1, ConcatProperties
    <3> QED
      BY <1>1, <3>1
  <2>3. Len(s) \in Nat
    BY LenProperties
  <2> QED
    BY <2>1, <2>2, <2>3
<1> HIDE DEF t
<1>3. Tail(t) \in Seq(D) /\ Len(Tail(t)) = Len(s) /\ \A i \in 1 .. Len(s) : Tail(t)[i] = t[i + 1]
  <2>1. Tail(t) \in Seq(D) /\ Len(Tail(t)) = Len(t) - 1 /\ \A i \in 1 .. Len(Tail(t)) : Tail(t)[i] = t[i + 1]
    BY <1>2, HeadTailProperties
  <2> QED
    BY <1>2, <2>1
<1>4. ASSUME NEW i \in 1 .. Len(s) PROVE Tail(t)[i] = s[i]
  <2>1. i + 1 \in 1 .. 1 + Len(s) /\ ~(i + 1 <= 1) /\ (i + 1) - 1 = i
    BY <1>2
  <2>2. t[i + 1] = s[i]
    BY <1>2, <2>1
  <2> QED
    BY <1>3, <2>2
<1>5. Tail(t) = s
  BY <1>3, <1>4, SeqEqual
<1> QED
  BY <1>5 DEF t, z

\* The parts of an operand that can be written
LEMMA WritableIs ==
    ASSUME NEW w, Writable(w)
    PROVE  /\ w = [form |-> w.form, has_imm |-> w.has_imm, imm |-> w.imm, commas |-> w.commas,
                   reg1 |-> w.reg1, reg2 |-> w.reg2, scal |-> w.scal]
           /\ w.form \in {"", "%", "$", "imm", "()"} /\ w.has_imm \in BOOLEAN /\ w.imm \in Word
           /\ w.commas \in 0 .. 2 /\ w.reg1 \in Register \cup {NoRegister}
           /\ w.reg2 \in Register \cup {NoRegister} /\ w.scal \in {0, 1, 2, 4, 8} /\ w.scal \in Word
  BY DEF Writable, Written

\* Nothing, registers, constants and addresses without brackets
LEMMA SimpleOperands ==
    ASSUME Register \subseteq DOMAIN RegisterNames,
           NEW st \in Style, NEW w, Writable(w), w.form # "()"
    PROVE  /\ IF w.form = "" THEN OperandText(w, st) = <<>> ELSE IsText(OperandText(w, st))
           /\ parse_operand(OperandText(w, st)) = {w}
<1>1. /\ w = [form |-> w.form, has_imm |-> w.has_imm, imm |-> w.imm, commas |-> w.commas,
              reg1 |-> w.reg1, reg2 |-> w.reg2, scal |-> w.scal]
      /\ w.form \in {"", "%", "$", "imm"} /\ w.has_imm \in BOOLEAN /\ w.imm \in Word
  BY WritableIs
<1>2. w.commas = 0 /\ w.reg2 = NoRegister /\ w.scal = 0
  <2>1. w.commas = 0
    BY DEF Writable
  <2>2. w.commas < 2
    BY <2>1
  <2> QED
    BY <2>1, <2>2 DEF Writable
<1> DEFINE t == OperandText(w, st)
<1>3. CASE w.form = ""
  <2>1. w = None
    BY <1>1, <1>2, <1>3 DEF Writable, None, Simply
  <2>2. t = <<>>
    BY <1>3 DEF OperandText
  <2> QED
    BY <1>3, <2>1, <2>2 DEF parse_operand
<1>4. CASE w.form = "%"
  <2> DEFINE r == w.reg1
  <2>1. r \in Register /\ w = Simply("%", FALSE, 0, r)
    BY <1>1, <1>2, <1>4 DEF Writable, Simply
  <2> HIDE DEF r
  <2>2. t = RegisterText(r, st)
    BY <1>4 DEF OperandText, r
  <2>3. /\ t \in Seq(Plain) /\ t # <<>> /\ NamesRegister(t) /\ t[1] # "$" /\ reflect_registers(t) = {r}
    BY <2>1, <2>2, RegisterName
  <2> HIDE DEF t
  <2>4. parse_operand(t) = {Simply("%", FALSE, 0, q) : q \in {r}}
    BY <2>3 DEF parse_operand
  <2>5. IsText(t)
    BY <2>3 DEF IsText
  <2> QED
    BY <1>4, <2>1, <2>4, <2>5 DEF t
<1>5. CASE w.form = "$"
  <2> DEFINE x == w.imm
             u == Number(x, st)
             z == <<"$">>
  <2>1. x \in Word /\ w = Simply("$", TRUE, x, NoRegister)
    BY <1>1, <1>2, <1>5 DEF Writable, Simply
  <2> HIDE DEF x
  <2>2. t = z \o u
    BY <1>5 DEF OperandText, x
  <2>3. u \in Seq(NumChar) /\ u # <<>> /\ string2uint(u) = {x}
    BY <2>1, NumberConverted
  <2> HIDE DEF u
  <2>4. "$" \in Plain
    BY Marks DEF Plain, Char
  <2>5. u \in Seq(Plain) /\ z \in Seq(Plain) /\ z # <<>> /\ z[1] = "$"
    <3>1. u \in Seq(Plain)
      BY <2>3, NumberIsPlain, Wider
    <3> QED
      BY <2>4, <3>1
  <2>6. Tail(z \o u) = u
    BY <2>4, <2>5, TailOf
  <2> HIDE DEF z
  <2>7. z \o u \in Seq(Plain) /\ z \o u # <<>> /\ (z \o u)[1] = "$"
    BY <2>5, FirstOf
  <2> HIDE DEF t
  <2>8. parse_operand(t) = {Simply("$", TRUE, i, NoRegister) : i \in {x}}
    BY <2>2, <2>3, <2>6, <2>7 DEF parse_operand
  <2>9. IsText(t)
    BY <2>2, <2>7 DEF IsText
  <2> QED
    BY <1>5, <2>1, <2>8, <2>9 DEF t
<1>6. CASE w.form = "imm"
  <2> DEFINE x == w.imm
  <2>1. x \in Word /\ w = [form |-> "imm", has_imm |-> TRUE, imm |-> x, commas |-> 0,
                           reg1 |-> NoRegister, reg2 |-> NoRegister, scal |-> 0]
    BY <1>1, <1>2, <1>6 DEF Writable
  <2> HIDE DEF x
  <2>2. t = Number(x, st)
    BY <1>6 DEF OperandText, x
  <2>3. t \in Seq(NumChar) /\ t # <<>> /\ string2uint(t) = {x}
    BY <2>1, <2>2, NumberConverted
  <2> HIDE DEF t
  <2>4. t \in Seq(Plain) /\ t[1] \in NumChar
    <3>1. t \in Seq(Plain)
      BY <2>3, NumberIsPlain, Wider
    <3> QED
      BY <2>3, <3>1, FirstOfNumber
  <2>5. parse_operand(t) = MemoryOperand(Cuts(0, 0, t, <<>>, <<>>, <<>>))
    <3>1. Cut(t) = Cuts(0, 0, t, <<>>, <<>>, <<>>)
      BY <2>4, CutPlain
    <3> QED
      BY <2>3, <2>4, <3>1, AddressParsed
  <2>6. MemoryOperand(Cuts(0, 0, t, <<>>, <<>>, <<>>)) = {w}
    <3>1. Optional(t, string2uint, 0) = {x}
      BY <2>3 DEF Optional
    <3>2. /\ Optional(<<>>, reflect_registers, NoRegister) = {NoRegister}
          /\ Optional(<<>>, Scale, 0) = {0}
      BY DEF Optional
    <3> DEFINE f == Cuts(0, 0, t, <<>>, <<>>, <<>>)
    <3>3. f.imm = t /\ f.reg1 = <<>> /\ f.reg2 = <<>> /\ f.scal = <<>> /\ f.brackets = 0 /\ f.commas = 0
      BY DEF Cuts
    <3> HIDE DEF f
    <3>4. Form(f) = "imm"
      BY <3>3 DEF Form
    <3>5. /\ Optional(f.imm, string2uint, 0) = {x}
          /\ Optional(f.reg1, reflect_registers, NoRegister) = {NoRegister}
          /\ Optional(f.reg2, reflect_registers, NoRegister) = {NoRegister}
          /\ Optional(f.scal, Scale, 0) = {0}
      BY <3>1, <3>2, <3>3
    <3>6. MemoryOperand(f) =
            {[form |-> Form(f), has_imm |-> f.imm # <<>>, imm |-> x,
              commas |-> IF Form(f) = "()" THEN f.commas ELSE 0,
              reg1 |-> NoRegister, reg2 |-> NoRegister, scal |-> 0]}
      BY <3>5 DEF MemoryOperand
    <3>7. (f.imm # <<>>) = TRUE /\ (IF Form(f) = "()" THEN f.commas ELSE 0) = 0
      BY <2>3, <3>3, <3>4
    <3> QED
      BY <2>1, <3>4, <3>6, <3>7 DEF f
  <2>7. IsText(t)
    BY <2>3, <2>4 DEF IsText
  <2> QED
    BY <1>6, <2>5, <2>6, <2>7 DEF t
<1> QED
  BY <1>1, <1>3, <1>4, <1>5, <1>6

-----------------------------------------------------------------------------
(* Addresses in brackets *)

\* Nothing, or a comma and a word: what there may be between brackets
LEMMA CommaPart ==
    ASSUME NEW b \in BOOLEAN, NEW w \in Seq(Plain)
    PROVE  (IF b THEN <<Comma>> \o w ELSE <<>>) \in Seq(Inner)
<1>1. Comma \in Inner /\ Plain \in SUBSET Inner
  <2>1. Comma \in Char
    BY DEF Char
  <2> QED
    BY <2>1, Marks DEF Inner, Plain
<1>2. w \in Seq(Inner) /\ <<Comma>> \in Seq(Inner) /\ <<>> \in Seq(Inner)
  BY <1>1, Wider, Texts
<1>3. <<Comma>> \o w \in Seq(Inner)
  BY <1>2, Texts
<1> QED
  BY <1>2, <1>3

\* It is the text of an operand that begins with a number or a bracket.
LEMMA BracketsAreText ==
    ASSUME NEW u \in Seq(NumChar), NEW r \in Seq(Plain), NEW q \in Seq(Plain), NEW m \in Seq(Plain),
           NEW n \in 0 .. 2
    PROVE  /\ u \in Seq(Plain)
           /\ IsText(BracketText(u, r, q, m, n))
           /\ BracketText(u, r, q, m, n) # <<>>
           /\ BracketText(u, r, q, m, n)[1] \in NumChar \cup {"("}
<1> DEFINE A == IF n > 0 THEN <<Comma>> \o q ELSE <<>>
           B == IF n > 1 THEN <<Comma>> \o m ELSE <<>>
           o == <<"(">>
           c == <<")">>
           i == (r \o A) \o B
           p == u \o o
           t == (((p \o r) \o A) \o B) \o c
<1>1. u \in Seq(Plain)
  BY NumberIsPlain, Wider
<1>2. A \in Seq(Inner) /\ B \in Seq(Inner) /\ r \in Seq(Inner)
  <2>1. Plain \in SUBSET Inner
    BY DEF Plain, Inner
  <2>2. (n > 0) \in BOOLEAN /\ (n > 1) \in BOOLEAN
    OBVIOUS
  <2>3. A \in Seq(Inner)
    BY <2>2, CommaPart
  <2>4. B \in Seq(Inner)
    BY <2>2, CommaPart
  <2> QED
    BY <2>1, <2>3, <2>4, Wider
<1>3. o \in Seq(Char) /\ c \in Seq(Char) /\ o # <<>> /\ o[1] = "("
  <2>1. "(" \in Char /\ ")" \in Char
    BY DEF Char
  <2> QED
    BY <2>1, Texts
<1> HIDE DEF A, B, o, c
<1>4. i \in Seq(Inner)
  <2>1. r \o A \in Seq(Inner)
    BY <1>2, Texts
  <2> QED
    BY <1>2, <2>1, Texts
<1>5. A \in Seq(Char) /\ B \in Seq(Char) /\ r \in Seq(Char) /\ u \in Seq(Char) /\ i \in Seq(Char)
  <2>1. Inner \in SUBSET Char /\ Plain \in SUBSET Char
    BY DEF Plain, Inner
  <2> QED
    BY <1>1, <1>2, <1>4, <2>1, Wider
<1>6. p \in Seq(Char)
  BY <1>3, <1>5, Texts
<1>7. ((p \o r) \o A) \o B = p \o i
  <2> HIDE DEF p
  <2>1. r \o A \in Seq(Char) /\ (p \o r) \o A = p \o (r \o A)
    BY <1>5, <1>6, Texts
  <2>2. (p \o (r \o A)) \o B = p \o ((r \o A) \o B)
    <3> DEFINE x == r \o A
    <3> HIDE DEF x
    <3>1. x \in Seq(Char)
      BY <2>1 DEF x
    <3>2. B \in Seq(Char)
      BY <1>5
    <3>3. (p \o x) \o B = p \o (x \o B)
      BY <1>6, <3>1, <3>2, ThreeTexts
    <3> QED
      BY <3>3 DEF x
  <2> QED
    BY <2>1, <2>2
<1>8. t = Bracketed(u, i)
  BY <1>7 DEF Bracketed, o, c
<1>9. IsText(t)
  <2> HIDE DEF t, i
  <2> QED
    BY <1>1, <1>4, <1>8 DEF IsText
<1>10. p # <<>> /\ p[1] \in NumChar \cup {"("}
  <2>1. CASE u = <<>>
    <3>1. p = o
      BY <1>3, <2>1, Texts
    <3> QED
      BY <1>3, <3>1
  <2>2. CASE u # <<>>
    <3>1. p # <<>> /\ p[1] = u[1]
      BY <1>3, <1>5, <2>2, FirstOf
    <3>2. u[1] \in NumChar
      BY <2>2, FirstOfNumber
    <3> QED
      BY <3>1, <3>2
  <2> QED
    BY <2>1, <2>2
<1> HIDE DEF p, i
<1>11. t # <<>> /\ t[1] = p[1]
  <2>1. i \o c \in Seq(Char) /\ (p \o i) \o c = p \o (i \o c)
    <3>1. i \o c \in Seq(Char)
      BY <1>3, <1>5, Texts
    <3>2. i \in Seq(Char) /\ c \in Seq(Char)
      BY <1>3, <1>5
    <3>3. (p \o i) \o c = p \o (i \o c)
      BY <1>6, <3>2, ThreeTexts
    <3> QED
      BY <3>1, <3>3
  <2> DEFINE x == i \o c
  <2> HIDE DEF x
  <2>2. p \o x # <<>> /\ (p \o x)[1] = p[1]
    BY <1>6, <1>10, <2>1, FirstOf DEF x
  <2> QED
    BY <1>7, <2>1, <2>2 DEF x
<1>12. BracketText(u, r, q, m, n) = t
  BY DEF BracketText, A, B, o, c, p, t
<1> HIDE DEF t
<1> QED
  BY <1>1, <1>9, <1>10, <1>11, <1>12

\* A register that may be missing
LEMMA MaybeRegister ==
    ASSUME Register \subseteq DOMAIN RegisterNames, NEW st \in Style, NEW r \in Register \cup {NoRegister}
    PROVE  /\ RegisterText(r, st) \in Seq(Plain)
           /\ Optional(RegisterText(r, st), reflect_registers, NoRegister) = {r}
<1>1. CASE r = NoRegister
  <2>1. RegisterText(r, st) = <<>>
    BY <1>1 DEF RegisterText
  <2> QED
    BY <1>1, <2>1, Texts DEF Optional
<1>2. CASE r \in Register
  <2>1. /\ RegisterText(r, st) \in Seq(Plain) /\ RegisterText(r, st) # <<>>
        /\ reflect_registers(RegisterText(r, st)) = {r}
    BY <1>2, RegisterName
  <2> QED
    BY <2>1 DEF Optional
<1> QED
  BY <1>1, <1>2

\* A number that may be missing
NumberText(has, x, st) == IF has THEN Number(x, st) ELSE <<>>

\* It is converted to what is written.
LEMMA MaybeNumber ==
    ASSUME NEW st \in Style, NEW has \in BOOLEAN, NEW x \in Word, ~has => x = 0
    PROVE  /\ NumberText(has, x, st) \in Seq(NumChar) /\ (NumberText(has, x, st) # <<>>) = has
           /\ Optional(NumberText(has, x, st), string2uint, 0) = {x}
<1> DEFINE u == NumberText(has, x, st)
<1>1. CASE has
  <2>1. u \in Seq(NumChar) /\ u # <<>> /\ string2uint(u) = {x}
    BY <1>1, NumberConverted DEF NumberText
  <2> QED
    BY <1>1, <2>1 DEF Optional
<1>2. CASE ~has
  <2>1. u = <<>> /\ x = 0
    BY <1>2 DEF NumberText
  <2> QED
    BY <1>2, <2>1, Texts DEF Optional
<1> QED
  BY <1>1, <1>2

\* A factor that may be missing
LEMMA MaybeScale ==
    ASSUME NEW x \in {0, 1, 2, 4, 8}, x \in Word,
           NEW m, m = IF x = 0 THEN <<>> ELSE Numeral(x, FALSE)
    PROVE  m \in Seq(Plain) /\ Optional(m, Scale, 0) = {x}
<1>1. CASE x = 0
  BY <1>1, Texts DEF Optional
<1>2. CASE x # 0
  <2>1. m \in Seq(NumChar) /\ m # <<>> /\ string2uint(m) = {x}
    BY <1>2, NumeralConverted
  <2>2. m \in Seq(Plain)
    BY <2>1, NumberIsPlain, Wider
  <2>3. {x} \cap {1, 2, 4, 8} = {x}
    BY <1>2
  <2>4. Scale(m) = {x}
    BY <2>1, <2>3 DEF Scale
  <2> QED
    BY <2>1, <2>2, <2>4 DEF Optional
<1> QED
  BY <1>1, <1>2

\* An address in brackets is parsed as what is written.
LEMMA BracketOperands ==
    ASSUME Register \subseteq DOMAIN RegisterNames,
           NEW st \in Style, NEW w, Writable(w), w.form = "()"
    PROVE  /\ IsText(OperandText(w, st))
           /\ parse_operand(OperandText(w, st)) = {w}
<1>1. /\ w = [form |-> w.form, has_imm |-> w.has_imm, imm |-> w.imm, commas |-> w.commas,
              reg1 |-> w.reg1, reg2 |-> w.reg2, scal |-> w.scal]
      /\ w.has_imm \in BOOLEAN /\ w.imm \in Word /\ w.commas \in 0 .. 2
      /\ w.reg1 \in Register \cup {NoRegister} /\ w.reg2 \in Register \cup {NoRegister}
      /\ w.scal \in {0, 1, 2, 4, 8} /\ w.scal \in Word
  BY WritableIs
<1>2. /\ ~w.has_imm => w.imm = 0
      /\ w.commas = 0 => w.reg2 = NoRegister
      /\ w.commas < 2 => w.scal = 0
  BY DEF Writable
<1> DEFINE u == NumberText(w.has_imm, w.imm, st)
           r == RegisterText(w.reg1, st)
           q == RegisterText(w.reg2, st)
           m == IF w.scal = 0 THEN <<>> ELSE Numeral(w.scal, FALSE)
           n == w.commas
           t == BracketText(u, r, q, m, n)
<1>3. u \in Seq(NumChar) /\ (u # <<>>) = w.has_imm /\ Optional(u, string2uint, 0) = {w.imm}
  BY <1>1, <1>2, MaybeNumber
<1>4. r \in Seq(Plain) /\ Optional(r, reflect_registers, NoRegister) = {w.reg1}
  BY <1>1, MaybeRegister
<1>5. q \in Seq(Plain) /\ Optional(q, reflect_registers, NoRegister) = {w.reg2}
  BY <1>1, MaybeRegister
<1>6. m \in Seq(Plain) /\ Optional(m, Scale, 0) = {w.scal}
  BY <1>1, MaybeScale
<1>7. OperandText(w, st) = t
  BY DEF OperandText, BracketText, NumberText
<1>8. n \in 0 .. 2
  BY <1>1
<1>9. /\ n = 0 => Optional(<<>>, reflect_registers, NoRegister) = {w.reg2}
      /\ n < 2 => Optional(<<>>, Scale, 0) = {w.scal}
  BY <1>2 DEF Optional
<1> DEFINE f == Cuts(2, n, u, r, IF n > 0 THEN q ELSE <<>>, IF n > 1 THEN m ELSE <<>>)
<1>10. /\ f.brackets = 2 /\ f.commas = n /\ f.imm = u /\ f.reg1 = r
       /\ f.reg2 = (IF n > 0 THEN q ELSE <<>>) /\ f.scal = (IF n > 1 THEN m ELSE <<>>)
  BY DEF Cuts
<1> HIDE DEF u, r, q, m, n
<1>11. /\ u \in Seq(Plain) /\ IsText(t) /\ t # <<>> /\ t[1] \in NumChar \cup {"("}
  BY <1>3, <1>4, <1>5, <1>6, <1>8, BracketsAreText
<1>12. Cut(t) = f
  BY <1>4, <1>5, <1>6, <1>8, <1>11, CutBrackets
<1> HIDE DEF t
<1>13. parse_operand(t) = MemoryOperand(f)
  <2> HIDE DEF f
  <2> QED
    BY <1>11, <1>12, AddressParsed
<1> HIDE DEF f
<1>14. /\ Optional(f.imm, string2uint, 0) = {w.imm}
       /\ Optional(f.reg1, reflect_registers, NoRegister) = {w.reg1}
  BY <1>3, <1>4, <1>10
<1>15. Optional(f.reg2, reflect_registers, NoRegister) = {w.reg2}
  <2>1. CASE n > 0
    BY <1>5, <1>10, <2>1
  <2>2. CASE ~(n > 0)
    BY <1>8, <1>9, <1>10, <2>2
  <2> QED
    BY <2>1, <2>2
<1>16. Optional(f.scal, Scale, 0) = {w.scal}
  <2>1. CASE n > 1
    BY <1>6, <1>10, <2>1
  <2>2. CASE ~(n > 1)
    BY <1>8, <1>9, <1>10, <2>2
  <2> QED
    BY <2>1, <2>2
<1>17. Form(f) = "()"
  BY <1>8, <1>10 DEF Form
<1>18. MemoryOperand(f) =
            {[form |-> Form(f), has_imm |-> f.imm # <<>>, imm |-> w.imm,
              commas |-> IF Form(f) = "()" THEN f.commas ELSE 0,
              reg1 |-> w.reg1, reg2 |-> w.reg2, scal |-> w.scal]}
  BY <1>14, <1>15, <1>16 DEF MemoryOperand
<1>19. (f.imm # <<>>) = w.has_imm /\ (IF Form(f) = "()" THEN f.commas ELSE 0) = w.commas
  BY <1>3, <1>10, <1>17 DEF n
<1>20. MemoryOperand(f) = {w}
  BY <1>1, <1>17, <1>18, <1>19
<1> QED
  BY <1>7, <1>11, <1>13, <1>20

\* What can be written as an operand is parsed as what is written.
LEMMA OperandParsed ==
    ASSUME Register \subseteq DOMAIN RegisterNames, NEW st \in Style, NEW w, Writable(w)
    PROVE  /\ w.form = "" => OperandText(w, st) = <<>>
           /\ w.form # "" => IsText(OperandText(w, st))
           /\ parse_operand(OperandText(w, st)) = {w}
<1>1. CASE w.form = "()"
  BY <1>1, BracketOperands
<1>2. CASE w.form # "()"
  BY <1>2, SimpleOperands
<1> QED
  BY <1>1, <1>2

-----------------------------------------------------------------------------
(* parse_instruction *)

\* The blanks of a style
LEMMA StyleBlanks ==
    ASSUME NEW st \in Style
    PROVE  /\ Blanks(st.lead) \in Seq({Blank}) /\ Blanks(st.gap) \in Seq({Blank}) /\ Blanks(st.gap) # <<>>
           /\ Blanks(st.comma) \in Seq({Blank}) /\ Blanks(st.tail) \in Seq({Blank})
<1>1. st.lead \in Nat /\ st.gap \in Nat /\ st.gap # 0 /\ st.comma \in Nat /\ st.tail \in Nat
  BY DEF Style
<1> QED
  BY <1>1, BlanksAre

\* The parts of an instruction are each parsed in one way, and it is.
IsOne(p, o, x, y) == Operators(p.op) = {o} /\ parse_operand(p.src) = {x} /\ parse_operand(p.dst) = {y}
Means(p, o, x, y) == Parsed(p) = {[op |-> o, src |-> x, dst |-> y]}

\* Parts that are each parsed in one way are parsed in one way.
LEMMA OneInstruction ==
    ASSUME NEW p, NEW o, NEW x, NEW y, IsOne(p, o, x, y)
    PROVE  Means(p, o, x, y)
  BY DEF Parsed, IsOne, Means

\* An instruction is parsed as what is written.
ParsedBack(i, st) == parse_instruction(InstructionText(i, st)) = {i}

\* An operator with operands that can be written is parsed as what is written.
LEMMA OperatorParsed ==
    ASSUME Register \subseteq DOMAIN RegisterNames, NEW st \in Style,
           NEW o \in Operator, NEW x, Writable(x), NEW y, Writable(y), x.form = "" => y.form = ""
    PROVE  ParsedBack([op |-> o, src |-> x, dst |-> y], st)
<1> DEFINE lead == Blanks(st.lead)
           gap == Blanks(st.gap)
           comma == Blanks(st.comma)
           tail == Blanks(st.tail)
           t == InstructionText([op |-> o, src |-> x, dst |-> y], st)
           N == Name(OperatorNames[o], st)
           s == OperandText(x, st)
           d == OperandText(y, st)
           u == ((lead \o N) \o gap) \o s
<1>1. PICK c \in Plain : N = <<c>> /\ Operators(<<c>>) = {o}
  BY OperatorName DEF Operators
<1>2. /\ x.form = "" => s = <<>>
      /\ x.form # "" => IsText(s)
      /\ parse_operand(s) = {x}
  BY OperandParsed
<1>3. /\ y.form = "" => d = <<>>
      /\ y.form # "" => IsText(d)
      /\ parse_operand(d) = {y}
  BY OperandParsed
<1>4. t = u \o (IF y.form = "" THEN <<>>
               ELSE ((<<Comma>> \o comma) \o d) \o tail)
  BY DEF InstructionText
<1>5. /\ lead \in Seq({Blank}) /\ gap \in Seq({Blank}) /\ gap # <<>>
      /\ comma \in Seq({Blank}) /\ tail \in Seq({Blank})
  BY StyleBlanks
<1> HIDE DEF t, N, s, d, lead, gap, comma, tail
<1>6. Behind(t, u, s, comma, d, tail)
  <2> HIDE DEF u
  <2>1. CASE y.form = ""
    BY <1>3, <1>4, <2>1 DEF Behind
  <2>2. CASE y.form # ""
    BY <1>2, <1>3, <1>4, <2>2 DEF Behind
  <2> QED
    BY <2>1, <2>2
<1>7. s = <<>> \/ IsText(s)
  BY <1>2
<1>8. UpToSource(u, c, s)
  <2>1. u = ((lead \o <<c>>) \o gap) \o s
    BY <1>1
  <2> HIDE DEF u
  <2> QED
    BY <1>5, <1>7, <2>1, SourceParts
<1> HIDE DEF u
<1>9. Separate(t).op = <<c>> /\ Separate(t).src = s /\ Separate(t).dst = d
  <2>1. IsSeparated(t, c, s, d)
    BY <1>5, <1>6, <1>8, InstructionParts
  <2> QED
    BY <2>1 DEF IsSeparated
<1>10. Operators(Separate(t).op) = {o}
  BY <1>1, <1>9
<1>11. parse_operand(Separate(t).src) = {x} /\ parse_operand(Separate(t).dst) = {y}
  BY <1>2, <1>3, <1>9
<1>12. parse_instruction(t) = Parsed(Separate(t))
  BY DEF parse_instruction
<1>13. Parsed(Separate(t)) = {[op |-> o, src |-> x, dst |-> y]}
  <2>1. IsOne(Separate(t), o, x, y)
    BY <1>10, <1>11 DEF IsOne
  <2>2. Means(Separate(t), o, x, y)
    BY <2>1, OneInstruction
  <2> QED
    BY <2>2 DEF Means
<1> QED
  BY <1>12, <1>13 DEF t, ParsedBack

\* An instruction that can be written is parsed as what is written.
LEMMA InstructionParsed ==
    ASSUME Register \subseteq DOMAIN RegisterNames, NEW st \in Style,
           NEW i \in Instruction, Writable(i.src), Writable(i.dst),
           i.src.form = "" => i.dst.form = ""
    PROVE  parse_instruction(InstructionText(i, st)) = {i}
<1> DEFINE o == i.op
           x == i.src
           y == i.dst
<1>1. i = [op |-> o, src |-> x, dst |-> y] /\ o \in Operator
  BY DEF Instruction
<1>2. Writable(x) /\ Writable(y) /\ (x.form = "" => y.form = "")
  OBVIOUS
<1> HIDE DEF o, x, y
<1>3. ParsedBack([op |-> o, src |-> x, dst |-> y], st)
  BY <1>1, <1>2, OperatorParsed
<1> QED
  BY <1>1, <1>3 DEF ParsedBack

-----------------------------------------------------------------------------
(* The program of a boot *)

\* The program, its text and its meaning are those of a boot.
Booted == \E b \in Boots : code = b.code /\ text = b.text /\ listing = b.listing

\* A boot has the instruction that each of its texts means.
LEMMA BootParsed ==
    ASSUME Booted PROVE ParsedAsWritten
<1>1. PICK b \in Boots : code = b.code /\ text = b.text /\ listing = b.listing
  BY DEF Booted
<1>2. code = Assemble(text) /\ DOMAIN listing \subseteq DOMAIN text
  BY <1>1, TextAssumption
<1>3. ASSUME NEW a \in DOMAIN listing, NEW st \in Styles, text[a] = InstructionText(listing[a], st)
      PROVE  a \in DOMAIN code /\ code[a] = listing[a]
  <2> DEFINE i == listing[a]
             P == parse_instruction(text[a])
  <2>1. /\ i \in Instruction /\ Writable(i.src) /\ Writable(i.dst)
        /\ i.src.form = "" => i.dst.form = ""
    BY <1>1, TextAssumption
  <2>2. st \in Style /\ Register \subseteq DOMAIN RegisterNames
    BY StyleAssumption, TextAssumption
  <2>3. parse_instruction(InstructionText(i, st)) = {i}
    <3> HIDE DEF i
    <3> QED
      BY <2>1, <2>2, InstructionParsed
  <2>4. P = {i}
    BY <1>3, <2>3
  <2>5. a \in DOMAIN text /\ P # {}
    BY <1>2, <2>4
  <2>6. a \in DOMAIN code /\ code[a] = CHOOSE x \in P : TRUE
    BY <1>2, <2>5 DEF Assemble
  <2> HIDE DEF P, i
  <2>7. (CHOOSE x \in P : TRUE) \in P
    BY <2>5
  <2> QED
    BY <2>4, <2>6, <2>7 DEF i
<1> QED
  BY <1>3 DEF ParsedAsWritten

\* No instruction changes the program.
LEMMA ProgramStays == instruction_cycle => code' = code
<1> SUFFICES ASSUME instruction_cycle PROVE code' = code
  OBVIOUS
<1> QED
  BY DEF instruction_cycle, ParseError, NullPointer, mov_handler, push_handler, pop_handler,
         leave_handler, call_handler, ret_handler, add_handler, sub_handler, cmp_handler,
         jne_handler, jmp_handler, NoCase, vars

\* Every instruction that is written as its author means it is decoded to that, whatever
\* its operator, its operands, its numbers and the style of its text are.
THEOREM TextIsUnderstood == AsmSpec => []ParsedAsWritten
<1>1. AsmInit => Booted
  BY DEF AsmInit, Boot, Booted
<1>2. Booted /\ [instruction_cycle /\ UNCHANGED <<text, listing>>]_asmVars => Booted'
  BY ProgramStays DEF Booted, asmVars, vars
<1> QED
  BY <1>1, <1>2, BootParsed, PTL DEF AsmSpec

-----------------------------------------------------------------------------
(* The programs of module ISAPrograms: words, addresses and operands *)

\* What quotient and remainder are.
LEMMA Division ==
    ASSUME NEW w \in Int, NEW D \in Nat \ {0}
    PROVE  /\ w \div D \in Int /\ w % D \in 0 .. D - 1
           /\ w % D = w - D * (w \div D)
<1>1. w \div D \in Int
  OBVIOUS
<1>2. w % D \in 0 .. D - 1
  OBVIOUS
<1>3. w % D = w - D * (w \div D)
  OBVIOUS
<1> QED
  BY <1>1, <1>2, <1>3

\* Quotient and remainder are unique.
LEMMA DivUnique ==
    ASSUME NEW D \in Nat \ {0}, NEW q \in Int, NEW r \in 0 .. D - 1
    PROVE  (D * q + r) % D = r /\ (D * q + r) \div D = q
<1> DEFINE w == D * q + r
<1>1. w \in Int
  OBVIOUS
<1>2. w \in Int /\ w \div D \in Int /\ w % D \in 0 .. D - 1 /\ w % D = w - D * (w \div D)
  <2> HIDE DEF w
  <2> QED
    BY <1>1, Division
<1> DEFINE a == w \div D
           b == w % D
<1>3. a \in Int /\ b \in 0 .. D - 1 /\ b = (D * q + r) - D * a
  BY <1>2
<1> HIDE DEF a, b, w
<1>4. a = q
  <2>1. D * (a - q) = r - b /\ -D < r - b /\ r - b < D
    BY <1>3
  <2>2. a - q < 1
    <3> SUFFICES ASSUME a - q >= 1 PROVE FALSE
      BY <1>3
    <3>1. D * (a - q) >= D
      BY <1>3
    <3> QED
      BY <1>3, <2>1, <3>1
  <2>3. a - q > -1
    <3> SUFFICES ASSUME a - q <= -1 PROVE FALSE
      BY <1>3
    <3>1. D * (a - q) <= -D
      BY <1>3
    <3> QED
      BY <1>3, <2>1, <3>1
  <2> QED
    BY <1>3, <2>2, <2>3
<1>5. b = r
  BY <1>3, <1>4
<1> QED
  BY <1>4, <1>5 DEF a, b, w


\* Wrapping early makes no difference.
LEMMA WrapAdd ==
    ASSUME NEW a \in Int, NEW r \in Int
    PROVE  Wrap(Wrap(a) + r) = Wrap(a + r)
<1> DEFINE D == 2 * HALF
           p == a \div D
           q == (a + r) \div D
<1>1. D \in Nat \ {0}
  BY WordAssumption
<1>2. a + r \in Int
  OBVIOUS
<1>3. Wrap(a) = a - D * p /\ p \in Int
  BY <1>1, Division DEF Wrap
<1>4. Wrap(a + r) = (a + r) - D * q /\ q \in Int /\ Wrap(a + r) \in 0 .. D - 1
  BY <1>1, <1>2, Division DEF Wrap
<1> HIDE DEF D, p, q
<1>5. Wrap(a) + r = D * (q - p) + Wrap(a + r)
  BY <1>1, <1>3, <1>4
<1>6. (D * (q - p) + Wrap(a + r)) % D = Wrap(a + r)
  <2>1. q - p \in Int
    BY <1>3, <1>4
  <2> QED
    BY <1>1, <1>4, <2>1, DivUnique
<1> QED
  BY <1>5, <1>6 DEF Wrap, D

\* What an instruction finds when it is executed
Runs(i) == IInv /\ Fetched /\ code[rip] = i /\ instruction_cycle
GoesOn  == rip' = Wrap(rip + MAX_INSTRUCTION_CHAR) /\ code' = code /\ status' = status

\* An instruction with a case is executed by the handler of its operator.
LEMMA ItsHandler ==
    ASSUME NEW op \in Operator, Takes(op), instruction_cycle
    PROVE  /\ op = "mov" => mov_handler
           /\ op = "push" => push_handler
           /\ op = "pop" => pop_handler
           /\ op = "leave" => leave_handler
           /\ op = "call" => call_handler
           /\ op = "ret" => ret_handler
           /\ op = "add" => add_handler
           /\ op = "sub" => sub_handler
           /\ op = "cmp" => cmp_handler
           /\ op = "jne" => jne_handler
           /\ op = "jmp" => jmp_handler
<1>1. Executes(op) /\ HasCase(op) /\ code[rip].op = op /\ rip \in DOMAIN code
  BY DEF Takes, Executes, Fetched
<1>2. ~ParseError /\ ~NullPointer /\ ~NoCase
  BY <1>1 DEF ParseError, NullPointer, NoCase, Executes
<1>3. \A other \in Operator \ {op} : ~Executes(other)
  BY <1>1 DEF Executes
<1>4. /\ mov_handler => op = "mov"
      /\ push_handler => op = "push"
      /\ pop_handler => op = "pop"
      /\ leave_handler => op = "leave"
      /\ call_handler => op = "call"
      /\ ret_handler => op = "ret"
      /\ add_handler => op = "add"
      /\ sub_handler => op = "sub"
      /\ cmp_handler => op = "cmp"
      /\ jne_handler => op = "jne"
      /\ jmp_handler => op = "jmp"
  BY <1>3 DEF mov_handler, push_handler, pop_handler, leave_handler, call_handler, ret_handler,
              add_handler, sub_handler, cmp_handler, jne_handler, jmp_handler, Operator
<1>5. \/ mov_handler \/ push_handler \/ pop_handler \/ leave_handler \/ call_handler \/ ret_handler
      \/ add_handler \/ sub_handler \/ cmp_handler \/ jne_handler \/ jmp_handler
  BY <1>2 DEF instruction_cycle
<1> QED
  BY <1>4, <1>5

\* The address of a local variable
LEMMA LocalAddress ==
    ASSUME TypeOK, NEW x \in Int, reg["rbp"] + x * WORD_BYTES \in Word
    PROVE  vaddr(Local(x)) = reg["rbp"] + x * WORD_BYTES
<1> DEFINE d == x * WORD_BYTES
<1>1. reg["rbp"] \in Int /\ d \in Int
  BY RegisterAssumption, WordAssumption DEF TypeOK, Word
<1>2. Parts(Local(x)) = {"imm", "reg1"} /\ Local(x).imm = Wrap(d) /\ Local(x).reg1 = "rbp"
  BY RegisterAssumption DEF Parts, Local, None, Simply
<1> HIDE DEF d
<1>3. Wrap(d) \in Int
  BY <1>1, WrapIsWord, WordAssumption DEF Word
<1>4. vaddr(Local(x)) = Wrap(Wrap(d) + reg["rbp"])
  BY <1>1, <1>2, <1>3 DEF vaddr
<1>5. Wrap(Wrap(d) + reg["rbp"]) = Wrap(d + reg["rbp"])
  BY <1>1, WrapAdd
<1>6. d + reg["rbp"] = reg["rbp"] + d
  BY <1>1
<1>7. reg["rbp"] + d \in Word
  BY DEF d
<1> QED
  BY <1>4, <1>5, <1>6, <1>7, WrapWord DEF d

\* The address of an instruction
LEMMA JumpAddress == ASSUME NEW x \in Word PROVE vaddr(Addr(x)) = x
<1>1. Parts(Addr(x)) = {"imm"} /\ Addr(x).imm = Wrap(x)
  BY DEF Parts, Addr, None, Simply
<1>2. Wrap(x) = x /\ x \in Int
  BY WrapWord, WordAssumption DEF Word
<1>3. vaddr(Addr(x)) = Wrap(x)
  BY <1>1, <1>2 DEF vaddr
<1> QED
  BY <1>2, <1>3

\* Operands of these forms are never null.
LEMMA NeverNull ==
    /\ \A r : ~IsNull(Reg(r))
    /\ \A x : ~IsNull(Imm(x)) /\ ~IsNull(Addr(x)) /\ ~IsNull(Local(x))
  BY RegisterAssumption DEF IsNull, IsMem, Parts, Reg, Imm, Addr, Local, None, Simply

\* What the operands are
LEMMA Forms ==
    /\ \A r : IsReg(Reg(r)) /\ ~IsMem(Reg(r)) /\ ~IsImm(Reg(r)) /\ Reg(r).reg1 = r
    /\ \A x : IsImm(Imm(x)) /\ ~IsReg(Imm(x)) /\ ~IsMem(Imm(x)) /\ Imm(x).imm = Wrap(x)
    /\ \A x : IsMem(Addr(x)) /\ ~IsReg(Addr(x)) /\ ~IsImm(Addr(x))
    /\ \A x : IsMem(Local(x)) /\ ~IsReg(Local(x)) /\ ~IsImm(Local(x))
  BY DEF IsReg, IsMem, IsImm, Reg, Imm, Addr, Local, None, Simply

\* An instruction of the programs is taken.
LEMMA Taken ==
    ASSUME NEW op \in Operator, NEW s, NEW d, Runs(Does(op, s, d)),
           op \in {"leave", "ret"} \/ ~IsNull(s), op \in {"mov", "add", "sub", "cmp"} => ~IsNull(d)
    PROVE  /\ Executes(op) /\ src = s /\ dst = d /\ TypeOK
           /\ HasCase(op) => Takes(op)
           /\ instruction_cycle
<1>1. Fetched /\ code[rip].op = op /\ src = s /\ dst = d /\ TypeOK /\ instruction_cycle
  BY DEF Runs, Does, src, dst, IInv
<1>2. \A w \in Decoded(op) : ~IsNull(w)
  BY <1>1 DEF Decoded
<1> QED
  BY <1>1, <1>2 DEF Executes, Takes

-----------------------------------------------------------------------------
(* What the instructions of the programs do *)

\* push %r
LEMMA RunsPush ==
    ASSUME NEW r \in Register, r # "rsp", Runs(Does("push", Reg(r), None))
    PROVE  /\ GoesOn
           /\ reg' = [reg EXCEPT !["rsp"] = Below(reg["rsp"])]
           /\ mem' = [mem EXCEPT ![Below(reg["rsp"])] = reg[r]]
<1>1. src = Reg(r) /\ TypeOK /\ push_handler
  BY Taken, NeverNull, Forms, ItsHandler DEF HasCase, Operator
<1>2. reg' = [reg EXCEPT !["rsp"] = Below(reg["rsp"])] /\ reg'[r] = reg[r]
  BY <1>1 DEF push_handler, TypeOK
<1> QED
  BY <1>1, <1>2, Forms DEF push_handler, GoesOn, increase_pc

\* pop %r
LEMMA RunsPop ==
    ASSUME NEW r \in Register, Runs(Does("pop", Reg(r), None))
    PROVE  /\ GoesOn /\ mem' = mem
           /\ reg' = [[reg EXCEPT !["rsp"] = Above(reg["rsp"])] EXCEPT ![r] = mem[reg["rsp"]]]
<1>1. src = Reg(r) /\ pop_handler
  BY Taken, NeverNull, Forms, ItsHandler DEF HasCase, Operator
<1> QED
  BY <1>1, Forms DEF pop_handler, GoesOn, increase_pc

\* mov %s,%r
LEMMA RunsRegToReg ==
    ASSUME NEW r \in Register, NEW s \in Register, Runs(Does("mov", Reg(s), Reg(r)))
    PROVE  GoesOn /\ mem' = mem /\ reg' = [reg EXCEPT ![r] = reg[s]]
<1>1. src = Reg(s) /\ dst = Reg(r) /\ mov_handler
  BY Taken, NeverNull, Forms, ItsHandler DEF HasCase, Operator
<1> QED
  BY <1>1, Forms DEF mov_handler, GoesOn, increase_pc

\* mov $x,%r
LEMMA RunsImmToReg ==
    ASSUME NEW r \in Register, NEW x \in Word, Runs(Does("mov", Imm(x), Reg(r)))
    PROVE  GoesOn /\ mem' = mem /\ reg' = [reg EXCEPT ![r] = x]
<1>1. src = Imm(x) /\ dst = Reg(r) /\ mov_handler
  BY Taken, NeverNull, Forms, ItsHandler DEF HasCase, Operator
<1>2. src.imm = x
  BY <1>1, Forms, WrapWord
<1> QED
  BY <1>1, <1>2, Forms DEF mov_handler, GoesOn, increase_pc

\* mov %s,x(%rbp)
LEMMA RunsRegToLocal ==
    ASSUME NEW s \in Register, NEW x \in Int, NEW a \in Word, a = reg["rbp"] + x * WORD_BYTES,
           Runs(Does("mov", Reg(s), Local(x)))
    PROVE  GoesOn /\ reg' = reg /\ mem' = [mem EXCEPT ![a] = reg[s]]
<1>1. src = Reg(s) /\ dst = Local(x) /\ TypeOK /\ mov_handler
  BY Taken, NeverNull, Forms, ItsHandler DEF HasCase, Operator
<1>2. vaddr(dst) = a
  BY <1>1, LocalAddress
<1> QED
  BY <1>1, <1>2, Forms DEF mov_handler, GoesOn, increase_pc

\* mov x(%rbp),%r
LEMMA RunsLocalToReg ==
    ASSUME NEW r \in Register, NEW x \in Int, NEW a \in Word, a = reg["rbp"] + x * WORD_BYTES,
           Runs(Does("mov", Local(x), Reg(r)))
    PROVE  GoesOn /\ mem' = mem /\ reg' = [reg EXCEPT ![r] = mem[a]]
<1>1. src = Local(x) /\ dst = Reg(r) /\ TypeOK /\ mov_handler
  BY Taken, NeverNull, Forms, ItsHandler DEF HasCase, Operator
<1>2. vaddr(src) = a
  BY <1>1, LocalAddress
<1> QED
  BY <1>1, <1>2, Forms DEF mov_handler, GoesOn, increase_pc

\* add %s,%r
LEMMA RunsAdd ==
    ASSUME NEW r \in Register, NEW s \in Register, Runs(Does("add", Reg(s), Reg(r)))
    PROVE  GoesOn /\ mem' = mem /\ reg' = [reg EXCEPT ![r] = Wrap(reg[s] + reg[r])]
<1>1. src = Reg(s) /\ dst = Reg(r) /\ add_handler
  BY Taken, NeverNull, Forms, ItsHandler DEF HasCase, Operator
<1>2. src.reg1 = s /\ dst.reg1 = r
  BY <1>1, Forms
<1>3. GoesOn /\ mem' = mem
  BY <1>1 DEF add_handler, GoesOn, increase_pc
<1>4. reg' = [reg EXCEPT ![r] = Sum(reg[s], reg[r])]
  BY <1>1, <1>2 DEF add_handler
<1> QED
  BY <1>3, <1>4 DEF Sum

\* sub $x,%r
LEMMA RunsSub ==
    ASSUME NEW r \in Register, NEW x \in Word, Runs(Does("sub", Imm(x), Reg(r)))
    PROVE  GoesOn /\ mem' = mem /\ reg' = [reg EXCEPT ![r] = Wrap(reg[r] - x)]
<1>1. src = Imm(x) /\ dst = Reg(r) /\ sub_handler
  BY Taken, NeverNull, Forms, ItsHandler DEF HasCase, Operator
<1>2. src.imm = x
  BY <1>1, Forms, WrapWord
<1> QED
  BY <1>1, <1>2, Forms DEF sub_handler, GoesOn, increase_pc, Difference

\* cmpq $y,x(%rbp)
LEMMA RunsCmp ==
    ASSUME NEW y \in Word, NEW x \in Int, NEW a \in Word, a = reg["rbp"] + x * WORD_BYTES,
           Runs(Does("cmp", Imm(y), Local(x)))
    PROVE  GoesOn /\ reg' = reg /\ mem' = mem /\ (flags'["ZF"] = 1 <=> mem[a] = y)
<1>1. src = Imm(y) /\ dst = Local(x) /\ TypeOK /\ cmp_handler
  BY Taken, NeverNull, Forms, ItsHandler DEF HasCase, Operator
<1>2. vaddr(dst) = a /\ src.imm = y /\ mem[a] \in Word
  BY <1>1, LocalAddress, Forms, WrapWord DEF TypeOK
<1>3. flags' = SubFlags(y, mem[a])
  BY <1>1, <1>2 DEF cmp_handler
<1>4. GoesOn /\ reg' = reg /\ mem' = mem
  BY <1>1 DEF cmp_handler, GoesOn, increase_pc
<1>5. SubFlags(y, mem[a])["ZF"] = 1 <=> y = mem[a]
  BY <1>2, SubFlagsRight
<1> QED
  BY <1>3, <1>4, <1>5

\* jne t
LEMMA RunsJne ==
    ASSUME NEW t \in Word, Runs(Does("jne", Addr(t), None))
    PROVE  /\ reg' = reg /\ mem' = mem /\ code' = code /\ status' = status
           /\ flags["ZF"] = 1 => rip' = Wrap(rip + MAX_INSTRUCTION_CHAR)
           /\ flags["ZF"] # 1 => rip' = t
<1>1. src = Addr(t) /\ jne_handler
  BY Taken, NeverNull, Forms, ItsHandler DEF HasCase, Operator
<1> QED
  BY <1>1, JumpAddress DEF jne_handler, increase_pc

\* jmp t
LEMMA RunsJmp ==
    ASSUME NEW t \in Word, Runs(Does("jmp", Addr(t), None))
    PROVE  reg' = reg /\ mem' = mem /\ code' = code /\ status' = status /\ rip' = t
<1>1. src = Addr(t) /\ jmp_handler
  BY Taken, NeverNull, Forms, ItsHandler DEF HasCase, Operator
<1> QED
  BY <1>1, JumpAddress DEF jmp_handler

\* callq t
LEMMA RunsCall ==
    ASSUME NEW t \in Word, Runs(Does("call", Addr(t), None))
    PROVE  /\ code' = code /\ status' = status /\ rip' = t
           /\ reg' = [reg EXCEPT !["rsp"] = Below(reg["rsp"])]
           /\ mem' = [mem EXCEPT ![Below(reg["rsp"])] = Wrap(rip + MAX_INSTRUCTION_CHAR)]
<1>1. src = Addr(t) /\ call_handler
  BY Taken, NeverNull, Forms, ItsHandler DEF HasCase, Operator
<1> QED
  BY <1>1, JumpAddress DEF call_handler

\* leaveq
LEMMA RunsLeave ==
    ASSUME Runs(Does("leave", None, None))
    PROVE  /\ GoesOn /\ mem' = mem
           /\ reg' = [reg EXCEPT !["rsp"] = Above(reg["rbp"]), !["rbp"] = mem[reg["rbp"]]]
<1>1. leave_handler
  BY Taken, ItsHandler DEF HasCase, Operator
<1> QED
  BY <1>1 DEF leave_handler, GoesOn, increase_pc

\* retq
LEMMA RunsRet ==
    ASSUME Runs(Does("ret", None, None))
    PROVE  /\ code' = code /\ status' = status /\ mem' = mem
           /\ rip' = mem[reg["rsp"]] /\ reg' = [reg EXCEPT !["rsp"] = Above(reg["rsp"])]
<1>1. ret_handler
  BY Taken, ItsHandler DEF HasCase, Operator
<1> QED
  BY <1>1 DEF ret_handler

-----------------------------------------------------------------------------
(* The listings of the programs *)

\* Instructions have different addresses, and each is followed by the next.
LEMMA Addresses ==
    /\ \A i \in 0 .. 19 : At(i) \in Word
    /\ \A i \in 0 .. 18 : Wrap(At(i) + MAX_INSTRUCTION_CHAR) = At(i + 1)
    /\ \A i \in Int, j \in Int : At(i) = At(j) => i = j
<1> USE WordAssumption
<1>1. \A i \in 0 .. 19 : At(i) \in Word
  <2>1. ASSUME NEW i \in 0 .. 19 PROVE i * MAX_INSTRUCTION_CHAR \in 0 .. 19 * MAX_INSTRUCTION_CHAR
    <3>1. ASSUME NEW x \in Int, NEW y \in Int, NEW z \in Nat, x <= y PROVE x * z <= y * z
      BY <3>1
    <3> QED
      BY <3>1
  <2> QED
    BY <2>1, RoomAssumption DEF At, Word
<1>2. ASSUME NEW i \in 0 .. 18 PROVE Wrap(At(i) + MAX_INSTRUCTION_CHAR) = At(i + 1)
  <2>1. At(i) + MAX_INSTRUCTION_CHAR = At(i + 1)
    BY DEF At
  <2> QED
    BY <1>1, <2>1, WrapWord
<1>3. ASSUME NEW i \in Int, NEW j \in Int, At(i) = At(j) PROVE i = j
  <2>1. ASSUME NEW x \in Int, NEW y \in Int, NEW z \in Nat \ {0}, x < y PROVE x * z < y * z
    BY <2>1
  <2>2. i * MAX_INSTRUCTION_CHAR = j * MAX_INSTRUCTION_CHAR
    BY <1>3 DEF At
  <2> QED
    BY <2>1, <2>2
<1> QED
  BY <1>1, <1>2, <1>3

\* A list of instructions is found at their addresses.
LEMMA LoadedAt ==
    ASSUME NEW n \in Nat, NEW m \in Nat, n = m + 1, NEW list, DOMAIN list = 1 .. n
    PROVE  /\ DOMAIN Loaded(list) = {At(i) : i \in 0 .. m}
           /\ \A i \in 0 .. m : Loaded(list)[At(i)] = list[i + 1]
<1>1. DOMAIN Loaded(list) = {At(i - 1) : i \in 1 .. n}
  BY DEF Loaded
<1>2. {At(i - 1) : i \in 1 .. n} = {At(i) : i \in 0 .. m}
  <2>1. \A i \in 1 .. n : i - 1 \in 0 .. m
    OBVIOUS
  <2>2. \A i \in 0 .. m : i + 1 \in 1 .. n /\ (i + 1) - 1 = i
    OBVIOUS
  <2> QED
    BY <2>1, <2>2
<1>3. ASSUME NEW i \in 0 .. m PROVE Loaded(list)[At(i)] = list[i + 1]
  <2>1. i + 1 \in 1 .. n /\ (i + 1) - 1 = i
    OBVIOUS
  <2>2. \A j \in 1 .. n : At(j - 1) = At(i) => j = i + 1
    BY Addresses
  <2>3. (CHOOSE j \in 1 .. n : At(j - 1) = At(i)) = i + 1
    BY <2>1, <2>2
  <2>4. At(i) \in {At(j - 1) : j \in 1 .. n}
    BY <2>1
  <2> QED
    BY <2>3, <2>4 DEF Loaded
<1> QED
  BY <1>1, <1>2, <1>3

\* The addition, instruction by instruction
LEMMA AddListing ==
    /\ DOMAIN AddProgram = {At(i) : i \in 0 .. 14}
    /\ AddProgram[At(0)] = Does("push", Reg("rbp"), None)
    /\ AddProgram[At(1)] = Does("mov", Reg("rsp"), Reg("rbp"))
    /\ AddProgram[At(2)] = Does("mov", Reg("rdi"), Local(-3))
    /\ AddProgram[At(3)] = Does("mov", Reg("rsi"), Local(-4))
    /\ AddProgram[At(4)] = Does("mov", Local(-3), Reg("rdx"))
    /\ AddProgram[At(5)] = Does("mov", Local(-4), Reg("rax"))
    /\ AddProgram[At(6)] = Does("add", Reg("rdx"), Reg("rax"))
    /\ AddProgram[At(7)] = Does("mov", Reg("rax"), Local(-1))
    /\ AddProgram[At(8)] = Does("mov", Local(-1), Reg("rax"))
    /\ AddProgram[At(9)] = Does("pop", Reg("rbp"), None)
    /\ AddProgram[At(10)] = Does("ret", None, None)
    /\ AddProgram[At(11)] = Does("mov", Reg("rdx"), Reg("rsi"))
    /\ AddProgram[At(12)] = Does("mov", Reg("rax"), Reg("rdi"))
    /\ AddProgram[At(13)] = Does("call", Addr(At(0)), None)
    /\ AddProgram[At(14)] = Does("mov", Reg("rax"), Local(-1))
<1>1. DOMAIN AddCode = 1 .. 15
  BY DEF AddCode
<1>2. /\ AddCode[1] = Does("push", Reg("rbp"), None)
      /\ AddCode[2] = Does("mov", Reg("rsp"), Reg("rbp"))
      /\ AddCode[3] = Does("mov", Reg("rdi"), Local(-3))
      /\ AddCode[4] = Does("mov", Reg("rsi"), Local(-4))
      /\ AddCode[5] = Does("mov", Local(-3), Reg("rdx"))
      /\ AddCode[6] = Does("mov", Local(-4), Reg("rax"))
      /\ AddCode[7] = Does("add", Reg("rdx"), Reg("rax"))
      /\ AddCode[8] = Does("mov", Reg("rax"), Local(-1))
      /\ AddCode[9] = Does("mov", Local(-1), Reg("rax"))
      /\ AddCode[10] = Does("pop", Reg("rbp"), None)
      /\ AddCode[11] = Does("ret", None, None)
      /\ AddCode[12] = Does("mov", Reg("rdx"), Reg("rsi"))
      /\ AddCode[13] = Does("mov", Reg("rax"), Reg("rdi"))
      /\ AddCode[14] = Does("call", Addr(At(0)), None)
      /\ AddCode[15] = Does("mov", Reg("rax"), Local(-1))
  BY DEF AddCode
<1>3. /\ DOMAIN AddProgram = {At(i) : i \in 0 .. 14}
      /\ \A i \in 0 .. 14 : AddProgram[At(i)] = AddCode[i + 1]
  <2>1. 15 \in Nat /\ 14 \in Nat /\ 15 = 14 + 1
    OBVIOUS
  <2> QED
    BY <1>1, <2>1, LoadedAt DEF AddProgram
<1> QED
  BY <1>2, <1>3

-----------------------------------------------------------------------------
(* The addition *)

\* The frame of the addition
Frame == Stack - 2 * WORD_BYTES

\* What is in the stack above the functions' frames has not changed.
Kept == \A a \in Word : a >= Stack => mem[a] = Untouched[a]

\* At instruction i of the addition: main has its frame, the function the address to
\* return to, main's frame pointer, its own, its arguments, and their sum.
AddAt(i) ==
    LET result == Wrap(reg["rdi"] + reg["rsi"])
    IN  /\ i < 15 => Kept
        /\ i > 10 => reg["rsp"] = Stack
        /\ i \in {0, 1} \/ i >= 10 => reg["rbp"] = Stack + 2 * WORD_BYTES
        /\ i <= 10 => mem[Stack - WORD_BYTES] = At(14)
        /\ i \in {0, 10} => reg["rsp"] = Stack - WORD_BYTES
        /\ i \in 1 .. 9 => reg["rsp"] = Frame /\ mem[Frame] = Stack + 2 * WORD_BYTES
        /\ i \in 2 .. 9 => reg["rbp"] = Frame
        /\ i \in {3, 4} => mem[Frame - 3 * WORD_BYTES] = reg["rdi"]
        /\ i \in {4, 5} => mem[Frame - 4 * WORD_BYTES] = reg["rsi"]
        /\ i \in {5, 6} => reg["rdx"] = reg["rdi"]
        /\ i = 6 => reg["rax"] = reg["rsi"]
        /\ i = 8 => mem[Frame - WORD_BYTES] = result
        /\ i \in {7, 9, 10, 14, 15} => reg["rax"] = result
        /\ i = 15 => BackInMain(result)

\* The addresses of the stack that the programs use are words.
LEMMA StackWords ==
    /\ Stack \in Int /\ WORD_BYTES \in Int /\ WORD_BYTES > 0
    /\ Stack \in Word /\ Stack + WORD_BYTES \in Word /\ Stack + 2 * WORD_BYTES \in Word
    /\ Stack - WORD_BYTES \in Word /\ Frame \in Word /\ Frame - WORD_BYTES \in Word
    /\ Frame - 3 * WORD_BYTES \in Word /\ Frame - 4 * WORD_BYTES \in Word
    /\ \A a \in Word : a \in Int
    /\ {"rax", "rdx", "rdi", "rsi", "rsp", "rbp"} \subseteq Register
  BY RoomAssumption, ProgramAssumption, WordAssumption, RegisterAssumption DEF Word, Frame

\* Where the stack pointer moves to
LEMMA StackMoves ==
    /\ Below(Stack) = Stack - WORD_BYTES /\ Below(Stack - WORD_BYTES) = Frame
    /\ Above(Frame) = Stack - WORD_BYTES /\ Above(Stack - WORD_BYTES) = Stack
  BY StackWords, WrapWord DEF Below, Above, Frame

\* Every instruction leads from what is so at its address to what is so at the next.
LEMMA AddStep ==
    ASSUME IInv, instruction_cycle, status = "running", code = AddProgram,
           NEW i \in 0 .. 14, rip = At(i), AddAt(i)
    PROVE  /\ code' = code /\ status' = status
           /\ \E j \in 0 .. 15 : rip' = At(j) /\ AddAt(j)'
<1> USE StackWords
<1>1. /\ TypeOK /\ Fetched
      /\ \A l \in Instruction \cup {code[rip]} : code[rip] = l => Runs(l)
  <2>1. rip \in DOMAIN code
    BY AddListing
  <2> QED
    BY <2>1 DEF Runs, Fetched, IInv
<1>2. CASE i = 0
  <2>1. Runs(Does("push", Reg("rbp"), None))
    BY <1>1, <1>2, AddListing
  <2>2. /\ rip' = At(1) /\ code' = code /\ status' = status
        /\ reg' = [reg EXCEPT !["rsp"] = Frame]
        /\ mem' = [mem EXCEPT ![Frame] = reg["rbp"]]
    BY <1>1, <1>2, <2>1, RunsPush, StackMoves, Addresses DEF AddAt, GoesOn, Frame
  <2>3. AddAt(1)'
    BY <1>1, <1>2, <2>2 DEF AddAt, Kept, Frame, TypeOK
  <2> QED
    BY <2>2, <2>3
<1>3. CASE i = 1
  <2>1. Runs(Does("mov", Reg("rsp"), Reg("rbp")))
    BY <1>1, <1>3, AddListing
  <2>2. /\ rip' = At(2) /\ code' = code /\ status' = status
        /\ reg' = [reg EXCEPT !["rbp"] = reg["rsp"]]
        /\ mem' = mem
    BY <1>1, <1>3, <2>1, RunsRegToReg, StackMoves, Addresses DEF AddAt, GoesOn, Frame
  <2>3. AddAt(2)'
    BY <1>1, <1>3, <2>2 DEF AddAt, Kept, Frame, TypeOK
  <2> QED
    BY <2>2, <2>3
<1>4. CASE i = 2
  <2>1. Runs(Does("mov", Reg("rdi"), Local(-3)))
    BY <1>1, <1>4, AddListing
  <2>2. /\ rip' = At(3) /\ code' = code /\ status' = status
        /\ reg' = reg
        /\ mem' = [mem EXCEPT ![Frame - 3 * WORD_BYTES] = reg["rdi"]]
    BY <1>1, <1>4, <2>1, RunsRegToLocal, StackMoves, Addresses DEF AddAt, GoesOn, Frame
  <2>3. AddAt(3)'
    BY <1>1, <1>4, <2>2 DEF AddAt, Kept, Frame, TypeOK
  <2> QED
    BY <2>2, <2>3
<1>5. CASE i = 3
  <2>1. Runs(Does("mov", Reg("rsi"), Local(-4)))
    BY <1>1, <1>5, AddListing
  <2>2. /\ rip' = At(4) /\ code' = code /\ status' = status
        /\ reg' = reg
        /\ mem' = [mem EXCEPT ![Frame - 4 * WORD_BYTES] = reg["rsi"]]
    BY <1>1, <1>5, <2>1, RunsRegToLocal, StackMoves, Addresses DEF AddAt, GoesOn, Frame
  <2>3. AddAt(4)'
    BY <1>1, <1>5, <2>2 DEF AddAt, Kept, Frame, TypeOK
  <2> QED
    BY <2>2, <2>3
<1>6. CASE i = 4
  <2>1. Runs(Does("mov", Local(-3), Reg("rdx")))
    BY <1>1, <1>6, AddListing
  <2>2. /\ rip' = At(5) /\ code' = code /\ status' = status
        /\ reg' = [reg EXCEPT !["rdx"] = mem[Frame - 3 * WORD_BYTES]]
        /\ mem' = mem
    BY <1>1, <1>6, <2>1, RunsLocalToReg, StackMoves, Addresses DEF AddAt, GoesOn, Frame
  <2>3. AddAt(5)'
    BY <1>1, <1>6, <2>2 DEF AddAt, Kept, Frame, TypeOK
  <2> QED
    BY <2>2, <2>3
<1>7. CASE i = 5
  <2>1. Runs(Does("mov", Local(-4), Reg("rax")))
    BY <1>1, <1>7, AddListing
  <2>2. /\ rip' = At(6) /\ code' = code /\ status' = status
        /\ reg' = [reg EXCEPT !["rax"] = mem[Frame - 4 * WORD_BYTES]]
        /\ mem' = mem
    BY <1>1, <1>7, <2>1, RunsLocalToReg, StackMoves, Addresses DEF AddAt, GoesOn, Frame
  <2>3. AddAt(6)'
    BY <1>1, <1>7, <2>2 DEF AddAt, Kept, Frame, TypeOK
  <2> QED
    BY <2>2, <2>3
<1>8. CASE i = 6
  <2>1. Runs(Does("add", Reg("rdx"), Reg("rax")))
    BY <1>1, <1>8, AddListing
  <2>2. /\ rip' = At(7) /\ code' = code /\ status' = status
        /\ reg' = [reg EXCEPT !["rax"] = Wrap(reg["rdx"] + reg["rax"])]
        /\ mem' = mem
    BY <1>1, <1>8, <2>1, RunsAdd, StackMoves, Addresses DEF AddAt, GoesOn, Frame
  <2>3. AddAt(7)'
    BY <1>1, <1>8, <2>2 DEF AddAt, Kept, Frame, TypeOK
  <2> QED
    BY <2>2, <2>3
<1>9. CASE i = 7
  <2>1. Runs(Does("mov", Reg("rax"), Local(-1)))
    BY <1>1, <1>9, AddListing
  <2>2. /\ rip' = At(8) /\ code' = code /\ status' = status
        /\ reg' = reg
        /\ mem' = [mem EXCEPT ![Frame - WORD_BYTES] = reg["rax"]]
    BY <1>1, <1>9, <2>1, RunsRegToLocal, StackMoves, Addresses DEF AddAt, GoesOn, Frame
  <2>3. AddAt(8)'
    BY <1>1, <1>9, <2>2 DEF AddAt, Kept, Frame, TypeOK
  <2> QED
    BY <2>2, <2>3
<1>10. CASE i = 8
  <2>1. Runs(Does("mov", Local(-1), Reg("rax")))
    BY <1>1, <1>10, AddListing
  <2>2. /\ rip' = At(9) /\ code' = code /\ status' = status
        /\ reg' = [reg EXCEPT !["rax"] = mem[Frame - WORD_BYTES]]
        /\ mem' = mem
    BY <1>1, <1>10, <2>1, RunsLocalToReg, StackMoves, Addresses DEF AddAt, GoesOn, Frame
  <2>3. AddAt(9)'
    BY <1>1, <1>10, <2>2 DEF AddAt, Kept, Frame, TypeOK
  <2> QED
    BY <2>2, <2>3
<1>11. CASE i = 9
  <2>1. Runs(Does("pop", Reg("rbp"), None))
    BY <1>1, <1>11, AddListing
  <2>2. /\ rip' = At(10) /\ code' = code /\ status' = status
        /\ reg' = [[reg EXCEPT !["rsp"] = Stack - WORD_BYTES] EXCEPT !["rbp"] = mem[Frame]]
        /\ mem' = mem
    BY <1>1, <1>11, <2>1, RunsPop, StackMoves, Addresses DEF AddAt, GoesOn, Frame
  <2>3. AddAt(10)'
    BY <1>1, <1>11, <2>2 DEF AddAt, Kept, Frame, TypeOK
  <2> QED
    BY <2>2, <2>3
<1>12. CASE i = 10
  <2>1. Runs(Does("ret", None, None))
    BY <1>1, <1>12, AddListing
  <2>2. /\ rip' = At(14) /\ code' = code /\ status' = status
        /\ reg' = [reg EXCEPT !["rsp"] = Stack]
        /\ mem' = mem
    BY <1>1, <1>12, <2>1, RunsRet, StackMoves, Addresses DEF AddAt, GoesOn, Frame
  <2>3. AddAt(14)'
    BY <1>1, <1>12, <2>2 DEF AddAt, Kept, Frame, TypeOK
  <2> QED
    BY <2>2, <2>3
<1>13. CASE i = 11
  <2>1. Runs(Does("mov", Reg("rdx"), Reg("rsi")))
    BY <1>1, <1>13, AddListing
  <2>2. /\ rip' = At(12) /\ code' = code /\ status' = status
        /\ reg' = [reg EXCEPT !["rsi"] = reg["rdx"]]
        /\ mem' = mem
    BY <1>1, <1>13, <2>1, RunsRegToReg, StackMoves, Addresses DEF AddAt, GoesOn, Frame
  <2>3. AddAt(12)'
    BY <1>1, <1>13, <2>2 DEF AddAt, Kept, Frame, TypeOK
  <2> QED
    BY <2>2, <2>3
<1>14. CASE i = 12
  <2>1. Runs(Does("mov", Reg("rax"), Reg("rdi")))
    BY <1>1, <1>14, AddListing
  <2>2. /\ rip' = At(13) /\ code' = code /\ status' = status
        /\ reg' = [reg EXCEPT !["rdi"] = reg["rax"]]
        /\ mem' = mem
    BY <1>1, <1>14, <2>1, RunsRegToReg, StackMoves, Addresses DEF AddAt, GoesOn, Frame
  <2>3. AddAt(13)'
    BY <1>1, <1>14, <2>2 DEF AddAt, Kept, Frame, TypeOK
  <2> QED
    BY <2>2, <2>3
<1>15. CASE i = 13
  <2>1. Runs(Does("call", Addr(At(0)), None))
    BY <1>1, <1>15, AddListing
  <2>2. /\ rip' = At(0) /\ code' = code /\ status' = status
        /\ reg' = [reg EXCEPT !["rsp"] = Stack - WORD_BYTES]
        /\ mem' = [mem EXCEPT ![Stack - WORD_BYTES] = At(14)]
    <3>1. At(0) \in Word /\ Wrap(At(13) + MAX_INSTRUCTION_CHAR) = At(14)
      BY Addresses
    <3>2. reg["rsp"] = Stack /\ Below(Stack) = Stack - WORD_BYTES
      BY <1>15, StackMoves DEF AddAt
    <3> QED
      BY <1>15, <2>1, <3>1, <3>2, RunsCall
  <2>3. AddAt(0)'
    BY <1>1, <1>15, <2>2 DEF AddAt, Kept, Frame, TypeOK
  <2> QED
    BY <2>2, <2>3
<1>16. CASE i = 14
  <2>1. Runs(Does("mov", Reg("rax"), Local(-1)))
    BY <1>1, <1>16, AddListing
  <2>2. /\ rip' = At(15) /\ code' = code /\ status' = status
        /\ reg' = reg
        /\ mem' = [mem EXCEPT ![Stack + WORD_BYTES] = reg["rax"]]
    BY <1>1, <1>16, <2>1, RunsRegToLocal, StackMoves, Addresses DEF AddAt, GoesOn, Frame
  <2>3. AddAt(15)'
    BY <1>1, <1>16, <2>2 DEF AddAt, Kept, Frame, TypeOK, BackInMain
  <2> QED
    BY <2>2, <2>3
<1> QED
  BY <1>2, <1>3, <1>4, <1>5, <1>6, <1>7, <1>8, <1>9, <1>10, <1>11, <1>12, <1>13, <1>14, <1>15, <1>16

-----------------------------------------------------------------------------
(* The recursive sum: its listing and its frames *)

\* The sum, instruction by instruction
LEMMA SumListing ==
    ASSUME NEW n
    PROVE  /\ DOMAIN SumProgram(n) = {At(i) : i \in 0 .. 18}
           /\ SumProgram(n)[At(0)] = Does("push", Reg("rbp"), None)
           /\ SumProgram(n)[At(1)] = Does("mov", Reg("rsp"), Reg("rbp"))
           /\ SumProgram(n)[At(2)] = Does("sub", Imm(2 * WORD_BYTES), Reg("rsp"))
           /\ SumProgram(n)[At(3)] = Does("mov", Reg("rdi"), Local(-1))
           /\ SumProgram(n)[At(4)] = Does("cmp", Imm(0), Local(-1))
           /\ SumProgram(n)[At(5)] = Does("jne", Addr(At(8)), None)
           /\ SumProgram(n)[At(6)] = Does("mov", Imm(0), Reg("rax"))
           /\ SumProgram(n)[At(7)] = Does("jmp", Addr(At(14)), None)
           /\ SumProgram(n)[At(8)] = Does("mov", Local(-1), Reg("rax"))
           /\ SumProgram(n)[At(9)] = Does("sub", Imm(1), Reg("rax"))
           /\ SumProgram(n)[At(10)] = Does("mov", Reg("rax"), Reg("rdi"))
           /\ SumProgram(n)[At(11)] = Does("call", Addr(At(0)), None)
           /\ SumProgram(n)[At(12)] = Does("mov", Local(-1), Reg("rdx"))
           /\ SumProgram(n)[At(13)] = Does("add", Reg("rdx"), Reg("rax"))
           /\ SumProgram(n)[At(14)] = Does("leave", None, None)
           /\ SumProgram(n)[At(15)] = Does("ret", None, None)
           /\ SumProgram(n)[At(16)] = Does("mov", Imm(n), Reg("rdi"))
           /\ SumProgram(n)[At(17)] = Does("call", Addr(At(0)), None)
           /\ SumProgram(n)[At(18)] = Does("mov", Reg("rax"), Local(-1))
<1>1. DOMAIN SumCode(n) = 1 .. 19
  BY DEF SumCode
<1>2. /\ SumCode(n)[1] = Does("push", Reg("rbp"), None)
      /\ SumCode(n)[2] = Does("mov", Reg("rsp"), Reg("rbp"))
      /\ SumCode(n)[3] = Does("sub", Imm(2 * WORD_BYTES), Reg("rsp"))
      /\ SumCode(n)[4] = Does("mov", Reg("rdi"), Local(-1))
      /\ SumCode(n)[5] = Does("cmp", Imm(0), Local(-1))
      /\ SumCode(n)[6] = Does("jne", Addr(At(8)), None)
      /\ SumCode(n)[7] = Does("mov", Imm(0), Reg("rax"))
      /\ SumCode(n)[8] = Does("jmp", Addr(At(14)), None)
      /\ SumCode(n)[9] = Does("mov", Local(-1), Reg("rax"))
      /\ SumCode(n)[10] = Does("sub", Imm(1), Reg("rax"))
      /\ SumCode(n)[11] = Does("mov", Reg("rax"), Reg("rdi"))
      /\ SumCode(n)[12] = Does("call", Addr(At(0)), None)
      /\ SumCode(n)[13] = Does("mov", Local(-1), Reg("rdx"))
      /\ SumCode(n)[14] = Does("add", Reg("rdx"), Reg("rax"))
      /\ SumCode(n)[15] = Does("leave", None, None)
      /\ SumCode(n)[16] = Does("ret", None, None)
      /\ SumCode(n)[17] = Does("mov", Imm(n), Reg("rdi"))
      /\ SumCode(n)[18] = Does("call", Addr(At(0)), None)
      /\ SumCode(n)[19] = Does("mov", Reg("rax"), Local(-1))
  BY DEF SumCode
<1>3. /\ DOMAIN SumProgram(n) = {At(i) : i \in 0 .. 18}
      /\ \A i \in 0 .. 18 : SumProgram(n)[At(i)] = SumCode(n)[i + 1]
  <2>1. 19 \in Nat /\ 18 \in Nat /\ 19 = 18 + 1
    OBVIOUS
  <2> QED
    BY <1>1, <2>1, LoadedAt DEF SumProgram
<1> QED
  BY <1>2, <1>3

\* Where the stack ends when call k of the sum is made, and what it finds there in
\* the end: the address to return to, the caller's frame pointer, its argument
Base(k) == Stack - 4 * WORD_BYTES * (k - 1)
Returns(k) == IF k = 1 THEN At(18) ELSE At(12)
HasFrame(n, k) ==
    /\ mem[Base(k) - WORD_BYTES] = Returns(k)
    /\ mem[Base(k) - 2 * WORD_BYTES] = Base(k) + 2 * WORD_BYTES
    /\ mem[Base(k) - 3 * WORD_BYTES] = n + 1 - k
HasFrames(n, k) == \A j \in 1 .. k : HasFrame(n, j)

\* The sum of the numbers up to m
Gauss(m) == Wrap((m * (m + 1)) \div 2)

\* At instruction i of call k of the sum, from 0 to 15, and of main, from 16
SumAt(n, i, k) ==
    /\ i < 19 => Kept
    /\ i \in 0 .. 3 => HasFrames(n, k - 1) /\ mem[Base(k) - WORD_BYTES] = Returns(k)
    /\ i \in 4 .. 15 => HasFrames(n, k)
    /\ i \in 1 .. 3 => mem[Base(k) - 2 * WORD_BYTES] = Base(k) + 2 * WORD_BYTES
    /\ i \in {0, 1, 15} => reg["rbp"] = Base(k) + 2 * WORD_BYTES
    /\ i \in 2 .. 14 => reg["rbp"] = Base(k) - 2 * WORD_BYTES
    /\ i \in {0, 15} => reg["rsp"] = Base(k) - WORD_BYTES
    /\ i \in {1, 2} => reg["rsp"] = Base(k) - 2 * WORD_BYTES
    /\ i \in 3 .. 14 => reg["rsp"] = Base(k) - 4 * WORD_BYTES
    /\ i \in 0 .. 3 => reg["rdi"] = n + 1 - k
    /\ i = 5 => (flags["ZF"] = 1 <=> k = n + 1)
    /\ i \in {6, 7} => k = n + 1
    /\ i \in 8 .. 13 => k <= n
    /\ i = 7 => reg["rax"] = 0
    /\ i = 9 => reg["rax"] = n + 1 - k
    /\ i = 10 => reg["rax"] = n - k
    /\ i = 11 => reg["rdi"] = n - k
    /\ i = 13 => reg["rdx"] = n + 1 - k
    /\ i \in {12, 13} => reg["rax"] = Gauss(n - k)
    /\ i \in {14, 15} => reg["rax"] = Gauss(n + 1 - k)
    /\ i \in 16 .. 19 => reg["rsp"] = Stack /\ reg["rbp"] = Stack + 2 * WORD_BYTES
    /\ i = 17 => reg["rdi"] = n
    /\ i \in {18, 19} => reg["rax"] = Gauss(n)
    /\ i = 19 => BackInMain(Gauss(n))

\* One more number
LEMMA GaussStep == Gauss(0) = 0 /\ \A m \in Nat : Gauss(m + 1) = Wrap(Gauss(m) + (m + 1))
<1>1. Gauss(0) = 0
  <2>1. (0 * (0 + 1)) \div 2 = 0
    OBVIOUS
  <2>2. 0 \in Word
    BY WordAssumption DEF Word
  <2> QED
    BY <2>1, <2>2, WrapWord DEF Gauss
<1>2. ASSUME NEW m \in Nat PROVE Gauss(m + 1) = Wrap(Gauss(m) + (m + 1))
  <2> DEFINE x == m * (m + 1)
  <2>1. x \in Int /\ (m + 1) * ((m + 1) + 1) = x + 2 * (m + 1)
    OBVIOUS
  <2>2. \A y \in Int, z \in Int : (y + 2 * z) \div 2 = y \div 2 + z /\ y \div 2 \in Int
    OBVIOUS
  <2>3. m + 1 \in Int /\ x \div 2 \in Int /\ (x + 2 * (m + 1)) \div 2 = x \div 2 + (m + 1)
    BY <2>1, <2>2
  <2> HIDE DEF x
  <2>4. Gauss(m + 1) = Wrap(x \div 2 + (m + 1))
    BY <2>1, <2>3 DEF Gauss
  <2>5. Wrap(Wrap(x \div 2) + (m + 1)) = Wrap(x \div 2 + (m + 1))
    BY <2>3, WrapAdd
  <2> QED
    BY <2>4, <2>5 DEF Gauss, x
<1> QED
  BY <1>1, <1>2

\* The frames lie apart, and in the stack.
LEMMA Bases ==
    ASSUME NEW n \in Counts, NEW k \in 1 .. n + 1
    PROVE  /\ n \in Word /\ n \in Nat /\ k \in Int
           /\ Base(k) \in Int /\ Base(k) <= Stack /\ Base(k) >= 4 * WORD_BYTES
           /\ Base(1) = Stack
           /\ Base(k + 1) = Base(k) - 4 * WORD_BYTES
           /\ Base(k - 1) = Base(k) + 4 * WORD_BYTES
           /\ k <= n => Base(k) >= 8 * WORD_BYTES
           /\ \A j \in 1 .. k : Base(j) \in Int /\ Base(k) <= Base(j)
           /\ \A j \in 1 .. k - 1 : Base(k) <= Base(j) - 4 * WORD_BYTES
<1> DEFINE w == 4 * WORD_BYTES
<1>1. n \in Word /\ n \in Nat /\ k \in Int /\ w \in Nat /\ w > 0 /\ Stack \in Int /\ w * (n + 1) <= Stack
  <2>1. n \in Word
    BY ProgramAssumption
  <2>2. WORD_BYTES \in Nat \ {0} /\ HALF \in Nat /\ Stack \in Int
    BY WordAssumption, StackWords
  <2>3. n \in Nat
    BY <2>1, <2>2 DEF Word
  <2> QED
    BY <2>1, <2>2, <2>3, RoomAssumption
<1>2. \A j \in Int : Base(j) = Stack - w * (j - 1)
  BY DEF Base
<1> HIDE DEF w
<1>3. \A x \in Int, y \in Int : x <= y => w * x <= w * y /\ w * x \in Int /\ w * y \in Int
  BY <1>1
<1>4. w * 0 = 0 /\ \A x \in Int : w * (x + 1) = w * x + w /\ w * x \in Int
  BY <1>1
<1>5. \A j \in Int : Base(j) \in Int /\ Base(j + 1) = Base(j) - w
  <2> TAKE j \in Int
  <2>1. w * ((j - 1) + 1) = w * (j - 1) + w /\ w * (j - 1) \in Int /\ (j + 1) - 1 = (j - 1) + 1 /\ j + 1 \in Int
    BY <1>4
  <2> QED
    BY <1>1, <1>2, <2>1
<1>6. \A i \in Int, j \in Int : i <= j => Base(j) <= Base(i)
  <2> TAKE i \in Int, j \in Int
  <2>1. i <= j => i - 1 <= j - 1 /\ i - 1 \in Int /\ j - 1 \in Int
    OBVIOUS
  <2> QED
    BY <1>1, <1>2, <1>3, <2>1
<1>7. Base(1) = Stack
  <2>1. 1 - 1 = 0
    OBVIOUS
  <2> QED
    BY <1>1, <1>2, <1>4, <2>1
<1>8. Base(n + 2) >= 0
  <2>1. (n + 2) - 1 = n + 1 /\ n + 2 \in Int /\ w * (n + 1) \in Int
    BY <1>1, <1>4
  <2> QED
    BY <1>1, <1>2, <2>1
<1>9. Base(k + 1) >= 0 /\ Base(k + 1) \in Int /\ (k <= n => Base(k + 2) >= 0 /\ Base(k + 2) \in Int)
  <2>1. k + 1 \in Int /\ k + 2 \in Int /\ n + 2 \in Int /\ k + 1 <= n + 2 /\ (k <= n => k + 2 <= n + 2)
    BY <1>1
  <2>2. Base(n + 2) \in Int /\ Base(k + 1) \in Int /\ Base(k + 2) \in Int
    BY <1>5, <2>1
  <2>3. Base(n + 2) <= Base(k + 1) /\ (k <= n => Base(n + 2) <= Base(k + 2))
    BY <1>6, <2>1
  <2> QED
    BY <1>8, <2>2, <2>3
<1>10. Base(k + 1) = Base(k) - w /\ Base(k) = Base(k - 1) - w /\ Base(k - 1) \in Int /\ Base(k) \in Int
       /\ Base(k + 2) = Base(k + 1) - w
  <2>1. (k - 1) + 1 = k /\ (k + 1) + 1 = k + 2 /\ k - 1 \in Int /\ k + 1 \in Int
    BY <1>1
  <2> QED
    BY <1>1, <1>5, <2>1
<1>11. \A j \in 1 .. k : Base(j) \in Int /\ Base(k) <= Base(j)
  BY <1>1, <1>5, <1>6
<1>12. \A j \in 1 .. k - 1 : Base(k) <= Base(j) - w
  <2> TAKE j \in 1 .. k - 1
  <2>1. j \in Int /\ k - 1 \in Int /\ j <= k - 1
    BY <1>1
  <2> QED
    BY <1>5, <1>6, <1>10, <2>1
<1>13. Base(k) <= Stack
  BY <1>1, <1>7, <1>11
<1>14. 4 * WORD_BYTES = w /\ 8 * WORD_BYTES = w + w
  BY WordAssumption DEF w
<1>15. Base(k) >= w /\ Base(k - 1) = Base(k) + w
  BY <1>1, <1>9, <1>10
<1>16. k <= n => Base(k) >= w + w
  BY <1>1, <1>9, <1>10
<1> QED
  BY <1>1, <1>7, <1>10, <1>11, <1>12, <1>13, <1>14, <1>15, <1>16

\* What is written below the frames does not change them.
LEMMA FramesKept ==
    ASSUME NEW n \in Counts, NEW k \in 0 .. n + 1, HasFrames(n, k), mem \in [Word -> Word],
           NEW a \in Word, a <= Base(k + 1), NEW v, mem' = [mem EXCEPT ![a] = v]
    PROVE  HasFrames(n, k)'
<1> SUFFICES ASSUME NEW j \in 1 .. k PROVE HasFrame(n, j)'
  BY DEF HasFrames
<1>1. n \in Nat /\ k \in 1 .. n + 1 /\ j \in 1 .. n + 1
  BY ProgramAssumption, WordAssumption DEF Word
<1>2. Base(k + 1) <= Base(j) - 4 * WORD_BYTES /\ Base(j) \in Int /\ Base(j) >= 4 * WORD_BYTES /\ Base(j) <= Stack
      /\ Base(k + 1) \in Int
  BY <1>1, Bases, StackWords
<1>3. /\ Base(j) - WORD_BYTES \in Word /\ Base(j) - WORD_BYTES # a
      /\ Base(j) - 2 * WORD_BYTES \in Word /\ Base(j) - 2 * WORD_BYTES # a
      /\ Base(j) - 3 * WORD_BYTES \in Word /\ Base(j) - 3 * WORD_BYTES # a
  <2>1. ASSUME NEW b \in Int, b >= 4 * WORD_BYTES, b <= Stack, a <= b - 4 * WORD_BYTES
        PROVE  /\ b - WORD_BYTES \in Word /\ b - WORD_BYTES # a
               /\ b - 2 * WORD_BYTES \in Word /\ b - 2 * WORD_BYTES # a
               /\ b - 3 * WORD_BYTES \in Word /\ b - 3 * WORD_BYTES # a
    BY <2>1, RoomAssumption, WordAssumption, ProgramAssumption DEF Word
  <2>2. a \in Int /\ a <= Base(j) - 4 * WORD_BYTES
    BY <1>2, StackWords
  <2> QED
    BY <1>2, <2>1, <2>2
<1>4. HasFrame(n, j)
  BY DEF HasFrames
<1> QED
  BY <1>3, <1>4 DEF HasFrame

-----------------------------------------------------------------------------
(* The recursive sum: its steps *)

\* The words of a call of the sum, and where the stack pointer moves to
LEMMA SumWords ==
    ASSUME NEW n \in Counts, NEW k \in 1 .. n + 1
    PROVE  /\ Base(k) - WORD_BYTES \in Word /\ Base(k) - 2 * WORD_BYTES \in Word
           /\ Base(k) - 3 * WORD_BYTES \in Word /\ Base(k) - 4 * WORD_BYTES \in Word
           /\ Base(k) + 2 * WORD_BYTES \in Word
           /\ Below(Base(k) - WORD_BYTES) = Base(k) - 2 * WORD_BYTES
           /\ Above(Base(k) - 2 * WORD_BYTES) = Base(k) - WORD_BYTES
           /\ Above(Base(k) - WORD_BYTES) = Base(k)
           /\ Wrap((Base(k) - 2 * WORD_BYTES) - 2 * WORD_BYTES) = Base(k) - 4 * WORD_BYTES
           /\ n + 1 - k \in Word /\ 2 * WORD_BYTES \in Word /\ 0 \in Word /\ 1 \in Word
           /\ k <= n => /\ Base(k) - 5 * WORD_BYTES \in Word
                        /\ Below(Base(k) - 4 * WORD_BYTES) = Base(k) - 5 * WORD_BYTES
                        /\ n - k \in Word /\ Wrap((n + 1 - k) - 1) = n - k
<1> DEFINE b == Base(k)
<1>1. /\ b \in Int /\ b <= Stack /\ b >= 4 * WORD_BYTES /\ (k <= n => b >= 8 * WORD_BYTES)
      /\ n \in Word /\ n \in Nat
  BY Bases
<1> HIDE DEF b
<1>2. /\ Stack \in Int /\ WORD_BYTES \in Nat /\ WORD_BYTES > 0 /\ HALF \in Nat /\ HALF > 0
      /\ Stack + 2 * WORD_BYTES < 2 * HALF
  BY RoomAssumption, WordAssumption, StackWords
<1>3. /\ b - WORD_BYTES \in Word /\ b - 2 * WORD_BYTES \in Word
      /\ b - 3 * WORD_BYTES \in Word /\ b - 4 * WORD_BYTES \in Word
      /\ b \in Word /\ b + 2 * WORD_BYTES \in Word
  BY <1>1, <1>2 DEF Word
<1>4. /\ (b - WORD_BYTES) - WORD_BYTES = b - 2 * WORD_BYTES
      /\ (b - 2 * WORD_BYTES) + WORD_BYTES = b - WORD_BYTES
      /\ (b - WORD_BYTES) + WORD_BYTES = b
      /\ (b - 2 * WORD_BYTES) - 2 * WORD_BYTES = b - 4 * WORD_BYTES
      /\ (b - 4 * WORD_BYTES) - WORD_BYTES = b - 5 * WORD_BYTES
  BY <1>1, <1>2
<1>5. n + 1 - k \in Word /\ 2 * WORD_BYTES \in Word /\ 0 \in Word /\ 1 \in Word
  BY <1>1, <1>2 DEF Word
<1>6. k <= n => /\ b - 5 * WORD_BYTES \in Word /\ n - k \in Word /\ (n + 1 - k) - 1 = n - k
  BY <1>1, <1>2 DEF Word
<1> QED
  BY <1>3, <1>4, <1>5, <1>6, WrapWord DEF Below, Above, b

\* Every instruction leads from what is so at its address to what is so at the next,
\* in this call, the one it makes, or the one it returns to.
LEMMA SumStep ==
    ASSUME NEW n \in Counts, IInv, instruction_cycle, status = "running", code = SumProgram(n),
           NEW i \in 0 .. 18, NEW k \in 1 .. n + 1, rip = At(i), SumAt(n, i, k)
    PROVE  /\ code' = code /\ status' = status
           /\ \E j \in 0 .. 19, l \in 1 .. n + 1 : rip' = At(j) /\ SumAt(n, j, l)'
<1> USE StackWords, Bases, SumWords
<1>1. /\ TypeOK /\ Fetched
      /\ \A l : code[rip] = l => Runs(l)
  <2>1. rip \in DOMAIN code
    BY SumListing
  <2> QED
    BY <2>1 DEF Runs, Fetched, IInv
<1>2. mem' = mem => /\ Kept => Kept'
                     /\ \A j : HasFrames(n, j) => HasFrames(n, j)'
  BY DEF Kept, HasFrames, HasFrame
<1>3. ASSUME NEW a \in Word, a < Stack, NEW v, mem' = [mem EXCEPT ![a] = v] PROVE Kept => Kept'
  BY <1>1, <1>3 DEF Kept, TypeOK
<1>4. CASE i = 0
  <2>1. Runs(Does("push", Reg("rbp"), None))
    BY <1>1, <1>4, SumListing
  <2>2. /\ rip' = At(1) /\ code' = code /\ status' = status
        /\ reg' = [reg EXCEPT !["rsp"] = Base(k) - 2 * WORD_BYTES]
        /\ mem' = [mem EXCEPT ![Base(k) - 2 * WORD_BYTES] = reg["rbp"]]
    BY <1>1, <1>4, <2>1, RunsPush, Addresses DEF SumAt, GoesOn
  <2>3. HasFrames(n, k - 1)' /\ Kept'
    <3> DEFINE m == k - 1
               a == Base(k) - 2 * WORD_BYTES
    <3>1. m \in 0 .. n + 1 /\ m + 1 = k
      OBVIOUS
    <3>2. a <= Base(k) /\ a < Stack /\ a \in Word
      OBVIOUS
    <3>3. HasFrames(n, m) /\ Kept
      BY <1>4 DEF SumAt
    <3>4. mem \in [Word -> Word] /\ \E v : mem' = [mem EXCEPT ![a] = v]
      BY <1>1, <2>2 DEF TypeOK
    <3> HIDE DEF m, a
    <3>5. HasFrames(n, m)'
      BY <3>1, <3>2, <3>3, <3>4, FramesKept
    <3>6. Kept'
      BY <1>3, <3>2, <3>3, <3>4
    <3> QED
      BY <3>5, <3>6 DEF m
  <2>4. SumAt(n, 1, k)'
    BY <1>1, <1>4, <1>2, <1>3, <2>2, <2>3 DEF SumAt, TypeOK
  <2> QED
    BY <2>2, <2>4
<1>5. CASE i = 1
  <2>1. Runs(Does("mov", Reg("rsp"), Reg("rbp")))
    BY <1>1, <1>5, SumListing
  <2>2. /\ rip' = At(2) /\ code' = code /\ status' = status
        /\ reg' = [reg EXCEPT !["rbp"] = reg["rsp"]]
        /\ mem' = mem
    BY <1>1, <1>5, <2>1, RunsRegToReg, Addresses DEF SumAt, GoesOn
  <2>3. SumAt(n, 2, k)'
    BY <1>1, <1>5, <1>2, <1>3, <2>2 DEF SumAt, TypeOK
  <2> QED
    BY <2>2, <2>3
<1>6. CASE i = 2
  <2>1. Runs(Does("sub", Imm(2 * WORD_BYTES), Reg("rsp")))
    BY <1>1, <1>6, SumListing
  <2>2. /\ rip' = At(3) /\ code' = code /\ status' = status
        /\ reg' = [reg EXCEPT !["rsp"] = Base(k) - 4 * WORD_BYTES]
        /\ mem' = mem
    BY <1>1, <1>6, <2>1, RunsSub, Addresses DEF SumAt, GoesOn
  <2>3. SumAt(n, 3, k)'
    BY <1>1, <1>6, <1>2, <1>3, <2>2 DEF SumAt, TypeOK
  <2> QED
    BY <2>2, <2>3
<1>7. CASE i = 3
  <2>1. Runs(Does("mov", Reg("rdi"), Local(-1)))
    BY <1>1, <1>7, SumListing
  <2>2. /\ rip' = At(4) /\ code' = code /\ status' = status
        /\ reg' = reg
        /\ mem' = [mem EXCEPT ![Base(k) - 3 * WORD_BYTES] = reg["rdi"]]
    BY <1>1, <1>7, <2>1, RunsRegToLocal, Addresses DEF SumAt, GoesOn
  <2>3. HasFrames(n, k - 1)' /\ Kept'
    <3> DEFINE m == k - 1
               a == Base(k) - 3 * WORD_BYTES
    <3>1. m \in 0 .. n + 1 /\ m + 1 = k
      OBVIOUS
    <3>2. a <= Base(k) /\ a < Stack /\ a \in Word
      OBVIOUS
    <3>3. HasFrames(n, m) /\ Kept
      BY <1>7 DEF SumAt
    <3>4. mem \in [Word -> Word] /\ \E v : mem' = [mem EXCEPT ![a] = v]
      BY <1>1, <2>2 DEF TypeOK
    <3> HIDE DEF m, a
    <3>5. HasFrames(n, m)'
      BY <3>1, <3>2, <3>3, <3>4, FramesKept
    <3>6. Kept'
      BY <1>3, <3>2, <3>3, <3>4
    <3> QED
      BY <3>5, <3>6 DEF m
  <2>4. HasFrame(n, k)'
    BY <1>1, <1>7, <2>2 DEF SumAt, HasFrame, TypeOK
  <2>5. HasFrames(n, k)'
    BY <2>3, <2>4 DEF HasFrames
  <2>6. SumAt(n, 4, k)'
    BY <1>1, <1>7, <1>2, <1>3, <2>2, <2>3, <2>5 DEF SumAt, TypeOK
  <2> QED
    BY <2>2, <2>6
<1>8. CASE i = 4
  <2>1. Runs(Does("cmp", Imm(0), Local(-1)))
    BY <1>1, <1>8, SumListing
  <2>2. /\ rip' = At(5) /\ code' = code /\ status' = status
        /\ reg' = reg
        /\ mem' = mem
        /\ flags'["ZF"] = 1 <=> mem[Base(k) - 3 * WORD_BYTES] = 0
    BY <1>1, <1>8, <2>1, RunsCmp, Addresses DEF SumAt, GoesOn
  <2>3. HasFrame(n, k)
    BY <1>8 DEF SumAt, HasFrames
  <2>4. SumAt(n, 5, k)'
    BY <1>1, <1>8, <1>2, <1>3, <2>2, <2>3 DEF SumAt, TypeOK, HasFrame
  <2> QED
    BY <2>2, <2>4
<1>9. CASE i = 5
  <2>1. Runs(Does("jne", Addr(At(8)), None))
    BY <1>1, <1>9, SumListing
  <2>2. /\ code' = code /\ status' = status /\ reg' = reg /\ mem' = mem
        /\ flags["ZF"] = 1 => rip' = At(6)
        /\ flags["ZF"] # 1 => rip' = At(8)
    <3>1. At(8) \in Word /\ Wrap(At(5) + MAX_INSTRUCTION_CHAR) = At(6)
      BY Addresses
    <3> QED
      BY <1>9, <2>1, <3>1, RunsJne
  <2>3. CASE k = n + 1
    <3>1. rip' = At(6)
      BY <1>9, <2>2, <2>3 DEF SumAt
    <3>2. SumAt(n, 6, k)'
      BY <1>1, <1>9, <1>2, <2>2, <2>3 DEF SumAt
    <3> QED
      BY <2>2, <3>1, <3>2
  <2>4. CASE k # n + 1
    <3>1. rip' = At(8)
      BY <1>9, <2>2, <2>4 DEF SumAt
    <3>2. SumAt(n, 8, k)'
      BY <1>1, <1>9, <1>2, <2>2, <2>4 DEF SumAt
    <3> QED
      BY <2>2, <3>1, <3>2
  <2> QED
    BY <2>3, <2>4
<1>10. CASE i = 6
  <2>1. Runs(Does("mov", Imm(0), Reg("rax")))
    BY <1>1, <1>10, SumListing
  <2>2. /\ rip' = At(7) /\ code' = code /\ status' = status
        /\ reg' = [reg EXCEPT !["rax"] = 0]
        /\ mem' = mem
    BY <1>1, <1>10, <2>1, RunsImmToReg, Addresses DEF SumAt, GoesOn
  <2>3. SumAt(n, 7, k)'
    BY <1>1, <1>10, <1>2, <1>3, <2>2 DEF SumAt, TypeOK
  <2> QED
    BY <2>2, <2>3
<1>11. CASE i = 7
  <2>1. Runs(Does("jmp", Addr(At(14)), None))
    BY <1>1, <1>11, SumListing
  <2>2. /\ rip' = At(14) /\ code' = code /\ status' = status
        /\ reg' = reg
        /\ mem' = mem
    <3>1. At(14) \in Word
      BY Addresses
    <3>2. reg["rsp"] = Base(k) - 4 * WORD_BYTES
      BY <1>11 DEF SumAt
    <3> QED
      BY <1>11, <2>1, <3>1, <3>2, RunsJmp
  <2>3. Gauss(n + 1 - k) = 0
    <3>1. n + 1 - k = 0
      BY <1>11 DEF SumAt
    <3> QED
      BY <3>1, GaussStep
  <2>4. SumAt(n, 14, k)'
    BY <1>1, <1>11, <1>2, <1>3, <2>2, <2>3 DEF SumAt, TypeOK
  <2> QED
    BY <2>2, <2>4
<1>12. CASE i = 8
  <2>1. Runs(Does("mov", Local(-1), Reg("rax")))
    BY <1>1, <1>12, SumListing
  <2>2. /\ rip' = At(9) /\ code' = code /\ status' = status
        /\ reg' = [reg EXCEPT !["rax"] = mem[Base(k) - 3 * WORD_BYTES]]
        /\ mem' = mem
    BY <1>1, <1>12, <2>1, RunsLocalToReg, Addresses DEF SumAt, GoesOn
  <2>3. HasFrame(n, k)
    BY <1>12 DEF SumAt, HasFrames
  <2>4. SumAt(n, 9, k)'
    BY <1>1, <1>12, <1>2, <1>3, <2>2, <2>3 DEF SumAt, TypeOK, HasFrame
  <2> QED
    BY <2>2, <2>4
<1>13. CASE i = 9
  <2>1. Runs(Does("sub", Imm(1), Reg("rax")))
    BY <1>1, <1>13, SumListing
  <2>2. /\ rip' = At(10) /\ code' = code /\ status' = status
        /\ reg' = [reg EXCEPT !["rax"] = n - k]
        /\ mem' = mem
    BY <1>1, <1>13, <2>1, RunsSub, Addresses DEF SumAt, GoesOn
  <2>3. SumAt(n, 10, k)'
    BY <1>1, <1>13, <1>2, <1>3, <2>2 DEF SumAt, TypeOK
  <2> QED
    BY <2>2, <2>3
<1>14. CASE i = 10
  <2>1. Runs(Does("mov", Reg("rax"), Reg("rdi")))
    BY <1>1, <1>14, SumListing
  <2>2. /\ rip' = At(11) /\ code' = code /\ status' = status
        /\ reg' = [reg EXCEPT !["rdi"] = reg["rax"]]
        /\ mem' = mem
    BY <1>1, <1>14, <2>1, RunsRegToReg, Addresses DEF SumAt, GoesOn
  <2>3. SumAt(n, 11, k)'
    BY <1>1, <1>14, <1>2, <1>3, <2>2 DEF SumAt, TypeOK
  <2> QED
    BY <2>2, <2>3
<1>15. CASE i = 11
  <2>1. Runs(Does("call", Addr(At(0)), None))
    BY <1>1, <1>15, SumListing
  <2>2. /\ rip' = At(0) /\ code' = code /\ status' = status
        /\ reg' = [reg EXCEPT !["rsp"] = Base(k) - 5 * WORD_BYTES]
        /\ mem' = [mem EXCEPT ![Base(k) - 5 * WORD_BYTES] = At(12)]
    <3>1. Below(Base(k) - 4 * WORD_BYTES) = Base(k) - 5 * WORD_BYTES
      BY <1>15 DEF SumAt
    <3>2. At(0) \in Word /\ Wrap(At(11) + MAX_INSTRUCTION_CHAR) = At(12)
      BY Addresses
    <3>3. reg["rsp"] = Base(k) - 4 * WORD_BYTES
      BY <1>15 DEF SumAt
    <3> QED
      BY <1>15, <2>1, <3>1, <3>2, <3>3, RunsCall
  <2>3. /\ k + 1 \in 1 .. n + 1 /\ (k + 1) - 1 = k /\ Base(k + 1) = Base(k) - 4 * WORD_BYTES
        /\ Returns(k + 1) = At(12) /\ n + 1 - (k + 1) = n - k
    BY <1>15 DEF SumAt, Returns
  <2>4. HasFrames(n, k)' /\ Kept'
    <3>1. k \in 0 .. n + 1 /\ Base(k) - 5 * WORD_BYTES <= Base(k + 1) /\ Base(k) - 5 * WORD_BYTES < Stack
          /\ Base(k) - 5 * WORD_BYTES \in Word
      BY <1>15, <2>3 DEF SumAt
    <3>2. HasFrames(n, k) /\ Kept /\ mem \in [Word -> Word]
      BY <1>1, <1>15 DEF SumAt, TypeOK
    <3>3. HasFrames(n, k)'
      BY <2>2, <3>1, <3>2, FramesKept
    <3> QED
      BY <1>3, <2>2, <3>1, <3>2, <3>3
  <2>5. SumAt(n, 0, k + 1)'
    BY <1>1, <1>15, <1>2, <1>3, <2>2, <2>3, <2>4 DEF SumAt, TypeOK
  <2> QED
    BY <2>2, <2>3, <2>5
<1>16. CASE i = 12
  <2>1. Runs(Does("mov", Local(-1), Reg("rdx")))
    BY <1>1, <1>16, SumListing
  <2>2. /\ rip' = At(13) /\ code' = code /\ status' = status
        /\ reg' = [reg EXCEPT !["rdx"] = mem[Base(k) - 3 * WORD_BYTES]]
        /\ mem' = mem
    BY <1>1, <1>16, <2>1, RunsLocalToReg, Addresses DEF SumAt, GoesOn
  <2>3. HasFrame(n, k)
    BY <1>16 DEF SumAt, HasFrames
  <2>4. SumAt(n, 13, k)'
    BY <1>1, <1>16, <1>2, <1>3, <2>2, <2>3 DEF SumAt, TypeOK, HasFrame
  <2> QED
    BY <2>2, <2>4
<1>17. CASE i = 13
  <2>1. Runs(Does("add", Reg("rdx"), Reg("rax")))
    BY <1>1, <1>17, SumListing
  <2>2. /\ rip' = At(14) /\ code' = code /\ status' = status
        /\ reg' = [reg EXCEPT !["rax"] = Wrap(reg["rdx"] + reg["rax"])]
        /\ mem' = mem
    BY <1>1, <1>17, <2>1, RunsAdd, Addresses DEF SumAt, GoesOn
  <2>3. Wrap((n + 1 - k) + Gauss(n - k)) = Gauss(n + 1 - k)
    <3>1. n - k \in Nat /\ (n - k) + 1 = n + 1 - k
      BY <1>17 DEF SumAt
    <3>2. Gauss(n - k) \in Int
      BY <1>1, <1>17 DEF SumAt, TypeOK
    <3> QED
      BY <3>1, <3>2, GaussStep
  <2>4. SumAt(n, 14, k)'
    BY <1>1, <1>17, <1>2, <1>3, <2>2, <2>3 DEF SumAt, TypeOK
  <2> QED
    BY <2>2, <2>4
<1>18. CASE i = 14
  <2>1. Runs(Does("leave", None, None))
    BY <1>1, <1>18, SumListing
  <2>2. /\ rip' = At(15) /\ code' = code /\ status' = status
        /\ reg' = [reg EXCEPT !["rsp"] = Base(k) - WORD_BYTES, !["rbp"] = mem[Base(k) - 2 * WORD_BYTES]]
        /\ mem' = mem
    BY <1>1, <1>18, <2>1, RunsLeave, Addresses DEF SumAt, GoesOn, HasFrames, HasFrame
  <2>3. HasFrame(n, k)
    BY <1>18 DEF SumAt, HasFrames
  <2>4. SumAt(n, 15, k)'
    BY <1>1, <1>18, <1>2, <1>3, <2>2, <2>3 DEF SumAt, TypeOK, HasFrame
  <2> QED
    BY <2>2, <2>4
<1>19. CASE i = 15
  <2>1. Runs(Does("ret", None, None))
    BY <1>1, <1>19, SumListing
  <2>2. HasFrame(n, k)
    BY <1>19 DEF SumAt, HasFrames
  <2>3. /\ code' = code /\ status' = status /\ rip' = Returns(k)
        /\ reg' = [reg EXCEPT !["rsp"] = Base(k)]
        /\ mem' = mem
    BY <1>1, <1>19, <2>1, <2>2, RunsRet DEF SumAt, HasFrame
  <2>4. CASE k = 1
    <3>1. rip' = At(18) /\ reg'["rsp"] = Stack
      BY <1>1, <2>3, <2>4 DEF Returns, TypeOK
    <3>2. SumAt(n, 18, k)'
      BY <1>1, <1>19, <1>2, <2>3, <2>4, <3>1 DEF SumAt, TypeOK
    <3> QED
      BY <2>3, <3>1, <3>2
  <2>5. CASE k # 1
    <3>1. rip' = At(12) /\ k - 1 \in 1 .. n + 1 /\ k - 1 <= n
      BY <2>3, <2>5 DEF Returns
    <3>2. HasFrames(n, k - 1)'
      BY <1>19, <1>2, <2>3 DEF SumAt, HasFrames, HasFrame
    <3>3. SumAt(n, 12, k - 1)'
      <4>1. n - (k - 1) = n + 1 - k /\ Base(k - 1) = Base(k) + 4 * WORD_BYTES
        BY Bases
      <4> QED
        BY <1>1, <1>19, <1>2, <2>3, <3>1, <3>2, <4>1 DEF SumAt, TypeOK
    <3> QED
      BY <2>3, <3>1, <3>3
  <2> QED
    BY <2>4, <2>5
<1>20. CASE i = 16
  <2>1. Runs(Does("mov", Imm(n), Reg("rdi")))
    BY <1>1, <1>20, SumListing
  <2>2. /\ rip' = At(17) /\ code' = code /\ status' = status
        /\ reg' = [reg EXCEPT !["rdi"] = n]
        /\ mem' = mem
    BY <1>1, <1>20, <2>1, RunsImmToReg, Addresses DEF SumAt, GoesOn
  <2>3. SumAt(n, 17, k)'
    BY <1>1, <1>20, <1>2, <1>3, <2>2 DEF SumAt, TypeOK
  <2> QED
    BY <2>2, <2>3
<1>21. CASE i = 17
  <2>1. Runs(Does("call", Addr(At(0)), None))
    BY <1>1, <1>21, SumListing
  <2>2. /\ rip' = At(0) /\ code' = code /\ status' = status
        /\ reg' = [reg EXCEPT !["rsp"] = Stack - WORD_BYTES]
        /\ mem' = [mem EXCEPT ![Stack - WORD_BYTES] = At(18)]
    <3>1. At(0) \in Word /\ Wrap(At(17) + MAX_INSTRUCTION_CHAR) = At(18)
      BY Addresses
    <3>2. reg["rsp"] = Stack
      BY <1>21 DEF SumAt
    <3> QED
      BY <1>21, <2>1, <3>1, <3>2, RunsCall, StackMoves
  <2>3. /\ 1 \in 1 .. n + 1 /\ 1 - 1 = 0 /\ Base(1) = Stack /\ Returns(1) = At(18) /\ n + 1 - 1 = n
        /\ HasFrames(n, 0)' /\ Kept'
    <3>1. 1 \in 1 .. n + 1 /\ 1 - 1 = 0 /\ Base(1) = Stack /\ Returns(1) = At(18) /\ n + 1 - 1 = n
      BY DEF Returns
    <3>2. HasFrames(n, 0)'
      BY DEF HasFrames
    <3>3. Kept'
      <4>1. Kept /\ Stack - WORD_BYTES \in Word /\ Stack - WORD_BYTES < Stack
        BY <1>21 DEF SumAt
      <4> QED
        BY <1>3, <2>2, <4>1
    <3> QED
      BY <3>1, <3>2, <3>3
  <2>4. SumAt(n, 0, 1)'
    BY <1>1, <1>21, <1>2, <1>3, <2>2, <2>3 DEF SumAt, TypeOK
  <2> QED
    BY <2>2, <2>3, <2>4
<1>22. CASE i = 18
  <2>1. Runs(Does("mov", Reg("rax"), Local(-1)))
    BY <1>1, <1>22, SumListing
  <2>2. /\ rip' = At(19) /\ code' = code /\ status' = status
        /\ reg' = reg
        /\ mem' = [mem EXCEPT ![Stack + WORD_BYTES] = reg["rax"]]
    BY <1>1, <1>22, <2>1, RunsRegToLocal, Addresses DEF SumAt, GoesOn
  <2>3. SumAt(n, 19, k)'
    BY <1>1, <1>22, <1>2, <1>3, <2>2 DEF SumAt, TypeOK, BackInMain, Kept
  <2> QED
    BY <2>2, <2>3
<1> QED
  BY <1>4, <1>5, <1>6, <1>7, <1>8, <1>9, <1>10, <1>11, <1>12, <1>13, <1>14, <1>15, <1>16, <1>17, <1>18, <1>19, <1>20, <1>21, <1>22

-----------------------------------------------------------------------------
(* Both programs *)

\* A run of either program is at one of its instructions, or behind the last.
Adding == code = AddProgram /\ \E i \in 0 .. 15 : rip = At(i) /\ AddAt(i)
Summing(n) ==
    code = SumProgram(n) /\ \E i \in 0 .. 19, k \in 1 .. n + 1 : rip = At(i) /\ SumAt(n, i, k)

\* The inductive invariant of the programs.
Computing ==
    /\ listing = AddProgram => Adding
    /\ \A n \in Counts : listing = SumProgram(n) => Summing(n)

\* The processor with a program's text and meaning is the processor.
LEMMA AsmIsSpec == AsmSpec => Spec
<1>1. AsmInit => Init
  BY DEF AsmInit, Init
<1>2. [instruction_cycle /\ UNCHANGED <<text, listing>>]_asmVars => [instruction_cycle]_vars
  BY DEF asmVars
<1> QED
  BY <1>1, <1>2, PTL DEF AsmSpec, Spec

\* Where nothing is fetched nothing more is done.
LEMMA Halts ==
    ASSUME instruction_cycle, ~Fetched
    PROVE  UNCHANGED <<code, rip, reg, flags, mem>>
<1>1. \A op : ~Executes(op)
  BY DEF Executes
<1>2. ~NullPointer /\ ~NoCase
  BY DEF NullPointer, NoCase
<1>3. ParseError
  BY <1>1, <1>2 DEF instruction_cycle, mov_handler, push_handler, pop_handler, leave_handler, call_handler,
                    ret_handler, add_handler, sub_handler, cmp_handler, jne_handler, jmp_handler
<1> QED
  BY <1>3 DEF ParseError

\* A program whose text is decoded to what its author means is its listing.
LEMMA CodeIsListing ==
    ASSUME NEW program, program = [a \in DOMAIN program |-> program[a]], NEW i, NEW registers,
           NEW b, b = BootAt(program, TestStyle, i, registers),
           Boot(b), text = b.text, listing = b.listing, ParsedAsWritten
    PROVE  code = program /\ listing = program /\ rip = At(i) /\ reg = registers /\ mem = Untouched
<1> DEFINE t == [a \in DOMAIN program |-> InstructionText(program[a], TestStyle)]
<1>1. /\ text = t /\ code = Assemble(t)
      /\ listing = program /\ rip = At(i) /\ reg = registers /\ mem = Untouched
  BY DEF Boot, BootAt
<1>2. \A a \in DOMAIN program : text[a] = InstructionText(program[a], TestStyle)
  BY <1>1
<1>3. \A a \in DOMAIN program : a \in DOMAIN code /\ code[a] = program[a]
  BY <1>1, <1>2, BootsAssumption DEF ParsedAsWritten
<1>4. DOMAIN t = DOMAIN program
  OBVIOUS
<1> HIDE DEF t
<1>5. /\ DOMAIN code \subseteq DOMAIN program
      /\ code = [a \in DOMAIN code |-> code[a]]
  BY <1>1, <1>4 DEF Assemble
<1> QED
  BY <1>1, <1>3, <1>5

\* Where the two programs start.
LEMMA AsmInitComputes == AsmInit /\ ParsedAsWritten => Computing
<1> SUFFICES ASSUME AsmInit, ParsedAsWritten PROVE Computing
  OBVIOUS
<1> USE StackWords
<1>1. PICK b \in Boots : Boot(b) /\ text = b.text /\ listing = b.listing
  BY DEF AsmInit
<1>2. ASSUME listing = AddProgram PROVE Adding
  <2>1. b \in AddBoots
    BY <1>1, <1>2, BootsAssumption
  <2>2. PICK x \in Summands, y \in Summands : b = AddBoot(x, y)
    BY <2>1 DEF AddBoots
  <2>3. AddProgram = [a \in DOMAIN AddProgram |-> AddProgram[a]]
    BY DEF AddProgram, Loaded
  <2>4. /\ code = AddProgram /\ rip = At(11) /\ mem = Untouched
        /\ reg = [Idle EXCEPT !["rdx"] = x, !["rax"] = y]
    BY <1>1, <2>2, <2>3, CodeIsListing DEF AddBoot
  <2>5. reg["rsp"] = Stack /\ reg["rbp"] = Stack + 2 * WORD_BYTES
    BY <2>4 DEF Idle
  <2>6. AddAt(11)
    BY <2>4, <2>5 DEF AddAt, Kept
  <2> QED
    BY <2>4, <2>6 DEF Adding
<1>3. ASSUME NEW n \in Counts, listing = SumProgram(n) PROVE Summing(n)
  <2>1. b \in SumBoots
    BY <1>1, <1>3, BootsAssumption
  <2>2. PICK m \in Counts : b = SumBoot(m)
    BY <2>1 DEF SumBoots
  <2>3. SumProgram(m) = [a \in DOMAIN SumProgram(m) |-> SumProgram(m)[a]]
    BY DEF SumProgram, Loaded
  <2>4. code = SumProgram(m) /\ listing = SumProgram(m) /\ rip = At(16) /\ reg = Idle /\ mem = Untouched
    BY <1>1, <2>2, <2>3, CodeIsListing DEF SumBoot
  <2>5. reg["rsp"] = Stack /\ reg["rbp"] = Stack + 2 * WORD_BYTES
    BY <2>4 DEF Idle
  <2>6. SumAt(n, 16, 1)
    BY <2>4, <2>5 DEF SumAt, Kept
  <2>7. 1 \in 1 .. n + 1
    BY ProgramAssumption, WordAssumption DEF Word
  <2> QED
    BY <1>3, <2>4, <2>6, <2>7 DEF Summing
<1> QED
  BY <1>2, <1>3 DEF Computing

\* What is so at an instruction depends on registers, flags and memory only.
LEMMA NothingChanges ==
    ASSUME UNCHANGED <<code, rip, reg, flags, mem>>
    PROVE  (Adding => Adding') /\ \A n : Summing(n) => Summing(n)'
<1>1. \A i : AddAt(i) => AddAt(i)'
  BY DEF AddAt, Kept, BackInMain
<1>2. \A n, i, k : SumAt(n, i, k) => SumAt(n, i, k)'
  BY DEF SumAt, Kept, HasFrames, HasFrame, BackInMain
<1>3. Adding => Adding'
  BY <1>1 DEF Adding
<1>4. ASSUME NEW n, Summing(n) PROVE Summing(n)'
  BY <1>2, <1>4 DEF Summing
<1> QED
  BY <1>3, <1>4

\* Every step of the processor keeps to the programs.
LEMMA StepComputes ==
    ASSUME IInv, Computing, [instruction_cycle /\ UNCHANGED <<text, listing>>]_asmVars
    PROVE  Computing'
<1>1. UNCHANGED listing
  BY DEF asmVars
<1>2. CASE UNCHANGED <<code, rip, reg, flags, mem>>
  BY <1>1, <1>2, NothingChanges DEF Computing
<1>3. CASE ~UNCHANGED <<code, rip, reg, flags, mem>>
  <2>1. instruction_cycle /\ Fetched
    BY <1>3, Halts DEF asmVars, vars
  <2>2. status = "running" /\ rip \in DOMAIN code
    BY <2>1 DEF Fetched
  <2>3. ASSUME Adding PROVE Adding'
    <3>1. PICK i \in 0 .. 15 : code = AddProgram /\ rip = At(i) /\ AddAt(i)
      BY <2>3 DEF Adding
    <3>2. PICK j \in 0 .. 14 : rip = At(j)
      BY <2>2, <3>1, AddListing
    <3>3. i \in 0 .. 14
      <4>1. i \in Int /\ j \in Int /\ At(i) = At(j)
        BY <3>1, <3>2
      <4> QED
        BY <4>1, Addresses
    <3> QED
      BY <2>1, <2>2, <3>1, <3>3, AddStep DEF Adding
  <2>4. ASSUME NEW n \in Counts, Summing(n) PROVE Summing(n)'
    <3>1. PICK i \in 0 .. 19, k \in 1 .. n + 1 : code = SumProgram(n) /\ rip = At(i) /\ SumAt(n, i, k)
      BY <2>4 DEF Summing
    <3>2. PICK j \in 0 .. 18 : rip = At(j)
      <4>1. DOMAIN code = {At(j) : j \in 0 .. 18}
        BY <3>1, SumListing
      <4> QED
        BY <2>2, <4>1
    <3>3. i \in 0 .. 18
      <4>1. i \in Int /\ j \in Int /\ At(i) = At(j)
        BY <3>1, <3>2
      <4> QED
        BY <4>1, Addresses
    <3> QED
      BY <2>1, <2>2, <3>1, <3>3, SumStep DEF Summing
  <2> QED
    BY <1>1, <2>3, <2>4 DEF Computing
<1> QED
  BY <1>2, <1>3

\* Both programs compute what they should, from their text: whatever the summands are,
\* and to whatever number is summed up, as long as the stack has room for the calls.
THEOREM ProgramsAreRight == AsmSpec => []ProgramsCompute
<1>1. AsmInit /\ ParsedAsWritten => Computing
  BY AsmInitComputes
<1>2. IInv /\ Computing /\ [instruction_cycle /\ UNCHANGED <<text, listing>>]_asmVars => Computing'
  BY StepComputes
<1>3. Computing => ProgramsCompute
  <2> SUFFICES ASSUME Computing PROVE ProgramsCompute
    OBVIOUS
  <2>1. ASSUME listing = AddProgram, rip = At(15) PROVE BackInMain(Wrap(reg["rdi"] + reg["rsi"]))
    <3>1. PICK i \in 0 .. 15 : rip = At(i) /\ AddAt(i)
      BY <2>1 DEF Computing, Adding
    <3>2. i = 15
      BY <2>1, <3>1, Addresses
    <3> QED
      BY <3>1, <3>2 DEF AddAt
  <2>2. ASSUME NEW n \in Counts, listing = SumProgram(n), rip = At(19)
        PROVE  BackInMain(Wrap((n * (n + 1)) \div 2))
    <3>1. PICK i \in 0 .. 19, k \in 1 .. n + 1 : rip = At(i) /\ SumAt(n, i, k)
      BY <2>2 DEF Computing, Summing
    <3>2. i = 19
      BY <2>2, <3>1, Addresses
    <3> QED
      BY <3>1, <3>2 DEF SumAt, Gauss
  <2> QED
    BY <2>1, <2>2 DEF ProgramsCompute
<1> QED
  BY <1>1, <1>2, <1>3, AsmIsSpec, Invariant, TextIsUnderstood, PTL DEF AsmSpec

-----------------------------------------------------------------------------
(* What the numbers of a text say *)

-----------------------------------------------------------------------------
(* Numbers as any text spells them *)

\* The value of a digit
ValueOf(c) == IF c \in DOMAIN DigitOf THEN DigitOf[c] ELSE 0

\* A value starts with 0, and each digit goes on.
LEMMA AmountRuns ==
    ASSUME NEW C, NEW base \in {10, 16}
    PROVE  /\ Amount(<<>>, base) = 0
           /\ \A s \in Seq(C), c \in C : /\ Amount(s, base) \in Nat
                                         /\ Amount(Append(s, c), base) = Amount(s, base) * base + ValueOf(c)
<1> DEFINE f == [q \in Nat \X C |-> q[1] * base + ValueOf(q[2])]
           W == [s \in Seq(C) |-> Amount(s, base)]
           Eq(h, s) == h = [k \in 0 .. Len(s) |-> IF k = 0 THEN 0 ELSE h[k - 1] * base + ValueOf(s[k])]
           run(s) == CHOOSE h : Eq(h, s)
<1>1. 0 \in Nat
  OBVIOUS
<1>2. \A q \in Nat, c \in C : q * base + ValueOf(c) \in Nat
  <2> SUFFICES ASSUME NEW q \in Nat, NEW c \in C PROVE q * base + ValueOf(c) \in Nat
    OBVIOUS
  <2>1. ValueOf(c) \in Nat
    BY DigitsAre DEF ValueOf
  <2>2. base \in Nat
    OBVIOUS
  <2> HIDE DEF ValueOf
  <2> QED
    BY <2>1, <2>2
<1>3. \A q \in Nat, c \in C : f[<<q, c>>] = q * base + ValueOf(c)
  OBVIOUS
<1>4. \A s : Amount(s, base) = run(s)[Len(s)]
  BY DEF Amount, ValueOf
<1> HIDE DEF f
<1>5. Steps(f, Nat, C)
  BY <1>2, <1>3 DEF Steps
<1>6. ASSUME NEW s \in Seq(C) PROVE \E g : IsRun(g, Nat, f, 0, s) /\ W[s] = g[Len(s)]
  <2>1. PICK g : IsRunOf(g, Nat, f, 0, s)
    BY <1>1, <1>5, RunExists
  <2>2. /\ g \in [0 .. Len(s) -> Nat]
        /\ g = [k \in 0 .. Len(s) |-> IF k = 0 THEN 0 ELSE f[<<g[k - 1], s[k]>>]]
    BY <2>1 DEF IsRunOf
  <2>3. Len(s) \in Nat /\ \A k \in 1 .. Len(s) : s[k] \in C
    BY LenProperties, ElementOfSeq
  <2>4. \A k \in 0 .. Len(s) : k # 0 => k - 1 \in 0 .. Len(s) /\ s[k] \in C
    BY <2>3
  <2>5. \A k \in 0 .. Len(s) : k # 0 => g[k - 1] \in Nat
    BY <2>2, <2>4
  <2>6. Eq(g, s)
    <3>1. \A k \in 0 .. Len(s) : g[k] = IF k = 0 THEN 0 ELSE f[<<g[k - 1], s[k]>>]
      BY <2>2
    <3>2. \A k \in 0 .. Len(s) : k # 0 => f[<<g[k - 1], s[k]>>] = g[k - 1] * base + ValueOf(s[k])
      BY <1>3, <2>4, <2>5
    <3>3. \A k \in 0 .. Len(s) : g[k] = IF k = 0 THEN 0 ELSE g[k - 1] * base + ValueOf(s[k])
      BY <3>1, <3>2
    <3>4. g = [k \in 0 .. Len(s) |-> g[k]]
      BY <2>2
    <3> QED
      BY <3>3, <3>4
  <2>7. Eq(run(s), s)
    BY <2>6
  <2> DEFINE r == run(s)
  <2>8. Eq(r, s)
    BY <2>7
  <2>9. W[s] = r[Len(s)]
    BY <1>4
  <2> HIDE DEF r, W
  <2>10. r[0] = 0
    BY <2>3, <2>8
  <2>11. ASSUME NEW k \in 1 .. Len(s), r[k - 1] \in Nat PROVE r[k] = f[<<r[k - 1], s[k]>>]
    <3>1. k \in 0 .. Len(s) /\ k # 0 /\ s[k] \in C
      BY <2>3
    <3>2. r[k] = r[k - 1] * base + ValueOf(s[k])
      BY <2>8, <3>1
    <3> QED
      BY <1>3, <2>11, <3>1, <3>2
  <2>12. IsRun(r, Nat, f, 0, s)
    BY <2>10, <2>11 DEF IsRun
  <2> QED
    BY <2>9, <2>12
<1> HIDE DEF run
<1>7. /\ W[<<>>] = 0
      /\ \A s \in Seq(C), c \in C : W[s] \in Nat /\ W[Append(s, c)] = f[<<W[s], c>>]
  <2> HIDE DEF W
  <2>1. Ends(W, Nat, f, 0, C)
    BY <1>6 DEF Ends
  <2>2. Follows(W, Nat, f, 0, C)
    BY <1>1, <1>5, <2>1, Automaton
  <2> QED
    BY <2>2 DEF Follows
<1>8. W[<<>>] = Amount(<<>>, base)
  BY EmptySeq
<1>9. ASSUME NEW s \in Seq(C), NEW c \in C
      PROVE  Amount(s, base) \in Nat /\ Amount(Append(s, c), base) = Amount(s, base) * base + ValueOf(c)
  <2>1. W[s] = Amount(s, base) /\ W[Append(s, c)] = Amount(Append(s, c), base)
    BY AppendProperties
  <2> HIDE DEF W
  <2>2. Amount(s, base) \in Nat
    BY <1>7, <2>1
  <2>3. Amount(Append(s, c), base) = f[<<Amount(s, base), c>>]
    BY <1>7, <2>1
  <2> QED
    BY <1>3, <2>2, <2>3
<1> QED
  BY <1>7, <1>8, <1>9

\* A value is a natural number.
LEMMA AmountIsNatural ==
    ASSUME NEW C, NEW s \in Seq(C), NEW base \in {10, 16}
    PROVE  Amount(s, base) \in Nat
<1>1. CASE s = <<>>
  BY <1>1, AmountRuns
<1>2. CASE s # <<>>
  <2>1. PICK t \in Seq(C), c \in C : s = Append(t, c)
    BY <1>2, SequenceEmptyOrAppend
  <2>2. Amount(t, base) \in Nat
    BY <2>1, AmountRuns
  <2> QED
    BY <2>2, AmountRuns
<1> QED
  BY <1>1, <1>2

\* Wrapping before a digit makes no difference.
LEMMA WrapDigit ==
    ASSUME NEW a \in Nat, NEW base \in {10, 16}, NEW d \in Nat
    PROVE  Wrap(Wrap(a) * base + d) = Wrap(a * base + d)
<1> DEFINE D == 2 * HALF
           p == a \div D
           w == Wrap(a)
           x == w * base + d
           q == x \div D
           y == Wrap(x)
<1>1. D \in Nat \ {0} /\ base \in Int /\ a \in Int
  BY WordAssumption
<1>2. w = a - D * p /\ p \in Int /\ w \in Int
  <2>1. w = a % D
    BY DEF Wrap
  <2> HIDE DEF D, w
  <2>2. a % D \in 0 .. D - 1 /\ a % D = a - D * p /\ p \in Int
    BY <1>1, Division
  <2> QED
    BY <1>1, <2>1, <2>2
<1>3. x \in Int
  <2> HIDE DEF w
  <2> QED
    BY <1>1, <1>2
<1>4. y = x - D * q /\ q \in Int /\ y \in 0 .. D - 1
  <2> HIDE DEF x
  <2> QED
    BY <1>1, <1>3, Division DEF Wrap
<1> HIDE DEF D, p, q, w, y
<1>5. a * base + d = D * (q + p * base) + y
  <2>1. CASE base = 10
    BY <1>1, <1>2, <1>4, <2>1
  <2>2. CASE base = 16
    BY <1>1, <1>2, <1>4, <2>2
  <2> QED
    BY <2>1, <2>2
<1>6. (D * (q + p * base) + y) % D = y
  <2>1. q + p * base \in Int
    BY <1>1, <1>2, <1>4
  <2> QED
    BY <1>1, <1>4, <2>1, DivUnique
<1>7. Wrap(a * base + d) = y
  BY <1>5, <1>6 DEF Wrap, D
<1> QED
  BY <1>7 DEF y, w

\* The first k characters of a text, one more each time
LEMMA Prefixes ==
    ASSUME NEW C, NEW s \in Seq(C)
    PROVE  /\ Len(s) \in Nat /\ SubSeq(s, 1, 0) = <<>> /\ SubSeq(s, 1, Len(s)) = s
           /\ \A p \in 0 .. Len(s) :
                /\ SubSeq(s, p + 1, p) = <<>>
                /\ \A k \in p .. Len(s) - 1 :
                    /\ s[k + 1] \in C /\ SubSeq(s, p + 1, k) \in Seq(C)
                    /\ SubSeq(s, p + 1, k + 1) = Append(SubSeq(s, p + 1, k), s[k + 1])
<1>1. Len(s) \in Nat /\ SubSeq(s, 1, 0) = <<>> /\ SubSeq(s, 1, Len(s)) = s
  OBVIOUS
<1>2. ASSUME NEW p \in 0 .. Len(s) PROVE SubSeq(s, p + 1, p) = <<>>
  OBVIOUS
<1>3. ASSUME NEW p \in 0 .. Len(s), NEW k \in p .. Len(s) - 1
      PROVE  /\ s[k + 1] \in C /\ SubSeq(s, p + 1, k) \in Seq(C)
             /\ SubSeq(s, p + 1, k + 1) = Append(SubSeq(s, p + 1, k), s[k + 1])
  OBVIOUS
<1> QED
  BY <1>1, <1>2, <1>3

\* What the kinds of characters say of them
LEMMA KindsAre ==
    ASSUME NEW c
    PROVE  /\ Kind(c) \in {"blank", "minus", "x", "zero", "digit", "letter", "other"}
           /\ Kind(c) = "blank" <=> c = Blank
           /\ Kind(c) = "minus" <=> c = "-"
           /\ Kind(c) = "x" <=> c = "x"
           /\ Kind(c) = "zero" <=> c = "0"
           /\ Kind(c) \in {"zero", "digit"} <=> c \in DOMAIN DigitOf /\ DigitOf[c] < 10
           /\ Kind(c) \in {"zero", "digit", "letter"} <=> c \in DOMAIN DigitOf
           /\ c \in DOMAIN DigitOf => DigitOf[c] \in 0 .. 15
<1>1. Blank \notin DOMAIN DigitOf /\ "-" \notin DOMAIN DigitOf /\ "x" \notin DOMAIN DigitOf
  BY Kinds, NoNames DEF NumChar
<1>2. "0" \in DOMAIN DigitOf /\ DigitOf["0"] = 0
  <2>1. 0 \in 0 .. 15 /\ 0 + 1 = 1
    OBVIOUS
  <2> QED
    BY <2>1, Kinds, DigitsAre
<1>3. Blank # "-" /\ Blank # "x" /\ Blank # "0"
  BY Marks
<1>4. c \in DOMAIN DigitOf => DigitOf[c] \in 0 .. 15
  BY DigitsAre
<1>5. CASE c = Blank
  BY <1>1, <1>3, <1>5 DEF Kind
<1>6. CASE c = "-"
  BY <1>1, <1>3, <1>6, Kinds
<1>7. CASE c = "x"
  BY <1>1, <1>3, <1>7, Kinds
<1>8. CASE c = "0"
  BY <1>1, <1>2, <1>3, <1>8, Kinds
<1>9. CASE c \notin {Blank, "-", "x", "0"}
  BY <1>4, <1>9 DEF Kind
<1> QED
  BY <1>5, <1>6, <1>7, <1>8, <1>9

\* Arrows of one kind: blanks in front, a minus, decimal digits, the x, blanks behind,
\* and hexadecimal digits
ArrowKind(q, kind, t) ==
    \/ q = 0 /\ kind = "blank" /\ t = 0
    \/ q = 0 /\ kind = "minus" /\ t = 3
    \/ /\ q \in {0, 1, 2, 3} /\ kind \in {"zero", "digit"} /\ t \in {1, 2}
       /\ t = 1 <=> q \in {0, 3} /\ kind = "zero"
    \/ q = 1 /\ kind = "x" /\ t = 4
    \/ q \in {1, 2, 6} /\ kind = "blank" /\ t = 6
    \/ q \in {4, 5} /\ kind \in {"zero", "digit", "letter"} /\ t = 5

\* There are no other arrows.
LEMMA ArrowsAre ==
    \A q \in 0 .. 6, t \in 0 .. 6 : \A kind : <<q, kind, t>> \in Arrows <=> ArrowKind(q, kind, t)
<1> SUFFICES ASSUME NEW q \in 0 .. 6, NEW t \in 0 .. 6, NEW kind
             PROVE  <<q, kind, t>> \in Arrows <=> ArrowKind(q, kind, t)
  OBVIOUS
<1>1. <<q, kind, t>> \in Arrows => ArrowKind(q, kind, t)
  BY DEF Arrows, ArrowKind
<1>2. ArrowKind(q, kind, t) => <<q, kind, t>> \in Arrows
  BY DEF Arrows, ArrowKind
<1> QED
  BY <1>1, <1>2

\* The characters from i to j are blank; they are digits; those up to p are blanks and
\* perhaps a minus; the value of those behind p, up to e.
AllBlank(s, i, j) == \A l \in i .. j : s[l] = Blank
AllDigits(s, i, j, base) == \A l \in i .. j : s[l] \in DOMAIN DigitOf /\ DigitOf[s[l]] < base
Front(s, p, negative) ==
    IF negative THEN p >= 1 /\ s[p] = "-" /\ AllBlank(s, 1, p - 1) ELSE AllBlank(s, 1, p)
Part(s, p, e, base) == Amount(SubSeq(s, p + 1, e), base)

\* What has been read of k characters is a decimal number, as far as it goes, with blanks
\* behind e, or a hexadecimal one.
Decimal(s, k, m, p, e) ==
    /\ Front(s, p, m.negative) /\ AllDigits(s, p + 1, e, 10) /\ AllBlank(s, e + 1, k)
    /\ m.uv = Wrap(Part(s, p, e, 10))
    /\ m.state \in {0, 1, 2, 3, 6}
    /\ m.state = 0 => p = k /\ ~m.negative
    /\ m.state = 3 => p = k /\ m.negative
    /\ m.state = 1 => e = k /\ k = p + 1 /\ s[k] = "0"
    /\ m.state = 2 => e = k /\ p < e
    /\ m.state = 6 => p < e
Hexadecimal(s, k, m, p) ==
    /\ Front(s, p, m.negative) /\ s[p + 1] = "0" /\ s[p + 2] = "x" /\ AllDigits(s, p + 3, k, 16)
    /\ m.uv = Wrap(Part(s, p + 2, k, 16))
    /\ m.state \in {4, 5}
    /\ m.state = 4 => k = p + 2
Shape(s, k, m) ==
    \/ \E p \in 0 .. k : \E e \in p .. k : Decimal(s, k, m, p, e)
    \/ \E p \in 0 .. k - 2 : Hexadecimal(s, k, m, p)

\* A part without characters
LEMMA EmptyPart ==
    ASSUME NEW C, NEW s \in Seq(C), NEW p \in 0 .. Len(s), NEW base \in {10, 16}
    PROVE  Part(s, p, p, base) = 0
<1>1. SubSeq(s, p + 1, p) = <<>>
  BY Prefixes
<1>2. Amount(<<>>, base) = 0
  BY AmountRuns
<1> QED
  BY <1>1, <1>2 DEF Part

\* One more digit of a part
LEMMA PartMore ==
    ASSUME NEW C, NEW s \in Seq(C), NEW k \in 0 .. Len(s) - 1, NEW p \in 0 .. k, NEW base \in {10, 16}
    PROVE  /\ Part(s, p, p, base) = 0
           /\ Part(s, p, k, base) \in Nat
           /\ Part(s, p, k + 1, base) = Part(s, p, k, base) * base + ValueOf(s[k + 1])
<1>1. /\ p \in 0 .. Len(s) /\ k \in p .. Len(s) - 1
  BY Prefixes
<1>2. /\ SubSeq(s, p + 1, p) = <<>> /\ s[k + 1] \in C /\ SubSeq(s, p + 1, k) \in Seq(C)
      /\ SubSeq(s, p + 1, k + 1) = Append(SubSeq(s, p + 1, k), s[k + 1])
  BY <1>1, Prefixes
<1> DEFINE u == SubSeq(s, p + 1, k)
<1>3. Amount(<<>>, base) = 0 /\ Amount(u, base) \in Nat
      /\ Amount(Append(u, s[k + 1]), base) = Amount(u, base) * base + ValueOf(s[k + 1])
  BY <1>2, AmountRuns
<1> QED
  BY <1>2, <1>3 DEF Part

\* A value that a digit has been read into
LEMMA ValueIs ==
    ASSUME NEW a \in Nat, NEW base \in {10, 16}, NEW t, t = 5 <=> base = 16, NEW c
    PROVE  /\ c \in DOMAIN DigitOf => Value(Wrap(a), t, c) = Wrap(a * base + ValueOf(c))
           /\ c \notin DOMAIN DigitOf => Value(Wrap(a), t, c) = Wrap(a)
<1>1. ASSUME c \in DOMAIN DigitOf PROVE Value(Wrap(a), t, c) = Wrap(a * base + ValueOf(c))
  <2>1. DigitOf[c] \in Nat /\ ValueOf(c) = DigitOf[c]
    BY <1>1, DigitsAre DEF ValueOf
  <2>2. (IF t = 5 THEN 16 ELSE 10) = base
    OBVIOUS
  <2>3. Value(Wrap(a), t, c) = Wrap(Wrap(a) * base + ValueOf(c))
    BY <1>1, <2>1, <2>2 DEF Value, Wrap
  <2> QED
    BY <2>1, <2>3, WrapDigit
<1>2. c \notin DOMAIN DigitOf => Value(Wrap(a), t, c) = Wrap(a)
  BY DEF Value
<1> QED
  BY <1>1, <1>2

\* A character that an arrow leads over keeps the shape of what has been read.
LEMMA ShapeKept ==
    ASSUME NEW C, NEW s \in Seq(C), NEW k \in 0 .. Len(s) - 1, NEW m \in Readings, Shape(s, k, m),
           NEW r \in Read(m, s[k + 1])
    PROVE  Shape(s, k + 1, r)
<1> DEFINE c == s[k + 1]
<1>1. Len(s) \in Nat /\ k \in Nat /\ k + 1 \in 1 .. Len(s) /\ m.state \in 0 .. 6 /\ m.negative \in BOOLEAN
  BY Prefixes DEF Readings
<1>2. PICK t \in 0 .. 6 :
        /\ <<m.state, Kind(c), t>> \in Arrows
        /\ r = [state |-> t, uv |-> Value(m.uv, t, c), negative |-> m.negative \/ Kind(c) = "minus"]
  BY DEF Read
<1>3. ArrowKind(m.state, Kind(c), t)
  BY <1>1, <1>2, ArrowsAre
<1>4. r.state = t /\ r.uv = Value(m.uv, t, c) /\ r.negative = (m.negative \/ Kind(c) = "minus")
  BY <1>2
<1>5. Kind(c) # "minus" => r.negative = m.negative
  BY <1>1, <1>4, Zenon
<1>6. Kind(c) = "minus" => r.negative = TRUE
  BY <1>4, Zenon
<1>7. /\ Kind(c) = "blank" <=> c = Blank
      /\ Kind(c) = "minus" <=> c = "-"
      /\ Kind(c) = "x" <=> c = "x"
      /\ Kind(c) = "zero" <=> c = "0"
      /\ Kind(c) \in {"zero", "digit"} <=> c \in DOMAIN DigitOf /\ DigitOf[c] < 10
      /\ Kind(c) \in {"zero", "digit", "letter"} <=> c \in DOMAIN DigitOf
      /\ c \in DOMAIN DigitOf => DigitOf[c] \in 0 .. 15
  BY KindsAre
<1>8. \A d \in {Blank, "-", "x"} : d \notin DOMAIN DigitOf
  BY Kinds, NoNames DEF NumChar
<1> HIDE DEF c
<1>9. ASSUME NEW p \in 0 .. k, NEW e \in p .. k, Decimal(s, k, m, p, e) PROVE Shape(s, k + 1, r)
  <2>1. /\ Front(s, p, m.negative) /\ AllDigits(s, p + 1, e, 10) /\ AllBlank(s, e + 1, k)
        /\ m.uv = Wrap(Part(s, p, e, 10))
        /\ m.state \in {0, 1, 2, 3, 6}
        /\ m.state = 0 => p = k /\ ~m.negative
        /\ m.state = 3 => p = k /\ m.negative
        /\ m.state = 1 => e = k /\ k = p + 1 /\ s[k] = "0"
        /\ m.state = 2 => e = k /\ p < e
        /\ m.state = 6 => p < e
    BY <1>9 DEF Decimal
  <2>2. CASE m.state = 0 /\ Kind(c) = "blank" /\ t = 0
    <3>1. c = Blank /\ c \notin DOMAIN DigitOf /\ p = k /\ e = k /\ ~m.negative /\ r.negative = m.negative
      BY <1>1, <1>7, <1>5, <1>8, <2>1, <2>2
    <3>2. AllBlank(s, 1, k + 1)
      BY <1>1, <2>1, <3>1 DEF Front, AllBlank, c
    <3>3. m.uv = Wrap(0) /\ r.uv = m.uv
      BY <1>4, <2>1, <3>1, PartMore DEF Value
    <3>4. AllDigits(s, k + 2, k + 1, 10) /\ AllBlank(s, k + 2, k + 1)
      BY <1>1 DEF AllDigits, AllBlank
    <3>5. Part(s, k + 1, k + 1, 10) = 0
      BY <1>1, EmptyPart
    <3>6. Decimal(s, k + 1, r, k + 1, k + 1)
      BY <1>1, <1>4, <2>2, <3>1, <3>2, <3>3, <3>4, <3>5 DEF Decimal, Front
    <3> QED
      BY <1>1, <3>6 DEF Shape
  <2>3. CASE m.state = 0 /\ Kind(c) = "minus" /\ t = 3
    <3>1. c = "-" /\ c \notin DOMAIN DigitOf /\ p = k /\ e = k /\ ~m.negative /\ r.negative
      BY <1>1, <1>7, <1>6, <1>8, <2>1, <2>3
    <3>2. AllBlank(s, 1, k) /\ s[k + 1] = "-"
      BY <1>1, <2>1, <3>1 DEF Front, AllBlank, c
    <3>3. m.uv = Wrap(0) /\ r.uv = m.uv
      BY <1>4, <2>1, <3>1, PartMore DEF Value
    <3>4. AllDigits(s, k + 2, k + 1, 10) /\ AllBlank(s, k + 2, k + 1)
      BY <1>1 DEF AllDigits, AllBlank
    <3>5. Part(s, k + 1, k + 1, 10) = 0
      BY <1>1, EmptyPart
    <3>6. Front(s, k + 1, r.negative)
      BY <1>1, <3>1, <3>2 DEF Front
    <3>7. Decimal(s, k + 1, r, k + 1, k + 1)
      BY <1>1, <1>4, <2>3, <3>1, <3>3, <3>4, <3>5, <3>6 DEF Decimal
    <3> QED
      BY <1>1, <3>7 DEF Shape
  <2>4. CASE m.state \in {0, 1, 2, 3} /\ Kind(c) \in {"zero", "digit"} /\ t \in {1, 2}
             /\ (t = 1 <=> m.state \in {0, 3} /\ Kind(c) = "zero")
    <3>1. c \in DOMAIN DigitOf /\ DigitOf[c] < 10 /\ e = k /\ r.negative = m.negative
      BY <1>1, <1>7, <1>5, <2>1, <2>4
    <3>2. AllDigits(s, p + 1, k + 1, 10) /\ AllBlank(s, k + 2, k + 1)
      BY <1>1, <2>1, <3>1 DEF AllDigits, AllBlank, c
    <3>3. r.uv = Wrap(Part(s, p, k + 1, 10))
      <4>1. /\ Part(s, p, k, 10) \in Nat
            /\ Part(s, p, k + 1, 10) = Part(s, p, k, 10) * 10 + ValueOf(c)
        BY PartMore DEF c
      <4>2. t # 5
        BY <2>4
      <4>3. Value(Wrap(Part(s, p, k, 10)), t, c) = Wrap(Part(s, p, k, 10) * 10 + ValueOf(c))
        BY <3>1, <4>1, <4>2, ValueIs
      <4> QED
        BY <1>4, <2>1, <3>1, <4>1, <4>3
    <3>4. t = 1 => k = p /\ c = "0"
      BY <1>7, <2>1, <2>4
    <3>5. Front(s, p, r.negative)
      BY <2>1, <3>1
    <3>6. Decimal(s, k + 1, r, p, k + 1)
      BY <1>1, <1>4, <2>4, <3>1, <3>2, <3>3, <3>4, <3>5 DEF Decimal, c
    <3> QED
      BY <1>1, <3>6 DEF Shape
  <2>5. CASE m.state = 1 /\ Kind(c) = "x" /\ t = 4
    <3>1. c = "x" /\ c \notin DOMAIN DigitOf /\ e = k /\ k = p + 1 /\ s[k] = "0" /\ r.negative = m.negative
      BY <1>1, <1>7, <1>5, <1>8, <2>1, <2>5
    <3>2. m.uv = Wrap(0) /\ r.uv = m.uv
      <4>1. p \in 0 .. Len(s) - 1 /\ p \in 0 .. p
        BY <1>1
      <4>2. Part(s, p, p + 1, 10) = 0 * 10 + ValueOf(s[p + 1])
        BY <4>1, PartMore
      <4>3. ValueOf("0") = 0
        <5>1. 0 \in 0 .. 15 /\ 0 + 1 = 1
          OBVIOUS
        <5> QED
          BY <5>1, Kinds, DigitsAre DEF ValueOf
      <4> QED
        BY <1>4, <2>1, <3>1, <4>2, <4>3 DEF Value
    <3>3. Part(s, p + 2, k + 1, 16) = 0
      <4>1. p + 2 = k + 1 /\ p + 2 \in 0 .. Len(s)
        BY <1>1, <3>1
      <4> QED
        BY <4>1, EmptyPart
    <3>4. AllDigits(s, p + 3, k + 1, 16)
      BY <1>1, <3>1 DEF AllDigits
    <3>5. Front(s, p, r.negative) /\ s[p + 2] = "x" /\ s[p + 1] = "0"
      BY <2>1, <3>1 DEF c
    <3>6. Hexadecimal(s, k + 1, r, p)
      BY <1>1, <1>4, <2>5, <3>1, <3>2, <3>3, <3>4, <3>5 DEF Hexadecimal
    <3> QED
      BY <1>1, <3>1, <3>6 DEF Shape
  <2>6. CASE m.state \in {1, 2, 6} /\ Kind(c) = "blank" /\ t = 6
    <3>1. c = Blank /\ c \notin DOMAIN DigitOf /\ p < e /\ r.negative = m.negative
      BY <1>1, <1>7, <1>5, <1>8, <2>1, <2>6
    <3>2. AllBlank(s, e + 1, k + 1)
      BY <1>1, <2>1, <3>1 DEF AllBlank, c
    <3>3. r.uv = m.uv
      BY <1>4, <3>1 DEF Value
    <3>4. Decimal(s, k + 1, r, p, e)
      BY <1>1, <1>4, <2>1, <2>6, <3>1, <3>2, <3>3 DEF Decimal
    <3> QED
      BY <1>1, <3>4 DEF Shape
  <2> QED
    BY <1>3, <2>1, <2>2, <2>3, <2>4, <2>5, <2>6 DEF ArrowKind
<1>10. ASSUME NEW p \in 0 .. k - 2, Hexadecimal(s, k, m, p) PROVE Shape(s, k + 1, r)
  <2>1. /\ Front(s, p, m.negative) /\ s[p + 1] = "0" /\ s[p + 2] = "x" /\ AllDigits(s, p + 3, k, 16)
        /\ m.uv = Wrap(Part(s, p + 2, k, 16))
        /\ m.state \in {4, 5}
    BY <1>10 DEF Hexadecimal
  <2>2. Kind(c) \in {"zero", "digit", "letter"} /\ t = 5
    BY <1>3, <2>1 DEF ArrowKind
  <2>3. c \in DOMAIN DigitOf /\ DigitOf[c] < 16 /\ r.negative = m.negative
    BY <1>7, <1>5, <2>2
  <2>4. AllDigits(s, p + 3, k + 1, 16)
    BY <1>1, <2>1, <2>3 DEF AllDigits, c
  <2>5. r.uv = Wrap(Part(s, p + 2, k + 1, 16))
    <3>1. p + 2 \in 0 .. k
      BY <1>1
    <3>2. /\ Part(s, p + 2, k, 16) \in Nat
          /\ Part(s, p + 2, k + 1, 16) = Part(s, p + 2, k, 16) * 16 + ValueOf(c)
      BY <3>1, PartMore DEF c
    <3>3. Value(Wrap(Part(s, p + 2, k, 16)), t, c) = Wrap(Part(s, p + 2, k, 16) * 16 + ValueOf(c))
      BY <2>2, <2>3, <3>2, ValueIs
    <3> QED
      BY <1>4, <2>1, <3>2, <3>3
  <2>6. Hexadecimal(s, k + 1, r, p)
    BY <1>4, <2>1, <2>2, <2>3, <2>4, <2>5 DEF Hexadecimal
  <2>7. p \in 0 .. (k + 1) - 2
    BY <1>1
  <2> QED
    BY <2>6, <2>7 DEF Shape
<1> QED
  BY <1>9, <1>10 DEF Shape

\* Whatever is read of a text has the shape of a number.
LEMMA ReadingHasShape ==
    ASSUME NEW C, NEW s \in Seq(C), NEW m \in Reading(s)
    PROVE  m \in Readings /\ Shape(s, Len(s), m)
<1> DEFINE R(k) == Reading(SubSeq(s, 1, k))
           T == {k \in Nat : k <= Len(s) => \A x \in R(k) : x \in Readings /\ Shape(s, k, x)}
<1>1. Len(s) \in Nat /\ SubSeq(s, 1, 0) = <<>> /\ SubSeq(s, 1, Len(s)) = s
  BY Prefixes
<1>2. 0 \in T
  <2>1. R(0) = ReadStart
    BY <1>1, ReadRuns
  <2> SUFFICES ASSUME NEW x \in ReadStart PROVE x \in Readings /\ Shape(s, 0, x)
    BY <2>1
  <2>2. x.state = 0 /\ x.uv = 0 /\ x.negative = FALSE /\ x \in Readings
    <3>1. x = [state |-> 0, uv |-> 0, negative |-> FALSE]
      BY DEF ReadStart
    <3>2. 0 \in Word
      BY WordAssumption DEF Word
    <3> QED
      BY <3>1, <3>2 DEF Readings
  <2>3. Part(s, 0, 0, 10) = 0
    BY <1>1, EmptyPart
  <2>4. Wrap(0) = 0
    BY WordAssumption, WrapWord DEF Word
  <2>5. AllBlank(s, 1, 0) /\ AllDigits(s, 1, 0, 10)
    BY DEF AllBlank, AllDigits
  <2>6. Decimal(s, 0, x, 0, 0)
    BY <2>2, <2>3, <2>4, <2>5 DEF Decimal, Front
  <2> QED
    BY <2>2, <2>6 DEF Shape
<1>3. ASSUME NEW n \in 0 .. Len(s) - 1, n \in T PROVE n + 1 \in T
  <2>1. /\ n \in Nat /\ n <= Len(s) /\ s[n + 1] \in C /\ SubSeq(s, 1, n) \in Seq(C)
        /\ SubSeq(s, 1, n + 1) = Append(SubSeq(s, 1, n), s[n + 1])
    <3>1. 0 \in 0 .. Len(s) /\ 0 + 1 = 1
      BY <1>1
    <3> QED
      BY <1>1, <3>1, Prefixes
  <2>2. R(n + 1) = UNION {Read(x, s[n + 1]) : x \in R(n)} /\ R(n + 1) \subseteq Readings
    <3>1. SubSeq(s, 1, n + 1) \in Seq(C)
      BY <2>1, AppendProperties
    <3>2. Reading(Append(SubSeq(s, 1, n), s[n + 1])) = UNION {Read(x, s[n + 1]) : x \in Reading(SubSeq(s, 1, n))}
      <4> DEFINE u == SubSeq(s, 1, n)
                 d == s[n + 1]
      <4>1. u \in Seq(C) /\ d \in C
        BY <2>1
      <4> HIDE DEF u, d
      <4>2. Reading(Append(u, d)) = UNION {Read(x, d) : x \in Reading(u)}
        BY <4>1, ReadRuns
      <4> QED
        BY <4>2 DEF u, d
    <3>3. Reading(SubSeq(s, 1, n + 1)) \in SUBSET Readings
      BY <2>1, <3>1, ReadRuns
    <3> QED
      BY <2>1, <3>2, <3>3
  <2>3. ASSUME NEW x \in R(n), NEW r \in Read(x, s[n + 1]) PROVE Shape(s, n + 1, r)
    <3>1. x \in Readings /\ Shape(s, n, x)
      BY <1>3, <2>1
    <3> QED
      BY <2>3, <3>1, ShapeKept
  <2> HIDE DEF R
  <2> QED
    BY <2>1, <2>2, <2>3
<1> HIDE DEF T
<1>4. Len(s) \in T
  <2>1. Len(s) \in 0 .. Len(s)
    BY <1>1
  <2> QED
    BY <1>1, <1>2, <1>3, <2>1, Induction
<1> QED
  <2>1. \A x \in R(Len(s)) : x \in Readings /\ Shape(s, Len(s), x)
    BY <1>1, <1>4 DEF T
  <2> QED
    BY <1>1, <2>1

\* A text is cut into what is up to p, with or without a minus, what is up to e, and
\* blanks.
Spelled(s, p, e, negative) ==
    /\ Front(s, p, negative) /\ AllBlank(s, e + 1, Len(s))
    /\ p < e => s[e] # Blank /\ (~negative => s[p + 1] \notin {Blank, "-"})

\* Where it is hexadecimal, and where the digits begin
HexAt(s, p, e) == p + 2 <= e /\ s[p + 1] = "0" /\ s[p + 2] = "x"
DigitsAt(s, p, e) == IF HexAt(s, p, e) THEN p + 2 ELSE p
BaseAt(s, p, e) == IF HexAt(s, p, e) THEN 16 ELSE 10

\* The least and the largest number of a set
LEMMA LeastAndLargest ==
    ASSUME NEW S \in SUBSET Nat, NEW f \in S, NEW e \in S, \A l \in S : f <= l /\ l <= e
    PROVE  Min(S) = f /\ Max(S) = e
<1>1. Min(S) \in S /\ \A y \in S : Min(S) <= y
  <2>1. \E x \in S : \A y \in S : x <= y
    OBVIOUS
  <2> QED
    BY <2>1 DEF Min
<1>2. Max(S) \in S /\ \A y \in S : Max(S) >= y
  <2>1. \E x \in S : \A y \in S : x >= y
    OBVIOUS
  <2> QED
    BY <2>1 DEF Max
<1>3. Min(S) = f
  <2> DEFINE x == Min(S)
  <2>1. x \in Nat /\ x <= f /\ f <= x /\ f \in Nat
    BY <1>1
  <2> HIDE DEF x
  <2>2. x = f
    BY <2>1
  <2> QED
    BY <2>2 DEF x
<1>4. Max(S) = e
  <2> DEFINE x == Max(S)
  <2>1. x \in Nat /\ x >= e /\ x <= e /\ e \in Nat
    BY <1>2
  <2> HIDE DEF x
  <2>2. x = e
    BY <2>1
  <2> QED
    BY <2>2 DEF x
<1> QED
  BY <1>3, <1>4

\* The fields of what a text says
LEMMA Fields ==
    ASSUME NEW r, NEW a, NEW b, NEW c, NEW d, NEW e,
           r = [empty |-> a, refused |-> b, numeral |-> c, negative |-> d, size |-> e]
    PROVE  r.empty = a /\ r.refused = b /\ r.numeral = c /\ r.negative = d /\ r.size = e
OBVIOUS

\* What such a text says
LEMMA SaysIs ==
    ASSUME NEW C, NEW s \in Seq(C), NEW p \in 0 .. Len(s), NEW e \in p .. Len(s), NEW negative \in BOOLEAN,
           Spelled(s, p, e, negative)
    PROVE  /\ Says(s).empty <=> DigitsAt(s, p, e) = e
           /\ Says(s).refused <=> HexAt(s, p, e) /\ s[Len(s)] = Blank
           /\ Says(s).numeral <=> AllDigits(s, DigitsAt(s, p, e) + 1, e, BaseAt(s, p, e))
           /\ Says(s).negative <=> negative
           /\ Says(s).size = Part(s, DigitsAt(s, p, e), e, BaseAt(s, p, e))
<1> DEFINE ink == {k \in DOMAIN s : s[k] # Blank}
           first == IF ink = {} THEN 1 ELSE Min(ink)
           last == IF ink = {} THEN 0 ELSE Max(ink)
           minus == ink # {} /\ s[first] = "-"
           sign == IF minus THEN first ELSE first - 1
           hex == sign + 2 <= last /\ s[sign + 1] = "0" /\ s[sign + 2] = "x"
           digits == SubSeq(s, IF hex THEN sign + 3 ELSE sign + 1, last)
           base == IF hex THEN 16 ELSE 10
           q == DigitsAt(s, p, e)
<1>1. Len(s) \in Nat /\ DOMAIN s = 1 .. Len(s) /\ p \in Nat /\ e \in Nat
  OBVIOUS
<1>2. Blank # "-"
  BY Marks
<1>3. \A l \in 1 .. Len(s) : s[l] # Blank <=> l \in ink
  BY <1>1
<1>4. /\ Front(s, p, negative) /\ AllBlank(s, e + 1, Len(s))
      /\ p < e => s[e] # Blank /\ (~negative => s[p + 1] \notin {Blank, "-"})
  BY DEF Spelled
<1>5. (minus <=> negative) /\ (hex <=> HexAt(s, p, e)) /\ digits = SubSeq(s, q + 1, e)
  <2>1. CASE p = e /\ ~negative
    <3>1. ink = {}
      BY <1>1, <1>4, <2>1 DEF Front, AllBlank
    <3>2. first = 1 /\ last = 0 /\ ~minus /\ ~hex /\ sign = 0
      BY <3>1
    <3>3. ~HexAt(s, p, e) /\ q = p
      BY <1>1, <2>1 DEF HexAt, DigitsAt
    <3>4. digits = <<>> /\ SubSeq(s, q + 1, e) = <<>>
      <4>1. SubSeq(s, 1, 0) = <<>> /\ SubSeq(s, p + 1, p) = <<>>
        BY Prefixes
      <4>2. digits = SubSeq(s, 1, 0)
        <5>1. sign + 1 = 1
          BY <3>2
        <5> QED
          BY <3>2, <5>1, Zenon
      <4> HIDE DEF digits
      <4> QED
        BY <2>1, <3>3, <4>1, <4>2
    <3> QED
      BY <2>1, <3>2, <3>3, <3>4
  <2>2. CASE p < e \/ negative
    <3> DEFINE f == IF negative THEN p ELSE p + 1
    <3>1. f \in ink /\ \A l \in ink : f <= l
      <4>1. CASE negative
        BY <1>1, <1>2, <1>4, <4>1 DEF Front, AllBlank
      <4>2. CASE ~negative
        BY <1>1, <1>4, <2>2, <4>2 DEF Front, AllBlank
      <4> QED
        BY <4>1, <4>2
    <3>2. e \in ink /\ \A l \in ink : l <= e
      <4>1. e \in ink
        BY <1>1, <1>2, <1>4, <2>2 DEF Front
      <4>2. \A l \in ink : l <= e
        BY <1>1, <1>4 DEF AllBlank
      <4> QED
        BY <4>1, <4>2
    <3>3. ink \subseteq Nat
      BY <1>1
    <3> HIDE DEF ink, f
    <3>4. Min(ink) = f /\ Max(ink) = e
      BY <1>1, <3>1, <3>2, <3>3, LeastAndLargest
    <3>5. first = f /\ last = e
      BY <3>1, <3>4
    <3>6. s[f] = "-" <=> negative
      BY <1>1, <1>4, <2>2 DEF Front, f
    <3>7. minus <=> negative
      BY <3>1, <3>5, <3>6
    <3>8. sign = p
      BY <1>1, <3>5, <3>7 DEF f
    <3> HIDE DEF first, last, minus, sign
    <3>9. hex <=> HexAt(s, p, e)
      BY <3>5, <3>8 DEF HexAt
    <3>10. digits = SubSeq(s, q + 1, e)
      BY <1>1, <3>5, <3>8, <3>9 DEF DigitsAt
    <3> QED
      BY <3>7, <3>9, <3>10
  <2>3. p = e \/ p < e
    BY <1>1
  <2> QED
    BY <2>1, <2>2, <2>3, Zenon
<1>6. Says(s) = [empty |-> digits = <<>>, refused |-> hex /\ s[Len(s)] = Blank,
                 numeral |-> \A k \in DOMAIN digits : digits[k] \in DOMAIN DigitOf /\ DigitOf[digits[k]] < base,
                 negative |-> minus, size |-> Amount(digits, base)]
  BY Zenon DEF Says
<1>7. base = BaseAt(s, p, e)
  BY <1>5 DEF BaseAt
<1> HIDE DEF ink, first, last, minus, sign, hex, digits, base
<1>8. /\ Says(s).empty <=> digits = <<>>
      /\ Says(s).refused <=> hex /\ s[Len(s)] = Blank
      /\ Says(s).numeral <=> \A k \in DOMAIN digits : digits[k] \in DOMAIN DigitOf /\ DigitOf[digits[k]] < base
      /\ Says(s).negative <=> minus
      /\ Says(s).size = Amount(digits, base)
  <2> DEFINE numeral == \A k \in DOMAIN digits : digits[k] \in DOMAIN DigitOf /\ DigitOf[digits[k]] < base
             empty == digits = <<>>
             refused == hex /\ s[Len(s)] = Blank
             size == Amount(digits, base)
  <2>1. Says(s) = [empty |-> empty, refused |-> refused, numeral |-> numeral, negative |-> minus, size |-> size]
    BY <1>6, Zenon
  <2> HIDE DEF numeral, empty, refused, size
  <2>2. /\ Says(s).empty = empty /\ Says(s).refused = refused /\ Says(s).numeral = numeral
        /\ Says(s).negative = minus /\ Says(s).size = size
    BY <2>1, Fields
  <2> QED
    BY <2>2, Zenon DEF numeral, empty, refused, size
<1>9. q \in p .. e
  BY <1>1 DEF DigitsAt, HexAt
<1> HIDE DEF q
<1>10. Len(digits) = e - q /\ DOMAIN digits = 1 .. e - q /\ \A k \in 1 .. e - q : digits[k] = s[q + k]
  BY <1>1, <1>5, <1>9
<1>11. digits = <<>> <=> q = e
  BY <1>1, <1>9, <1>10, <1>5
<1>12. (\A k \in DOMAIN digits : digits[k] \in DOMAIN DigitOf /\ DigitOf[digits[k]] < base)
         <=> AllDigits(s, q + 1, e, base)
  <2>1. ASSUME AllDigits(s, q + 1, e, base), NEW k \in DOMAIN digits
        PROVE  digits[k] \in DOMAIN DigitOf /\ DigitOf[digits[k]] < base
    <3>1. q + k \in q + 1 .. e
      BY <1>1, <1>9, <1>10
    <3> QED
      BY <1>10, <2>1, <3>1 DEF AllDigits
  <2>2. ASSUME \A k \in DOMAIN digits : digits[k] \in DOMAIN DigitOf /\ DigitOf[digits[k]] < base
        PROVE  AllDigits(s, q + 1, e, base)
    <3> SUFFICES ASSUME NEW l \in q + 1 .. e PROVE s[l] \in DOMAIN DigitOf /\ DigitOf[s[l]] < base
      BY DEF AllDigits
    <3>1. l - q \in 1 .. e - q /\ q + (l - q) = l
      BY <1>1, <1>9
    <3>2. digits[l - q] = s[l]
      BY <1>10, <3>1
    <3> QED
      BY <1>10, <2>2, <3>1, <3>2
  <2> QED
    BY <2>1, <2>2
<1>13. Amount(digits, base) = Part(s, q, e, base)
  BY <1>5 DEF Part
<1> QED
  BY <1>5, <1>7, <1>8, <1>11, <1>12, <1>13 DEF q

\* Whatever is read of a text is what it says, but for multiples of 2 * HALF.
LEMMA ReadAsSaid ==
    ASSUME NEW C, NEW s \in Seq(C), NEW m \in Reading(s)
    PROVE  /\ m \in Readings
           /\ Says(s).numeral /\ (Says(s).negative <=> m.negative)
           /\ Says(s).size \in Nat /\ m.uv = Wrap(Says(s).size)
           /\ Says(s).empty => Says(s).size = 0
<1>1. m \in Readings /\ Shape(s, Len(s), m)
  BY ReadingHasShape
<1>2. Len(s) \in Nat /\ m.negative \in BOOLEAN
  BY <1>1, Prefixes DEF Readings
<1>3. ASSUME NEW c \in DOMAIN DigitOf PROVE c # Blank /\ c # "-" /\ c # "x"
  BY Kinds, NoNames DEF NumChar
<1>4. "0" \in DOMAIN DigitOf
  <2>1. 0 \in 0 .. 15 /\ 0 + 1 = 1
    OBVIOUS
  <2> QED
    BY <2>1, Kinds, DigitsAre
<1>5. ASSUME NEW p \in 0 .. Len(s), NEW e \in p .. Len(s), Spelled(s, p, e, m.negative),
             NEW q, q = DigitsAt(s, p, e), NEW base, base = BaseAt(s, p, e),
             AllDigits(s, q + 1, e, base), m.uv = Wrap(Part(s, q, e, base))
      PROVE  /\ Says(s).numeral /\ (Says(s).negative <=> m.negative)
             /\ Says(s).size \in Nat /\ m.uv = Wrap(Says(s).size)
             /\ Says(s).empty => Says(s).size = 0
  <2>1. /\ Says(s).empty <=> q = e
        /\ Says(s).numeral /\ (Says(s).negative <=> m.negative)
        /\ Says(s).size = Part(s, q, e, base)
    BY <1>2, <1>5, SaysIs
  <2>2. q \in 0 .. Len(s) /\ base \in {10, 16}
    BY <1>2, <1>5 DEF DigitsAt, HexAt, BaseAt
  <2>3. Part(s, q, e, base) \in Nat
    <3>1. SubSeq(s, q + 1, e) \in Seq(C)
      BY <1>2, <1>5, <2>2
    <3> QED
      BY <2>2, <3>1, AmountIsNatural DEF Part
  <2>4. q = e => Part(s, q, e, base) = 0
    BY <2>2, EmptyPart
  <2> QED
    BY <1>5, <2>1, <2>3, <2>4
<1>6. ASSUME NEW p \in 0 .. Len(s), NEW e \in p .. Len(s), Decimal(s, Len(s), m, p, e)
      PROVE  /\ Says(s).numeral /\ (Says(s).negative <=> m.negative)
             /\ Says(s).size \in Nat /\ m.uv = Wrap(Says(s).size)
             /\ Says(s).empty => Says(s).size = 0
  <2>1. /\ Front(s, p, m.negative) /\ AllDigits(s, p + 1, e, 10) /\ AllBlank(s, e + 1, Len(s))
        /\ m.uv = Wrap(Part(s, p, e, 10))
    BY <1>6 DEF Decimal
  <2>2. ASSUME p < e PROVE s[e] \in DOMAIN DigitOf /\ s[p + 1] \in DOMAIN DigitOf
    BY <1>2, <2>1, <2>2 DEF AllDigits
  <2>3. Spelled(s, p, e, m.negative)
    BY <1>3, <2>1, <2>2 DEF Spelled
  <2>4. ~HexAt(s, p, e)
    <3> SUFFICES ASSUME HexAt(s, p, e) PROVE FALSE
      OBVIOUS
    <3>1. p + 2 \in p + 1 .. e /\ s[p + 2] = "x"
      BY <1>2 DEF HexAt
    <3> QED
      BY <1>3, <2>1, <3>1 DEF AllDigits
  <2>5. p = DigitsAt(s, p, e) /\ 10 = BaseAt(s, p, e)
    BY <2>4 DEF DigitsAt, BaseAt
  <2> QED
    BY <1>5, <2>1, <2>3, <2>5
<1>7. ASSUME NEW p \in 0 .. Len(s) - 2, Hexadecimal(s, Len(s), m, p)
      PROVE  /\ Says(s).numeral /\ (Says(s).negative <=> m.negative)
             /\ Says(s).size \in Nat /\ m.uv = Wrap(Says(s).size)
             /\ Says(s).empty => Says(s).size = 0
  <2> DEFINE e == Len(s)
             q == p + 2
  <2>1. /\ Front(s, p, m.negative) /\ s[p + 1] = "0" /\ s[p + 2] = "x" /\ AllDigits(s, q + 1, e, 16)
        /\ m.uv = Wrap(Part(s, q, e, 16))
    <3>1. p + 3 = q + 1
      BY <1>2
    <3> QED
      BY <1>7, <3>1 DEF Hexadecimal
  <2>2. s[e] # Blank
    <3>1. CASE e = p + 2
      BY <2>1, <3>1, Marks
    <3>2. CASE e # p + 2
      <4>1. e \in q + 1 .. e
        BY <1>2, <3>2
      <4> QED
        BY <1>3, <2>1, <4>1 DEF AllDigits
    <3> QED
      BY <3>1, <3>2
  <2>3. p \in 0 .. Len(s) /\ e \in p .. Len(s)
    BY <1>2
  <2>4. AllBlank(s, e + 1, Len(s))
    BY <1>2 DEF AllBlank
  <2>5. Spelled(s, p, e, m.negative)
    BY <1>3, <1>4, <2>1, <2>2, <2>4 DEF Spelled
  <2>6. HexAt(s, p, e)
    BY <1>2, <2>1 DEF HexAt
  <2>7. q = DigitsAt(s, p, e) /\ 16 = BaseAt(s, p, e)
    BY <2>6 DEF DigitsAt, BaseAt
  <2> HIDE DEF e, q
  <2> QED
    BY <1>5, <2>1, <2>3, <2>5, <2>7
<1> QED
  BY <1>1, <1>6, <1>7 DEF Shape

\* A set of numbers has a least one.
LEMMA LeastExists ==
    ASSUME NEW T \in SUBSET Nat, T # {}
    PROVE  \E x \in T : \A y \in T : x <= y
<1>1. PICK x \in T : \A y \in T : ~ (<<y, x>> \in OpToRel(<, Nat))
  BY WFMin, NatLessThanWellFounded
<1>2. ASSUME NEW y \in T PROVE x <= y
  <2>1. x \in Nat /\ y \in Nat
    OBVIOUS
  <2>2. ~(y < x)
    BY <1>1, <2>1 DEF OpToRel
  <2> QED
    BY <2>1, <2>2
<1> QED
  BY <1>2

\* Every text is spelled in some way.
LEMMA SpellingExists ==
    ASSUME NEW C, NEW s \in Seq(C)
    PROVE  \E p \in 0 .. Len(s) : \E e \in p .. Len(s) : \E negative \in BOOLEAN : Spelled(s, p, e, negative)
<1> DEFINE N == Len(s)
           E == {n \in Nat : n <= N /\ AllBlank(s, n + 1, N)}
           F == {n \in Nat : n \in 1 .. N /\ s[n] # Blank}
<1>1. N \in Nat
  BY Prefixes
<1>2. N \in E
  BY <1>1 DEF AllBlank
<1>3. PICK e \in E : \A y \in E : e <= y
  <2>1. E \in SUBSET Nat /\ E # {}
    BY <1>2
  <2> HIDE DEF E
  <2> QED
    BY <2>1, LeastExists
<1>4. e \in 0 .. N /\ AllBlank(s, e + 1, N)
  BY <1>1, <1>3
<1>5. ASSUME e # 0 PROVE s[e] # Blank
  <2> SUFFICES ASSUME s[e] = Blank PROVE FALSE
    OBVIOUS
  <2>1. e - 1 \in Nat /\ e - 1 <= N /\ (e - 1) + 1 = e
    BY <1>1, <1>4, <1>5
  <2>2. AllBlank(s, e, N)
    BY <1>1, <1>4 DEF AllBlank
  <2>3. e - 1 \in E
    BY <2>1, <2>2
  <2>4. e <= e - 1
    BY <1>3, <2>3
  <2> QED
    BY <1>4, <2>4
<1> HIDE DEF N
<1>6. CASE e = 0
  <2>1. 0 \in 0 .. N /\ N \in 0 .. N /\ AllBlank(s, 1, N) /\ AllBlank(s, N + 1, N)
    BY <1>1, <1>4, <1>6 DEF AllBlank
  <2>2. Spelled(s, N, N, FALSE)
    BY <1>1, <2>1 DEF Spelled, Front, N
  <2>3. N \in N .. N
    BY <1>1
  <2> QED
    BY <2>1, <2>2, <2>3 DEF N
<1>7. CASE e # 0
  <2>1. e \in F
    BY <1>4, <1>5, <1>7
  <2>2. PICK f \in F : \A y \in F : f <= y
    <3>1. F \in SUBSET Nat /\ F # {}
      BY <2>1
    <3> HIDE DEF F
    <3> QED
      BY <3>1, LeastExists
  <2>3. f \in 1 .. e /\ s[f] # Blank
    BY <1>1, <1>4, <2>1, <2>2
  <2>4. AllBlank(s, 1, f - 1)
    <3> SUFFICES ASSUME NEW l \in 1 .. f - 1, s[l] # Blank PROVE FALSE
      BY DEF AllBlank
    <3>1. l \in F
      BY <1>1, <1>4, <2>3
    <3> QED
      BY <2>2, <2>3, <3>1
  <2>5. CASE s[f] = "-"
    <3>1. Front(s, f, TRUE)
      BY <2>3, <2>4, <2>5 DEF Front
    <3>2. Spelled(s, f, e, TRUE)
      BY <1>4, <1>5, <1>7, <3>1 DEF Spelled, N
    <3>3. f \in 0 .. N /\ e \in f .. N
      BY <1>1, <1>4, <2>3
    <3> QED
      BY <3>2, <3>3 DEF N
  <2>6. CASE s[f] # "-"
    <3> DEFINE p == f - 1
    <3>1. p \in 0 .. N /\ e \in p .. N /\ p + 1 = f
      BY <1>1, <1>4, <2>3
    <3> HIDE DEF p
    <3>2. Front(s, p, FALSE)
      BY <2>4 DEF Front, p
    <3>3. s[p + 1] \notin {Blank, "-"}
      BY <2>3, <2>6, <3>1
    <3>4. Spelled(s, p, e, FALSE)
      BY <1>4, <1>5, <1>7, <3>2, <3>3 DEF Spelled, N
    <3> QED
      BY <3>1, <3>4 DEF N
  <2> QED
    BY <2>5, <2>6
<1> QED
  BY <1>6, <1>7

\* After k characters one thing has been read, and its state is in X.
Reached(s, k, X, v, n) == \E x \in X : Reading(SubSeq(s, 1, k)) = {Here(x, v, n)}

\* In such a state there is one arrow for character c, to a state in Y, and value w.
Leads(X, v, c, Y, w) ==
    \A x \in X : \E y \in Y :
        /\ \A t \in 0 .. 6 : ArrowKind(x, Kind(c), t) <=> t = y
        /\ Value(v, y, c) = w

\* One more character is read.
LEMMA StepAt ==
    ASSUME NEW C, NEW s \in Seq(C), NEW k \in 0 .. Len(s) - 1, NEW X \in SUBSET (0 .. 6), NEW Y \in SUBSET (0 .. 6),
           NEW v, NEW w, NEW n \in BOOLEAN, NEW o \in BOOLEAN, Reached(s, k, X, v, n), Leads(X, v, s[k + 1], Y, w),
           ~Overflows(v, w, s[k + 1]), o <=> n \/ s[k + 1] = "-"
    PROVE  Reached(s, k + 1, Y, w, o)
<1> DEFINE c == s[k + 1]
           u == SubSeq(s, 1, k)
<1>1. u \in Seq(C) /\ c \in C /\ SubSeq(s, 1, k + 1) = Append(u, c)
  <2>1. Len(s) \in Nat /\ 0 \in 0 .. Len(s) /\ 0 + 1 = 1
    BY Prefixes
  <2> QED
    BY <2>1, Prefixes
<1>2. PICK x \in X : Reading(u) = {Here(x, v, n)}
  BY DEF Reached
<1>3. PICK y \in Y : /\ \A t \in 0 .. 6 : ArrowKind(x, Kind(c), t) <=> t = y
                     /\ Value(v, y, c) = w
  BY DEF Leads
<1> HIDE DEF c, u
<1>4. Reading(Append(u, c)) = UNION {Read(m, c) : m \in Reading(u)}
  BY <1>1, ReadRuns
<1> DEFINE m == Here(x, v, n)
<1>5. m.state = x /\ m.uv = v /\ m.negative = n
  BY DEF Here
<1> HIDE DEF m
<1>6. Reading(SubSeq(s, 1, k + 1)) = Read(m, c)
  <2>1. UNION {Read(z, c) : z \in {m}} = Read(m, c)
    OBVIOUS
  <2> QED
    BY <1>1, <1>2, <1>4, <2>1 DEF m
<1>7. {t \in 0 .. 6 : /\ <<x, Kind(c), t>> \in Arrows
                      /\ ~Overflows(v, Value(v, t, c), c)} = {y}
  <2>1. \A t \in 0 .. 6 : <<x, Kind(c), t>> \in Arrows <=> t = y
    BY <1>3, ArrowsAre
  <2>2. ~Overflows(v, Value(v, y, c), c)
    BY <1>3 DEF c
  <2> QED
    BY <2>1, <2>2
<1>8. Read(m, c) = {[state |-> t, uv |-> Value(v, t, c), negative |-> n \/ Kind(c) = "minus"] : t \in {y}}
  BY <1>5, <1>7 DEF Read
<1>9. (n \/ Kind(c) = "minus") = o
  <2>1. Kind(c) = "minus" <=> c = "-"
    BY KindsAre
  <2>2. o <=> n \/ c = "-"
    BY DEF c
  <2> QED
    BY <2>1, <2>2
<1>10. Read(m, c) = {Here(y, w, o)}
  BY <1>3, <1>8, <1>9 DEF Here
<1> QED
  BY <1>6, <1>10 DEF Reached

\* Where a character leads that is no digit
LEMMA NoDigitLeads ==
    ASSUME NEW v
    PROVE  /\ Leads({0}, v, Blank, {0}, v) /\ Leads({0}, v, "-", {3}, v)
           /\ Leads({1}, v, "x", {4}, v) /\ Leads({1, 2, 6}, v, Blank, {6}, v)
<1>1. Kind(Blank) = "blank" /\ Kind("-") = "minus" /\ Kind("x") = "x"
  BY KindsAre
<1>2. \A c \in {Blank, "-", "x"} : \A t : Value(v, t, c) = v
  BY Kinds, NoNames DEF Value, NumChar
<1>3. Leads({0}, v, Blank, {0}, v)
  BY <1>1, <1>2 DEF Leads, ArrowKind
<1>4. Leads({0}, v, "-", {3}, v)
  BY <1>1, <1>2 DEF Leads, ArrowKind
<1>5. Leads({1}, v, "x", {4}, v)
  BY <1>1, <1>2 DEF Leads, ArrowKind
<1>6. Leads({1, 2, 6}, v, Blank, {6}, v)
  BY <1>1, <1>2 DEF Leads, ArrowKind
<1> QED
  BY <1>3, <1>4, <1>5, <1>6

\* Where a digit leads, in base 10 and in base 16
LEMMA DigitLeads ==
    ASSUME NEW a \in Nat, NEW v, v = Wrap(a), NEW c \in DOMAIN DigitOf
    PROVE  /\ DigitOf[c] < 10 => Leads({0, 1, 2, 3}, v, c, {1, 2}, Wrap(a * 10 + ValueOf(c)))
           /\ c = "0" => Leads({0, 3}, v, c, {1}, Wrap(a * 10 + ValueOf(c)))
           /\ Leads({4, 5}, v, c, {5}, Wrap(a * 16 + ValueOf(c)))
<1>1. /\ Kind(c) \in {"zero", "digit", "letter"}
      /\ DigitOf[c] < 10 => Kind(c) \in {"zero", "digit"}
      /\ c = "0" => Kind(c) = "zero"
  BY KindsAre
<1>2. /\ \A t : t # 5 => Value(v, t, c) = Wrap(a * 10 + ValueOf(c))
      /\ Value(v, 5, c) = Wrap(a * 16 + ValueOf(c))
  <2>1. ASSUME NEW t, t # 5 PROVE Value(v, t, c) = Wrap(a * 10 + ValueOf(c))
    <3>1. t = 5 <=> 10 = 16
      BY <2>1
    <3> QED
      BY <3>1, ValueIs
  <2>2. Value(v, 5, c) = Wrap(a * 16 + ValueOf(c))
    <3>1. 5 = 5 <=> 16 = 16
      OBVIOUS
    <3> QED
      BY <3>1, ValueIs
  <2> QED
    BY <2>1, <2>2
<1> DEFINE x == Wrap(a * 10 + ValueOf(c))
           y == Wrap(a * 16 + ValueOf(c))
<1>3. (\A t : t # 5 => Value(v, t, c) = x) /\ Value(v, 5, c) = y
  BY <1>2
<1> HIDE DEF x, y
<1>4. ASSUME DigitOf[c] < 10 PROVE Leads({0, 1, 2, 3}, v, c, {1, 2}, x)
  <2> SUFFICES ASSUME NEW q \in {0, 1, 2, 3}
               PROVE  \E z \in {1, 2} : /\ \A t \in 0 .. 6 : ArrowKind(q, Kind(c), t) <=> t = z
                                        /\ Value(v, z, c) = x
    BY DEF Leads
  <2>1. Value(v, 1, c) = x /\ Value(v, 2, c) = x
    BY <1>3
  <2>2. \A t \in 0 .. 6 : ArrowKind(q, Kind(c), t) <=> t \in {1, 2} /\ (t = 1 <=> q \in {0, 3} /\ Kind(c) = "zero")
    BY <1>1, <1>4 DEF ArrowKind
  <2>3. CASE q \in {0, 3} /\ Kind(c) = "zero"
    <3>1. \A t \in 0 .. 6 : ArrowKind(q, Kind(c), t) <=> t = 1
      BY <2>2, <2>3
    <3> QED
      BY <2>1, <3>1
  <2>4. CASE ~(q \in {0, 3} /\ Kind(c) = "zero")
    <3>1. \A t \in 0 .. 6 : ArrowKind(q, Kind(c), t) <=> t = 2
      BY <2>2, <2>4
    <3> QED
      BY <2>1, <3>1
  <2> QED
    BY <2>3, <2>4
<1>5. ASSUME c = "0" PROVE Leads({0, 3}, v, c, {1}, x)
  <2>1. Value(v, 1, c) = x /\ Kind(c) = "zero"
    BY <1>1, <1>3, <1>5
  <2>2. \A q \in {0, 3}, t \in 0 .. 6 : ArrowKind(q, Kind(c), t) <=> t = 1
    BY <2>1 DEF ArrowKind
  <2> QED
    BY <2>1, <2>2 DEF Leads
<1>6. Leads({4, 5}, v, c, {5}, y)
  <2>1. \A q \in {4, 5}, t \in 0 .. 6 : ArrowKind(q, Kind(c), t) <=> t = 5
    BY <1>1 DEF ArrowKind
  <2> QED
    BY <1>3, <2>1 DEF Leads
<1> QED
  BY <1>4, <1>5, <1>6 DEF x, y

\* Blanks in front
LEMMA ReadBlanks ==
    ASSUME NEW C, NEW s \in Seq(C), NEW i \in 0 .. Len(s), AllBlank(s, 1, i)
    PROVE  Reached(s, i, {0}, 0, FALSE)
<1> DEFINE T == {k \in Nat : k <= i => Reached(s, k, {0}, 0, FALSE)}
<1>1. Len(s) \in Nat /\ i \in Nat /\ SubSeq(s, 1, 0) = <<>>
  BY Prefixes
<1>2. 0 \in T
  <2>1. Reading(SubSeq(s, 1, 0)) = {Here(0, 0, FALSE)}
    BY <1>1, ReadRuns DEF ReadStart, Here
  <2> QED
    BY <2>1 DEF Reached
<1>3. ASSUME NEW n \in 0 .. i - 1, n \in T PROVE n + 1 \in T
  <2>1. n \in 0 .. Len(s) - 1 /\ n <= i /\ n + 1 \in Nat
    BY <1>1
  <2>2. s[n + 1] = Blank
    BY <1>1, <2>1 DEF AllBlank
  <2>3. ~Overflows(0, 0, s[n + 1])
    BY DEF Overflows
  <2>4. FALSE <=> FALSE \/ s[n + 1] = "-"
    BY <2>2, Marks
  <2>5. Reached(s, n, {0}, 0, FALSE) /\ Leads({0}, 0, s[n + 1], {0}, 0)
    BY <1>3, <2>1, <2>2, NoDigitLeads
  <2>6. {0} \in SUBSET (0 .. 6) /\ FALSE \in BOOLEAN
    OBVIOUS
  <2>7. Reached(s, n + 1, {0}, 0, FALSE)
    BY <2>1, <2>3, <2>4, <2>5, <2>6, StepAt, Zenon
  <2> QED
    BY <2>1, <2>7
<1> HIDE DEF T
<1>4. i \in T
  <2>1. i \in 0 .. i
    BY <1>1
  <2> QED
    BY <1>1, <1>2, <1>3, <2>1, Induction
<1>5. i <= i
  BY <1>1
<1> QED
  BY <1>4, <1>5, Zenon DEF T

\* Blanks in front and perhaps a minus
LEMMA ReadSign ==
    ASSUME NEW C, NEW s \in Seq(C), NEW p \in 0 .. Len(s), NEW negative \in BOOLEAN, Front(s, p, negative)
    PROVE  Reached(s, p, {0, 3}, 0, negative)
<1>1. Len(s) \in Nat
  BY Prefixes
<1>2. CASE negative = FALSE
  <2>1. Reached(s, p, {0}, 0, FALSE)
    BY <1>2, ReadBlanks DEF Front
  <2> QED
    BY <1>2, <2>1 DEF Reached
<1>3. CASE negative = TRUE
  <2> DEFINE i == p - 1
  <2>1. i \in 0 .. Len(s) - 1 /\ i \in 0 .. Len(s) /\ i + 1 = p /\ s[p] = "-" /\ AllBlank(s, 1, i)
    BY <1>1, <1>3 DEF Front
  <2> HIDE DEF i
  <2>2. Reached(s, i, {0}, 0, FALSE)
    BY <2>1, ReadBlanks
  <2>3. ~Overflows(0, 0, s[p])
    BY DEF Overflows
  <2>4. Leads({0}, 0, s[p], {3}, 0)
    BY <2>1, NoDigitLeads
  <2>5. TRUE <=> FALSE \/ s[p] = "-"
    BY <2>1
  <2>6. {0} \in SUBSET (0 .. 6) /\ {3} \in SUBSET (0 .. 6) /\ FALSE \in BOOLEAN /\ TRUE \in BOOLEAN
    OBVIOUS
  <2>7. Reached(s, i + 1, {3}, 0, TRUE)
    BY <2>1, <2>2, <2>3, <2>4, <2>5, <2>6, StepAt, Zenon
  <2> QED
    BY <1>3, <2>1, <2>7 DEF Reached
<1> QED
  BY <1>2, <1>3

\* More digits are no smaller number.
LEMMA PartGrows ==
    ASSUME NEW C, NEW s \in Seq(C), NEW q \in 0 .. Len(s), NEW e \in q .. Len(s), NEW base \in {10, 16}
    PROVE  \A k \in q .. e : Part(s, q, k, base) \in Nat /\ Part(s, q, k, base) <= Part(s, q, e, base)
<1> DEFINE A(k) == Part(s, q, k, base)
           T == {n \in Nat : n <= e - q => \A k \in q .. q + n : A(k) \in Nat /\ A(k) <= A(q + n)}
<1>1. Len(s) \in Nat /\ q \in Nat /\ e \in Nat
  BY Prefixes
<1>2. 0 \in T
  <2>1. A(q) = 0
    BY EmptyPart
  <2>2. q + 0 = q /\ \A k \in q .. q : k = q
    BY <1>1
  <2> HIDE DEF A
  <2> QED
    BY <2>1, <2>2
<1>3. ASSUME NEW n \in 0 .. (e - q) - 1, n \in T PROVE n + 1 \in T
  <2> DEFINE m == q + n
  <2>1. n \in Nat /\ n <= e - q /\ m \in 0 .. Len(s) - 1 /\ q \in 0 .. m /\ q + (n + 1) = m + 1 /\ m \in Nat
    BY <1>1
  <2>2. \A k \in q .. m : A(k) \in Nat /\ A(k) <= A(m)
    BY <1>3, <2>1
  <2> HIDE DEF m
  <2>3. A(m) \in Nat /\ A(m + 1) = A(m) * base + ValueOf(s[m + 1])
    BY <2>1, PartMore
  <2>4. ValueOf(s[m + 1]) \in Nat
    BY DigitsAre DEF ValueOf
  <2> HIDE DEF A
  <2>5. A(m + 1) \in Nat /\ A(m) <= A(m + 1)
    <3>1. CASE base = 10
      BY <2>3, <2>4, <3>1
    <3>2. CASE base = 16
      BY <2>3, <2>4, <3>2
    <3> QED
      BY <3>1, <3>2
  <2>6. ASSUME NEW k \in q .. m + 1 PROVE A(k) \in Nat /\ A(k) <= A(m + 1)
    <3>1. CASE k = m + 1
      BY <2>5, <3>1
    <3>2. CASE k # m + 1
      <4>1. k \in q .. m
        BY <2>1, <3>2
      <4> QED
        BY <2>2, <2>3, <2>5, <4>1
    <3> QED
      BY <3>1, <3>2
  <2> QED
    BY <2>1, <2>6 DEF m
<1> HIDE DEF T
<1>4. e - q \in T
  <2>1. e - q \in Nat /\ e - q \in 0 .. e - q
    BY <1>1
  <2> QED
    BY <1>2, <1>3, <2>1, Induction
<1>5. e - q <= e - q /\ q + (e - q) = e
  BY <1>1
<1> HIDE DEF A
<1>6. \A k \in q .. e : A(k) \in Nat /\ A(k) <= A(e)
  BY <1>4, <1>5 DEF T
<1> QED
  BY <1>6 DEF A

\* The states that digits are read in, and the ones they lead to
DigitFrom(base) == IF base = 10 THEN {0, 1, 2, 3} ELSE {4, 5}
DigitTo(base) == IF base = 10 THEN {1, 2} ELSE {5}

\* One digit of a number that is not too large is read.
LEMMA DigitAt ==
    ASSUME NEW C, NEW s \in Seq(C), NEW q \in 0 .. Len(s), NEW e \in q .. Len(s), NEW base \in {10, 16},
           AllDigits(s, q + 1, e, base), Part(s, q, e, base) < 2 * HALF, NEW n \in BOOLEAN,
           NEW k \in q .. e - 1, Reached(s, k, DigitFrom(base), Part(s, q, k, base), n)
    PROVE  Reached(s, k + 1, DigitTo(base), Part(s, q, k + 1, base), n)
<1> DEFINE c == s[k + 1]
           a == Part(s, q, k, base)
           b == Part(s, q, k + 1, base)
<1>1. Len(s) \in Nat /\ k \in 0 .. Len(s) - 1 /\ q \in 0 .. k /\ k \in q .. e /\ k + 1 \in q .. e /\ k + 1 \in q + 1 .. e
  BY Prefixes
<1>2. c \in DOMAIN DigitOf /\ DigitOf[c] < base
  BY <1>1 DEF AllDigits
<1>3. a \in Nat /\ b \in Nat /\ b = a * base + ValueOf(c) /\ b <= Part(s, q, e, base)
  BY <1>1, PartMore, PartGrows
<1>4. Part(s, q, e, base) \in Nat
  <2>1. e \in q .. e
    BY <1>1
  <2> QED
    BY <2>1, PartGrows
<1>5. ValueOf(c) \in Nat
  BY DigitsAre DEF ValueOf
<1>6. c # "-"
  BY <1>2, Kinds
<1> HIDE DEF c, a, b
<1>7. a <= b
  BY <1>3, <1>5
<1>8. a \in Word /\ b \in Word /\ a = Wrap(a) /\ b = Wrap(b)
  <2>1. a \in Word /\ b \in Word
    BY <1>3, <1>4, <1>7, WordAssumption DEF Word
  <2> QED
    BY <2>1, WrapWord
<1>9. Leads(DigitFrom(base), a, c, DigitTo(base), b)
  <2>1. CASE base = 10
    <3>1. b = Wrap(a * 10 + ValueOf(c)) /\ DigitOf[c] < 10
      BY <1>2, <1>3, <1>8, <2>1
    <3>2. Leads({0, 1, 2, 3}, a, c, {1, 2}, b)
      BY <1>2, <1>3, <1>8, <3>1, DigitLeads
    <3> QED
      BY <2>1, <3>2 DEF DigitFrom, DigitTo
  <2>2. CASE base = 16
    <3>1. b = Wrap(a * 16 + ValueOf(c))
      BY <1>3, <1>8, <2>2
    <3>2. Leads({4, 5}, a, c, {5}, b)
      BY <1>2, <1>3, <1>8, <3>1, DigitLeads
    <3> QED
      BY <2>2, <3>2 DEF DigitFrom, DigitTo
  <2> QED
    BY <2>1, <2>2
<1>10. ~Overflows(a, b, c)
  BY <1>3, <1>7 DEF Overflows
<1>11. DigitFrom(base) \in SUBSET (0 .. 6) /\ DigitTo(base) \in SUBSET (0 .. 6)
  BY DEF DigitFrom, DigitTo
<1>12. n <=> n \/ c = "-"
  BY <1>6
<1>13. Reached(s, k, DigitFrom(base), a, n)
  BY DEF a
<1>14. Reached(s, k + 1, DigitTo(base), b, n)
  BY <1>1, <1>9, <1>10, <1>11, <1>12, <1>13, StepAt, Zenon DEF c
<1> QED
  BY <1>14 DEF b

\* Digits of a number that is not too large are read.
LEMMA DigitsRead ==
    ASSUME NEW C, NEW s \in Seq(C), NEW q \in 0 .. Len(s), NEW e \in q .. Len(s), NEW base \in {10, 16},
           AllDigits(s, q + 1, e, base), Part(s, q, e, base) < 2 * HALF, NEW n \in BOOLEAN,
           Reached(s, q, DigitFrom(base), 0, n), q < e
    PROVE  Reached(s, e, DigitTo(base), Part(s, q, e, base), n)
<1> DEFINE B(k) == Reached(s, k, DigitFrom(base), Part(s, q, k, base), n)
           T == {j \in Nat : j <= (e - q) - 1 => B(q + j)}
<1>1. Len(s) \in Nat /\ q \in Nat /\ e \in Nat
  BY Prefixes
<1>2. 0 \in T
  <2>1. q + 0 = q /\ Part(s, q, q, base) = 0
    BY <1>1, EmptyPart
  <2>2. B(q)
    BY <2>1
  <2> HIDE DEF B
  <2> QED
    BY <2>1, <2>2
<1>3. ASSUME NEW j \in 0 .. ((e - q) - 1) - 1, j \in T PROVE j + 1 \in T
  <2> DEFINE k == q + j
  <2>1. j \in Nat /\ j + 1 \in Nat /\ j <= (e - q) - 1 /\ k \in q .. e - 1 /\ q + (j + 1) = k + 1
    BY <1>1
  <2>2. B(k)
    BY <1>3, <2>1
  <2> HIDE DEF k
  <2>3. Reached(s, k + 1, DigitTo(base), Part(s, q, k + 1, base), n)
    BY <2>1, <2>2, DigitAt
  <2>4. DigitTo(base) \subseteq DigitFrom(base)
    BY DEF DigitTo, DigitFrom
  <2>5. B(k + 1)
    BY <2>3, <2>4 DEF Reached
  <2> HIDE DEF B
  <2> QED
    BY <2>1, <2>5
<1> HIDE DEF T
<1> DEFINE N == (e - q) - 1
<1>4. N \in Nat /\ N \in 0 .. N /\ N <= N /\ q + N = e - 1 /\ e - 1 \in q .. e - 1 /\ (e - 1) + 1 = e
  BY <1>1
<1>5. N \in T
  BY <1>2, <1>3, <1>4, Induction
<1>6. B(e - 1)
  <2> HIDE DEF B
  <2> QED
    BY <1>4, <1>5 DEF T
<1>7. Reached(s, (e - 1) + 1, DigitTo(base), Part(s, q, (e - 1) + 1, base), n)
  <2> DEFINE k == e - 1
  <2>1. k \in q .. e - 1 /\ Reached(s, k, DigitFrom(base), Part(s, q, k, base), n)
    BY <1>4, <1>6
  <2> HIDE DEF k
  <2>2. Reached(s, k + 1, DigitTo(base), Part(s, q, k + 1, base), n)
    BY <2>1, DigitAt
  <2> QED
    BY <2>2 DEF k
<1> QED
  BY <1>4, <1>7

\* Blanks behind
LEMMA ReadBehind ==
    ASSUME NEW C, NEW s \in Seq(C), NEW e \in 0 .. Len(s), AllBlank(s, e + 1, Len(s)),
           NEW v \in Nat, NEW n \in BOOLEAN, Reached(s, e, {1, 2}, v, n)
    PROVE  Reading(s) # {}
<1> DEFINE X == {1, 2, 6}
           B(k) == Reached(s, k, X, v, n)
           N == Len(s) - e
           T == {j \in Nat : j <= N => B(e + j)}
<1>1. Len(s) \in Nat /\ e \in Nat /\ SubSeq(s, 1, Len(s)) = s
  BY Prefixes
<1>2. 0 \in T
  <2>1. e + 0 = e /\ B(e)
    BY <1>1 DEF Reached
  <2> HIDE DEF B
  <2> QED
    BY <2>1
<1>3. ASSUME NEW j \in 0 .. N - 1, j \in T PROVE j + 1 \in T
  <2> DEFINE k == e + j
  <2>1. j + 1 \in Nat /\ j <= N /\ k \in 0 .. Len(s) - 1 /\ k + 1 \in e + 1 .. Len(s) /\ e + (j + 1) = k + 1
    BY <1>1
  <2>2. B(k)
    BY <1>3, <2>1
  <2> HIDE DEF k
  <2>3. s[k + 1] = Blank
    BY <2>1 DEF AllBlank
  <2>4. Leads(X, v, s[k + 1], {6}, v)
    BY <2>3, NoDigitLeads
  <2>5. ~Overflows(v, v, s[k + 1])
    BY DEF Overflows
  <2>6. n <=> n \/ s[k + 1] = "-"
    BY <2>3, Marks
  <2>7. X \in SUBSET (0 .. 6) /\ {6} \in SUBSET (0 .. 6)
    OBVIOUS
  <2> HIDE DEF X
  <2>8. Reached(s, k + 1, {6}, v, n)
    BY <2>1, <2>2, <2>4, <2>5, <2>6, <2>7, StepAt, Zenon
  <2>9. B(k + 1)
    BY <2>8 DEF Reached, X
  <2> HIDE DEF B
  <2> QED
    BY <2>1, <2>9
<1> HIDE DEF T, B
<1>4. N \in Nat /\ N \in 0 .. N /\ N <= N /\ e + N = Len(s)
  BY <1>1
<1> HIDE DEF N
<1>5. N \in T
  BY <1>2, <1>3, <1>4, Induction
<1>6. B(Len(s))
  BY <1>4, <1>5 DEF T
<1> QED
  BY <1>1, <1>6 DEF B, Reached

\* A number that fits is read, however it is spelled, but for blanks behind a
\* hexadecimal one.
LEMMA NumeralIsRead ==
    ASSUME NEW C, NEW s \in Seq(C), ~Says(s).empty, Says(s).numeral, ~Says(s).refused,
           Says(s).size < 2 * HALF
    PROVE  Reading(s) # {}
<1>1. PICK p \in 0 .. Len(s) : \E e \in p .. Len(s) : \E n \in BOOLEAN : Spelled(s, p, e, n)
  BY SpellingExists
<1>2. PICK e \in p .. Len(s) : \E n \in BOOLEAN : Spelled(s, p, e, n)
  BY <1>1
<1>3. PICK n \in BOOLEAN : Spelled(s, p, e, n)
  BY <1>2
<1>4. Len(s) \in Nat /\ p \in Nat /\ e \in Nat /\ e <= Len(s)
  BY Prefixes
<1> DEFINE q == DigitsAt(s, p, e)
           base == BaseAt(s, p, e)
<1>5. /\ q # e /\ AllDigits(s, q + 1, e, base) /\ Part(s, q, e, base) < 2 * HALF
      /\ ~(HexAt(s, p, e) /\ s[Len(s)] = Blank)
  BY <1>3, SaysIs
<1>6. Len(s) \in Nat /\ p \in Nat /\ e \in Nat /\ q \in p .. e /\ base \in {10, 16} /\ SubSeq(s, 1, Len(s)) = s
  BY Prefixes DEF DigitsAt, BaseAt, HexAt
<1>7. Reached(s, p, {0, 3}, 0, n) /\ AllBlank(s, e + 1, Len(s))
  <2>1. Front(s, p, n) /\ AllBlank(s, e + 1, Len(s))
    BY <1>3 DEF Spelled
  <2> QED
    BY <2>1, ReadSign
<1>8. q < e /\ q \in 0 .. Len(s) /\ e \in q .. Len(s) /\ Part(s, q, e, base) \in Nat
  <2>1. q < e /\ q \in 0 .. Len(s) /\ e \in q .. Len(s) /\ e \in q .. e
    BY <1>5, <1>6
  <2> HIDE DEF q, base
  <2> QED
    BY <1>6, <2>1, PartGrows
<1>9. CASE ~HexAt(s, p, e)
  <2>1. q = p /\ base = 10 /\ DigitFrom(base) = {0, 1, 2, 3} /\ DigitTo(base) = {1, 2}
    BY <1>9 DEF DigitsAt, BaseAt, DigitFrom, DigitTo
  <2> HIDE DEF q, base
  <2>2. Reached(s, q, DigitFrom(base), 0, n)
    BY <1>7, <2>1 DEF Reached
  <2>3. Reached(s, e, {1, 2}, Part(s, q, e, base), n)
    <3>1. Reached(s, e, DigitTo(base), Part(s, q, e, base), n)
      BY <1>5, <1>6, <1>8, <2>2, DigitsRead
    <3> QED
      BY <2>1, <3>1
  <2>4. e \in 0 .. Len(s)
    BY <1>6
  <2> QED
    BY <1>7, <1>8, <2>3, <2>4, ReadBehind
<1>10. CASE HexAt(s, p, e)
  <2>1. /\ q = p + 2 /\ base = 16 /\ DigitFrom(base) = {4, 5}
        /\ p + 2 <= e /\ s[p + 1] = "0" /\ s[p + 2] = "x"
    BY <1>10 DEF DigitsAt, BaseAt, DigitFrom, HexAt
  <2> HIDE DEF q, base
  <2>2. e = Len(s)
    <3> SUFFICES ASSUME e # Len(s) PROVE FALSE
      OBVIOUS
    <3>1. e \in Nat /\ Len(s) \in Nat /\ e <= Len(s)
      BY <1>4
    <3>2. Len(s) \in e + 1 .. Len(s)
      BY <3>1
    <3> QED
      BY <1>5, <1>7, <1>10, <3>2 DEF AllBlank
  <2>3. p \in 0 .. Len(s) - 1 /\ p + 1 \in 0 .. Len(s) - 1 /\ (p + 1) + 1 = p + 2
    BY <1>6, <2>1
  <2>4. 0 \in Nat /\ 0 = Wrap(0) /\ "0" \in DOMAIN DigitOf /\ ValueOf("0") = 0
    <3>1. 0 \in 0 .. 15 /\ 0 + 1 = 1 /\ 0 \in Word
      BY WordAssumption DEF Word
    <3>2. "0" \in DOMAIN DigitOf /\ DigitOf["0"] = 0
      BY <3>1, Kinds, DigitsAre
    <3> QED
      BY <3>1, <3>2, WrapWord DEF ValueOf
  <2>5. Leads({0, 3}, 0, s[p + 1], {1}, 0)
    <3>1. 0 * 10 + ValueOf("0") = 0
      BY <2>4
    <3>2. Leads({0, 3}, 0, "0", {1}, Wrap(0 * 10 + ValueOf("0")))
      BY <2>4, DigitLeads
    <3> QED
      BY <2>1, <2>4, <3>1, <3>2
  <2>6. /\ {0, 3} \in SUBSET (0 .. 6) /\ {1} \in SUBSET (0 .. 6) /\ {4} \in SUBSET (0 .. 6)
        /\ ~Overflows(0, 0, s[p + 1]) /\ ~Overflows(0, 0, s[p + 2])
    BY DEF Overflows
  <2>7. (n <=> n \/ s[p + 1] = "-") /\ (n <=> n \/ s[p + 2] = "-")
    <3>1. s[p + 1] # "-" /\ s[p + 2] # "-"
      BY <2>1
    <3> QED
      BY <3>1
  <2>8. Reached(s, p + 1, {1}, 0, n)
    BY <1>7, <2>3, <2>5, <2>6, <2>7, StepAt, Zenon
  <2>9. Leads({1}, 0, s[p + 2], {4}, 0)
    BY <2>1, NoDigitLeads
  <2>10. Reached(s, p + 2, {4}, 0, n)
    <3> DEFINE k == p + 1
    <3>1. k \in 0 .. Len(s) - 1 /\ k + 1 = p + 2 /\ Reached(s, k, {1}, 0, n)
      BY <2>3, <2>8
    <3> HIDE DEF k
    <3>2. /\ Leads({1}, 0, s[k + 1], {4}, 0) /\ ~Overflows(0, 0, s[k + 1])
          /\ n <=> n \/ s[k + 1] = "-"
      BY <2>6, <2>7, <2>9, <3>1
    <3>3. Reached(s, k + 1, {4}, 0, n)
      BY <2>6, <3>1, <3>2, StepAt, Zenon
    <3> QED
      BY <3>1, <3>3
  <2>11. Reached(s, q, DigitFrom(base), 0, n)
    BY <2>1, <2>10 DEF Reached
  <2>12. Reached(s, e, DigitTo(base), Part(s, q, e, base), n)
    BY <1>5, <1>6, <1>8, <2>11, DigitsRead
  <2> QED
    BY <1>6, <2>2, <2>12 DEF Reached
<1> QED
  BY <1>9, <1>10

IsBracket(c) == c \in {"(", ")"}

\* There are no brackets in a numeral.
LEMMA NumeralChars ==
    ASSUME NEW C, NEW s \in Seq(C), Says(s).numeral, NEW l \in 1 .. Len(s)
    PROVE  ~IsBracket(s[l])
<1>1. PICK p \in 0 .. Len(s) : \E e \in p .. Len(s) : \E n \in BOOLEAN : Spelled(s, p, e, n)
  BY SpellingExists
<1>2. PICK e \in p .. Len(s) : \E n \in BOOLEAN : Spelled(s, p, e, n)
  BY <1>1
<1>3. PICK n \in BOOLEAN : Spelled(s, p, e, n)
  BY <1>2
<1>4. Len(s) \in Nat /\ p \in Nat /\ e \in Nat
  BY Prefixes
<1> DEFINE q == DigitsAt(s, p, e)
           base == BaseAt(s, p, e)
<1>5. AllDigits(s, q + 1, e, base)
  BY <1>3, SaysIs
<1>6. /\ ~IsBracket(Blank) /\ ~IsBracket("-") /\ ~IsBracket("0") /\ ~IsBracket("x")
      /\ \A c \in DOMAIN DigitOf : ~IsBracket(c)
  BY Marks, NoNames DEF NumChar, IsBracket
<1>7. CASE l \in 1 .. p
  <2>1. s[l] \in {Blank, "-"}
    BY <1>3, <1>4, <1>7 DEF Spelled, Front, AllBlank
  <2> QED
    BY <1>6, <2>1
<1>8. CASE l \in p + 1 .. q
  <2>1. s[l] \in {"0", "x"}
    BY <1>4, <1>8 DEF DigitsAt, HexAt
  <2> QED
    BY <1>6, <2>1
<1>9. CASE l \in q + 1 .. e
  BY <1>5, <1>6, <1>9 DEF AllDigits
<1>10. CASE l \in e + 1 .. Len(s)
  <2>1. s[l] = Blank
    BY <1>3, <1>10 DEF Spelled, AllBlank
  <2> QED
    BY <1>6, <2>1
<1>11. q \in Nat
  BY <1>4 DEF DigitsAt
<1> HIDE DEF q, base
<1> QED
  BY <1>4, <1>7, <1>8, <1>9, <1>10, <1>11

\* The name of a register is none of the marks.
LEMMA NamesAreNoMarks ==
    ASSUME Register \subseteq DOMAIN RegisterNames, NEW r, reflect_registers(<<r>>) # {}
    PROVE  r \notin {Blank, Comma, "$", "(", ")"} /\ NamesRegister(<<r>>)
<1>1. PICK x \in Register : IsIn(RegisterNames[x], <<r>>)
  BY DEF reflect_registers
<1>2. x \in DOMAIN RegisterNames
  BY <1>1
<1>3. PICK k \in DOMAIN RegisterNames[x] : <<r>> = <<RegisterNames[x][k]>>
  BY <1>1 DEF IsIn
<1>4. r = RegisterNames[x][k]
  <2> DEFINE y == RegisterNames[x][k]
  <2>1. <<r>> = <<y>>
    BY <1>3
  <2> HIDE DEF y
  <2>2. <<r>>[1] = r /\ <<y>>[1] = y
    OBVIOUS
  <2> QED
    BY <2>1, <2>2 DEF y
<1>5. Owner(r) = x /\ x # ""
  BY <1>2, <1>3, <1>4, RegisterNamesOwned
<1>6. r \notin {Blank, Comma, "$", "(", ")"}
  BY <1>5, NoNames
<1>7. NamesRegister(<<r>>)
  <2>1. <<r>>[1] = r
    OBVIOUS
  <2> QED
    BY <1>1, <1>2, <2>1, Zenon DEF NamesRegister
<1> QED
  BY <1>6, <1>7

\* parse_instruction after k characters of a move of an immediate
InMove(t, k, p) ==
    /\ p.state = 3 /\ p.brackets \in Nat /\ p.op = <<"mov">> /\ p.src = SubSeq(t, 3, k) /\ p.dst = <<>>
    /\ p.brackets # 0 <=> \E l \in 4 .. k : IsBracket(t[l])

\* It collects the source up to the comma.
LEMMA MoveSource ==
    ASSUME NEW C, NEW t \in Seq(C), IsImmediateMove(t)
    PROVE  InMove(t, Len(t) - 2, Separate(SubSeq(t, 1, Len(t) - 2)))
<1> DEFINE P(k) == Separate(SubSeq(t, 1, k))
           N == (Len(t) - 2) - 3
           T == {j \in Nat : j <= N => InMove(t, 3 + j, P(3 + j))}
<1>1. Len(t) \in Nat /\ Len(t) > 4 /\ SubSeq(t, 1, 0) = <<>> /\ N \in Nat /\ 3 + N = Len(t) - 2
  BY Prefixes DEF IsImmediateMove
<1>2. ASSUME NEW k \in 0 .. Len(t) - 1 PROVE P(k) \in SplitState(C) /\ P(k + 1) = Split(P(k), t[k + 1])
  <2> DEFINE u == SubSeq(t, 1, k)
             c == t[k + 1]
  <2>1. u \in Seq(C) /\ c \in C /\ SubSeq(t, 1, k + 1) = Append(u, c)
    <3>1. 0 \in 0 .. Len(t) /\ 0 + 1 = 1
      BY <1>1
    <3> QED
      BY <1>1, <3>1, Prefixes
  <2> HIDE DEF u, c
  <2>2. Separate(u) \in SplitState(C) /\ Separate(Append(u, c)) = Split(Separate(u), c)
    BY <2>1, SplitRuns
  <2> QED
    BY <2>1, <2>2 DEF u, c
<1>3. t[1] = "mov" /\ t[2] = Blank /\ t[3] = "$"
  <2>1. SubSeq(t, 1, 3) = <<"mov", Blank, "$">>
    BY DEF IsImmediateMove
  <2> DEFINE u == SubSeq(t, 1, 3)
             v == <<"mov", Blank, "$">>
  <2>2. u[1] = t[1] /\ u[2] = t[2] /\ u[3] = t[3]
    BY <1>1
  <2>3. v[1] = "mov" /\ v[2] = Blank /\ v[3] = "$"
    OBVIOUS
  <2>4. u = v
    BY <2>1
  <2> HIDE DEF u, v
  <2> QED
    BY <2>2, <2>3, <2>4
<1>4. "mov" # Blank /\ "$" # Blank /\ "mov" \notin {"(", ")"} /\ Blank \notin {"(", ")"} /\ "$" \notin {"(", ")"}
  <2>1. Meant("mov") = "mov"
    BY DEF Meant
  <2> QED
    BY <2>1, NoNames, Marks
<1>5. P(0) = SplitStart
  BY <1>1, SplitRuns
<1>6. P(1) = [state |-> 1, brackets |-> 0, op |-> <<"mov">>, src |-> <<>>, dst |-> <<>>]
  <2>1. P(0 + 1) = Split(SplitStart, "mov")
    BY <1>1, <1>2, <1>3, <1>5
  <2>2. State(SplitStart, "mov") = 1
    BY <1>4 DEF State, SplitStart
  <2>3. Split(SplitStart, "mov") = [state |-> 1, brackets |-> 0, op |-> <<"mov">>, src |-> <<>>, dst |-> <<>>]
    BY <1>4, <2>2 DEF Split, SplitStart
  <2> QED
    BY <2>1, <2>3
<1>7. P(2) = [state |-> 2, brackets |-> 0, op |-> <<"mov">>, src |-> <<>>, dst |-> <<>>]
  <2> DEFINE p == [state |-> 1, brackets |-> 0, op |-> <<"mov">>, src |-> <<>>, dst |-> <<>>]
  <2>1. P(1 + 1) = Split(p, Blank)
    BY <1>1, <1>2, <1>3, <1>6
  <2>2. State(p, Blank) = 2
    BY <1>4 DEF State
  <2>3. Split(p, Blank) = [state |-> 2, brackets |-> 0, op |-> <<"mov">>, src |-> <<>>, dst |-> <<>>]
    BY <1>4, <2>2 DEF Split
  <2> QED
    BY <2>1, <2>3
<1>8. P(3) = [state |-> 3, brackets |-> 0, op |-> <<"mov">>, src |-> <<"$">>, dst |-> <<>>]
  <2> DEFINE p == [state |-> 2, brackets |-> 0, op |-> <<"mov">>, src |-> <<>>, dst |-> <<>>]
  <2>1. P(2 + 1) = Split(p, "$")
    BY <1>1, <1>2, <1>3, <1>7
  <2>2. State(p, "$") = 3
    BY <1>4 DEF State
  <2>3. Split(p, "$") = [state |-> 3, brackets |-> 0, op |-> <<"mov">>, src |-> <<"$">>, dst |-> <<>>]
    BY <1>4, <2>2 DEF Split
  <2> QED
    BY <2>1, <2>3
<1>9. 0 \in T
  <2>1. SubSeq(t, 3, 3) = <<"$">>
    <3>1. 2 \in 0 .. Len(t) /\ 2 \in 2 .. Len(t) - 1 /\ 2 + 1 = 3
      BY <1>1
    <3> DEFINE k == 2
    <3>2. SubSeq(t, k + 1, k) = <<>> /\ SubSeq(t, k + 1, k + 1) = Append(SubSeq(t, k + 1, k), t[k + 1])
      <4>1. k \in 0 .. Len(t) /\ k \in k .. Len(t) - 1
        BY <3>1
      <4> HIDE DEF k
      <4> QED
        BY <4>1, Prefixes
    <3>3. SubSeq(t, k + 1, k + 1) = Append(<<>>, "$")
      <4>1. t[k + 1] = "$"
        BY <1>3, <3>1
      <4> HIDE DEF k
      <4> QED
        BY <3>2, <4>1
    <3>4. Append(<<>>, "$") = <<"$">> /\ k + 1 = 3
      OBVIOUS
    <3> HIDE DEF k
    <3> QED
      BY <3>3, <3>4
  <2> DEFINE p == [state |-> 3, brackets |-> 0, op |-> <<"mov">>, src |-> <<"$">>, dst |-> <<>>]
  <2>2. p.state = 3 /\ p.brackets = 0 /\ p.op = <<"mov">> /\ p.src = <<"$">> /\ p.dst = <<>>
    OBVIOUS
  <2>3. P(3) = p
    BY <1>8
  <2> HIDE DEF p, P
  <2>4. InMove(t, 3, p)
    <3>1. p.brackets \in Nat /\ ~ \E l \in 4 .. 3 : IsBracket(t[l])
      BY <2>2
    <3>2. ~(p.brackets # 0)
      BY <2>2
    <3> QED
      BY <2>1, <2>2, <3>1, <3>2, Zenon DEF InMove
  <2> QED
    BY <2>3, <2>4
<1>10. ASSUME NEW j \in 0 .. N - 1, j \in T PROVE j + 1 \in T
  <2> DEFINE k == 3 + j
             c == t[k + 1]
             p == P(k)
  <2>1. j + 1 \in Nat /\ j <= N /\ k \in 0 .. Len(t) - 1 /\ k \in 3 .. Len(t) - 3 /\ 3 + (j + 1) = k + 1 /\ k + 1 \in 4 .. Len(t) - 2
    BY <1>1
  <2>2. InMove(t, k, p)
    BY <1>10, <2>1
  <2>3. P(k + 1) = Split(p, c)
    BY <1>2, <2>1
  <2>4. c # Comma /\ SubSeq(t, 3, k + 1) = Append(SubSeq(t, 3, k), c)
    <3>1. c # Comma
      BY <2>1 DEF IsImmediateMove
    <3>2. SubSeq(t, 3, k + 1) = Append(SubSeq(t, 3, k), c)
      BY <1>1, <2>1
    <3> QED
      BY <3>1, <3>2
  <2> HIDE DEF P, p, c, k
  <2>5. State(p, c) = 3
    BY <2>2, <2>4 DEF State, InMove
  <2>6. /\ Split(p, c).state = 3 /\ Split(p, c).op = p.op /\ Split(p, c).dst = p.dst
        /\ Split(p, c).src = Append(p.src, c)
        /\ Split(p, c).brackets = IF IsBracket(c) THEN p.brackets + 1 ELSE p.brackets
    BY <2>5 DEF Split, IsBracket
  <2>7. (\E l \in 4 .. k + 1 : IsBracket(t[l])) <=> (\E l \in 4 .. k : IsBracket(t[l])) \/ IsBracket(c)
    BY <2>1 DEF c
  <2>8. /\ p.brackets \in Nat /\ p.op = <<"mov">> /\ p.src = SubSeq(t, 3, k) /\ p.dst = <<>>
        /\ p.brackets # 0 <=> \E l \in 4 .. k : IsBracket(t[l])
    BY <2>2 DEF InMove
  <2>9. /\ Split(p, c).brackets \in Nat
        /\ Split(p, c).brackets # 0 <=> p.brackets # 0 \/ IsBracket(c)
    BY <2>6, <2>8
  <2>10. Split(p, c).brackets # 0 <=> \E l \in 4 .. k + 1 : IsBracket(t[l])
    BY <2>7, <2>8, <2>9, Zenon
  <2>11. InMove(t, k + 1, P(k + 1))
    BY <2>3, <2>4, <2>6, <2>8, <2>9, <2>10, Zenon DEF InMove
  <2> QED
    BY <2>1, <2>11
<1> HIDE DEF T, N, P
<1>11. N \in T
  <2>1. N \in 0 .. N
    BY <1>1
  <2> QED
    BY <1>1, <1>9, <1>10, <2>1, Induction
<1>12. N <= N
  BY <1>1
<1>13. InMove(t, 3 + N, P(3 + N))
  BY <1>11, <1>12, Zenon DEF T
<1> QED
  BY <1>1, <1>13 DEF P

\* The parts of a move of an immediate: a comma ends the source unless there is an odd
\* bracket before it.
LEMMA MoveParts ==
    ASSUME NEW C, NEW t \in Seq(C), IsImmediateMove(t), Register \subseteq DOMAIN RegisterNames
    PROVE  /\ Separate(t).op = <<"mov">>
           /\ \/ Separate(t).src = SubSeq(t, 3, Len(t) - 2) /\ Separate(t).dst = <<t[Len(t)]>>
              \/ /\ Separate(t).src = SubSeq(t, 3, Len(t))
                 /\ \E l \in 4 .. Len(t) - 2 : IsBracket(t[l])
<1> DEFINE k == Len(t) - 2
           r == t[Len(t)]
           p == Separate(SubSeq(t, 1, k))
           q == Separate(SubSeq(t, 1, k + 1))
<1>1. /\ Len(t) \in Nat /\ Len(t) > 4 /\ SubSeq(t, 1, Len(t)) = t
      /\ k \in 3 .. Len(t) - 2 /\ k + 1 = Len(t) - 1 /\ (k + 1) + 1 = Len(t)
      /\ k \in 0 .. Len(t) - 1 /\ k + 1 \in 0 .. Len(t) - 1
  BY Prefixes DEF IsImmediateMove
<1>2. t[k + 1] = Comma /\ r \notin {Blank, Comma, "(", ")"} /\ Comma \notin {Blank, "(", ")"}
  <2>1. t[k + 1] = Comma /\ reflect_registers(<<r>>) # {}
    BY <1>1 DEF IsImmediateMove
  <2> QED
    BY <2>1, NamesAreNoMarks, Marks
<1>3. ASSUME NEW j \in 0 .. Len(t) - 1
      PROVE  Separate(SubSeq(t, 1, j + 1)) = Split(Separate(SubSeq(t, 1, j)), t[j + 1])
  <2> DEFINE u == SubSeq(t, 1, j)
             c == t[j + 1]
  <2>1. u \in Seq(C) /\ c \in C /\ SubSeq(t, 1, j + 1) = Append(u, c)
    <3>1. 0 \in 0 .. Len(t) /\ 0 + 1 = 1
      BY <1>1
    <3> QED
      BY <1>1, <3>1, Prefixes
  <2> HIDE DEF u, c
  <2>2. Separate(Append(u, c)) = Split(Separate(u), c)
    BY <2>1, SplitRuns
  <2> QED
    BY <2>1, <2>2 DEF u, c
<1>4. q = Split(p, Comma)
  BY <1>1, <1>2, <1>3
<1>5. Separate(t) = Split(q, r)
  <2> DEFINE j == k + 1
  <2>1. j \in 0 .. Len(t) - 1 /\ j + 1 = Len(t)
    BY <1>1
  <2> HIDE DEF j
  <2>2. Separate(SubSeq(t, 1, j + 1)) = Split(Separate(SubSeq(t, 1, j)), t[j + 1])
    BY <1>3, <2>1
  <2> QED
    BY <1>1, <2>1, <2>2 DEF j
<1>6. InMove(t, k, p)
  BY MoveSource
<1>7. /\ p.state = 3 /\ p.brackets \in Nat /\ p.op = <<"mov">> /\ p.src = SubSeq(t, 3, k) /\ p.dst = <<>>
      /\ p.brackets # 0 <=> \E l \in 4 .. k : IsBracket(t[l])
  BY <1>6 DEF InMove
<1>8. /\ SubSeq(t, 3, k + 1) = Append(SubSeq(t, 3, k), Comma)
      /\ SubSeq(t, 3, Len(t)) = Append(SubSeq(t, 3, k + 1), r)
  <2>1. /\ SubSeq(t, 3, k + 1) = Append(SubSeq(t, 3, k), t[k + 1])
        /\ SubSeq(t, 3, (k + 1) + 1) = Append(SubSeq(t, 3, k + 1), t[(k + 1) + 1])
    BY <1>1
  <2> QED
    BY <1>1, <1>2, <2>1
<1> HIDE DEF k, p, q, r
<1>9. ASSUME NEW b, NEW c
      PROVE  /\ State(b, c) = 3 =>
                /\ Split(b, c).state = 3 /\ Split(b, c).op = b.op /\ Split(b, c).src = Append(b.src, c)
             /\ State(b, c) = 4 =>
                /\ Split(b, c).state = 4 /\ Split(b, c).op = b.op /\ Split(b, c).src = b.src
                /\ Split(b, c).dst = b.dst
             /\ State(b, c) = 5 =>
                /\ Split(b, c).op = b.op /\ Split(b, c).src = b.src /\ Split(b, c).dst = Append(b.dst, c)
  <2>1. CASE State(b, c) = 3
    BY <2>1 DEF Split
  <2>2. CASE State(b, c) = 4
    BY <2>2 DEF Split
  <2>3. CASE State(b, c) = 5
    BY <2>3 DEF Split
  <2> QED
    BY <2>1, <2>2, <2>3
<1>10. CASE CommaEndsSource(p)
  <2>1. State(p, Comma) = 4
    BY <1>2, <1>7, <1>10 DEF State
  <2>2. Split(p, Comma).state = 4 /\ Split(p, Comma).op = p.op /\ Split(p, Comma).src = p.src /\ Split(p, Comma).dst = p.dst
    BY <1>9, <2>1, Zenon
  <2>3. q.state = 4 /\ q.op = <<"mov">> /\ q.src = SubSeq(t, 3, k) /\ q.dst = <<>>
    BY <1>4, <1>7, <2>2, Zenon
  <2>4. State(q, r) = 5
    BY <1>2, <2>3 DEF State
  <2>5. Split(q, r).op = q.op /\ Split(q, r).src = q.src /\ Split(q, r).dst = Append(q.dst, r)
    BY <1>9, <2>4, Zenon
  <2>6. Append(<<>>, r) = <<r>>
    OBVIOUS
  <2>7. Separate(t).op = <<"mov">> /\ Separate(t).src = SubSeq(t, 3, k) /\ Separate(t).dst = <<r>>
    BY <1>5, <2>3, <2>5, <2>6, Zenon
  <2> QED
    BY <2>7 DEF k, r
<1>11. CASE ~CommaEndsSource(p)
  <2>1. State(p, Comma) = 3
    BY <1>2, <1>7, <1>11 DEF State
  <2>2. Split(p, Comma).state = 3 /\ Split(p, Comma).op = p.op /\ Split(p, Comma).src = Append(p.src, Comma)
    BY <1>9, <2>1, Zenon
  <2>3. q.state = 3 /\ q.op = <<"mov">> /\ q.src = SubSeq(t, 3, k + 1)
    BY <1>4, <1>7, <1>8, <2>2, Zenon
  <2>4. State(q, r) = 3
    BY <1>2, <2>3 DEF State
  <2>5. Split(q, r).op = q.op /\ Split(q, r).src = Append(q.src, r)
    BY <1>9, <2>4, Zenon
  <2>6. Separate(t).op = <<"mov">> /\ Separate(t).src = SubSeq(t, 3, Len(t))
    BY <1>5, <1>8, <2>3, <2>5, Zenon
  <2>7. p.brackets # 0
    BY <1>11 DEF CommaEndsSource
  <2> QED
    BY <1>7, <2>6, <2>7 DEF k
<1> QED
  BY <1>10, <1>11

\* Nothing with a bracket in it is read as a number.
LEMMA NotRead ==
    ASSUME NEW C, NEW s \in Seq(C), NEW l \in 1 .. Len(s), IsBracket(s[l])
    PROVE  string2uint(s) = {}
<1>1. Reading(s) = {}
  <2> SUFFICES ASSUME NEW m \in Reading(s) PROVE FALSE
    OBVIOUS
  <2> QED
    BY ReadAsSaid, NumeralChars
<1> QED
  BY <1>1 DEF string2uint

\* A source that begins with $
LEMMA SourceTail ==
    ASSUME NEW C, NEW t \in Seq(C), IsImmediateMove(t), NEW M \in Len(t) - 2 .. Len(t)
    PROVE  /\ SubSeq(t, 3, M) # <<>> /\ SubSeq(t, 3, M)[1] = "$"
           /\ Tail(SubSeq(t, 3, M)) = SubSeq(t, 4, M) /\ SubSeq(t, 4, M) \in Seq(C)
           /\ Len(SubSeq(t, 4, M)) = M - 3 /\ \A l \in 4 .. M : SubSeq(t, 4, M)[l - 3] = t[l]
<1> DEFINE u == SubSeq(t, 3, M)
           v == SubSeq(t, 4, M)
<1>1. Len(t) \in Nat /\ Len(t) > 4 /\ M \in 3 .. Len(t)
  BY Prefixes DEF IsImmediateMove
<1>2. t[3] = "$"
  <2> DEFINE x == SubSeq(t, 1, 3)
             y == <<"mov", Blank, "$">>
  <2>1. x = y /\ x[3] = t[3] /\ y[3] = "$"
    BY <1>1 DEF IsImmediateMove
  <2> HIDE DEF x, y
  <2> QED
    BY <2>1
<1>3. u \in Seq(C) /\ Len(u) = M - 2 /\ u # <<>> /\ u[1] = t[3] /\ \A i \in 1 .. M - 2 : u[i] = t[i + 2]
  BY <1>1
<1>4. v \in Seq(C) /\ Len(v) = M - 3 /\ \A i \in 1 .. M - 3 : v[i] = t[i + 3]
  BY <1>1
<1>5. Tail(u) = v
  <2>1. Len(Tail(u)) = M - 3 /\ Tail(u) \in Seq(C) /\ \A i \in 1 .. M - 3 : Tail(u)[i] = u[i + 1]
    BY <1>1, <1>3
  <2>2. \A i \in 1 .. M - 3 : Tail(u)[i] = v[i]
    <3> SUFFICES ASSUME NEW i \in 1 .. M - 3 PROVE Tail(u)[i] = v[i]
      OBVIOUS
    <3>1. i + 1 \in 1 .. M - 2 /\ (i + 1) + 2 = i + 3
      BY <1>1
    <3> QED
      BY <1>3, <1>4, <2>1, <3>1
  <2> QED
    BY <1>4, <2>1, <2>2, SeqEqual
<1>6. \A l \in 4 .. M : v[l - 3] = t[l]
  <2> SUFFICES ASSUME NEW l \in 4 .. M PROVE v[l - 3] = t[l]
    OBVIOUS
  <2>1. l - 3 \in 1 .. M - 3 /\ (l - 3) + 3 = l
    BY <1>1
  <2> QED
    BY <1>4, <2>1
<1> QED
  BY <1>2, <1>3, <1>4, <1>5, <1>6

\* The move of an immediate is parsed just when its number can be converted, and into
\* what it is converted to.
LEMMA MoveParsed ==
    ASSUME NEW C, NEW t \in Seq(C), IsImmediateMove(t), Register \subseteq DOMAIN RegisterNames
    PROVE  /\ \A i \in parse_instruction(t) : i.src.imm \in string2uint(Immediate(t))
           /\ string2uint(Immediate(t)) # {} => parse_instruction(t) # {}
<1> DEFINE s == Immediate(t)
           n == Len(t)
           r == t[Len(t)]
<1>1. /\ n \in Nat /\ n > 4 /\ n \in n - 2 .. n /\ n - 2 \in n - 2 .. n
      /\ s = SubSeq(t, 4, n - 2) /\ reflect_registers(<<r>>) # {}
  BY Prefixes DEF IsImmediateMove, Immediate
<1>2. ASSUME NEW M \in n - 2 .. n, NEW u, u = SubSeq(t, 3, M)
      PROVE  parse_operand(u) = {Simply("$", TRUE, i, NoRegister) : i \in string2uint(SubSeq(t, 4, M))}
  <2>1. u # <<>> /\ u[1] = "$" /\ Tail(u) = SubSeq(t, 4, M)
    BY <1>2, SourceTail
  <2> QED
    BY <2>1 DEF parse_operand
<1> HIDE DEF s, n, r
<1>3. Separate(t).op = <<"mov">>
  BY MoveParts
<1>4. CASE Separate(t).src = SubSeq(t, 3, n - 2) /\ Separate(t).dst = <<r>>
  <2> DEFINE p == Separate(t)
  <2>1. parse_operand(p.src) = {Simply("$", TRUE, i, NoRegister) : i \in string2uint(s)}
    BY <1>1, <1>2, <1>4
  <2>2. parse_operand(p.dst) # {}
    <3>1. r # "$" /\ NamesRegister(<<r>>)
      BY <1>1, NamesAreNoMarks
    <3>2. <<r>> # <<>> /\ <<r>>[1] = r
      OBVIOUS
    <3>3. parse_operand(<<r>>) = {Simply("%", FALSE, 0, x) : x \in reflect_registers(<<r>>)}
      BY <3>1, <3>2 DEF parse_operand
    <3> QED
      BY <1>1, <1>4, <3>3
  <2>3. Operators(p.op) # {}
    <3>1. "mov" \in Operator /\ IsIn(OperatorNames["mov"], <<"mov">>)
      <4>1. OperatorNames["mov"] = <<"mov", "movq">>
        BY DEF OperatorNames
      <4>2. 1 \in DOMAIN <<"mov", "movq">> /\ <<"mov", "movq">>[1] = "mov"
        OBVIOUS
      <4> QED
        BY <4>1, <4>2, Zenon DEF Operator, IsIn
    <3> QED
      BY <1>3, <3>1 DEF Operators
  <2> HIDE DEF p
  <2>4. ASSUME NEW i \in Parsed(p) PROVE i.src.imm \in string2uint(s)
    <3>1. PICK o \in Operators(p.op), x \in parse_operand(p.src), d \in parse_operand(p.dst) :
            i = [op |-> o, src |-> x, dst |-> d]
      BY <2>4 DEF Parsed
    <3>2. PICK j \in string2uint(s) : x = Simply("$", TRUE, j, NoRegister)
      BY <2>1, <3>1
    <3>3. i.src = x
      BY <3>1
    <3>4. x.imm = j
      BY <3>2 DEF Simply
    <3> QED
      BY <3>2, <3>3, <3>4
  <2>5. ASSUME string2uint(s) # {} PROVE Parsed(p) # {}
    <3>1. PICK j : j \in string2uint(s)
      BY <2>5
    <3>2. Simply("$", TRUE, j, NoRegister) \in parse_operand(p.src)
      BY <2>1, <3>1
    <3>3. PICK o \in Operators(p.op) : TRUE
      BY <2>3
    <3>4. PICK d \in parse_operand(p.dst) : TRUE
      BY <2>2
    <3>5. PICK x \in parse_operand(p.src) : TRUE
      BY <3>2
    <3>6. [op |-> o, src |-> x, dst |-> d] \in Parsed(p)
      BY <3>3, <3>4, <3>5 DEF Parsed
    <3> QED
      BY <3>6
  <2> QED
    BY <2>4, <2>5 DEF parse_instruction, p, s
<1>5. CASE Separate(t).src = SubSeq(t, 3, n) /\ \E l \in 4 .. n - 2 : IsBracket(t[l])
  <2>1. PICK l \in 4 .. n - 2 : IsBracket(t[l])
    BY <1>5
  <2>2. ASSUME NEW M \in n - 2 .. n PROVE string2uint(SubSeq(t, 4, M)) = {}
    <3> DEFINE v == SubSeq(t, 4, M)
    <3>1. v \in Seq(C) /\ Len(v) = M - 3 /\ \A j \in 4 .. M : v[j - 3] = t[j]
      BY SourceTail DEF n
    <3>2. l \in 4 .. M /\ l - 3 \in 1 .. M - 3
      BY <1>1, <2>1
    <3> HIDE DEF v
    <3>3. l - 3 \in 1 .. Len(v) /\ IsBracket(v[l - 3])
      BY <2>1, <3>1, <3>2
    <3> QED
      BY <3>1, <3>3, NotRead DEF v
  <2>3. parse_operand(Separate(t).src) = {}
    <3>1. parse_operand(Separate(t).src)
            = {Simply("$", TRUE, i, NoRegister) : i \in string2uint(SubSeq(t, 4, n))}
      BY <1>1, <1>2, <1>5
    <3> QED
      BY <1>1, <2>2, <3>1
  <2>4. parse_instruction(t) = {}
    BY <2>3 DEF parse_instruction, Parsed
  <2>5. string2uint(s) = {}
    BY <1>1, <2>2
  <2> QED
    BY <2>4, <2>5 DEF s
<1> QED
  BY <1>4, <1>5, MoveParts DEF n, r

\* Every text has a size.
LEMMA SizeIsNatural ==
    ASSUME NEW C, NEW s \in Seq(C)
    PROVE  Says(s).size \in Nat
<1>1. PICK p \in 0 .. Len(s) : \E e \in p .. Len(s) : \E n \in BOOLEAN : Spelled(s, p, e, n)
  BY SpellingExists
<1>2. PICK e \in p .. Len(s) : \E n \in BOOLEAN : Spelled(s, p, e, n)
  BY <1>1
<1>3. PICK n \in BOOLEAN : Spelled(s, p, e, n)
  BY <1>2
<1> DEFINE q == DigitsAt(s, p, e)
           base == BaseAt(s, p, e)
<1>4. Says(s).size = Part(s, q, e, base)
  BY <1>3, SaysIs
<1>5. Len(s) \in Nat /\ p \in Nat /\ e \in 0 .. Len(s) /\ q \in 0 .. Len(s) /\ base \in {10, 16}
  BY Prefixes DEF DigitsAt, HexAt, BaseAt
<1> HIDE DEF q, base
<1>6. SubSeq(s, q + 1, e) \in Seq(C)
  BY <1>5
<1> QED
  BY <1>4, <1>5, <1>6, AmountIsNatural DEF Part

\* Wrapping before the sign is changed makes no difference.
LEMMA WrapMinus ==
    ASSUME NEW a \in Int
    PROVE  Wrap(-Wrap(a)) = Wrap(-a)
<1> DEFINE D == 2 * HALF
           p == a \div D
           b == a % D
           q == (-a) \div D
           r == (-a) % D
<1>1. D \in Nat \ {0} /\ -a \in Int
  BY WordAssumption
<1> HIDE DEF D
<1>2. p \in Int /\ b \in 0 .. D - 1 /\ b = a - D * p /\ q \in Int /\ r \in 0 .. D - 1 /\ r = (-a) - D * q
  BY <1>1, Division
<1> HIDE DEF p, b, q, r
<1>3. -b = D * (p + q) + r
  BY <1>1, <1>2
<1>4. p + q \in Int
  BY <1>2
<1>5. (-b) % D = r
  <2>1. (D * (p + q) + r) % D = r
    BY <1>1, <1>2, <1>4, DivUnique
  <2> QED
    BY <1>3, <2>1
<1> QED
  BY <1>5 DEF Wrap, D, b, r

\* Numbers are what they say from the start.
LEMMA NumbersOfBoot ==
    ASSUME Booted PROVE NumbersAsWritten
<1>1. PICK b \in Boots : code = b.code /\ text = b.text
  BY DEF Booted
<1>2. /\ code = Assemble(text) /\ Register \subseteq DOMAIN RegisterNames
      /\ \A a \in DOMAIN text : text[a] \in Seq(STRING)
  BY <1>1, TextAssumption
<1>3. HALF \in Nat \ {0}
  BY WordAssumption
<1> SUFFICES ASSUME NEW a \in DOMAIN text, IsImmediateMove(text[a])
    PROVE  LET says == Says(Immediate(text[a]))
               converted == a \in DOMAIN code
           IN  /\ converted /\ says.empty => code[a].src.imm = 0
               /\ converted /\ ~says.empty =>
                       /\ says.numeral
                       /\ code[a].src.imm = Wrap(IF says.negative THEN -says.size ELSE says.size)
               /\ /\ ~says.empty /\ says.numeral /\ ~says.refused
                  /\ says.size < (IF says.negative THEN HALF ELSE 2 * HALF)
                  => converted
  BY DEF NumbersAsWritten
<1> DEFINE t == text[a]
           s == Immediate(t)
           says == Says(s)
           P == parse_instruction(t)
<1>4. t \in Seq(STRING) /\ s \in Seq(STRING)
  <2>1. t \in Seq(STRING) /\ IsImmediateMove(t)
    BY <1>2
  <2> HIDE DEF t
  <2>2. Len(t) \in Nat /\ Len(t) > 4 /\ Len(t) - 2 \in Len(t) - 2 .. Len(t)
    BY <2>1, Prefixes DEF IsImmediateMove
  <2>3. SubSeq(t, 4, Len(t) - 2) \in Seq(STRING)
    BY <2>1, <2>2, SourceTail
  <2> QED
    BY <2>1, <2>3 DEF Immediate
<1>5. (\A i \in P : i.src.imm \in string2uint(s)) /\ (string2uint(s) # {} => P # {})
  BY <1>2, <1>4, MoveParsed
<1>6. a \in DOMAIN code <=> P # {}
  BY <1>2 DEF Assemble
<1>7. a \in DOMAIN code => code[a] = CHOOSE i \in P : TRUE
  BY <1>2 DEF Assemble
<1> HIDE DEF t, s, P
<1>8. ASSUME NEW m \in Reading(s)
      PROVE  /\ m.uv \in Word /\ m.negative \in BOOLEAN /\ says.numeral /\ (says.negative <=> m.negative)
             /\ says.size \in Nat /\ m.uv = Wrap(says.size) /\ (says.empty => says.size = 0)
  <2>1. /\ m \in Readings /\ says.numeral /\ (says.negative <=> m.negative)
        /\ says.size \in Nat /\ m.uv = Wrap(says.size) /\ (says.empty => says.size = 0)
    BY <1>4, ReadAsSaid
  <2> HIDE DEF says
  <2> QED
    BY <2>1 DEF Readings
<1>9. says.size \in Nat
  BY <1>4, SizeIsNatural
<1>10. ~says.empty /\ says.numeral /\ ~says.refused /\ says.size < 2 * HALF => Reading(s) # {}
  BY <1>4, NumeralIsRead
<1> HIDE DEF says
<1>11. ASSUME a \in DOMAIN code
       PROVE  \E m \in Reading(s) : code[a].src.imm = IF m.negative THEN (-m.uv) % (2 * HALF) ELSE m.uv
  <2>1. code[a] \in P
    BY <1>6, <1>7, <1>11
  <2>2. code[a].src.imm \in string2uint(s)
    BY <1>5, <2>1
  <2> QED
    BY <2>2 DEF string2uint
<1>12. ASSUME a \in DOMAIN code, says.empty PROVE code[a].src.imm = 0
  <2>1. PICK m \in Reading(s) : code[a].src.imm = IF m.negative THEN (-m.uv) % (2 * HALF) ELSE m.uv
    BY <1>11, <1>12
  <2>2. m.uv = Wrap(0) /\ m.negative \in BOOLEAN
    BY <1>8, <1>12
  <2> DEFINE D == 2 * HALF
             u == m.uv
             w == -u
  <2>3. D \in Nat \ {0}
    BY <1>3
  <2>4. Wrap(0) = 0 % D
    BY Zenon DEF Wrap
  <2> HIDE DEF D
  <2>5. 0 % D = 0
    BY <2>3
  <2>6. u = 0
    BY <2>2, <2>4, <2>5, Zenon
  <2> HIDE DEF u
  <2>7. w \in Int /\ w <= 0 /\ w >= 0
    BY <2>6
  <2> HIDE DEF w
  <2>8. w = 0
    BY <2>7
  <2>9. code[a].src.imm = IF m.negative THEN w % D ELSE u
    BY <2>1 DEF w, u, D
  <2> QED
    BY <2>2, <2>5, <2>6, <2>8, <2>9, Zenon
<1>13. ASSUME a \in DOMAIN code, ~says.empty
       PROVE  /\ says.numeral
              /\ code[a].src.imm = Wrap(IF says.negative THEN -says.size ELSE says.size)
  <2>1. PICK m \in Reading(s) : code[a].src.imm = IF m.negative THEN (-m.uv) % (2 * HALF) ELSE m.uv
    BY <1>11, <1>13
  <2>2. /\ m.negative \in BOOLEAN /\ says.numeral /\ (says.negative <=> m.negative)
        /\ says.size \in Nat /\ m.uv = Wrap(says.size)
    BY <1>8
  <2>3. CASE m.negative
    <3>1. code[a].src.imm = Wrap(-m.uv)
      BY <2>1, <2>3 DEF Wrap
    <3>2. Wrap(-Wrap(says.size)) = Wrap(-says.size)
      BY <2>2, WrapMinus
    <3> QED
      BY <2>2, <2>3, <3>1, <3>2, Zenon
  <2>4. CASE ~m.negative
    BY <2>1, <2>2, <2>4, Zenon
  <2> QED
    BY <2>3, <2>4
<1>14. ASSUME ~says.empty, says.numeral, ~says.refused,
              says.size < (IF says.negative THEN HALF ELSE 2 * HALF)
       PROVE  a \in DOMAIN code
  <2>1. PICK m \in Reading(s) : TRUE
    <3>1. CASE says.size < 2 * HALF
      BY <1>10, <1>14, <3>1
    <3>2. CASE ~(says.size < 2 * HALF)
      <4>1. says.size < HALF
        BY <1>14, <3>2
      <4> QED
        BY <1>3, <1>9, <3>2, <4>1
    <3> QED
      BY <3>1, <3>2
  <2>2. /\ m.uv = Wrap(says.size) /\ (says.negative <=> m.negative) /\ says.size \in Nat
    BY <1>8
  <2>3. ~(m.negative /\ m.uv >= HALF)
    <3> SUFFICES ASSUME m.negative PROVE ~(m.uv >= HALF)
      OBVIOUS
    <3>1. says.size < HALF
      BY <1>14, <2>2
    <3>2. Wrap(says.size) = says.size
      BY <1>3, <2>2, <3>1, WrapWord DEF Word
    <3> QED
      BY <1>3, <2>2, <3>1, <3>2
  <2>4. string2uint(s) # {}
    BY <2>3 DEF string2uint
  <2> QED
    BY <1>5, <1>6, <2>4
<1> QED
  BY <1>12, <1>13, <1>14 DEF says, s, t

\* What a move writes is the number that its text says, modulo the width of words, and no
\* number that fits is refused but for a hexadecimal one with blanks behind it: whatever
\* characters the text is made of.
THEOREM NumbersAreRight == AsmSpec => []NumbersAsWritten
<1>1. AsmInit => Booted
  BY DEF AsmInit, Boot, Booted
<1>2. Booted /\ [instruction_cycle /\ UNCHANGED <<text, listing>>]_asmVars => Booted'
  BY ProgramStays DEF Booted, asmVars, vars
<1> QED
  BY <1>1, <1>2, NumbersOfBoot, PTL DEF AsmSpec

=============================================================================
