-------------------------------- MODULE ISA --------------------------------
(***************************************************************************)
(* The processor: the translation of instruction_cycle and the instruction *)
(* handlers of src/hardware/cpu/isa.c, over registers, flags, a program    *)
(* counter and a memory of words.                                          *)
(*                                                                         *)
(* A word holds 0 .. 2 * HALF - 1 and wraps around.  Memory is by address  *)
(* of its words, which programs access aligned; what va2pa and the cache   *)
(* do to an access is the subject of modules MMU and SRAM.  The program is *)
(* its instructions by address, with their operands as they are written.   *)
(***************************************************************************)
EXTENDS Integers

CONSTANTS
    Register,               \* "rsp" and "rbp" among them
    NoRegister,             \* an address register that an operand does not name
    HALF,                   \* 2^63
    WORD_BYTES,             \* sizeof(uint64_t); 8
    MAX_INSTRUCTION_CHAR,   \* bytes of an instruction in memory; 64
    Boots                   \* the programs and machine states to start from

Word == 0 .. 2 * HALF - 1

\* An operand as written: %reg1, $imm, or imm(reg1,reg2,scal), where has_imm tells
\* whether there is an imm, and commas counts the commas between the brackets.
Written ==
    [form : {"", "%", "$", "imm", "()"}, has_imm : BOOLEAN, imm : Word, commas : 0 .. 2,
     reg1 : Register \cup {NoRegister}, reg2 : Register \cup {NoRegister}, scal : {0, 1, 2, 4, 8}]

Operator == {"mov", "push", "pop", "leave", "call", "ret", "add", "sub", "cmp", "jne", "jmp"}
Instruction == [op : Operator, src : Written, dst : Written]

Flag == {"CF", "ZF", "SF", "OF"}

ASSUME WordAssumption ==
    /\ HALF \in Nat \ {0}
    /\ WORD_BYTES \in Nat \ {0}
    /\ MAX_INSTRUCTION_CHAR \in Nat \ {0}
ASSUME RegisterAssumption ==
    /\ {"rsp", "rbp"} \subseteq Register
    /\ NoRegister \notin Register

\* An address without brackets has nothing that is counted between them, and is 0 if
\* it is not written.
Unbracketed(w) == w.form = "imm" => w.commas = 0 /\ (~w.has_imm => w.imm = 0)

\* A register operand names a register, and jumps and calls are to a constant.
ASSUME BootAssumption ==
    \A b \in Boots :
        /\ DOMAIN b.code \subseteq Word
        /\ \A a \in DOMAIN b.code :
            /\ b.code[a] \in Instruction
            /\ b.code[a].src.form = "%" => b.code[a].src.reg1 \in Register
            /\ b.code[a].dst.form = "%" => b.code[a].dst.reg1 \in Register
            /\ b.code[a].op \in {"call", "jne", "jmp"} => b.code[a].src.form = "imm"
            /\ Unbracketed(b.code[a].src)
        /\ b.rip \in Word
        /\ b.reg \in [Register -> Word]
        /\ b.mem \in [Word -> Word]

VARIABLES
    code,   \* the program
    rip,    \* cpu_pc
    reg,    \* cpu_reg
    flags,  \* cpu_flags
    mem,    \* memory
    status  \* "running", "exited" by the parser, or "crashed" by a null pointer

vars == <<code, rip, reg, flags, mem, status>>

TypeOK ==
    /\ rip \in Word
    /\ reg \in [Register -> Word]
    /\ flags \in [Flag -> {0, 1}]
    /\ mem \in [Word -> Word]
    /\ status \in {"running", "exited", "crashed"}

Cleared == [f \in Flag |-> 0]

Boot(b) ==
    /\ code = b.code /\ rip = b.rip /\ reg = b.reg /\ mem = b.mem
    /\ flags = Cleared
    /\ status = "running"

Init == \E b \in Boots : Boot(b)

-----------------------------------------------------------------------------
(* parse_operand, decode_operand *)

Wrap(x) == x % (2 * HALF)

\* The parts that the type of a memory operand says its address is made of.
PartsByCount(w) ==
    (IF w.has_imm THEN {"imm"} ELSE {})
        \cup (IF w.form = "()" THEN {"reg1"} ELSE {})
        \cup (IF w.commas > 0 THEN {"reg2"} ELSE {})
Parts(w) ==
    (IF w.has_imm \/ w.form = "imm" THEN {"imm"} ELSE {})
        \cup (IF w.form = "()" /\ (w.commas < 2 \/ w.reg1 # NoRegister) THEN {"reg1"} ELSE {})
        \cup (IF w.commas > 0 THEN {"reg2"} ELSE {})

IsMem(w) == w.form \in {"imm", "()"}
IsReg(w) == w.form = "%"
IsImm(w) == w.form = "$"

\* The value of a register that is not named is read through a null pointer.
IsNull(w) ==
    /\ IsMem(w)
    /\ \/ "reg1" \in Parts(w) /\ w.reg1 = NoRegister
       \/ "reg2" \in Parts(w) /\ w.reg2 = NoRegister

vaddr(w) ==
    Wrap((IF "imm" \in Parts(w) THEN w.imm ELSE 0)
         + (IF "reg1" \in Parts(w) THEN reg[w.reg1] ELSE 0)
         + (IF "reg2" \notin Parts(w) THEN 0
            ELSE IF w.commas = 2 THEN reg[w.reg2] * w.scal ELSE reg[w.reg2]))

-----------------------------------------------------------------------------
(* instruction_cycle: fetch and decode *)

src == code[rip].src
dst == code[rip].dst

\* The handlers of two operands decode both, those of one decode src.
Decoded(op) == IF op \in {"mov", "add", "sub", "cmp"} THEN {src, dst}
               ELSE IF op \in {"leave", "ret"} THEN {} ELSE {src}

Fetched == status = "running" /\ rip \in DOMAIN code

Executes(op) ==
    /\ Fetched
    /\ code[rip].op = op
    /\ \A w \in Decoded(op) : ~IsNull(w)

increase_pc == rip' = Wrap(rip + MAX_INSTRUCTION_CHAR)
reset_cflags == flags' = Cleared

\* There is no instruction in the memory that rip points to.
ParseError ==
    /\ status = "running"
    /\ rip \notin DOMAIN code
    /\ status' = "exited"
    /\ UNCHANGED <<code, rip, reg, flags, mem>>

NullPointer ==
    /\ Fetched
    /\ \E w \in Decoded(code[rip].op) : IsNull(w)
    /\ status' = "crashed"
    /\ UNCHANGED <<code, rip, reg, flags, mem>>

-----------------------------------------------------------------------------
(* Moves, the stack, calls *)

mov_handler ==
    /\ Executes("mov")
    /\ \/ /\ IsReg(src) /\ IsReg(dst)
          /\ reg' = [reg EXCEPT ![dst.reg1] = reg[src.reg1]]
          /\ UNCHANGED mem
       \/ /\ IsReg(src) /\ IsMem(dst)
          /\ mem' = [mem EXCEPT ![vaddr(dst)] = reg[src.reg1]]
          /\ UNCHANGED reg
       \/ /\ IsMem(src) /\ IsReg(dst)
          /\ reg' = [reg EXCEPT ![dst.reg1] = mem[vaddr(src)]]
          /\ UNCHANGED mem
       \/ /\ IsImm(src) /\ IsReg(dst)
          /\ reg' = [reg EXCEPT ![dst.reg1] = src.imm]
          /\ UNCHANGED mem
    /\ increase_pc
    /\ reset_cflags
    /\ UNCHANGED <<code, status>>

Below(sp) == Wrap(sp - WORD_BYTES)
Above(sp) == Wrap(sp + WORD_BYTES)

\* The pushed register is read after rsp has moved.
push_handler ==
    /\ Executes("push")
    /\ IsReg(src)
    /\ reg' = [reg EXCEPT !["rsp"] = Below(@)]
    /\ mem' = [mem EXCEPT ![Below(reg["rsp"])] = reg'[src.reg1]]
    /\ increase_pc
    /\ reset_cflags
    /\ UNCHANGED <<code, status>>

pop_handler ==
    /\ Executes("pop")
    /\ IsReg(src)
    /\ reg' = [[reg EXCEPT !["rsp"] = Above(@)] EXCEPT ![src.reg1] = mem[reg["rsp"]]]
    /\ increase_pc
    /\ reset_cflags
    /\ UNCHANGED <<code, mem, status>>

LeaveKeepsFrame ==
    /\ Executes("leave")
    /\ reg' = [reg EXCEPT !["rsp"] = Above(reg["rbp"])]
    /\ increase_pc
    /\ reset_cflags
    /\ UNCHANGED <<code, mem, status>>
leave_handler ==
    /\ Executes("leave")
    /\ reg' = [reg EXCEPT !["rsp"] = Above(reg["rbp"]), !["rbp"] = mem[reg["rbp"]]]
    /\ increase_pc
    /\ reset_cflags
    /\ UNCHANGED <<code, mem, status>>

CallPushesItself ==
    /\ Executes("call")
    /\ reg' = [reg EXCEPT !["rsp"] = Below(@)]
    /\ mem' = [mem EXCEPT ![Below(reg["rsp"])] = rip]
    /\ rip' = vaddr(src)
    /\ reset_cflags
    /\ UNCHANGED <<code, status>>
call_handler ==
    /\ Executes("call")
    /\ reg' = [reg EXCEPT !["rsp"] = Below(@)]
    /\ mem' = [mem EXCEPT ![Below(reg["rsp"])] = Wrap(rip + MAX_INSTRUCTION_CHAR)]
    /\ rip' = vaddr(src)
    /\ reset_cflags
    /\ UNCHANGED <<code, status>>

ret_handler ==
    /\ Executes("ret")
    /\ reg' = [reg EXCEPT !["rsp"] = Above(@)]
    /\ rip' = mem[reg["rsp"]]
    /\ reset_cflags
    /\ UNCHANGED <<code, mem, status>>

-----------------------------------------------------------------------------
(* Arithmetic *)

Sign(x) == IF x >= HALF THEN 1 ELSE 0
Bit(b) == IF b THEN 1 ELSE 0

Unwrapped(s, d) == s + d
Sum(s, d) == Wrap(s + d)
Difference(s, d) == Wrap(d - s)

FlagsOf(carry, val, overflow) ==
    [CF |-> Bit(carry), ZF |-> Bit(val = 0), SF |-> Sign(val), OF |-> Bit(overflow)]

AddFlagsSignCarry(s, d) ==
    FlagsOf(Sign(Sum(s, d)) < Sign(s), Sum(s, d),
            Sign(s) = Sign(d) /\ Sign(s) # Sign(Sum(s, d)))
AddFlags(s, d) ==
    FlagsOf(Sum(s, d) < s, Sum(s, d),
            Sign(s) = Sign(d) /\ Sign(s) # Sign(Sum(s, d)))
SubFlags(s, d) ==
    FlagsOf(Difference(s, d) > d, Difference(s, d),
            Sign(s) # Sign(d) /\ Sign(Difference(s, d)) # Sign(s))

add_handler ==
    /\ Executes("add")
    /\ IsReg(src) /\ IsReg(dst)
    /\ flags' = AddFlags(reg[src.reg1], reg[dst.reg1])
    /\ reg' = [reg EXCEPT ![dst.reg1] = Sum(reg[src.reg1], @)]
    /\ increase_pc
    /\ UNCHANGED <<code, mem, status>>

sub_handler ==
    /\ Executes("sub")
    /\ IsImm(src) /\ IsReg(dst)
    /\ flags' = SubFlags(src.imm, reg[dst.reg1])
    /\ reg' = [reg EXCEPT ![dst.reg1] = Difference(src.imm, @)]
    /\ increase_pc
    /\ UNCHANGED <<code, mem, status>>

cmp_handler ==
    /\ Executes("cmp")
    /\ IsImm(src) /\ IsMem(dst)
    /\ flags' = SubFlags(src.imm, mem[vaddr(dst)])
    /\ increase_pc
    /\ UNCHANGED <<code, reg, mem, status>>

-----------------------------------------------------------------------------
(* Jumps *)

jne_handler ==
    /\ Executes("jne")
    /\ IF flags["ZF"] # 1 THEN rip' = vaddr(src) ELSE increase_pc
    /\ reset_cflags
    /\ UNCHANGED <<code, reg, mem, status>>

jmp_handler ==
    /\ Executes("jmp")
    /\ rip' = vaddr(src)
    /\ UNCHANGED <<code, reg, flags, mem, status>>

\* A handler does nothing with operands it has no case for, and the instruction is
\* executed again for ever.
HasCase(op) ==
    CASE op = "mov" -> \/ IsReg(src) /\ (IsReg(dst) \/ IsMem(dst))
                       \/ IsMem(src) /\ IsReg(dst)
                       \/ IsImm(src) /\ IsReg(dst)
      [] op \in {"push", "pop"} -> IsReg(src)
      [] op = "add" -> IsReg(src) /\ IsReg(dst)
      [] op = "sub" -> IsImm(src) /\ IsReg(dst)
      [] op = "cmp" -> IsImm(src) /\ IsMem(dst)
      [] OTHER -> TRUE

NoCase ==
    /\ Fetched
    /\ Executes(code[rip].op)
    /\ ~HasCase(code[rip].op)
    /\ UNCHANGED vars

instruction_cycle ==
    \/ ParseError
    \/ NullPointer
    \/ mov_handler
    \/ push_handler
    \/ pop_handler
    \/ leave_handler
    \/ call_handler
    \/ ret_handler
    \/ add_handler
    \/ sub_handler
    \/ cmp_handler
    \/ jne_handler
    \/ jmp_handler
    \/ NoCase

Spec == Init /\ [][instruction_cycle]_vars

\* The processor does nothing but execute instructions.
FairSpec == Spec /\ WF_vars(instruction_cycle)

-----------------------------------------------------------------------------
(* Properties *)

Signed(x) == IF x >= HALF THEN x - 2 * HALF ELSE x
IsSigned(x) == -HALF <= x /\ x < HALF

Takes(op) == Executes(op) /\ HasCase(op)

AdditionTells ==
    Takes("add") =>
        LET s == reg[src.reg1]
            d == reg[dst.reg1]
        IN  /\ flags'["CF"] = 1 <=> s + d \notin Word
            /\ flags'["OF"] = 1 <=> ~IsSigned(Signed(s) + Signed(d))
            /\ flags'["ZF"] = 1 <=> reg'[dst.reg1] = 0
            /\ flags'["SF"] = 1 <=> Signed(reg'[dst.reg1]) < 0

SubtractionTells ==
    Takes("sub") \/ Takes("cmp") =>
        LET s == src.imm
            d == IF Takes("sub") THEN reg[dst.reg1] ELSE mem[vaddr(dst)]
        IN  /\ flags'["CF"] = 1 <=> s > d
            /\ flags'["ZF"] = 1 <=> s = d
            /\ flags'["SF"] = 1 <=> Signed(Wrap(d - s)) < 0

\* CF, ZF and SF are right about the numbers the words stand for, by what cpu.h says
\* of them: an addition sets CF if its unsigned sum is no word, a subtraction or
\* comparison if it borrows; OF is right for additions.  The code finds all this out
\* from the wrapped result.
FlagsTellTheTruth == [][AdditionTells /\ SubtractionTells]_vars

\* OF after a subtraction as the line below the assignment to it (722), which
\* is commented out, defines it.
SubOverflowAsCommented ==
    [][Takes("sub") =>
        LET s == Sign(src.imm)
            d == Sign(reg[dst.reg1])
            v == Sign(reg'[dst.reg1])
        IN  flags'["OF"] = 1 <=> \/ s = 1 /\ d = 0 /\ v = 1
                                 \/ s = 0 /\ d = 1 /\ v = 0]_vars

\* An operand that names the registers its brackets have room for: an index after a
\* comma, and a base unless there are two commas.
WellFormed(w) ==
    /\ IsMem(w)
    /\ w.form = "()" => /\ w.commas < 2 => w.reg1 # NoRegister
                        /\ w.commas > 0 <=> w.reg2 # NoRegister

\* imm + reg1 + reg2 * scal, of what is there.
Meaning(w) ==
    LET of(r) == IF r = NoRegister THEN 0 ELSE reg[r]
        scal  == IF w.commas = 2 THEN w.scal ELSE 1
    IN  Wrap((IF w.has_imm THEN w.imm ELSE 0)
             + (IF w.form = "()" THEN of(w.reg1) + of(w.reg2) * scal ELSE 0))

\* A load from a well-formed operand never meets a null pointer and finds the word
\* at the address that the operand means, whichever of the nine types it is given.
LoadsFromMeaning ==
    [][Fetched /\ code[rip].op = "mov" /\ WellFormed(src) /\ IsReg(dst) =>
        reg'[dst.reg1] = mem[Meaning(src)]]_vars
=============================================================================
