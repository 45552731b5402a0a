------------------------------- MODULE Ldasm -------------------------------
(***************************************************************************)
(* The instruction length decoder (src/kernel/sys/ldasm.c), which decides  *)
(* how many bytes of a prologue hook_code moves and which displacements it *)
(* corrects.  The decoder works on a packed table of opcode flags; the     *)
(* reference below is the opcode map of the 32-bit processor, by classes.  *)
(***************************************************************************)
EXTENDS Naturals, Sequences

CONSTANTS Prefixes,   \* sequences of prefix bytes put before the instruction
          ModRMs,     \* ModRM bytes tried
          Sibs        \* SIB bytes tried

Byte == 0 .. 255
ASSUME LdasmAssumption ==
  Prefixes \subseteq Seq(Byte) /\ ModRMs \subseteq Byte /\ Sibs \subseteq Byte

VARIABLES pfx, op, modrm, sib
vars == <<pfx, op, modrm, sib>>

-----------------------------------------------------------------------------
\* ldasm.h; a flag is a power of two.
OP_DATA_PRE66_67 == 16
OP_MODRM         == 8
OP_PREFIX        == 32
OP_REL32         == 64
OP_REL8          == 128
OP_EXTENDED      == 256
Has(flags, f) == (flags \div f) % 2 = 1

\* 128 indices into the flags of four opcodes each, then those flags.
packed_table ==
  <<
    128, 132, 128, 132, 128, 132, 128, 132, 128, 136, 128, 136, 128, 136, 128, 136,
    140, 139, 139, 139, 139, 139, 139, 139, 144, 148, 152, 139, 156, 156, 156, 156,
    160, 128, 128, 128, 139, 139, 164, 139, 168, 139, 132, 139, 172, 172, 168, 168,
    176, 180, 184, 188, 128, 192, 128, 128, 156, 172, 196, 139, 200, 144, 139, 144,
    128, 139, 139, 204, 128, 128, 208, 139, 128, 212, 128, 128, 139, 139, 139, 139,
    128, 128, 128, 128, 128, 128, 128, 128, 128, 128, 128, 128, 216, 220, 139, 128,
    224, 224, 224, 224, 128, 128, 128, 128, 143, 207, 143, 219, 128, 128, 228, 128,
    232, 217, 139, 139, 128, 128, 128, 128, 128, 128, 128, 128, 128, 128, 128, 220,
    8, 8, 8, 8, 1, 16, 0, 0, 1, 16, 32, 0, 0, 0, 0, 0,
    0, 0, 8, 8, 32, 32, 32, 32, 16, 24, 1, 9, 129, 129, 129, 129,
    9, 24, 9, 9, 0, 0, 18, 0, 16, 16, 16, 16, 1, 1, 1, 1,
    9, 9, 2, 0, 8, 8, 9, 24, 3, 0, 2, 0, 0, 1, 0, 0,
    1, 1, 0, 0, 80, 80, 18, 129, 32, 0, 32, 32, 0, 8, 0, 9,
    8, 0, 0, 0, 8, 0, 8, 0, 9, 9, 9, 9, 8, 8, 8, 0,
    80, 80, 80, 80, 0, 0, 9, 8, 8, 8, 9, 8
  >>

code_flags(code) == packed_table[packed_table[(code \div 4) + 1] + (code % 4) + 1]

\* Faults: the second byte of an 0F opcode ignored; the displacement of a SIB
\* byte without a base forgotten.
x_code_flags_short(addr) == code_flags(addr[1])
OffsetNoBase(mod, rm, s, pfx67) ==
  CASE mod = 0 -> IF pfx67 THEN (IF rm = 6 THEN 2 ELSE 0) ELSE (IF rm = 5 THEN 4 ELSE 0)
    [] mod = 1 -> 1
    [] mod = 2 -> IF pfx67 THEN 2 ELSE 4
    [] OTHER -> 0

\* The flags of the instruction at addr, which is taken to have no prefix.
x_code_flags(addr) ==
  IF addr[1] = 15 THEN code_flags(OP_EXTENDED + addr[2]) + OP_EXTENDED
                  ELSE code_flags(addr[1])

\* The displacement that mod and rm call for, and a SIB byte without a base.
Offset(mod, rm, s, pfx67) ==
  CASE mod # 1 /\ mod # 3 /\ ~pfx67 /\ rm = 4 /\ s % 8 = 5 -> 4
    [] mod = 0 -> IF pfx67 THEN (IF rm = 6 THEN 2 ELSE 0) ELSE (IF rm = 5 THEN 4 ELSE 0)
    [] mod = 1 -> 1
    [] mod = 2 -> IF pfx67 THEN 2 ELSE 4
    [] OTHER -> 0

\* What follows the ModRM byte: SIB byte and displacement.
ModRMTail(m, s, pfx67) ==
  LET mod == m \div 64
      rm  == m % 8
  IN  Offset(mod, rm, s, pfx67) + (IF ~pfx67 /\ rm = 4 /\ mod # 3 THEN 1 ELSE 0)

size_of_code(code) ==
  LET n     == CHOOSE k \in 0 .. Len(code) - 1 :
                 /\ ~Has(code_flags(code[k + 1]), OP_PREFIX)
                 /\ \A j \in 1 .. k : Has(code_flags(code[j]), OP_PREFIX)
      used(b) == \E j \in 1 .. n : code[j] = b
      pfx67 == used(103)
      op1   == code[n + 1]
      ext   == op1 = 15
      op2   == IF ext THEN code[n + 2] + OP_EXTENDED ELSE op1
      pfx66 == IF op2 \in 160 .. 163 THEN pfx67 ELSE used(102)
      size  == n + (IF ext THEN 2 ELSE 1)
      flags == code_flags(op2)
      m     == code[size + 1]
      reg   == (m \div 8) % 8
      \* F6 and F7 have an immediate operand only when reg is 0
      imm   == (IF Has(flags, OP_MODRM) /\ reg = 0 /\ op1 = 246 THEN 1 ELSE flags % 8)
      wide  == \/ Has(flags, OP_DATA_PRE66_67)
               \/ Has(flags, OP_MODRM) /\ reg = 0 /\ op1 = 247
  IN  size + (IF Has(flags, OP_MODRM) THEN 1 + ModRMTail(m, code[size + 2], pfx67) ELSE 0)
           + (IF wide THEN (IF pfx66 THEN 2 ELSE 4) ELSE 0)
           + imm

-----------------------------------------------------------------------------
\* The reference: opcodes 0 .. 255, and 256 + b for the opcode 0F b.

Ext(s) == {256 + b : b \in s}
IsPrefixByte == {38, 46, 54, 62, 100, 101, 102, 103, 240, 242, 243}

\* Not in the table's generation of the opcode map: reserved opcodes, the
\* ModRM forms of NOP, three-byte opcodes, VMREAD, VMWRITE and POPCNT.
Uncovered ==
  IsPrefixByte \cup {15} \cup
  Ext({4, 7, 10, 12, 14, 37, 39, 122, 123, 166, 167, 184, 185, 255}
      \cup 25 .. 31 \cup 54 .. 63 \cup 120 .. 121)
Opcodes == (0 .. 511) \ Uncovered

Alu(o, column) == o < 64 /\ o % 8 = column      \* add, or, adc ... cmp
HasModRM(o) ==
  \/ \E c \in 0 .. 3 : Alu(o, c)
  \/ o \in {98, 99, 105, 107, 192, 193, 246, 247, 254, 255}
           \cup 128 .. 143 \cup 196 .. 199 \cup 208 .. 211 \cup 216 .. 223
  \/ o > 255 /\ o \notin Ext({5, 6, 8, 9, 11, 119} \cup 48 .. 53 \cup 128 .. 143
                             \cup 160 .. 162 \cup 168 .. 170 \cup 200 .. 207)

RelativeByte == 112 .. 127 \cup 224 .. 227 \cup {235}
RelativeWord == {232, 233} \cup Ext(128 .. 143)
TakesByte(o, reg) ==
  \/ Alu(o, 4) \/ o \in RelativeByte
  \/ o \in {106, 107, 128, 130, 131, 168, 192, 193, 198, 200, 205, 212, 213}
           \cup 176 .. 183 \cup 228 .. 231
  \/ o = 246 /\ reg = 0
  \/ o \in Ext({15, 164, 172, 186, 194} \cup 112 .. 115 \cup 196 .. 198)
TakesTwo(o) == o \in {154, 194, 200, 202, 234}
TakesOperand(o, reg) ==
  \/ Alu(o, 5) \/ o \in {104, 105, 129, 154, 169, 199, 234} \cup 184 .. 191
  \/ o = 247 /\ reg = 0
  \/ o \in RelativeWord
TakesAddress(o) == o \in 160 .. 163

One(b) == IF b THEN 1 ELSE 0
Addressing(m, s, a16) ==
  LET mod == m \div 64
      rm  == m % 8
  IN  CASE mod = 3 -> 0
        [] a16 -> CASE mod = 1 -> 1
                    [] mod = 2 \/ rm = 6 -> 2
                    [] OTHER -> 0
        [] OTHER -> One(rm = 4) +
                    (CASE mod = 1 -> 1
                       [] mod = 2 \/ rm = 5 \/ (rm = 4 /\ s % 8 = 5) -> 4
                       [] OTHER -> 0)

Length(p, o, m, s) ==
  LET given(b) == \E j \in 1 .. Len(p) : p[j] = b
      operand == IF given(102) THEN 2 ELSE 4
      address == IF given(103) THEN 2 ELSE 4
      reg     == (m \div 8) % 8
  IN  Len(p) + 1 + One(o > 255)
      + (IF HasModRM(o) THEN 1 + Addressing(m, s, given(103)) ELSE 0)
      + One(TakesByte(o, reg)) + 2 * One(TakesTwo(o))
      + operand * One(TakesOperand(o, reg)) + address * One(TakesAddress(o))

-----------------------------------------------------------------------------
\* Every opcode after every choice of prefixes, ModRM and SIB bytes.
OpcodeBytes(o) == IF o > 255 THEN <<15, o - 256>> ELSE <<o>>
Code(p) == p \o OpcodeBytes(op) \o <<modrm, sib>>

Init == pfx \in Prefixes /\ modrm \in ModRMs /\ sib \in Sibs /\ op = 0
Next == op < 511 /\ op' = op + 1 /\ UNCHANGED <<pfx, modrm, sib>>
Spec == Init /\ [][Next]_vars

\* size_of_code returns the length of the instruction.
LengthMatches ==
  op \in Opcodes => size_of_code(Code(pfx)) = Length(pfx, op, modrm, sib)

\* The displacement that hook_code corrects after moving an instruction is at
\* the place it assumes: x_code_flags reports exactly the relative
\* instructions, and a rel32 is their last four bytes, after one opcode byte or
\* two.
Relocatable ==
  LET code  == Code(<< >>)
      flags == x_code_flags(code)
  IN  op \in Opcodes =>
      /\ Has(flags, OP_REL8) <=> op \in RelativeByte
      /\ Has(flags, OP_REL32) <=> op \in RelativeWord
      /\ Has(flags, OP_REL32) =>
           size_of_code(code) = 4 + (IF Has(flags, OP_EXTENDED) THEN 2 ELSE 1)
=============================================================================
