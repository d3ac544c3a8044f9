------------------------- MODULE LocationExpression -------------------------
(***************************************************************************)
(* evaluate_location_expression (agent/tcf/framework/cpudefs.c): the stack *)
(* machine that evaluates a location expression, a sequence of commands,   *)
(* on a frame.  One step of the model is one iteration of its loop: the    *)
(* stack buffer is grown if it is full, then one command is executed.  An  *)
(* exception (exception(), str_exception(), location_expression_error())   *)
(* abandons the evaluation: the status becomes "error".                   *)
(*                                                                         *)
(* uint64_t is a word of WORD_BYTES bytes of BYTE_BITS bits.  A register   *)
(* is a record [size, big_endian, val, ok]: its contents as read_reg_bytes *)
(* copies them are the bytes of val in its byte order, and ok says        *)
(* whether they can be read.  Target memory is MemByte on MemOk.           *)
(* SFT_CMD_LOCATION (a call-back into the symbols service) is not among    *)
(* the commands.                                                           *)
(***************************************************************************)
EXTENDS Integers, Sequences, Bitwise, SequencesExt

CONSTANTS
    BYTE_BITS,      \* bits of a target byte
    WORD_BYTES,     \* bytes of a uint64_t, and of the `buf` arrays
    STK_INC,        \* growth step of the stack buffer
    Exprs,          \* the command sequences evaluated
    Args,           \* the args array, as a sequence
    FP,             \* frame->fp
    MemByte(_),     \* target memory
    MemOk,          \* the addresses context_read_mem can read
    Uninit          \* the contents of fresh tmp_realloc storage

WBITS == BYTE_BITS * WORD_BYTES
Word == 0..(2^WBITS - 1)
ByteBase == 2^BYTE_BITS

BinaryCmds == {"ADD", "SUB", "MUL", "DIV", "AND", "OR", "XOR",
               "GE", "GT", "LE", "LT", "SHL", "SHR"}

ASSUME /\ BYTE_BITS \in 1..8 /\ WORD_BYTES \in 1..4 /\ WBITS <= 15
       /\ STK_INC \in 1..8 /\ Args \in Seq(Word) /\ FP \in Word
       /\ \A e \in Exprs : \A k \in DOMAIN e : e[k].cmd # "LOCATION"

VARIABLES
    cmds,       \* the expression being evaluated
    i,          \* the loop index, 1-based
    stk,        \* the stack buffer, stk_max cells long
    stk_pos,
    stk_max,
    status,     \* "run", "done" or "error"
    ub,         \* (ghost) an undefined shift was executed
    oob         \* (ghost) a cell past the buffer was written

vars == << cmds, i, stk, stk_pos, stk_max, status, ub, oob >>

(***************************************************************************)
(* The helpers the commands call.                                          *)
(***************************************************************************)

\* The loop that turns a buf of bytes into a number, most significant byte
\* first: n = (n << 8) | buf[big_endian ? j : size - j - 1].
RECURSIVE AssembleFrom(_, _, _, _)
AssembleFrom(buf, big_endian, j, n) ==
    IF j = Len(buf) THEN n
    ELSE AssembleFrom(buf, big_endian, j + 1,
                      (n * ByteBase + buf[IF big_endian THEN j + 1 ELSE Len(buf) - j]) % 2^WBITS)

\* read_reg_bytes: the register's contents in its byte order.
RegBuf(r) == [k \in 1..r.size |->
                (r.val \div ByteBase^(IF r.big_endian THEN r.size - k ELSE k - 1)) % ByteBase]

\* read_reg_value: a register wider than buf, or one whose bytes cannot be
\* read, is an error; otherwise its bytes assembled.
read_reg_value_ok(r) == r.size <= WORD_BYTES /\ r.ok
\* (Mutant: the register's byte order ignored.)
read_reg_value_le(r) == AssembleFrom(RegBuf(r), FALSE, 0, 0)
read_reg_value(r) == AssembleFrom(RegBuf(r), r.big_endian, 0, 0)

\* The loop of write_reg_value and set_regs_PC that spreads a value over
\* buf, least significant byte first:
\* buf[big_endian ? size - j - 1 : j] = (uint8_t)value; value = value >> 8.
\* (Mutant: the byte order ignored.)
RECURSIVE SpreadFromLe(_, _, _, _, _)
SpreadFromLe(buf, size, big_endian, j, value) ==
    IF j = size THEN buf
    ELSE SpreadFromLe([buf EXCEPT ![j + 1] = value % ByteBase], size, big_endian, j + 1, value \div ByteBase)
RECURSIVE SpreadFrom(_, _, _, _, _)
SpreadFrom(buf, size, big_endian, j, value) ==
    IF j = size THEN buf
    ELSE SpreadFrom([buf EXCEPT ![IF big_endian THEN size - j ELSE j + 1] = value % ByteBase],
                    size, big_endian, j + 1, value \div ByteBase)
EmptyBuf(size) == [k \in 1..size |-> 0]

\* write_reg_value: a register wider than buf is an error; otherwise the
\* value's bytes go to write_reg_bytes (which fails as r.ok says), and a
\* frame that is not the top one records that it has register data.
write_reg_value(r, value, is_top_frame, has_reg_data) ==
    IF r.size > WORD_BYTES \/ ~r.ok THEN [ok |-> FALSE, has_reg_data |-> has_reg_data]
    ELSE [ok |-> TRUE, buf |-> SpreadFrom(EmptyBuf(r.size), r.size, r.big_endian, 0, value),
          has_reg_data |-> has_reg_data \/ ~is_top_frame]

\* get_PC_definition is a set of at most one definition (none: NULL).
\* get_regs_PC: 0 when the context has no PC definition or its bytes cannot
\* be read (context_read_reg); otherwise the bytes assembled.
get_regs_PC(defs) ==
    IF defs = {} THEN 0
    ELSE LET def == CHOOSE d \in defs : TRUE
         IN  IF def.ok THEN AssembleFrom(RegBuf(def), def.big_endian, 0, 0) ELSE 0

\* set_regs_PC: nothing without a PC definition; otherwise the bytes that
\* context_write_reg is given.
set_regs_PC(defs, pc) ==
    IF defs = {} THEN << >>
    ELSE LET def == CHOOSE d \in defs : TRUE
         IN  SpreadFrom(EmptyBuf(def.size), def.size, def.big_endian, 0, pc)

\* context_read_mem of `size` bytes at addr.
ReadMemOk(addr, size) == \A k \in 0..(size - 1) : addr + k \in MemOk
MemBuf(addr, size) == [k \in 1..size |-> MemByte(addr + k - 1)]

\* The binary commands on uint64_t; a shift by the width or more is
\* undefined in C, and the targets the agent is built for mask the amount.
UndefinedShift(op, b) == op \in {"SHL", "SHR"} /\ b >= WBITS
BinaryResult(op, a, b) ==
    CASE op = "ADD" -> (a + b) % 2^WBITS
      [] op = "SUB" -> (a - b) % 2^WBITS
      [] op = "MUL" -> (a * b) % 2^WBITS
      [] op = "DIV" -> a \div b
      [] op = "AND" -> a & b
      [] op = "OR"  -> a | b
      [] op = "XOR" -> a ^^ b
      [] op = "GE"  -> IF a >= b THEN 1 ELSE 0
      [] op = "GT"  -> IF a > b THEN 1 ELSE 0
      [] op = "LE"  -> IF a <= b THEN 1 ELSE 0
      [] op = "LT"  -> IF a < b THEN 1 ELSE 0
      [] op = "SHL" -> (a * 2^(b % WBITS)) % 2^WBITS
      [] op = "SHR" -> a \div 2^(b % WBITS)

Complement(a) == 2^WBITS - 1 - a

(***************************************************************************)
(* The loop.                                                               *)
(***************************************************************************)

Init ==
    /\ cmds \in Exprs
    /\ i = 1
    /\ stk = << >>
    /\ stk_pos = 0
    /\ stk_max = 0
    /\ status = "run"
    /\ ub = FALSE
    /\ oob = FALSE

Cur == cmds[i]

\* The top of the loop: a full buffer grows by STK_INC cells (tmp_realloc
\* leaves the new cells uninitialized).
\* (Mutants: the buffer never reallocated; grown one push too late.)
GrownNoRealloc == stk
GrownLate == IF stk_pos > stk_max THEN stk \o [k \in 1..STK_INC |-> Uninit] ELSE stk
Grown == IF stk_pos >= stk_max THEN stk \o [k \in 1..STK_INC |-> Uninit] ELSE stk
GrownMax == IF stk_pos >= stk_max THEN stk_max + STK_INC ELSE stk_max

\* The value of the 0-based cell k.
Cell(k) == stk[k + 1]

\* Ends one iteration: cell k of the grown buffer set to v, stk_pos' = pos.
\* A cell past the buffer is a heap overflow.
Put(k, v, pos) ==
    /\ stk' = IF k < Len(Grown) THEN [Grown EXCEPT ![k + 1] = v] ELSE Grown
    /\ oob' = (oob \/ k >= Len(Grown))
    /\ stk_max' = GrownMax
    /\ stk_pos' = pos
    /\ i' = i + 1
    /\ UNCHANGED << cmds, status >>

\* An exception: the evaluation is abandoned.
Throw ==
    /\ status' = "error"
    /\ UNCHANGED << cmds, i, stk, stk_pos, stk_max, ub, oob >>

Running == status = "run" /\ i <= Len(cmds)

\* SFT_CMD_NUMBER, SFT_CMD_FP, SFT_CMD_ARG: push a value.
Number == Running /\ Cur.cmd = "NUMBER" /\ Put(stk_pos, Cur.num, stk_pos + 1) /\ UNCHANGED ub
Fp == Running /\ Cur.cmd = "FP" /\ Put(stk_pos, FP, stk_pos + 1) /\ UNCHANGED ub
Arg ==
    /\ Running /\ Cur.cmd = "ARG"
    /\ \/ Cur.arg_no >= Len(Args) /\ Throw
       \/ Cur.arg_no < Len(Args) /\ Put(stk_pos, Args[Cur.arg_no + 1], stk_pos + 1) /\ UNCHANGED ub

\* SFT_CMD_REGISTER: read_reg_value into the next cell, then push.
Register ==
    /\ Running /\ Cur.cmd = "REGISTER"
    /\ \/ ~read_reg_value_ok(Cur.reg) /\ Throw
       \/ read_reg_value_ok(Cur.reg) /\ Put(stk_pos, read_reg_value(Cur.reg), stk_pos + 1)
          /\ UNCHANGED ub

\* SFT_CMD_DEREF: the top is replaced by the word read at it.
Deref ==
    /\ Running /\ Cur.cmd = "DEREF"
    /\ \/ stk_pos < 1 /\ Throw
       \/ stk_pos >= 1 /\ ~ReadMemOk(Cell(stk_pos - 1), Cur.size) /\ Throw
       \/ stk_pos >= 1 /\ ReadMemOk(Cell(stk_pos - 1), Cur.size)
          /\ Put(stk_pos - 1, AssembleFrom(MemBuf(Cell(stk_pos - 1), Cur.size), Cur.big_endian, 0, 0),
                 stk_pos)
          /\ UNCHANGED ub

\* SFT_CMD_ADD ... SFT_CMD_SHR: the two top cells replaced by the result.
Binary ==
    /\ Running /\ Cur.cmd \in BinaryCmds
    /\ \/ stk_pos < 2 /\ Throw
       \/ stk_pos >= 2 /\ Cur.cmd = "DIV" /\ Cell(stk_pos - 1) = 0 /\ Throw
       \/ /\ stk_pos >= 2 /\ ~(Cur.cmd = "DIV" /\ Cell(stk_pos - 1) = 0)
          /\ Put(stk_pos - 2, BinaryResult(Cur.cmd, Cell(stk_pos - 2), Cell(stk_pos - 1)), stk_pos - 1)
          /\ ub' = (ub \/ UndefinedShift(Cur.cmd, Cell(stk_pos - 1)))

\* SFT_CMD_NEG: the top is complemented, and stk_pos is decremented.
Neg ==
    /\ Running /\ Cur.cmd = "NEG"
    /\ \/ stk_pos < 1 /\ Throw
       \/ stk_pos >= 1 /\ Put(stk_pos - 1, Complement(Cell(stk_pos - 1)), stk_pos - 1) /\ UNCHANGED ub

\* Any other command: location_expression_error().
Unknown ==
    /\ Running /\ Cur.cmd \notin BinaryCmds \cup {"NUMBER", "FP", "ARG", "REGISTER", "DEREF", "NEG"}
    /\ Throw

\* The loop ends: the state is returned with the stack as it is.
Return ==
    /\ status = "run" /\ i > Len(cmds)
    /\ status' = "done"
    /\ UNCHANGED << cmds, i, stk, stk_pos, stk_max, ub, oob >>

\* The caller has the result (or the exception).
Finished == status # "run" /\ UNCHANGED vars

Next == Number \/ Fp \/ Arg \/ Register \/ Deref \/ Binary \/ Neg \/ Unknown \/ Return \/ Finished

Spec == Init /\ [][Next]_vars

(***************************************************************************)
(* The reference: what a location expression denotes.  Commands act on a  *)
(* stack of values: a push appends, DEREF and NEG replace the top, and a   *)
(* binary command pops two values and appends its result.  A word in      *)
(* memory is the sum of its bytes, each weighted by its place.             *)
(***************************************************************************)
RECURSIVE MemValue(_, _, _)
MemValue(addr, size, big_endian) ==
    IF size = 0 THEN 0
    ELSE MemByte(addr + size - 1) * ByteBase^(IF big_endian THEN 0 ELSE size - 1)
         + MemValue(addr, size - 1, big_endian) * (IF big_endian THEN ByteBase ELSE 1)

RefDefined(c, s) ==
    CASE c.cmd \in {"NUMBER", "FP"} -> TRUE
      [] c.cmd = "ARG" -> c.arg_no < Len(Args)
      [] c.cmd = "REGISTER" -> c.reg.size <= WORD_BYTES /\ c.reg.ok
      [] c.cmd = "DEREF" -> s # << >> /\ ReadMemOk(Last(s), c.size)
      [] c.cmd = "NEG" -> s # << >>
      [] c.cmd \in BinaryCmds -> Len(s) >= 2 /\ ~(c.cmd = "DIV" /\ Last(s) = 0)
      [] OTHER -> FALSE

RefStep(c, s) ==
    CASE c.cmd = "NUMBER" -> Append(s, c.num)
      [] c.cmd = "FP" -> Append(s, FP)
      [] c.cmd = "ARG" -> Append(s, Args[c.arg_no + 1])
      [] c.cmd = "REGISTER" -> Append(s, c.reg.val)
      [] c.cmd = "DEREF" -> Append(Front(s), MemValue(Last(s), c.size, c.big_endian))
      [] c.cmd = "NEG" -> Append(Front(s), Complement(Last(s)))
      [] OTHER -> Append(Front(Front(s)), BinaryResult(c.cmd, s[Len(s) - 1], Last(s)))

RECURSIVE RefEval(_, _)
RefEval(cs, s) ==
    CASE cs = << >> -> [ok |-> TRUE, stack |-> s]
      [] RefDefined(Head(cs), s) -> RefEval(Tail(cs), RefStep(Head(cs), s))
      [] OTHER -> [ok |-> FALSE, stack |-> s]

(***************************************************************************)
(* Properties.                                                             *)
(***************************************************************************)
TypeOK ==
    /\ cmds \in Exprs
    /\ i \in 1..(Len(cmds) + 1)
    /\ stk \in Seq(Word \cup {Uninit}) /\ Len(stk) = stk_max
    /\ stk_pos \in 0..stk_max
    /\ status \in {"run", "done", "error"}
    /\ ub \in BOOLEAN /\ oob \in BOOLEAN

\* The stack buffer grows before every push: no command of the loop writes
\* past the stk_max cells tmp_realloc gave it.
NoHeapOverflow == ~oob

\* The outcome of a returned evaluation is the one of the reference: the
\* stack the expression denotes (cells 0..stk_pos-1) if it is defined, an
\* exception if it is not.
AgreesWithReference ==
    LET ref == RefEval(cmds, << >>)
    IN  IF ref.ok THEN status = "done" /\ SubSeq(stk, 1, stk_pos) = ref.stack
        ELSE status = "error"

UsesNeg == \E k \in DOMAIN cmds : cmds[k].cmd = "NEG"

\* An evaluation returns with the stack the expression denotes exactly when
\* the expression is defined, and throws exactly when it is not: the stack
\* discipline of every command, the checks before it, and the byte order of
\* every register and memory read.  (Stated for evaluations that execute no
\* shift by the width or more, which C leaves undefined.)
MatchesReference == status # "run" /\ ~ub => AgreesWithReference

\* The same, for every expression without SFT_CMD_NEG (whose case of the
\* loop decrements stk_pos; MatchesReference is checked on it separately).
NegFreeMatchesReference == status # "run" /\ ~ub /\ ~UsesNeg => AgreesWithReference

\* The register conversions of cpudefs.c agree with each other and with the
\* register's byte order, for every width up to buf, both byte orders and
\* every value: read_reg_value gives back what write_reg_value wrote
\* (truncated to the register's width); set_regs_PC writes exactly the
\* bytes a PC register holding pc has; get_regs_PC of that register is pc.
RegisterBytesAgree ==
    \A size \in 0..WORD_BYTES, be \in BOOLEAN, v \in Word :
        LET r == [size |-> size, big_endian |-> be, val |-> v % ByteBase^size, ok |-> TRUE]
            w == write_reg_value(r, v, FALSE, FALSE)
        IN  /\ w.ok /\ w.has_reg_data
            /\ AssembleFrom(w.buf, be, 0, 0) = v % ByteBase^size
            /\ set_regs_PC({r}, v) = RegBuf(r)
            /\ get_regs_PC({r}) = v % ByteBase^size
\* The register conversions agree (RegisterBytesAgree), in every state.
RegisterValueRoundTrip == i >= 1 => RegisterBytesAgree

====
