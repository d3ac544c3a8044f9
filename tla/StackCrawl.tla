----------------------------- MODULE StackCrawl -----------------------------
(***************************************************************************)
(* The RISC-V stack crawler of stack-crawl-riscv.c: given a stopped frame, *)
(* it interprets the function's code forward from the PC, with tagged      *)
(* register slots (reg_data, pc_data), a hash of traced stores (mem_data)  *)
(* and a FIFO list of branch snapshots (branch_data), until it finds the   *)
(* return `c.jr ra`; then it writes the caller's registers to `down`.      *)
(*                                                                         *)
(* One request runs: Start (crawl_stack_frame_riscv up to the first       *)
(* iteration of trace_instructions), Step (one iteration of the inner     *)
(* loop: one decoded instruction), NextPath (restore the next branch       *)
(* snapshot), Fallback (epilogue not found), Assemble (write `down`).      *)
(*                                                                         *)
(* Beside the crawler's own state the model keeps a ghost `cst`: the       *)
(* concrete machine state that a real execution of the same path of the    *)
(* function would have.  The soundness properties compare the two.        *)
(***************************************************************************)
EXTENDS Integers, Sequences, FiniteSets, FiniteSetsExt

CONSTANTS
    XLENs,              \* entry points: crawl_stack_frame_riscv32/64/128
    WordBits,           \* register width of the model machine
    MEM_HASH_SIZE,      \* slots of mem_data
    BRANCH_LIST_SIZE,   \* capacity of branch_data
    MAX_INST,           \* instruction budget of one path
    Regs,               \* the dwarf ids of the modelled GPRs (0, 1, 2, ...)
    Programs,           \* per xlen, candidate function bodies (code address -> instruction)
    Frames,             \* candidate input frames
    Mapped,             \* target addresses whose reads succeed
    Mem0(_),            \* target memory: the word at an address
    StackRegisterLocations, \* ENABLE_StackRegisterLocations
    Requests            \* back-to-back crawl requests on the same frame

INSTANCE Uxlen

REG_VAL_FRAME == 1
REG_VAL_ADDR  == 2
REG_VAL_STACK == 3
REG_VAL_OTHER == 4
REG_ID_RA == 1
REG_ID_SP == 2
\* Catalog index of the "pc" definition; a GPR's catalog index is its dwarf id.
PC_IDX == 32

Tags == {0, REG_VAL_FRAME, REG_VAL_ADDR, REG_VAL_STACK, REG_VAL_OTHER}
Lazy == {REG_VAL_ADDR, REG_VAL_STACK}
IsRegData(x) == x.v \in UVal /\ x.o \in Tags
Slots == 0..(MEM_HASH_SIZE - 1)

ASSUME /\ XLENs \subseteq {32, 64, 128}
       /\ {0, REG_ID_RA, REG_ID_SP} \subseteq Regs /\ Regs \subseteq 0..31
       /\ MEM_HASH_SIZE \in Nat \ {0}
       /\ BRANCH_LIST_SIZE \in Nat /\ MAX_INST \in Nat \ {0}
       /\ PC_IDX \in UVal
       /\ Requests \in {1, 2}

(***************************************************************************)
(* Target memory access (read_u32/u64/u128).  read_byte's line cache is   *)
(* the module MemCache, which checks that it returns the target's bytes;   *)
(* here a read of `n` bytes succeeds iff every byte address is non-zero    *)
(* and mapped, and a word read yields the word at its first address.       *)
(***************************************************************************)
ReadOk(addr, n) ==
    \A k \in 0..(n - 1) : LET ca == uxlen_add_u(addr, k) IN ca # 0 /\ ca \in Mapped

(***************************************************************************)
(* The memory hash (mem_data): open addressing with linear probing.        *)
(***************************************************************************)
EmptyHash == [v |-> [s \in Slots |-> 0], a |-> [s \in Slots |-> 0],
              size |-> [s \in Slots |-> 0], valid |-> [s \in Slots |-> FALSE]]

\* mem_hash_index: the slot holding addr, else the first free slot of the
\* probe sequence, else -1 (hash full).
FirstStop(Probe(_), stops) == IF stops = {} THEN -1 ELSE Probe(Min(stops))
mem_hash_index(mem, addr) ==
    LET Probe(k) == ((addr % MEM_HASH_SIZE) + k) % MEM_HASH_SIZE
    IN  FirstStop(Probe, {k \in Slots : mem.size[Probe(k)] = 0 \/ mem.a[Probe(k)] = addr})

\* mem_hash_read: [found, v, valid] for a read of `bytes` bytes at addr.
HashEntry(mem, addr, bytes, i) ==
    IF i >= 0 /\ mem.size[i] # 0 /\ mem.a[i] = addr
       THEN [found |-> TRUE, v |-> mem.v[i], valid |-> mem.valid[i] /\ mem.size[i] >= bytes]
       ELSE [found |-> FALSE, v |-> 0, valid |-> FALSE]
mem_hash_read(mem, addr, bytes) == HashEntry(mem, addr, bytes, mem_hash_index(mem, addr))

(***************************************************************************)
(* Register loading.  These return [err, x]: err is TRUE where the C       *)
(* function returns -1, x is the RegData it leaves behind.  (A result used *)
(* more than once is passed on as an argument of the next operator.)       *)
(***************************************************************************)
\* load_reg: from the hash if the address is there, else from memory.
LoadFrom(addr, bits, h) ==
    IF h.found
       THEN [err |-> FALSE, x |-> [v |-> h.v, o |-> IF h.valid THEN REG_VAL_OTHER ELSE 0]]
    ELSE IF ReadOk(addr, bits \div 8)
       THEN [err |-> FALSE, x |-> [v |-> Mem0(addr), o |-> REG_VAL_OTHER]]
    ELSE [err |-> TRUE, x |-> [v |-> 0, o |-> 0]]
load_reg(mem, addr, bits) == LoadFrom(addr, bits, mem_hash_read(mem, addr, bits \div 8))

\* chk_reg_loaded: resolve a Frame or lazily loaded slot.  `fr` is the input
\* frame: read_reg128 of catalog entry v succeeds iff v \in fr.ok.
chk_reg_loaded(xlen, fr, mem, x) ==
    CASE x.o \in {0, REG_VAL_OTHER} -> [err |-> FALSE, x |-> x]
      [] x.o = REG_VAL_FRAME ->
            IF x.v \in fr.ok
               THEN [err |-> FALSE, x |-> [v |-> fr.val[x.v], o |-> REG_VAL_OTHER]]
            ELSE IF fr.top THEN [err |-> TRUE, x |-> x]
            ELSE [err |-> FALSE, x |-> [x EXCEPT !.o = 0]]
      [] OTHER -> load_reg(mem, x.v, xlen)

(***************************************************************************)
(* The interpreter works on a record M of the globals one instruction may *)
(* change: reg, pc, mem, br (branch_data), err (the handler returned -1),  *)
(* ret (trace_return), brk (trace_branch); xlen is the width selected by   *)
(* the entry point, fr the input frame and c the ghost concrete state,     *)
(* kept for the snapshot of add_branch.  Once err is set an operator       *)
(* leaves M alone: that is the `if (...) < 0) return -1;` of the code.     *)
(***************************************************************************)
\* chk_loaded(r)
Resolve(M, r, c) == IF M.err THEN M ELSE [M EXCEPT !.reg[r] = c.x, !.err = c.err]
chk_loaded(M, r) == Resolve(M, r, chk_reg_loaded(M.xlen, M.fr, M.mem, M.reg[r]))

\* (Mutant: windows that only touch count as overlapping.)
OverlapAdjacent(width, p, q) ==
    /\ ~(uxlen_cmp(p, uxlen_add_u(q, width \div 8)) > 0)
    /\ ~(uxlen_cmp(uxlen_add_u(p, width \div 8), q) < 0)
\* Do two xlen-wide intervals starting at p and q overlap (the test of
\* mem_hash_write, with the wrap-around of uxlen_add_u)?  width is xlen.
Overlap(width, p, q) ==
    /\ ~(uxlen_cmp(p, uxlen_add_u(q, width \div 8)) >= 0)
    /\ ~(uxlen_cmp(uxlen_add_u(p, width \div 8), q) <= 0)

\* mem_hash_write: fail on overflow; materialize every lazily loaded register
\* whose referent overlaps the written window (ld: the loads, by register);
\* then store the entry.  A materialization that fails fails the write (the
\* order in which the loop visits registers only matters to a path that is
\* abandoned anyway).
\* (Mutant: no write barrier.)
BarrierNone(M, addr) == [r \in {} |-> load_reg(M.mem, addr, M.xlen)]
Barrier(M, addr) ==
    [r \in {q \in Regs : M.reg[q].o \in Lazy /\ Overlap(M.xlen, M.reg[q].v, addr)} |->
        load_reg(M.mem, M.reg[r].v, M.xlen)]
WriteEntry(M, addr, v, bytes, valid, n, ld) ==
    CASE M.err -> M
      [] n < 0 -> [M EXCEPT !.err = TRUE]
      [] OTHER ->
           [M EXCEPT !.reg = [r \in Regs |-> IF r \in DOMAIN ld THEN ld[r].x ELSE @[r]],
                     !.err = \E r \in DOMAIN ld : ld[r].err,
                     !.mem = IF \E r \in DOMAIN ld : ld[r].err THEN @
                             ELSE [a |-> [@.a EXCEPT ![n] = addr], v |-> [@.v EXCEPT ![n] = v],
                                   size |-> [@.size EXCEPT ![n] = bytes],
                                   valid |-> [@.valid EXCEPT ![n] = valid]]]
mem_hash_write(M, addr, v, bytes, valid) ==
    WriteEntry(M, addr, v, bytes, valid, mem_hash_index(M.mem, addr), Barrier(M, addr))

\* store_reg: resolve the register, then write its value, valid iff known.
StoreResolved(M, addr, r, bits) ==
    mem_hash_write(M, addr, M.reg[r].v, bits \div 8, M.reg[r].o # 0)
store_reg(M, addr, r, bits) == StoreResolved(chk_loaded(M, r), addr, r, bits)

\* load_reg_lazy: a hash hit installs the stored value (Unknown if invalid);
\* an xlen-wide miss installs the address with tag Addr; a narrower miss
\* reads memory now (its failure is ignored by every caller).
LazyFrom(M, addr, r, bits, h) ==
    [M EXCEPT !.reg[r] =
        CASE h.found -> IF h.valid THEN [v |-> h.v, o |-> REG_VAL_OTHER] ELSE [v |-> 0, o |-> 0]
          [] bits = M.xlen -> [v |-> addr, o |-> REG_VAL_ADDR]
          [] OTHER -> load_reg(M.mem, addr, bits).x]
load_reg_lazy(M, addr, r, bits) == LazyFrom(M, addr, r, bits, mem_hash_read(M.mem, addr, bits \div 8))

\* (Mutant: the capacity test off by one.)
add_branch_past_cap(M, addr, ctarget) ==
    IF /\ Len(M.br) <= BRANCH_LIST_SIZE
       /\ \A k \in 1..Len(M.br) : M.br[k].addr # addr
       THEN [M EXCEPT !.br = Append(@, [addr |-> addr, reg |-> M.reg, mem |-> M.mem,
                                        pc |-> [v |-> addr, o |-> REG_VAL_OTHER],
                                        c |-> [M.c EXCEPT !.pc = ctarget]])]
       ELSE M

\* add_branch: snapshot of registers and hash at a branch target, unless
\* the list is full or already holds the target.  `ctarget` is the ghost
\* concrete target.
add_branch(M, addr, ctarget) ==
    IF /\ Len(M.br) < BRANCH_LIST_SIZE
       /\ \A k \in 1..Len(M.br) : M.br[k].addr # addr
       THEN [M EXCEPT !.br = Append(@, [addr |-> addr, reg |-> M.reg, mem |-> M.mem,
                                        pc |-> [v |-> addr, o |-> REG_VAL_OTHER],
                                        c |-> [M.c EXCEPT !.pc = ctarget]])]
       ELSE M

(***************************************************************************)
(* Instruction handlers.  An instruction is a record [op, rd, rs, rs2,     *)
(* imm]: op names the encoding, rd/rs/rs2 the register fields the handler  *)
(* extracts (for a store, rd is the register stored, as in the code), imm  *)
(* the value get_imm/get_imm_se extract, before the handler scales it.     *)
(***************************************************************************)
SetReg(M, r, v, o) == IF M.err THEN M ELSE [M EXCEPT !.reg[r] = [v |-> v, o |-> o]]
BothOther(x, y) == IF x.o # 0 /\ y.o # 0 THEN REG_VAL_OTHER ELSE 0

\* LUI and AUIPC of trace_rv32i (rd = 0 is not excluded).
rv32i_LUI(M, i) == SetReg(M, i.rd, uxlen_from_u(i.imm * 4096), REG_VAL_OTHER)
rv32i_AUIPC(M, i) == SetReg(M, i.rd, uxlen_add_u(M.pc.v, i.imm * 4096), REG_VAL_OTHER)

\* rd = F(rs1, rs2), Other iff both sources are known.
Arith(M, rd, rs1, rs2, F(_, _)) ==
    SetReg(M, rd, F(M.reg[rs1].v, M.reg[rs2].v), BothOther(M.reg[rs1], M.reg[rs2]))

\* SUB: both sources resolved first.  SRA: used as they are.
rv32i_SUB(M, i) == Arith(chk_loaded(chk_loaded(M, i.rs), i.rs2), i.rd, i.rs, i.rs2, uxlen_sub)
rv32i_SRA(M, i) == Arith(M, i.rd, i.rs, i.rs2, uxlen_sra)

\* Apply F to rd after resolving it; rd keeps the tag chk_loaded left.
UpdateRd(M, rd, F(_)) ==
    LET M1 == chk_loaded(M, rd) IN IF M1.err THEN M1 ELSE [M1 EXCEPT !.reg[rd].v = F(@)]

\* rd op= rs, with the tag Other iff both operands are known.
ArithRdRs(M, rd, rs, F(_, _)) == Arith(chk_loaded(chk_loaded(M, rd), rs), rd, rd, rs, F)

\* C.ADDI4SPN: rd' = sp + imm*4 with sp's tag.
\* (Mutant: the immediate scaled by 2.)
Addi4spn_by2(M, i) == SetReg(M, i.rd, uxlen_add_u(M.reg[REG_ID_SP].v, i.imm * 2), M.reg[REG_ID_SP].o)
Addi4spn(M, i) == SetReg(M, i.rd, uxlen_add_u(M.reg[REG_ID_SP].v, i.imm * 4), M.reg[REG_ID_SP].o)
C_ADDI4SPN(M, i) == IF i.imm = 0 THEN M ELSE Addi4spn(chk_loaded(M, REG_ID_SP), i)

\* The common shape of every traced load and store: resolve the base; if it
\* is known, lazily load rd from (or store rd to) base + imm*scale; if it is
\* not, a load makes rd Unknown and a store is dropped.
Access(M, i, base, ld, bits, scale) ==
    CASE M.err -> M
      [] M.reg[base].o # 0 /\ ld ->
            load_reg_lazy(M, uxlen_add_u(M.reg[base].v, i.imm * scale), i.rd, bits)
      [] M.reg[base].o # 0 ->
            store_reg(M, uxlen_add_u(M.reg[base].v, i.imm * scale), i.rd, bits)
      [] ld -> [M EXCEPT !.reg[i.rd].o = 0]
      [] OTHER -> M
MemAccess(M, i, base, ld, bits, scale) == Access(chk_loaded(M, base), i, base, ld, bits, scale)

C_LW(M, i) == MemAccess(M, i, i.rs, TRUE, 32, 4)
C_SW(M, i) == MemAccess(M, i, i.rs, FALSE, 32, 4)
C_LWSP(M, i) == IF i.rd = 0 THEN M ELSE MemAccess(M, i, REG_ID_SP, TRUE, 32, 4)
C_SWSP(M, i) == MemAccess(M, i, REG_ID_SP, FALSE, 32, 4)
C_LD(M, i) == MemAccess(M, i, i.rs, TRUE, 64, 8)
C_SD(M, i) == MemAccess(M, i, i.rs, FALSE, 64, 8)
C_LDSP(M, i) == IF i.rd = 0 THEN M ELSE MemAccess(M, i, REG_ID_SP, TRUE, 64, 8)
C_SDSP(M, i) == MemAccess(M, i, REG_ID_SP, FALSE, 64, 8)
C_LQ(M, i) == MemAccess(M, i, i.rs, TRUE, 128, 16)
C_SQ(M, i) == MemAccess(M, i, i.rs, FALSE, 128, 16)
C_LQSP(M, i) == IF i.rd = 0 THEN M ELSE MemAccess(M, i, REG_ID_SP, TRUE, 128, 16)
C_SQSP(M, i) == MemAccess(M, i, REG_ID_SP, FALSE, 128, 16)

\* C.JAL (a call: ra = pc + 2 with pc's tag; the call is stepped over) and
\* C.J (pc moves by imm*2, trace_branch is not set).
C_JAL(M, i) == SetReg(M, REG_ID_RA, uxlen_add_u(M.pc.v, 2), M.pc.o)

\* C.ADDI (and C.ADDIW, which does the same at full width); rd = 0 is a
\* hint, and C.ADDIW with rd = 0 falls through to trace_rv32c's C.JAL.
C_ADDI(M, i) == IF i.rd = 0 THEN M ELSE UpdateRd(M, i.rd, LAMBDA v : uxlen_add_i(v, i.imm))
C_ADDIW(M, i) == IF i.rd = 0 THEN C_JAL(M, i) ELSE UpdateRd(M, i.rd, LAMBDA v : uxlen_add_i(v, i.imm))
C_J(M, i) == [M EXCEPT !.pc.v = uxlen_add_i(@, i.imm * 2)]

C_LI(M, i) == IF i.rd = 0 THEN M ELSE SetReg(M, i.rd, uxlen_from_i(i.imm), REG_VAL_OTHER)
C_LUI(M, i) == IF i.rd = 0 \/ i.imm = 0 THEN M ELSE SetReg(M, i.rd, uxlen_from_i(i.imm * 4096), REG_VAL_OTHER)
\* C.ADDI16SP: sp's value moves, its tag is not looked at.
\* (Mutant: the immediate scaled by 8.)
C_ADDI16SP_by8(M, i) == [M EXCEPT !.reg[REG_ID_SP].v = uxlen_add_i(@, i.imm * 8)]
C_ADDI16SP(M, i) == [M EXCEPT !.reg[REG_ID_SP].v = uxlen_add_i(@, i.imm * 16)]

\* C.SRLI / C.SRAI / C.SLLI: the shift amount rules of the code.
ShiftImm(xlen, imm) == IF imm = 0 THEN 64 ELSE imm
ShiftNop(xlen, imm) == (xlen = 32 /\ imm >= 32) \/ (imm = 0 /\ xlen # 128)
C_SRLI(M, i) ==
    IF ShiftNop(M.xlen, i.imm) THEN M
    ELSE UpdateRd(M, i.rd, LAMBDA v : uxlen_srl(v, ShiftImm(M.xlen, i.imm)))
C_SRAI(M, i) ==
    IF ShiftNop(M.xlen, i.imm) THEN M
    ELSE UpdateRd(M, i.rd, LAMBDA v : uxlen_sra(v, ShiftImm(M.xlen, i.imm)))
C_SLLI(M, i) ==
    IF i.rd = 0 \/ ShiftNop(M.xlen, i.imm) THEN M
    ELSE UpdateRd(M, i.rd, LAMBDA v : uxlen_sll(v, ShiftImm(M.xlen, i.imm)))
C_ANDI(M, i) == UpdateRd(M, i.rd, LAMBDA v : uxlen_and(v, uxlen_from_i(i.imm)))

\* C.SUB / C.XOR / C.OR / C.AND, C.ADD, C.SUBW / C.ADDW.
C_SUB(M, i) == ArithRdRs(M, i.rd, i.rs, uxlen_sub)
C_XOR(M, i) == ArithRdRs(M, i.rd, i.rs, uxlen_xor)
C_OR(M, i)  == ArithRdRs(M, i.rd, i.rs, uxlen_or)
C_AND(M, i) == ArithRdRs(M, i.rd, i.rs, uxlen_and)
\* (Mutant: rs used without being resolved, as rv32i_SRA does.)
C_ADD_unresolved(M, i) ==
    IF i.rd = 0 THEN M ELSE Arith(chk_loaded(M, i.rd), i.rd, i.rd, i.rs, uxlen_add)
C_ADD(M, i) == IF i.rd = 0 THEN M ELSE ArithRdRs(M, i.rd, i.rs, uxlen_add)
C_SUBW(M, i) == ArithRdRs(M, i.rd, i.rs, uxlen_sub)
C_ADDW(M, i) == ArithRdRs(M, i.rd, i.rs, uxlen_add)

\* C.BEQZ / C.BNEZ: queue the taken edge, continue on the fall-through.
C_BRANCH(M, i) ==
    add_branch(M, uxlen_add_i(M.pc.v, i.imm * 2), uxlen_add_i(M.c.pc, i.imm * 2))

\* C.JR: `c.jr ra` is the return; any other target is queued (when known)
\* and ends the path.
Jump(M, rs) ==
    IF M.err THEN M
    ELSE [(IF M.reg[rs].o # 0 THEN add_branch(M, M.reg[rs].v, M.c.reg[rs]) ELSE M)
            EXCEPT !.brk = TRUE]
C_JR(M, i) ==
    CASE i.rs = 0 -> M
      [] i.rs = REG_ID_RA -> [M EXCEPT !.ret = TRUE]
      [] OTHER -> Jump(chk_loaded(M, i.rs), i.rs)

\* C.MV: rd takes rs's resolved value and tag.
Move(M, rd, rs) == IF M.err THEN M ELSE [M EXCEPT !.reg[rd] = M.reg[rs]]
C_MV(M, i) == IF i.rd = 0 THEN M ELSE Move(chk_loaded(M, i.rs), i.rd, i.rs)

\* C.JALR: a call, stepped over like C.JAL.
C_JALR(M, i) == SetReg(M, REG_ID_RA, uxlen_add_u(M.pc.v, 2), M.pc.o)

(***************************************************************************)
(* Decoding (trace_riscv and the layers trace_rv32/64/128, trace_rv32c/    *)
(* 64c/128c).  A base (32-bit) instruction is traced only at xlen 32:       *)
(* trace_rv64 and trace_rv128 trace nothing.  A compressed encoding that a  *)
(* wider layer claims (Ops64, Ops128) is, at a narrower xlen, one of the    *)
(* floating-point encodings trace_rv32c skips.                              *)
(***************************************************************************)
BaseOps == {"LUI", "AUIPC", "SUB", "SRA", "ADDI"}
Ops64 == {"C.ADDIW", "C.LD", "C.SD", "C.LDSP", "C.SDSP", "C.SUBW", "C.ADDW"}
Ops128 == {"C.LQ", "C.SQ", "C.LQSP", "C.SQSP"}
InstSize(i) == IF i.op \in BaseOps THEN 4 ELSE 2

Handler(M, i) ==
    CASE i.op = "LUI" -> rv32i_LUI(M, i)       [] i.op = "AUIPC" -> rv32i_AUIPC(M, i)
      [] i.op = "SUB" -> rv32i_SUB(M, i)       [] i.op = "SRA" -> rv32i_SRA(M, i)
      [] i.op = "C.ILLEGAL" -> [M EXCEPT !.err = TRUE]
      [] i.op = "C.ADDI4SPN" -> C_ADDI4SPN(M, i)
      [] i.op = "C.LW" -> C_LW(M, i)           [] i.op = "C.SW" -> C_SW(M, i)
      [] i.op = "C.LWSP" -> C_LWSP(M, i)       [] i.op = "C.SWSP" -> C_SWSP(M, i)
      [] i.op = "C.LD" -> C_LD(M, i)           [] i.op = "C.SD" -> C_SD(M, i)
      [] i.op = "C.LDSP" -> C_LDSP(M, i)       [] i.op = "C.SDSP" -> C_SDSP(M, i)
      [] i.op = "C.LQ" -> C_LQ(M, i)           [] i.op = "C.SQ" -> C_SQ(M, i)
      [] i.op = "C.LQSP" -> C_LQSP(M, i)       [] i.op = "C.SQSP" -> C_SQSP(M, i)
      [] i.op = "C.ADDI" -> C_ADDI(M, i)       [] i.op = "C.ADDIW" -> C_ADDIW(M, i)
      [] i.op = "C.JAL" -> C_JAL(M, i)         [] i.op = "C.J" -> C_J(M, i)
      [] i.op = "C.LI" -> C_LI(M, i)           [] i.op = "C.LUI" -> C_LUI(M, i)
      [] i.op = "C.ADDI16SP" -> C_ADDI16SP(M, i)
      [] i.op = "C.SRLI" -> C_SRLI(M, i)       [] i.op = "C.SRAI" -> C_SRAI(M, i)
      [] i.op = "C.SLLI" -> C_SLLI(M, i)       [] i.op = "C.ANDI" -> C_ANDI(M, i)
      [] i.op = "C.SUB" -> C_SUB(M, i)         [] i.op = "C.XOR" -> C_XOR(M, i)
      [] i.op = "C.OR" -> C_OR(M, i)           [] i.op = "C.AND" -> C_AND(M, i)
      [] i.op = "C.ADD" -> C_ADD(M, i)         [] i.op = "C.SUBW" -> C_SUBW(M, i)
      [] i.op = "C.ADDW" -> C_ADDW(M, i)       [] i.op = "C.BEQZ" -> C_BRANCH(M, i)
      [] i.op = "C.JR" -> C_JR(M, i)           [] i.op = "C.MV" -> C_MV(M, i)
      [] i.op = "C.JALR" -> C_JALR(M, i)
      [] OTHER -> M    \* ADDI and the other untraced base forms, C.NOP, C.EBREAK

\* Does the layer selected by xlen claim the encoding (trace_rv32/64/128 for
\* a base instruction; trace_rv128c -> trace_rv64c -> trace_rv32c)?
Claimed(xlen, op) ==
    CASE op \in BaseOps -> xlen = 32
      [] op \in Ops128 -> xlen = 128
      [] op \in Ops64 -> xlen >= 64
      [] OTHER -> TRUE
Decode(M, i) == IF Claimed(M.xlen, i.op) THEN Handler(M, i) ELSE M

\* trace_riscv: alignment, the fetch of 4 bytes at pc (read_u32, also for a
\* compressed instruction), the decode, then pc moves past the instruction
\* unless it returned or ended the path.  `code` is the function's body; a
\* fetch at an address that holds no modelled instruction fails.
FetchOk(code, a) == a \in DOMAIN code /\ ReadOk(a, 4)
Advance(M, i) ==
    IF M.err \/ M.ret \/ M.brk THEN M ELSE [M EXCEPT !.pc.v = uxlen_add_u(@, InstSize(i))]
trace_riscv(M, code) ==
    IF M.pc.v % 2 = 1 \/ ~FetchOk(code, M.pc.v) THEN [M EXCEPT !.err = TRUE]
    ELSE Advance(Decode(M, code[M.pc.v]), code[M.pc.v])

(***************************************************************************)
(* Ghost: the concrete machine.  reg holds the architectural registers, pc *)
(* the program counter, st the stores done on the path as non-overlapping  *)
(* [a, v, sz] records over the target memory Mem0; wild records a store    *)
(* to an unknown address.  A value no word-level model can tell (a read    *)
(* of bytes partly overwritten) is Junk.  A call (C.JAL, C.JALR) returns   *)
(* with every register and all memory preserved except ra.                 *)
(***************************************************************************)
Junk == -1
Lift2(F(_, _), a, b) == IF a = Junk \/ b = Junk THEN Junk ELSE F(a, b)
Lift1(F(_), a) == IF a = Junk THEN Junk ELSE F(a)
Hits(e, a, b) == e.a < a + b /\ a < e.a + e.sz

ReadOver(c, a, b, ov) ==
    CASE a = Junk \/ c.wild -> Junk
      [] \E e \in ov : e.a = a /\ e.sz >= b -> (CHOOSE e \in ov : e.a = a).v
      [] ov # {} -> Junk
      [] OTHER -> Mem0(a)
CRead(c, a, b) == ReadOver(c, a, b, IF a = Junk THEN {} ELSE {e \in c.st : Hits(e, a, b)})

CStore(c, a, b, v) ==
    IF a = Junk THEN [c EXCEPT !.wild = TRUE]
    ELSE [c EXCEPT !.st = {e \in @ : ~Hits(e, a, b)} \cup {[a |-> a, v |-> v, sz |-> b]}]

CSet(c, r, v) == IF r = 0 THEN c ELSE [c EXCEPT !.reg[r] = v]

\* One instruction on the concrete machine (the fall-through of a branch).
CExec(c, i) ==
    LET R(r) == c.reg[r]
        Adv(cc) == [cc EXCEPT !.pc = uxlen_add_u(c.pc, InstSize(i))]
        EA(base, scale) == Lift1(LAMBDA b : uxlen_add_u(b, i.imm * scale), R(base))
        Ld(base, sz) == Adv(CSet(c, i.rd, CRead(c, EA(base, sz), sz)))
        St(base, sz) == Adv(CStore(c, EA(base, sz), sz, R(i.rd)))
        Op1(F(_)) == Adv(CSet(c, i.rd, Lift1(F, R(i.rd))))
        Op2(F(_, _)) == Adv(CSet(c, i.rd, Lift2(F, R(i.rd), R(i.rs))))
        Call == Adv(CSet(c, REG_ID_RA, uxlen_add_u(c.pc, 2)))
    IN  CASE i.op = "LUI" -> Adv(CSet(c, i.rd, uxlen_from_u(i.imm * 4096)))
          [] i.op = "AUIPC" -> Adv(CSet(c, i.rd, uxlen_add_u(c.pc, i.imm * 4096)))
          [] i.op = "SUB" -> Adv(CSet(c, i.rd, Lift2(uxlen_sub, R(i.rs), R(i.rs2))))
          [] i.op = "SRA" -> Adv(CSet(c, i.rd, Lift2(uxlen_sra, R(i.rs), R(i.rs2))))
          [] i.op = "ADDI" -> Adv(CSet(c, i.rd, Lift1(LAMBDA v : uxlen_add_i(v, i.imm), R(i.rs))))
          [] i.op = "C.ADDI4SPN" -> Adv(CSet(c, i.rd, Lift1(LAMBDA v : uxlen_add_u(v, i.imm * 4), R(REG_ID_SP))))
          [] i.op \in {"C.LW", "C.LD", "C.LQ"} ->
                Ld(i.rs, CASE i.op = "C.LW" -> 4 [] i.op = "C.LD" -> 8 [] OTHER -> 16)
          [] i.op \in {"C.SW", "C.SD", "C.SQ"} ->
                St(i.rs, CASE i.op = "C.SW" -> 4 [] i.op = "C.SD" -> 8 [] OTHER -> 16)
          [] i.op \in {"C.LWSP", "C.LDSP", "C.LQSP"} ->
                Ld(REG_ID_SP, CASE i.op = "C.LWSP" -> 4 [] i.op = "C.LDSP" -> 8 [] OTHER -> 16)
          [] i.op \in {"C.SWSP", "C.SDSP", "C.SQSP"} ->
                St(REG_ID_SP, CASE i.op = "C.SWSP" -> 4 [] i.op = "C.SDSP" -> 8 [] OTHER -> 16)
          [] i.op \in {"C.ADDI", "C.ADDIW"} -> Op1(LAMBDA v : uxlen_add_i(v, i.imm))
          [] i.op \in {"C.JAL", "C.JALR"} -> Call
          [] i.op = "C.J" -> [c EXCEPT !.pc = uxlen_add_i(c.pc, i.imm * 2)]
          [] i.op = "C.LI" -> Adv(CSet(c, i.rd, uxlen_from_i(i.imm)))
          [] i.op = "C.LUI" -> Adv(CSet(c, i.rd, uxlen_from_i(i.imm * 4096)))
          [] i.op = "C.ADDI16SP" ->
                Adv(CSet(c, REG_ID_SP, Lift1(LAMBDA v : uxlen_add_i(v, i.imm * 16), R(REG_ID_SP))))
          [] i.op = "C.SRLI" -> Op1(LAMBDA v : uxlen_srl(v, i.imm))
          [] i.op = "C.SRAI" -> Op1(LAMBDA v : uxlen_sra(v, i.imm))
          [] i.op = "C.SLLI" -> Op1(LAMBDA v : uxlen_sll(v, i.imm))
          [] i.op = "C.ANDI" -> Op1(LAMBDA v : uxlen_and(v, uxlen_from_i(i.imm)))
          [] i.op \in {"C.SUB", "C.SUBW"} -> Op2(uxlen_sub)
          [] i.op \in {"C.ADD", "C.ADDW"} -> Op2(uxlen_add)
          [] i.op = "C.XOR" -> Op2(uxlen_xor)
          [] i.op = "C.OR" -> Op2(uxlen_or)
          [] i.op = "C.AND" -> Op2(uxlen_and)
          [] i.op = "C.MV" -> Adv(CSet(c, i.rd, R(i.rs)))
          [] i.op = "C.JR" -> [c EXCEPT !.pc = R(i.rs)]
          [] OTHER -> Adv(c)


(***************************************************************************)
(* The crawl: state and actions.                                           *)
(***************************************************************************)
VARIABLES
    xlen, code, frame,          \* the request: width, function body, input frame
    reg_data, pc_data, mem_data, branch_data, branch_pos,
    t,                          \* instruction counter of the current path
    org_regs, org_pc,           \* trace_instructions' copies of the entry state
    phase,                      \* where crawl_stack_frame_riscv is
    result, how,                \* return code; "return" or "fallback"
    down, fp,                   \* the caller frame written, and frame->fp
    request,                    \* which of the back-to-back requests runs
    cst, decoded, first         \* ghosts: concrete machine, work done, 1st result

vars == <<xlen, code, frame, reg_data, pc_data, mem_data, branch_data, branch_pos,
          t, org_regs, org_pc, phase, result, how, down, fp, request, cst,
          decoded, first>>

Out == Regs \cup {PC_IDX}
None == [k |-> "none", v |-> 0]
Emit(k, v) == [k |-> k, v |-> v]
NoDown == [r \in Out |-> None]

Init ==
    /\ xlen \in XLENs
    /\ code \in Programs[xlen]
    /\ frame \in Frames
    /\ reg_data = [r \in Regs |-> [v |-> 0, o |-> 0]]
    /\ pc_data = [v |-> 0, o |-> 0]
    /\ mem_data = EmptyHash
    /\ branch_data = << >> /\ branch_pos = 0 /\ t = 0
    /\ org_regs = reg_data /\ org_pc = pc_data
    /\ phase = "start" /\ result = "none" /\ how = "none"
    /\ down = NoDown /\ fp = 0
    /\ request = 1
    /\ cst = [reg |-> [r \in Regs |-> 0], pc |-> 0, st |-> {}, wild |-> FALSE]
    /\ decoded = 0 /\ first = NoDown

\* (Mutant: branch_pos is not reset.)
ResetWorkspaceKeepPos == mem_data' = EmptyHash /\ branch_data' = << >> /\ UNCHANGED branch_pos
\* The memset of mem_data and the reset of branch_pos / branch_cnt.
ResetWorkspace == mem_data' = EmptyHash /\ branch_data' = << >> /\ branch_pos' = 0

\* crawl_stack_frame_riscv up to the first iteration of trace_instructions:
\* reset the workspace, seed x0, sp (read from the frame), every other GPR
\* (Frame, with its catalog index) and pc; a zero sp ends the crawl at once.
\* The loop-top chk_loaded(sp) cannot fail here (sp is Other or Unknown).
Start ==
    /\ phase = "start"
    /\ LET spOk == REG_ID_SP \in frame.ok
           reg0 == [r \in Regs |->
                      CASE r = 0 -> [v |-> 0, o |-> REG_VAL_OTHER]
                        [] r = REG_ID_SP -> IF spOk THEN [v |-> frame.val[r], o |-> REG_VAL_OTHER]
                                            ELSE [v |-> 0, o |-> 0]
                        [] OTHER -> [v |-> r, o |-> REG_VAL_FRAME]]
           pc0 == IF PC_IDX \in frame.ok THEN [v |-> frame.val[PC_IDX], o |-> REG_VAL_OTHER]
                  ELSE [v |-> 0, o |-> 0]
       IN  /\ reg_data' = reg0 /\ pc_data' = pc0
           /\ org_regs' = reg0 /\ org_pc' = pc0
           /\ IF spOk /\ frame.val[REG_ID_SP] = 0
                 THEN phase' = "done" /\ result' = "ok"
                 ELSE phase' = "trace" /\ result' = "none"
    /\ ResetWorkspace /\ t' = 0
    /\ how' = "none" /\ down' = NoDown /\ decoded' = 0
    /\ cst' = [reg |-> [r \in Regs |-> IF r = 0 THEN 0 ELSE frame.val[r]],
               pc |-> frame.val[PC_IDX], st |-> {}, wild |-> FALSE]
    /\ UNCHANGED <<xlen, code, frame, fp, request, first>>

\* One iteration of the inner loop of trace_instructions: the pc checks,
\* trace_riscv, and on a return the check that sp materializes to a known
\* value.  An error or a branch ends the path; so does the budget.
StepM0 == [xlen |-> xlen, fr |-> frame, reg |-> reg_data, pc |-> pc_data,
           mem |-> mem_data, br |-> branch_data, c |-> cst,
           err |-> FALSE, ret |-> FALSE, brk |-> FALSE]
\* The pc checks of the inner loop, then trace_riscv.
Fetch(M) ==
    IF pc_data.o # REG_VAL_OTHER \/ pc_data.v = 0 THEN [M EXCEPT !.err = TRUE]
    ELSE trace_riscv(M, code)
\* On a return, sp must materialize to a known value.
SpKnown(M) == [M EXCEPT !.err = M.err \/ M.reg[REG_ID_SP].o = 0]
ReturnCheck(M) == IF ~M.err /\ M.ret THEN SpKnown(chk_loaded(M, REG_ID_SP)) ELSE M
StepWith(M) ==
    /\ reg_data' = M.reg /\ pc_data' = M.pc
    /\ mem_data' = M.mem /\ branch_data' = M.br
    /\ cst' = IF M.err \/ M.ret THEN cst ELSE CExec(cst, code[pc_data.v])
    /\ how' = IF ~M.err /\ M.ret THEN "return" ELSE how
    /\ phase' = CASE M.err -> "next"
                  [] M.ret -> "assemble"
                  [] M.brk \/ t + 1 = MAX_INST -> "next"
                  [] OTHER -> "trace"
Step ==
    /\ phase = "trace" /\ t < MAX_INST
    /\ StepWith(ReturnCheck(Fetch(StepM0)))
    /\ t' = t + 1
    /\ decoded' = decoded + 1
    /\ UNCHANGED <<xlen, code, frame, branch_pos, org_regs, org_pc, result, down,
                   fp, request, first>>

\* The end of an outer iteration: take the next queued branch (FIFO),
\* restore its snapshot, and re-check sp at the loop top; a failure there
\* fails the whole crawl.
RestoreWith(b, c) ==
    /\ reg_data' = [b.reg EXCEPT ![REG_ID_SP] = c.x]
    /\ mem_data' = b.mem /\ pc_data' = b.pc /\ cst' = b.c
    /\ IF c.err THEN phase' = "done" /\ result' = "error"
                ELSE phase' = "trace" /\ result' = result
Restore(b) == RestoreWith(b, chk_reg_loaded(xlen, frame, b.mem, b.reg[REG_ID_SP]))
\* (Mutant: branch_pos is not advanced.)
NextPathNoAdvance ==
    /\ phase = "next" /\ branch_pos < Len(branch_data)
    /\ Restore(branch_data[branch_pos + 1])
    /\ t' = 0
    /\ UNCHANGED <<xlen, code, frame, branch_data, branch_pos, org_regs, org_pc, how,
                   down, fp, request, decoded, first>>
NextPath ==
    /\ phase = "next" /\ branch_pos < Len(branch_data)
    /\ Restore(branch_data[branch_pos + 1])
    /\ branch_pos' = branch_pos + 1 /\ t' = 0
    /\ UNCHANGED <<xlen, code, frame, branch_data, org_regs, org_pc, how, down, fp,
                   request, decoded, first>>

\* Every path is exhausted: forget every tag, then adopt the entry ra as
\* pc if sp and ra are non-zero and ra differs from the entry pc.
FallbackWith(opc, ora, osp) ==
    IF opc.err \/ ora.err \/ osp.err
       THEN /\ phase' = "done" /\ result' = "error"
            /\ pc_data' = [pc_data EXCEPT !.o = 0]
       ELSE /\ phase' = "assemble" /\ result' = result
            /\ pc_data' = IF osp.x.v # 0 /\ ora.x.v # 0 /\ opc.x.v # ora.x.v
                             THEN ora.x ELSE [pc_data EXCEPT !.o = 0]
Fallback ==
    /\ phase = "next" /\ branch_pos >= Len(branch_data)
    /\ reg_data' = [r \in Regs |-> [reg_data[r] EXCEPT !.o = 0]]
    /\ FallbackWith(chk_reg_loaded(xlen, frame, mem_data, org_pc),
                    chk_reg_loaded(xlen, frame, mem_data, org_regs[REG_ID_RA]),
                    chk_reg_loaded(xlen, frame, mem_data, org_regs[REG_ID_SP]))
    /\ how' = "fallback"
    /\ UNCHANGED <<xlen, code, frame, mem_data, branch_data, branch_pos, t, org_regs,
                   org_pc, down, fp, request, cst, decoded, first>>

\* Result assembly: every GPR and pc is written to the caller frame as a
\* value, a location (with ENABLE_StackRegisterLocations: a memory word
\* for a lazy load not in the hash, the input register for a Frame slot;
\* sp always as a value) or not at all; sp's value is also frame->fp.
AsValue(ch) == IF ch.err \/ ch.x.o = 0 THEN None ELSE Emit("val", ch.x.v)
HashLocation(x, h) ==
    IF ~h.found THEN Emit("mem", x.v) ELSE IF h.valid THEN Emit("val", h.v) ELSE None
IsLocation(r, x) == StackRegisterLocations /\ r # REG_ID_SP /\ x.o \in Lazy \cup {REG_VAL_FRAME}
EmitFrom(r, x) ==
    CASE IsLocation(r, x) /\ x.o \in Lazy -> HashLocation(x, mem_hash_read(mem_data, x.v, xlen \div 8))
      [] IsLocation(r, x) -> Emit("reg", x.v)
      [] OTHER -> AsValue(chk_reg_loaded(xlen, frame, mem_data, x))
EmitReg(r) == EmitFrom(r, reg_data[r])
EmitPc == AsValue(chk_reg_loaded(xlen, frame, mem_data, pc_data))

\* The slots the last loop of crawl_stack_frame_riscv resolved with
\* chk_loaded (the others it reported as locations and left alone).
ResolvedWith(r, x, ch) == IF IsLocation(r, x) \/ ch.err THEN x ELSE ch.x
Resolved(r) == ResolvedWith(r, reg_data[r], chk_reg_loaded(xlen, frame, mem_data, reg_data[r]))

AssembleWith(d) ==
    /\ down' = d
    /\ fp' = IF d[REG_ID_SP].k = "val" THEN d[REG_ID_SP].v ELSE fp
    /\ pc_data' = IF d[PC_IDX].k = "val" THEN [v |-> d[PC_IDX].v, o |-> REG_VAL_OTHER]
                  ELSE pc_data
Assemble ==
    /\ phase = "assemble"
    /\ AssembleWith([r \in Out |-> IF r = PC_IDX THEN EmitPc ELSE EmitReg(r)])
    /\ reg_data' = [r \in Regs |-> Resolved(r)]
    /\ phase' = "done" /\ result' = "ok"
    /\ UNCHANGED <<xlen, code, frame, mem_data, branch_data, branch_pos, t, org_regs,
                   org_pc, how, request, cst, decoded, first>>

\* The same entry point is called again on the same, unchanged frame.
Restart ==
    /\ phase = "done" /\ request < Requests
    /\ phase' = "start" /\ request' = request + 1 /\ first' = down
    /\ UNCHANGED <<xlen, code, frame, reg_data, pc_data, mem_data, branch_data,
                   branch_pos, t, org_regs, org_pc, result, how, down, fp, cst, decoded>>

\* Every request has been answered.
Finished ==
    /\ phase = "done" /\ request = Requests
    /\ UNCHANGED vars

Next == Start \/ Step \/ NextPath \/ Fallback \/ Assemble \/ Restart \/ Finished

\* The crawl is one synchronous call on the dispatch thread: once started
\* it keeps running until it returns.
Crawl == Start \/ Step \/ NextPath \/ Fallback \/ Assemble \/ Restart
Spec == Init /\ [][Next]_vars /\ WF_vars(Crawl)


(***************************************************************************)
(* Properties.                                                             *)
(***************************************************************************)
DownKinds == {"none", "val", "mem", "reg"}
Phases == {"start", "trace", "next", "assemble", "done"}
IsHash(m) ==
    /\ DOMAIN m.v = Slots /\ DOMAIN m.a = Slots
    /\ DOMAIN m.size = Slots /\ DOMAIN m.valid = Slots
    /\ \A s \in Slots : /\ m.v[s] \in UVal /\ m.a[s] \in UVal
                       /\ m.size[s] \in {0, 4, 8, 16} /\ m.valid[s] \in BOOLEAN

TypeOK ==
    /\ xlen \in XLENs /\ frame \in Frames
    /\ DOMAIN reg_data = Regs /\ DOMAIN org_regs = Regs
    /\ \A r \in Regs : IsRegData(reg_data[r]) /\ IsRegData(org_regs[r])
    /\ IsRegData(pc_data) /\ IsRegData(org_pc)
    /\ IsHash(mem_data)
    /\ Len(branch_data) <= BRANCH_LIST_SIZE /\ branch_pos \in 0..Len(branch_data)
    /\ t \in 0..MAX_INST
    /\ phase \in Phases /\ result \in {"none", "ok", "error"}
    /\ how \in {"none", "return", "fallback"}
    /\ DOMAIN down = Out /\ \A r \in Out : down[r].k \in DownKinds /\ down[r].v \in UVal
    /\ fp \in UVal
    /\ request \in 1..Requests

\* Does an abstract slot x tell the truth about the concrete value cv?
\* Other: it is the value; Frame: the input register it names holds it;
\* Addr/Stack: materializing it (load_reg through the hash `mem`) yields
\* it, or yields nothing usable; Unknown: it claims nothing.
LoadSound(l, cv) == l.err \/ l.x.o = 0 \/ l.x.v = cv
Sound(x, cv, mem, c) ==
    CASE x.o = REG_VAL_OTHER -> x.v = cv
      [] x.o = REG_VAL_FRAME -> x.v \in DOMAIN frame.val /\ frame.val[x.v] = cv
      [] x.o \in Lazy -> LoadSound(load_reg(mem, x.v, xlen), cv)
      [] OTHER -> TRUE

\* Every claim of one tracing state (registers, pc, valid hash entries).
StateSound(reg, pc, mem, c) ==
    /\ \A r \in Regs : Sound(reg[r], c.reg[r], mem, c)
    /\ pc.o = REG_VAL_OTHER => pc.v = c.pc
    /\ \A s \in Slots : mem.size[s] # 0 /\ mem.valid[s] =>
            CRead(c, mem.a[s], mem.size[s]) = mem.v[s]

\* Never fabricate (spec section 1, and the write barrier of
\* mem_hash_write): at every decode boundary, and in every branch snapshot
\* still queued, each register, pc and valid memory-hash entry the crawler
\* holds agrees with the machine that executes the same path.
NoFabrication ==
    /\ phase = "trace" => StateSound(reg_data, pc_data, mem_data, cst)
    /\ \A k \in (branch_pos + 1)..Len(branch_data) :
          LET b == branch_data[k] IN StateSound(b.reg, b.pc, b.mem, b.c)

\* What the debugger reads from a caller-frame entry: a value, the word at
\* an address of target memory (which the function has not yet changed),
\* or an input register.
DownSound(d, cv) ==
    CASE d.k = "val" -> d.v = cv
      [] d.k = "mem" -> Mem0(d.v) = cv
      [] d.k = "reg" -> d.v \in DOMAIN frame.val /\ frame.val[d.v] = cv
      [] OTHER -> TRUE

\* After a return is found, every GPR written to the caller frame (as a
\* value or a location expression) holds what the register holds when the
\* function returns, and frame->fp is the caller's sp.
CallerFrameSound ==
    phase = "done" /\ result = "ok" /\ how = "return" =>
        /\ \A r \in Regs : DownSound(down[r], cst.reg[r])
        /\ down[REG_ID_SP].k = "val" /\ fp = cst.reg[REG_ID_SP]

\* The caller's pc written after a return is the return address (spec S1).
CallerPcIsReturnAddress ==
    phase = "done" /\ result = "ok" /\ how = "return" /\ down[PC_IDX].k = "val" =>
        down[PC_IDX].v = cst.reg[REG_ID_RA]

\* Errors are local to a path (spec section 7): a path that fails is
\* abandoned and the crawl goes on with the next queued path or the
\* fallback, so the call as a whole fails only where the fallback cannot
\* read the entry registers.  (The loop-top chk_loaded(sp) of
\* trace_instructions is the check at stake.)
PathErrorsAreLocal == result = "error" => how = "fallback"

\* Idempotence (spec property 6): a second call on the unchanged frame
\* writes the same caller frame as the first.
Idempotent == phase = "done" /\ request = 2 => down = first

\* Every request returns: each step of the crawl decreases, in the
\* lexicographic order, the work left (requests, stage, queued paths the
\* list can still hold, instructions left on the path), a tuple of
\* naturals bounded by the constants.  The outer loop of
\* trace_instructions ends only because branch_pos advances over a list
\* that add_branch caps; the inner loop only because t counts to MAX_INST.
PhaseRank == CASE phase = "start" -> 3 [] phase \in {"trace", "next"} -> 2
               [] phase = "assemble" -> 1 [] OTHER -> 0
Work == << Requests - request, PhaseRank, BRANCH_LIST_SIZE - branch_pos, MAX_INST - t >>
RECURSIVE LexLess(_, _)
LexLess(a, b) ==
    /\ a # << >>
    /\ \/ Head(a) < Head(b)
       \/ Head(a) = Head(b) /\ LexLess(Tail(a), Tail(b))
Terminates == [][Crawl => LexLess(Work', Work)]_vars

=============================================================================
