---------------------------- MODULE MCStackCrawl ----------------------------
(***************************************************************************)
(* Model values for StackCrawl: a 16-bit machine, a 3-slot memory hash, a  *)
(* 2-entry branch list and a 6-instruction budget; the functions crawled   *)
(* are every sequence of up to three instructions from a small alphabet    *)
(* of prologue / epilogue instructions, laid out at CodeBase.              *)
(***************************************************************************)
EXTENDS StackCrawl, TLC

MCWordBits == 16
MCMemHashSize == 3
MCBranchListSize == 2
MCMaxInst == 6
MCRegs == {0, 1, 2, 8}
MCXLENs == {32, 64, 128}

SP0 == 256
RA0 == 4660
CodeBase == 4096
StackLo == SP0 - 32
StackHi == SP0 + 31
MCMapped == (StackLo..StackHi) \cup (CodeBase..(CodeBase + 15))
MCMem0(a) == (a * 3 + 1000) % 65536

I(op, rd, rs, rs2, imm) == [op |-> op, rd |-> rd, rs |-> rs, rs2 |-> rs2, imm |-> imm]

\* The sp-relative store and load of an xlen-wide register at this xlen.
SPst(x, r, k) == I(CASE x = 32 -> "C.SWSP" [] x = 64 -> "C.SDSP" [] OTHER -> "C.SQSP", r, 0, 0, k)
SPld(x, r, k) == I(CASE x = 32 -> "C.LWSP" [] x = 64 -> "C.LDSP" [] OTHER -> "C.LQSP", r, 0, 0, k)

RET == I("C.JR", 0, 1, 0, 0)

Alphabet(x) ==
    { I("C.ADDI16SP", 2, 0, 0, -1), I("C.ADDI16SP", 2, 0, 0, 1),
      SPst(x, 1, 0), SPld(x, 1, 0), SPst(x, 8, 0), SPld(x, 8, 0),
      I("C.BEQZ", 0, 8, 0, 2), RET, I("C.JR", 0, 8, 0, 0),
      I("C.ADD", 8, 1, 0, 0), I("C.LI", 0, 0, 0, 5) }

\* Longer bodies: the prologue / epilogue of spec scenario S2 (and S3, the
\* reloads before the epilogue), the branch around a return of S4, more
\* distinct stores than the hash holds (S6), a lazy load overwritten
\* before use, a store through a copy of sp, and a branch to itself, an sp
\* reloaded from an unreadable word before a branch, and a return found
\* only on a queued path, and more branch targets than the list holds.
Scenarios(x) ==
    { << I("C.ADDI16SP", 2, 0, 0, -1), SPst(x, 1, 0), SPst(x, 8, 1),
         SPld(x, 1, 0), SPld(x, 8, 1), I("C.ADDI16SP", 2, 0, 0, 1), RET >>,
      << I("C.ADDI16SP", 2, 0, 0, -1), SPst(x, 1, 0), I("C.LI", 1, 0, 0, 3),
         SPld(x, 1, 0), I("C.ADDI16SP", 2, 0, 0, 1), RET >>,
      << SPst(x, 1, 0), I("C.BEQZ", 0, 8, 0, 2), RET, SPld(x, 1, 0), RET >>,
      << SPst(x, 1, 0), SPst(x, 1, 1), SPst(x, 1, 2), SPst(x, 1, 3), SPld(x, 1, 0), RET >>,
      << SPld(x, 1, 0), SPst(x, 8, 0), RET >>,
      << I("C.MV", 8, 2, 0, 0), SPst(x, 1, 0), SPld(x, 8, 0), RET >>,
      << I("C.BEQZ", 0, 8, 0, 0), I("C.BEQZ", 0, 1, 0, -1), I("C.JR", 0, 8, 0, 0) >>,
      << SPld(x, 2, 31), I("C.BEQZ", 0, 8, 0, 2), RET, RET >>,
      << I("C.BEQZ", 0, 8, 0, 2), I("C.JR", 0, 8, 0, 0), RET >>,
      << I("C.BEQZ", 0, 8, 0, 2), I("C.BEQZ", 0, 8, 0, 2), I("C.BEQZ", 0, 8, 0, 2), RET >> }

\* Register arithmetic, copies, calls and accesses through a copy of sp:
\* the handlers that resolve their operands before they compute.
AluAlphabet(x) ==
    { I("C.ADDI", 8, 0, 0, 1), I("C.MV", 8, 2, 0, 0), I("C.ADD", 8, 1, 0, 0),
      I("C.SUB", 8, 8, 0, 0), I("C.ANDI", 8, 0, 0, -2), I("C.SLLI", 8, 0, 0, 1),
      I("C.SRAI", 8, 0, 0, 1), I("C.JALR", 0, 8, 0, 0), I("C.ADDI4SPN", 8, 0, 0, 1),
      I("C.LW", 1, 8, 0, 0), I("C.SW", 1, 8, 0, 0), RET }

RECURSIVE Layout(_, _)
Layout(s, a) ==
    IF s = << >> THEN [x \in {} |-> RET]
    ELSE (a :> Head(s)) @@ Layout(Tail(s), a + InstSize(Head(s)))

Bodies(A, n) == UNION {[1..k -> A] : k \in 1..n}

\* Every body of one or two instructions from either alphabet, and the
\* scenarios.
MCPrograms == [x \in MCXLENs |->
                 {Layout(s, CodeBase) : s \in Bodies(Alphabet(x), 2) \cup Scenarios(x)
                                                \cup Bodies(AluAlphabet(x), 2)}]

FrameVal == (0 :> 0) @@ (1 :> RA0) @@ (2 :> SP0) @@ (8 :> SP0 + 8) @@ (PC_IDX :> CodeBase)

\* A top frame with every register readable, an outer frame whose ra cannot
\* be read, a top frame whose s0 cannot be read,
\* a top frame whose ra cannot be read, and a frame with sp = 0.
MCFrames ==
    { [val |-> FrameVal, ok |-> {1, 2, 8, PC_IDX}, top |-> TRUE],
      [val |-> FrameVal, ok |-> {2, 8, PC_IDX}, top |-> FALSE],
      [val |-> FrameVal, ok |-> {1, 2, PC_IDX}, top |-> TRUE],
      [val |-> FrameVal, ok |-> {2, 8, PC_IDX}, top |-> TRUE],
      [val |-> [FrameVal EXCEPT ![2] = 0], ok |-> {1, 2, 8, PC_IDX}, top |-> TRUE] }

(***************************************************************************)
(* read_byte's line cache (MemCache), checked alongside the crawl: three   *)
(* lines of four bytes on a 4-bit address space.  Bytes 6 and 7 cannot be  *)
(* read, so a line read at 4 keeps two bytes; a line read at 14 keeps two  *)
(* and ends exactly at the top, where c->addr + c->size wraps to 0.  Every *)
(* sequence of up to four reads from every cursor position: four reads    *)
(* fill all three lines and come back to the oldest.  The properties are  *)
(* stated for every request of the crawl, each of which starts from a     *)
(* cache InitCaches describes; their cache part is constant, evaluated     *)
(* once.                                                                   *)
(***************************************************************************)
MCCacheReadable == (1..15) \ {6, 7}
MCCacheByte(ca) == (ca * 7 + 3) % 16
MCCacheReads == UNION {[1..k -> {0, 2, 4, 5, 6, 9, 14, 15}] : k \in 0..4}

Cache == INSTANCE MemCache WITH MEM_CACHE_SIZE <- 3, LINE_SIZE <- 4, ADDR_BITS <- 4,
             Readable <- MCCacheReadable, TargetByte <- MCCacheByte,
             ExtendedMemoryErrorReports <- TRUE, CacheReads <- MCCacheReads

\* The same cache built without ENABLE_ExtendedMemoryErrorReports, where a
\* partial line is dropped and its read fails.
CacheNoExt == INSTANCE MemCache WITH MEM_CACHE_SIZE <- 3, LINE_SIZE <- 4, ADDR_BITS <- 4,
                  Readable <- MCCacheReadable, TargetByte <- MCCacheByte,
                  ExtendedMemoryErrorReports <- FALSE, CacheReads <- MCCacheReads

\* read_byte returns the target's byte and fails only where the target
\* cannot be read, whatever the cache holds, with extended error reports
\* and without (MemCache!ReadByteReturnsTarget).
ReadByteReturnsTarget == request \in 1..Requests => Cache!ReadByteReturnsTarget /\ CacheNoExt!ReadByteReturnsTarget

\* read_byte never reads the target for a byte a line already holds
\* (MemCache!CachedByteNotRefetched).
CachedByteNotRefetched == request \in 1..Requests => Cache!CachedByteNotRefetched /\ CacheNoExt!CachedByteNotRefetched

(***************************************************************************)
(* The overlap test of mem_hash_write's write barrier, against the bytes  *)
(* the two xlen/8-byte windows cover, at every width, for addresses at the *)
(* bottom of the address space, around the modelled stack and just below  *)
(* the top.                                                                *)
(***************************************************************************)
OverlapAddrs == (0..20) \cup ((SP0 - 20)..(SP0 + 20)) \cup ((Modulus - 24)..(Modulus - 1))
WindowBytes(p, xl) == {p + k : k \in 0..(xl \div 8 - 1)}
OverlapMatchesBytes ==
    \A xl \in XLENs, p, q \in OverlapAddrs :
        p + xl \div 8 < Modulus /\ q + xl \div 8 < Modulus =>
            (Overlap(xl, p, q) <=> WindowBytes(p, xl) \cap WindowBytes(q, xl) # {})

\* A store invalidates a lazily loaded register exactly when the word it
\* writes shares a byte with the word the register was loaded from, for
\* windows that end below the top of the address space (one that reaches
\* the top wraps in uxlen_add_u, and is a hazard in PROJECT.json).
BarrierOverlapExact == request \in 1..Requests => OverlapMatchesBytes

=============================================================================
