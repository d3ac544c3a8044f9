------------------------------- MODULE MemCache -------------------------------
(***************************************************************************)
(* read_byte of stack-crawl-riscv.c and its line cache: MEM_CACHE_SIZE     *)
(* lines of LINE_SIZE bytes (64 in the code) and one cursor, mem_cache_idx, *)
(* that both starts the probe and picks the line a miss replaces.  A crawl  *)
(* calls read_byte many times in a row; the calls are sequential, so a run  *)
(* of the cache is a fold of read_byte over a sequence of addresses.       *)
(* Addresses are ADDR_BITS wide (the uint64_t of the code, narrowed), with *)
(* its wrap-around.  context_read_mem and context_get_mem_error_info are   *)
(* the target: a read of a range yields its bytes up to the first one that  *)
(* cannot be read, and a range never wraps past the top of the address     *)
(* space.                                                                  *)
(***************************************************************************)
EXTENDS Integers, Sequences

CONSTANTS
    MEM_CACHE_SIZE,     \* lines
    LINE_SIZE,          \* sizeof(c->data)
    ADDR_BITS,          \* width of an address
    Readable,           \* the addresses the target can read
    TargetByte(_),      \* the byte at an address
    ExtendedMemoryErrorReports,  \* ENABLE_ExtendedMemoryErrorReports
    CacheReads          \* the sequences of addresses a crawl reads

ASSUME MEM_CACHE_SIZE >= 1 /\ LINE_SIZE >= 1 /\ ExtendedMemoryErrorReports \in BOOLEAN

Lines == 0..(MEM_CACHE_SIZE - 1)
Top == 2^ADDR_BITS
Stale == -1     \* a data byte no read of this crawl has filled

\* c->addr + c->size as a uint64_t.
AddrAdd(a, n) == (a + n) % Top

\* The cache as crawl_stack_frame_riscv leaves it: every size zero, the
\* cursor wherever the previous crawl left it.
InitCaches ==
    { [addr |-> [j \in Lines |-> 0], size |-> [j \in Lines |-> 0],
       data |-> [j \in Lines |-> [b \in 0..(LINE_SIZE - 1) |-> Stale]], idx |-> cur] : cur \in Lines }

\* The hit test of the probe loop, with the unsigned wrap of the line end.
\* (Mutant: the end compared with >=, one byte past the line.)
HitPastEnd(C, j, ca) ==
    C.addr[j] <= ca /\ (AddrAdd(C.addr[j], C.size[j]) < C.addr[j] \/ AddrAdd(C.addr[j], C.size[j]) >= ca)
Hit(C, j, ca) ==
    C.addr[j] <= ca /\ (AddrAdd(C.addr[j], C.size[j]) < C.addr[j] \/ AddrAdd(C.addr[j], C.size[j]) > ca)

\* The probe loop: from the cursor, MEM_CACHE_SIZE lines, the cursor
\* advancing past every line that misses.  The result is the number of
\* lines passed before the hit (MEM_CACHE_SIZE when none hits).
\* (Mutant: one line fewer probed.)
RECURSIVE ProbeShort(_, _, _)
ProbeShort(C, ca, n) ==
    CASE n = MEM_CACHE_SIZE - 1 -> MEM_CACHE_SIZE
      [] Hit(C, (C.idx + n) % MEM_CACHE_SIZE, ca) -> n
      [] OTHER -> ProbeShort(C, ca, n + 1)
RECURSIVE Probe(_, _, _)
Probe(C, ca, n) ==
    IF n = MEM_CACHE_SIZE \/ Hit(C, (C.idx + n) % MEM_CACHE_SIZE, ca) THEN n ELSE Probe(C, ca, n + 1)

\* context_read_mem(ca, LINE_SIZE), then context_get_mem_error_info: the
\* number of bytes read before the first that cannot be.
ValidPrefix(ca) ==
    CHOOSE n \in 0..LINE_SIZE :
        /\ \A b \in 0..(n - 1) : ca + b < Top /\ ca + b \in Readable
        /\ n < LINE_SIZE => ~(ca + n < Top /\ ca + n \in Readable)

\* A miss: advance the cursor, fill that line from ca.  A full read keeps
\* LINE_SIZE bytes; a partial one keeps its valid prefix with extended
\* error reports, else nothing; an empty one fails.
Miss(C, ca) ==
    LET j == (C.idx + 1) % MEM_CACHE_SIZE
        n == ValidPrefix(ca)
        size == CASE n = LINE_SIZE -> LINE_SIZE
                  [] ExtendedMemoryErrorReports -> n
                  [] OTHER -> 0
        C2 == [C EXCEPT !.idx = j, !.addr[j] = ca, !.size[j] = size,
                        !.data[j] = [b \in 0..(LINE_SIZE - 1) |->
                                       IF b < n THEN TargetByte(ca + b) ELSE @[b]]]
    IN  [cache |-> C2, ok |-> size > 0, v |-> C2.data[j][0], fetched |-> TRUE]

\* c->data[ca - c->addr]; past the end of data the read is undefined, and
\* yields a byte no read of this crawl filled.
LineByte(C, j, off) == IF off < LINE_SIZE THEN C.data[j][off] ELSE Stale

read_byte(C, ca) ==
    IF ca = 0 THEN [cache |-> C, ok |-> FALSE, v |-> Stale, fetched |-> FALSE]
    ELSE LET n == Probe(C, ca, 0)
             j == (C.idx + n) % MEM_CACHE_SIZE
         IN  IF n < MEM_CACHE_SIZE
                THEN [cache |-> [C EXCEPT !.idx = j], ok |-> TRUE,
                      v |-> LineByte(C, j, ca - C.addr[j]), fetched |-> FALSE]
                ELSE Miss(C, ca)

\* Does a line already hold the byte at ca (read from ca's line, within
\* its valid bytes)?
Holds(C, ca) == \E j \in Lines : C.addr[j] <= ca /\ ca < C.addr[j] + C.size[j]

\* The calls of one crawl, each with the address, its result and whether
\* a line held the byte before the call.
RECURSIVE Calls(_, _)
Calls(C, reads) ==
    IF reads = << >> THEN << >>
    ELSE LET r == read_byte(C, Head(reads))
         IN  << [a |-> Head(reads), ok |-> r.ok, v |-> r.v, fetched |-> r.fetched,
                 held |-> Holds(C, Head(reads))] >> \o Calls(r.cache, Tail(reads))

AllCalls == UNION {{cl[k] : k \in DOMAIN cl} : cl \in {Calls(C, rs) : C \in InitCaches, rs \in CacheReads}}

(***************************************************************************)
(* Properties, over every sequence of CacheReads from every cursor: both   *)
(* are constant formulas, evaluated once.                                  *)
(***************************************************************************)

\* read_byte returns the target's byte, whatever lines the cache holds and
\* wherever the shared cursor stands; it fails only for address 0 or a
\* byte the target cannot read (or, without extended error reports, a
\* line the target can read only in part).
ReadByteReturnsTarget ==
    \A c \in AllCalls :
        /\ c.ok => c.a \in Readable /\ c.v = TargetByte(c.a)
        /\ c.a # 0 /\ c.a \in Readable /\ ExtendedMemoryErrorReports => c.ok

\* A byte that a line already holds is served from the cache, without a
\* read of the target (spec 3 and 4.2): the probe, starting at the cursor
\* the previous hit or miss left, visits every line, including one whose
\* end wraps past the top of the address space.
CachedByteNotRefetched == \A c \in AllCalls : c.held => ~c.fetched

====
