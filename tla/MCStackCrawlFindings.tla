------------------------ MODULE MCStackCrawlFindings ------------------------
(***************************************************************************)
(* The functions that exhibit each disagreement between the code and what *)
(* the spec says of it.  Every run here uses the constants of MCStackCrawl *)
(* except the set of functions crawled (and, where one width suffices, the *)
(* set of widths).                                                         *)
(***************************************************************************)
EXTENDS MCStackCrawl

At(s) == Layout(s, CodeBase)

\* spec S1: a leaf function that is a single `c.jr ra`.
LeafPrograms == [x \in MCXLENs |-> {At(<< RET >>)}]

\* `sra s0, ra, x0`: ra is still the Frame slot (catalog index 1).
SraPrograms == [x \in {32} |-> {At(<< I("SRA", 8, 1, 0, 0), RET >>)}]

\* `addi sp, sp, -16` (a base instruction no layer traces), then a return.
UntracedPrograms == [x \in MCXLENs |-> {At(<< I("ADDI", 2, 2, 0, -16), RET >>)}]

\* `c.j +4` over one instruction to the return.
JumpPrograms == [x \in MCXLENs |-> {At(<< I("C.J", 0, 0, 0, 2), RET, RET, RET >>)}]

\* An sp reloaded (lazily) from a word that cannot be read, then a branch:
\* the queued path restores the unresolved sp.
LazySpBranchPrograms ==
    [x \in {32} |-> {At(<< SPld(x, 2, 31), I("C.BEQZ", 0, 8, 0, 2), RET, RET >>)}]

\* At xlen 64: `sd ra, 0(sp)`, `mv s0, sp`, `sw s0, 4(s0)` (the upper half
\* of the saved ra), `ld ra, 0(sp)`.
OverlapPrograms ==
    [x \in {64} |-> {At(<< SPst(x, 1, 0), I("C.MV", 8, 2, 0, 0), I("C.SW", 8, 8, 0, 1),
                          SPld(x, 1, 0), RET >>)}]

=============================================================================
