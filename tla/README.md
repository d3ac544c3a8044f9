# TLA+ models of the RISC-V stack crawler and the TCF protocol layer of tcf.agent

This directory holds TLA+ specifications of the tcf.agent sources under `src/`,
the TLC configurations that check them, and `PROJECT.json`. `PROJECT.json` maps
every definition to the source lines it models. It also lists each run, the
mutants, the findings and the hazards.

## 1. The system

The core is `src/agent/machine/riscv/tcf/stack-crawl-riscv.c`, a stack unwinder
that works by symbolic execution. Given a stopped frame (registers readable
through `read_reg128`, target memory through `read_byte`), it interprets the
function's machine code forward from pc until it reaches `c.jr ra`. At that
point the registers it has tracked are the caller's, and it writes them into
the `down` frame.

| Part | Code | State | Operations |
|---|---|---|---|
| Abstract register file | `reg_data[32]`, `pc_data` | each slot is a `RegData` (value and provenance tag): Unknown, Frame (an input register, by catalog index), Addr/Stack (a lazy load: the value is an address), Other (a known value) | `chk_reg_loaded`/`chk_loaded` materialize a slot |
| Abstract memory hash | `mem_data` (61 slots, open addressing) | address, value, size and valid flag per slot | `mem_hash_index`, `mem_hash_read`, `mem_hash_write` (with the write barrier over lazy registers; overflow is an error), `load_reg`, `load_reg_lazy`, `store_reg` |
| Branch work list | `branch_data[12]`, `branch_pos`, `branch_cnt` | snapshots of registers, hash and pc at branch targets | `add_branch` (cap, duplicate suppression), FIFO consumption in `trace_instructions` |
| Decoders | `trace_rv32i`, `trace_rv32c`, `trace_rv64c`, `trace_rv128c`, `trace_riscv` | `instr`, `trace_return`, `trace_branch` | one handler per traced encoding; the wider compressed layers fall through to the narrower ones; base instructions are traced only at xlen 32, and there only LUI, AUIPC, SUB and SRA |
| Trace loop | `trace_instructions` | `t`, `org_regs`, `org_pc` | inner loop of at most `MAX_INST` instructions per path, outer loop over queued paths, then the fallback (adopt the entry ra as pc) |
| Entry and assembly | `crawl_stack_frame_riscv{32,64,128}` | the global `xlen`, `frame->fp`, `down` | reset the workspace, seed the registers, trace, then write each register to `down` as a value or a location expression |
| Target memory | `read_byte` with an 8-line `MemCache`, `read_u32/u64/u128` | the cache lines and one shared cursor | read with caching, reporting invalid or unreadable addresses |

How the parts interact:

- Every handler reads and writes the register file.
- Loads and stores go through the hash. A store first materializes every lazy register whose referent it overwrites.
- Branches snapshot the register file and the hash.
- The trace loop restores those snapshots.
- Assembly reads the register file and the hash.

Everything runs synchronously on the agent's dispatch thread. The only
concurrency is that the same file-scope workspace serves one call after
another.

The other sources are these:

- `src/agent/tcf/framework/cpudefs.c`: frame register access and the location-expression evaluator.
- `src/protocol.c`: the TCF message dispatcher, reply-handler table and channel close (below).
- `src/processes.c`: the Processes service. Its command handlers start, attach, signal and describe OS processes; they run on the dispatch thread, one at a time (`Processes.tla`).
- Headers.

`PROJECT.json` lists each of them with its status.

**The protocol layer** (`src/protocol.c`) runs on the same dispatch thread.

| Part | Code | State | Operations |
|---|---|---|---|
| Reply-handler registry | `reply_handlers[127]`, `p->tokenid` | hashed lists of `ReplyHandlerInfo` (token, channel, handler), new records at the head | `protocol_send_command` (next token not pending on the channel, counter wraps), `find_reply_handler` (with or without unlinking) |
| Message dispatch | `handle_protocol_message` | none of its own | reads the type with `read_stringz`, then 'C' (command handler, default handler or ERR_PROTOCOL), 'R' (reply handler, default handler or ERR_PROTOCOL), 'E' (Locator.Hello, event handler, default handler, or drop), 'F' (flow control) or another type |
| Registries | `message_handlers`, `event_handlers`, `services`, `p->default_handler`, `p->lock_cnt` | command handlers of a Protocol, event handlers of a channel, service records by owner | `add_command_handler`, `add_event_handler`, `protocol_get_service`, `free_services`, `set_default_message_handler`, `protocol_reference`, `protocol_release` |
| Channel close | `channel_closed` (a close listener) | `c->peer_service_list` | drops the channel's event handlers and services, then walks every reply list and calls each of the channel's handlers with ERR_CHANNEL_CLOSED, then frees the peer list |

A reply handler is called from inside dispatch or from inside
`channel_closed`, and it may send a command, which inserts a record into the
table that the close loop is walking. An exception escaping a handler makes
the transport stop reading the channel, which then closes it.

## 2. Modules

- **`Uxlen.tla`**: XLEN arithmetic (`uxlen.h`). That header is not among the sources, so these operators are written from spec section 4.1 and marked spec_modelled. A value is a natural number below `2^WordBits`, and every operation wraps.
- **`StackCrawl.tla`**: the crawler.
  - **Helpers.** Each C helper is an operator of the same name. The helpers a handler calls work on a record `M` of the globals one instruction can change: `reg`, `pc`, `mem`, `br`, and the flags `err` (the handler returned -1), `ret` (`trace_return`) and `brk` (`trace_branch`). Once `err` is set every operator leaves `M` alone, which models the code's `if (...) < 0) return -1;`. An intermediate result used more than once is passed to the next operator as an argument.
  - **Handlers.** Each traced encoding class is an operator (`C_LWSP`, `C_ADDI16SP`, `C_JR`, ...). `Claimed` says which layer claims an encoding at the current width.
  - **Instructions.** An instruction is a record `[op, rd, rs, rs2, imm]`: op names the encoding class and imm is the value `get_imm`/`get_imm_se` extract. Bit-level decoding is abstracted away.
  - **Actions.** One action per stage of a call:
    - `Start`: the entry point up to the first loop iteration.
    - `Step`: one inner-loop iteration, with `trace_riscv` and the return check of sp.
    - `NextPath`: the end of an outer iteration, which restores the next snapshot and re-checks sp.
    - `Fallback`: every path exhausted.
    - `Assemble`: the final loop of `crawl_stack_frame_riscv`.
    - `Restart`: the same entry point called again on the unchanged frame.
    - `Finished`: every call has returned.
  - **Ghost state.**
    - `cst` is the concrete machine executing the same path (`CExec`). The properties compare the crawler's claims against it.
    - `decoded` counts instructions decoded in the current call.
    - `first` is the caller frame the first call wrote.
- **`MemCache.tla`**: `read_byte` and its line cache. A cache is a record of the lines' `addr`, `size` and `data` and the cursor `idx` (`mem_cache_idx`).
  - **Operations.** `Hit` is the probe loop's test, with the 64-bit wrap of `c->addr + c->size` (`AddrAdd`). `Probe` is the loop: from the cursor, the cursor advancing past each line that misses. `Miss` advances the cursor once more and refills that line: `ValidPrefix` is what `context_read_mem` and `context_get_mem_error_info` report, and with extended error reports a partial line keeps its valid prefix. `read_byte` is the whole function, address 0 included. `InitCaches` is the cache a crawl starts from (line 1258 clears the sizes only, so the cursor may be anywhere and the data bytes are stale).
  - **Calls in sequence.** The crawler calls `read_byte` synchronously, so a crawl's use of the cache is a fold of `read_byte` over a sequence of addresses (`Calls`). Both properties are constant formulas over every sequence of `CacheReads` from every cursor, evaluated once.
- **`RegisterIds.tla`**: the ID strings of `cpudefs.c`: `frame2id`/`id2frame` and `register2id`/`id2register`. The parsers read what a peer sends, so a C string is a sequence of one-character strings followed by its NUL, and a parser records the furthest position it read (`last`). `Digits` is the shared digit loop, `FramePart` the optional `@<frame>` and `RegisterFrom` the context checks. `id2ctx` (context lookup) and `STACK_TOP_FRAME` come from `context.h`, which is not among the sources: the lookup is a set comprehension over `Contexts`, and -2 stands for the constant.
- **`MCStackCrawl.tla`**: model values. A 16-bit word, a 3-slot hash, a 2-entry branch list and a 6-instruction budget. The functions crawled are built from small instruction alphabets, laid out at `CodeBase`. There are five input frames:
  - a top frame;
  - an outer frame whose ra cannot be read;
  - a top frame whose s0 cannot be read;
  - a top frame whose ra cannot be read;
  - a frame with sp = 0.

  It also instantiates `MemCache` as `Cache`: three lines of four bytes on a 4-bit address space, with bytes 6 and 7 unreadable (a line read at 4 keeps two bytes) and a line read at 14 ending exactly at the top, where its end wraps to 0. It is instantiated twice, with and without `ENABLE_ExtendedMemoryErrorReports` (`Cache`, `CacheNoExt`): without it a partial line is dropped and its read fails.
- **`MCStackCrawlFindings.tla`**: one small function per disagreement found between the code and the spec.
- **`LocationExpression.tla`**: `evaluate_location_expression` and `read_reg_value` of `cpudefs.c`. This is the stack machine a debugger uses to evaluate location expressions, such as the ones the crawler writes into `down`.
  - **State.** The variables are the loop's locals: `i`, the stack buffer `stk` (exactly `stk_max` cells, fresh ones `Uninit`), `stk_pos`, and a status of run, done or error (an exception).
  - **Steps.** Each step is one iteration: the growth at the loop top (`Grown`) followed by one `switch` case. The cases are `Number`, `Fp`, `Arg`, `Register`, `Deref`, `Binary` (the thirteen binary commands), `Neg` and `Unknown`. Each case's checks are disjuncts that `Throw`. `Return` ends the loop.
  - **Byte order.** Register and memory reads assemble their bytes with the code's `(n << 8) | buf[...]` loop (`AssembleFrom`).
  - **Reference.** `RefEval` is a RECURSIVE reference evaluator: commands act on a stack of values, and a memory word is a weighted sum of its bytes. It is the meaning the evaluation is compared with.
  - **Register writes.** `write_reg_value`, `set_regs_PC` and `get_regs_PC` are operators: the code's byte-spreading loop (`SpreadFrom`, `buf[big_endian ? size-i-1 : i] = value; value >>= 8`) and assembly loop, with their NULL-definition and size checks.
  - **Ghost flags.** `ub` records a shift by the width or more (undefined in C; the model takes the masked result the build's targets produce). `oob` records a write past the buffer.
- **`RequestReply.tla`**: the abstract promise of the reply-handler registry. A command is issued on a channel, and its handler is later completed once. Completion carries the reply while the channel is open, and ERR_CHANNEL_CLOSED once its closing has begun. A completion may issue a new command in the same step.
- **`Protocol.tla`**: the reply-handler registry of `protocol.c`.
  - **State.**
    - `handlers`: the lists of `reply_handlers`, as sequences of records `[tok, c, id]`.
    - `tokenid`: the counter, modulo `2^TOKEN_BITS`.
    - `chan`: each channel is open, failed (an exception escaped), closing or closed.
    - `closing`: the cursor of `channel_closed`, as the list `i` and the index `k` of `*rhp`.
    - `inbox`: the commands the peer has not answered.
    - `default_handler`.
    - Ghost state: `sent` numbers the commands, and `calls`/`outcome` count each handler's calls.
  - **Actions.**
    - `protocol_send_command`.
    - `ReceiveReply`: the 'R' branch with a pending token. The handler may return, send a new command, or throw.
    - `ReceiveStrayReply`: a bad or unknown token.
    - `CloseBegin`, `CloseStep` and `CloseEnd`: `channel_closed`, one list element per step. A handler it calls may send on another open channel, and the cursor then moves as `rhp` does (`CursorAfter`).
    - `set_default_message_handler`.
  - **Dispatch thread.** Only the close loop runs while a close is in progress.
  - **Refinement.** `RR == INSTANCE RequestReply WITH ...` maps the detailed state to the abstract one:
    - `pending`: the records in the table;
    - `completed`: the ids whose handler has been called, each with its outcome;
    - `closed`: the channels closing or closed.
- **`ProtocolDispatch.tla`**: the rest of `protocol.c`.
  - **Actions.**
    - The 'C', 'E', 'F', unknown-type and malformed-type branches of `handle_protocol_message`, each with its error paths.
    - `event_locator_hello`.
    - `add_command_handler` and `add_event_handler`, with their service records.
    - `set_default_message_handler`, `protocol_reference` and `protocol_release`.
    - `CloseChannel`: the part of `channel_closed` outside the reply loop.
  - **Abstraction.**
    - An event handler is the pair (channel, service) and a command handler is its service. The service list is the set of (owner, service) records that `protocol_get_service` finds or creates.
    - `find_message_handler` and `find_event_handler` are membership tests. The bucket a record hashes to only orders a scan that compares every field.
    - The command or event name within a service, message bodies and the congestion level are left out, since no property tells them apart.
  - **Ghost state.** `overflow` records a `read_stringz` write past its buffer.
- **`Processes.tla`**: the Processes service, POSIX branch.
  - **State.** A record: the agent's working directory `cwd`, each pid's state (`none`, `running`, `stopped`, `exited`), and the set of `attached` pids (the contexts `context_find_from_pid` finds).
  - **Handlers.** One operator per handler, `command_get_context`, `command_get_children`, `command_attach`, `command_detach`, `command_terminate`, `command_signal`, `command_get_environment` and `command_start`, each from a state and a command to the new state, and the reply (`null`, a context, a list, or an exception). `write_context` is the shared reply writer with its `chdir`; `command_start` is `Spawn` (chdir, fork, the child stopping itself for attach), `AttachChild` and `StartReply`, in the code's order.
  - **Inputs.** What the OS and the context layer answer is part of each command: the pid and parent `id2pid` gives (pid 0 for an ID that names nothing), whether `opendir` and `context_attach` succeed, and whether `fork` succeeds. `fork` takes a pid that is not alive, so pids are reused. `exit` is the OS ending a running process.
  - **Sessions.** Handlers run one at a time on the dispatch thread, so a session is a sequence of commands, folded by the RECURSIVE `Steps`; an exception or a signal to the agent's own group (`kill(0, ...)`) ends it. The properties quantify over every step of every session.
- **`MCProtocol.tla`, `MCProtocolDispatch.tla`**: the channel addresses (1, 2 and 1, 2, 3). The reply hash adds them to the token, as the code adds the pointer. The dispatch model has two service names. `MCProtocolDispatch` also instantiates `Processes` with two pids, a home directory that exists and one that does not, and every session of up to three commands from a 35-command alphabet that holds each handler's error paths.
- **`MCLocationExpression.tla`**: model values.
  - `uint64_t` is two 4-bit bytes, so values are 0..255 and a shift by 9 is undefined. The growth step is the code's 4.
  - Registers: big-endian, little-endian, unreadable, and wider than `buf`. Memory is readable at 0..15.
  - The expressions are every sequence of up to three commands from a 29-command alphabet, plus two of nine commands that make the buffer grow twice.
  - For `RegisterIds`: three contexts (`P1` without state, `P1.2` with state, `P2` exited, so a context ID holds digits and '.'), registers 0..12, frames -2, -1, 0, 1, 10, 12, and every string of up to six characters over `F P R @ . 1 2`.

## 3. Runs

| Run | Checks | What it shows |
|---|---|---|
| `crawl` (`MCStackCrawl.cfg`) | TypeOK, NoFabrication, CallerFrameSound, Idempotent, ReadByteReturnsTarget, CachedByteNotRefetched, BarrierOverlapExact, Terminates | Covers the scenario functions and every function of at most two instructions from either of two alphabets, at xlen 32, 64 and 128, on five frames, with two calls each (46,974 states). One alphabet holds the prologue/epilogue instructions. The other holds register arithmetic, copies, calls and accesses through a copy of sp: the handlers that resolve their operands before they compute. The scenarios are spec S2/S3/S4, hash overflow, a lazy load overwritten, sp aliasing, a self-branch, an unreadable sp reload, a return found only on a queued path, and more targets than the list holds. The run shows that the crawler never claims a value the concrete machine does not have. This holds at every decode boundary and in every queued snapshot. After a return, the caller frame and fp are right. A second call writes the same caller frame. Every step decreases a bounded lexicographic measure. Alongside, every sequence of up to four `read_byte` calls, from every cursor position, returns the target's byte (and fails only at address 0 or an unreadable byte), and never reads the target for a byte a line already holds. The second covers the line that ends at the top of the address space and the hit on the line the probe reaches last. It answers the open question of spec section 9: the shared cursor does not make lookup single-slot, since the probe visits every line; it only changes which line a miss evicts (a hazard in `PROJECT.json`). Also checked: the write barrier's overlap test (`Overlap`) holds exactly when the two `xlen/8`-byte windows share a byte, at every width, for addresses near 0, around the stack and just below the top, where the windows end below the top of the address space. |
| `loc_expr` (`MCLocationExpression.cfg`) | TypeOK, NoHeapOverflow, NegFreeMatchesReference, IdsRoundTrip, NoReadPastId, RegisterValueRoundTrip | Covers about 25,000 expressions (61,855 states). No command writes past the stack buffer. Every evaluation without NEG returns exactly the stack the reference gives, or throws exactly when the reference is undefined. This covers operand order, the depth checks, division by zero, an argument past `args_cnt`, an unreadable or too wide register, an unreadable address, and big- and little-endian reads. Alongside, `id2frame` and `id2register` give back what `frame2id` and `register2id` encoded (a negative frame read back as `STACK_TOP_FRAME`, an exited context refused), although context IDs contain digits and '.'; and no string of up to six characters makes either parser read past its NUL. And for every register size 0..8 and both byte orders, `write_reg_value` and `set_regs_PC` lay out bytes that `read_reg_value` and `get_regs_PC` read back as the value modulo the register's range. |
| `loc_neg` (`MCNegPops.cfg`) | MatchesReference (violated) | `~3 & 9` throws "Invalid location expression": the NEG case decrements `stk_pos` after complementing the top. |
| `leaf_return_pc` | CallerPcIsReturnAddress (violated) | Spec S1 says the caller pc after `c.jr ra` is ra. The code writes the address of the `c.jr` itself. |
| `sra_unresolved` | NoFabrication (violated) | SRA computes on unresolved Frame slots. |
| `jump_target` | NoFabrication (violated) | C.J resumes at target + 2. |
| `partial_overlap` | NoFabrication (violated) | A narrower store inside a wider hash entry leaves it valid and stale. |
| `untraced_base` | CallerFrameSound (violated) | A skipped base instruction (`addi sp, sp, -16`) leaves sp known and wrong. |
| `loop_top_sp` | PathErrorsAreLocal (violated) | A path-local failure to materialize sp at the loop top fails the whole call. |
| `protocol` (`MCProtocol.cfg`) | TypeOK, UniquePendingTokens, AtMostOnce, ClosedLeavesNoPending, CloseCompletesPending, RefinesRequestReply | Two channels, three reply lists, a 2-bit token counter and up to six commands (151,008 states). The peer's replies arrive in any order, alongside stray replies, handler exceptions, re-entrant sends from reply handlers and closes. The run shows four things. No two pending commands of a channel share a token, even after the counter wraps. Every handler runs at most once. A close leaves no handler of its channel in the table, and calls every handler pending on it. Every step is a step of RequestReply: a reply only on an open channel, ERR_CHANNEL_CLOSED only on a closing one. |
| `dispatch` (`MCProtocolDispatch.cfg`) | TypeOK, NoDanglingService, ContextReplyTruthful | Three channels, with every message type, well-formed or not, in any order with registrations, default-handler changes, closes, references and releases (117,912 states). No event or command handler outlives the service record, of its own owner and service, that it points at. Beside it, every Processes session of up to three commands: a context reply, of `getContext` or of `start`, describes a process that is alive, and says "Attached" exactly when it is. For `start` this depends on the order of its steps: the child is attached before the reply is written. |
| `stringz_overflow` (`MCStringOverflow.cfg`) | NoStringOverflow (violated) | A message type 8 characters long makes `read_stringz` write its terminator at `type[8]`, past the buffer on the stack. |

**How soundness is judged.** The ghost machine `cst` executes the same
instructions on concrete values. Callees (`c.jal`, `c.jalr`) return with every
register but ra and all memory preserved. A read of bytes that were partly
overwritten gives `Junk`, a value no word-level claim can match.

**Why the bounds are enough.**

- A 3-slot hash with a 4-store scenario reaches overflow.
- A 2-entry list with 3-target scenarios reaches the cap and duplicate suppression.
- A 6-instruction budget covers every scenario, and it is exceeded by the looping ones.
- Two calls show idempotence.
- Cache: four reads fill all three lines and come back to the first, so a hit can be on the last line the probe visits, and a miss evicts a line that was read before. Four-byte lines with an unreadable pair of bytes give partial lines, and a 4-bit address space puts a line end at the wrap.
- IDs: six characters hold an ID with a one-digit register, frame and context, and every malformed prefix of one; two-digit numbers (10, 12) are checked in the round trip.
- Protocol: with a 2-bit counter and at most three commands pending per channel, six commands make the counter wrap while a token is still pending, so the search must skip it. Three lists and two channels put records of both channels in one list, and a record inserted by a handler lands ahead of, at, or behind the close cursor. `MaxPending < 2^TOKEN_BITS` keeps the token search finite, as the 64-bit counter does in practice.
- Dispatch: three channels and two references reach every order of registration, close and release, including a release to zero while channels still have event handlers.
- Processes: two pids let a start reuse the pid of a process that has exited, and let one process be attached while another is not. Three commands reach a start after a getContext (the `chdir` of `write_context`), an attach after a start with attach, and a signal or exit between a start and a getContext.
- Location expressions: three commands reach every check of every command. A binary command needs two pushes before it, and a failing check needs at most one. Growth needs five pushes, which the two long expressions supply.

The three widths are one behaviour each, chosen in `Init`. Each width selects
different decoder layers and load/store sizes, as the per-call global `xlen`
does in the code.

**Fairness.** `Spec` has weak fairness on every crawl step. The crawl is one
synchronous call with no waiting point, so once enabled it keeps running.
Termination is checked as the action property `Terminates`. Each step must
strictly decrease `Work` (requests left, stage, list capacity left,
instructions left on the path).

`Protocol` has weak fairness only on `CloseStep \/ CloseEnd`. `channel_closed` is a synchronous call on the dispatch thread, so once it starts it runs to its end. The peer, the services and the transport get no fairness: a command may stay unanswered forever while its channel stays open. `CloseCompletesPending` is therefore stated for commands pending on a channel whose close has begun.

`ProtocolDispatch` and `Processes` state safety only. A Processes handler is one synchronous call, so its termination is not in question; whether a child ever exits is up to the OS.

`LocationExpression` states safety only and assumes no fairness. Its loop
advances `i` on every step, so its termination is not in question.

**Mutants.** Each property of a passing run is shown to be breakable by a
plausible bug in the code it is about. `PROJECT.json` lists them:

- the write barrier removed;
- C.ADDI16SP scaled by 8;
- branch_pos not reset between calls;
- branch_pos not advanced;
- the list cap off by one;
- the evaluator's stack never reallocated;
- the stack grown one push late;
- a register's byte order ignored;
- the token counter not wrapped;
- the search for a free token dropped;
- a reply's record left linked;
- the close loop one list short;
- the close cursor advanced after an unlink;
- the close loop's channel test dropped;
- the lock-count assertion compiled out;
- `free_services` ignoring the owner;
- the cache's hit test reaching one byte past a line;
- the probe loop one line short;
- the ID digit loop accepting any character;
- the `@<frame>` part of a register ID ignored;
- the register write loop in the wrong byte order;
- the overlap test counting windows that only touch;
- `command_start` replying before it attaches the child.

**Refinement.** The `protocol` run checks `RR!Spec` as a temporal property:
every step of `Protocol` is a step of `RequestReply` or leaves its variables
unchanged. This is how the detailed table, tokens and close loop are shown to
keep the registry's promise.

**Hazards without a run.** Some hazards are described here rather than checked, because each would need a violation run of its own.
If a handler called with ERR_CHANNEL_CLOSED sends again on the closing
channel, `channel_closed` can leave that record behind. Setting
`CloseSendsSame = TRUE` in `MCProtocol.cfg` makes `ClosedLeavesNoPending` fail
in eight steps. No service in the sources does this, so the `protocol` run
leaves it out.

Two crawler inputs are left out of the `crawl` run for the same reason.
`lui x0, imm` writes x0 (LUI and AUIPC have no rd = 0 guard), which trips the
x0 assertions of result assembly. `c.lwsp sp, 0(sp); c.addi16sp 16` moves the
address a lazily reloaded sp will be read from, and violates `NoFabrication`.
An x0 invariant is not checked: over the handlers the run holds, each with an
rd = 0 guard, it would only restate the guards.

Spec property 8.1 bounds a call's work at BRANCH_LIST_SIZE x MAX_INST = 2400
instructions. The code allows (BRANCH_LIST_SIZE + 1) x MAX_INST = 2600: the
entry path and each of the 12 queued paths get MAX_INST instructions each.

The Processes model reaches three behaviours that no property states: a
property forbidding them would be violated by the code, and for the first two
nothing in the sources says what the code should do instead.

- `write_context` chdirs to `/proc/<pid>` and `command_start` to its dir, and
  neither restores the agent's directory. After a `getContext` of process 1, a start
  with an empty dir forks its child in `/proc/1`.
- `command_terminate` and `command_signal` call `kill` with the pid `id2pid`
  gives, without the `pid != 0` test of `command_get_context`: an ID that
  names no process signals the agent's own process group.
- When `context_attach` of a child started with attach fails, the child stays
  stopped before its `execve`, and the error reply does not give its pid.

The overlap test of the write barrier is checked for windows that end below the
top of the address space. There `uxlen_add_u` wraps the end to a small value,
and the test then misses even two identical windows; no modelled frame lies
there, and `PROJECT.json` keeps it as a hazard.

## 4. What is not modelled, and why

- **Bit-level instruction decoding** (`get_imm`, masks). Instructions are records of their decoded fields.
- **Register widths above 16 bits.** All widths share one 16-bit word. A narrower load from a wider hash entry, sign extension and the 64-bit shift of C.SRLI at xlen 128 are therefore not told apart.
- **Floating-point instructions.** They are skipped as in the code. Floating-point stores are a hazard (see `PROJECT.json`).
- **Location-expression command encoding.** A location is recorded as "memory at a" or "input register r".
- **`read_byte`'s 128-bit addresses.** An address with a non-zero high half fails with ERR_INV_ADDRESS before the cache is probed. `MemCache`'s addresses are one narrow width, and `StackCrawl` never forms such an address.
- **`SFT_CMD_LOCATION`.** It calls back into the symbols service, whose code is not among the sources.
- **`id2register` past the register table, and long digit strings.** The missing bound and the int overflow are plain at their lines; they are listed as hazards.
- **`SFT_CMD_DEREF` sizes above `sizeof(buf)`.** No modelled expression reads more than `buf` holds. `PROJECT.json` lists the unchecked size as a hazard.
- **Parts of `protocol.c` that are not modelled:**
  - `send_hello_message` only writes to the output stream.
  - `protocol_cancel_command` returns 0 and does nothing.
  - `message_hash` and `event_hash` choose a list. The lookups compare every field of every record in the list, so the registries are kept as sets.
  - The flow-control value, and the strings of the peer's service list.
  - The leak of the first list's strings when a second Hello arrives: the model records only whether a list is installed. The int overflow of a long 'F' number is listed as a hazard.
- **Parts of `processes.c` that are not modelled:**
  - the WIN32 and VxWorks branches (the build's POSIX branch is modelled);
  - JSON parsing and output, the executable name `readlink` reports, and the environment strings;
  - the child's own `execve` and its `exit` (not `_exit`) after a failed one, which runs the agent's atexit handlers and flushes its inherited stdio buffers in the child: output, not the service's state;
  - a composition with `ProtocolDispatch`: `processes.c` registers its handlers through a 3-argument `add_command_handler`, with handlers of type `(token, inp, out)`, while the `protocol.c` here has the 4-argument form with `(token, Channel *)`. The two files come from different revisions, so the service is checked in the `dispatch` run beside `ProtocolDispatch`, not composed with it.

## 5. Further work

1. **Composition of the crawler with the evaluator.** Turn the crawler's `down` locations into command sequences (`NUMBER a; RD_MEM xlen/8`, `RD_REG r`). Check that evaluating them on the input frame gives the caller's concrete register.
2. **Protocol and the transport.** A composition in which the `ProtocolDispatch` failures of a channel feed its close in `Protocol`. The cost is the product of the two state spaces, which is why they are checked apart now.
3. **StackCrawl extensions.**
   - A frame at the top of the address space, for the wrap-around in the barrier's overlap test.
   - Floating-point stores.
   - A mutant-backed check of the hash-overflow reporting of spec property 8.5.
