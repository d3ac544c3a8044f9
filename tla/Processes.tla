------------------------------- MODULE Processes -------------------------------
(***************************************************************************)
(* The Processes service of processes.c, its POSIX branch.  Its handlers   *)
(* run one at a time on the dispatch thread, each to its end, so a session *)
(* on a channel is a fold of the handlers over a sequence of commands; the *)
(* OS acts between them (a process exits).  The service's state is the    *)
(* OS's and the agent's: the agent's working directory (chdir), the       *)
(* processes (/proc), and the pids the context layer has attached          *)
(* (context_attach / context_find_from_pid).                               *)
(*                                                                         *)
(* A command is a record: its `op`, its decoded arguments, and the outcome  *)
(* of each OS call that the state does not decide (fork, context_attach,  *)
(* opendir).  An ID is what id2pid makes of it, [pid, parent]: pid 0 for   *)
(* a string that names no process, parent # 0 for a thread (context.c,     *)
(* not among the sources).  A malformed command throws ERR_JSON_SYNTAX     *)
(* before it writes anything, and the channel's reader stops.  JSON        *)
(* encoding, the "Name" read from /proc/<pid>/exe and the environment       *)
(* strings are left out: no property tells them apart.                     *)
(***************************************************************************)
EXTENDS Integers, Sequences

CONSTANTS
    Pids,           \* the pids fork may return
    ExistingDirs,   \* the client's directories that exist
    InitialDir,     \* the agent's working directory when it starts
    Sessions        \* the command sequences a client may send

NoDir == << >>                              \* dir[0] == 0
ProcDir(pid) == <<"/proc", pid>>            \* snprintf(dir, "/proc/%d", pid)
Alive == {"running", "stopped"}

\* The state a session starts from: no process of the agent's yet.
InitState ==
    [cwd |-> InitialDir, proc |-> [p \in Pids |-> "none"], attached |-> {}]

\* chdir(dir): a directory of the client's that exists, or the /proc entry
\* of a live process.
DirExists(S, d) == d \in ExistingDirs \/ \E p \in Pids : d = ProcDir(p) /\ S.proc[p] \in Alive
ChDir(S, d) == IF DirExists(S, d) THEN [S EXCEPT !.cwd = d] ELSE S

\* Error codes, as write_errno reports them (ErrOs: an errno of fork,
\* chdir, opendir or context_attach).
ErrNone == 0
ERR_INV_CONTEXT == 1
ERR_ALREADY_ATTACHED == 2
ENOENT == 3
ESRCH == 4
ErrOs == 5

\* A reply: its kind ("exception" when the handler throws, which stops the
\* channel; "killed" when the agent signalled itself; "os" for a step of
\* the OS; else what follows the error code: a "context", "null", a "list"
\* of children or the "env"), the error code, the context and the children.
NoCtx == [pid |-> 0, can_terminate |-> FALSE, attached |-> FALSE]
Reply(kind, err) == [kind |-> kind, err |-> err, ctx |-> NoCtx, children |-> {}]

\* A step's result: the state after it and the reply.
Res(S, reply) == [st |-> S, reply |-> reply]
Throw(S) == Res(S, Reply("exception", ErrNone))

\* write_context(out, id, dir): chdir(dir) (CanTerminate when it works),
\* then "Attached" when id2ctx finds a context for the process.
write_context(S, pid, d) ==
    LET S2 == ChDir(S, d)
    IN  [st |-> S2, ctx |-> [pid |-> pid, can_terminate |-> DirExists(S, d),
                             attached |-> pid \in S.attached]]

command_get_context(S, c) ==
    LET d == ProcDir(c.id.pid)
        named == c.id.pid # 0 /\ c.id.parent = 0
        err == IF named /\ ~DirExists(S, d) THEN ENOENT ELSE ErrNone
        w == write_context(S, c.id.pid, d)
    IN  CASE c.malformed -> Throw(S)
          [] err = ErrNone /\ named -> Res(w.st, [Reply("context", ErrNone) EXCEPT !.ctx = w.ctx])
          [] OTHER -> Res(S, Reply("null", err))

\* getChildren: every numeric /proc entry, or only those with a context.
command_get_children(S, c) ==
    CASE c.malformed -> Throw(S)
      [] c.id_nonempty -> Res(S, Reply("null", ErrNone))
      [] ~c.opendir_ok -> Res(S, Reply("null", ErrOs))
      [] OTHER -> Res(S, [Reply("list", ErrNone) EXCEPT !.children =
                    {p \in Pids : S.proc[p] \in Alive /\ (~c.attached_only \/ p \in S.attached)}])

\* context_attach(pid): fails for a pid that is not alive, else as c says.
Attach(S, pid, ok) ==
    IF pid \in Pids /\ S.proc[pid] \in Alive /\ ok
       THEN [ok |-> TRUE, st |-> [S EXCEPT !.attached = @ \cup {pid}]]
    ELSE [ok |-> FALSE, st |-> S]

command_attach(S, c) ==
    LET a == Attach(S, c.id.pid, c.attach_ok)
    IN  CASE c.malformed -> Throw(S)
          [] c.id.parent # 0 -> Res(S, Reply("null", ERR_INV_CONTEXT))
          [] c.id.pid \in S.attached -> Res(S, Reply("null", ERR_ALREADY_ATTACHED))
          [] OTHER -> Res(a.st, Reply("null", IF a.ok THEN ErrNone ELSE ErrOs))

\* command_detach is not implemented: it throws ERR_PROTOCOL.
command_detach(S, c) == Throw(S)

\* kill(pid, sig).  pid 0 signals the agent's whole process group, the
\* agent included.  A stopped or traced process keeps a TERM pending (the
\* debugger is told of it); KILL ends any process; STOP and CONT stop and
\* resume.
Kill(S, pid, sig) ==
    LET st == S.proc[pid]
        after == CASE sig = "KILL" -> "exited"
                   [] sig = "TERM" /\ st = "running" /\ pid \notin S.attached -> "exited"
                   [] sig = "STOP" /\ st = "running" -> "stopped"
                   [] sig = "CONT" /\ st = "stopped" -> "running"
                   [] OTHER -> st
    IN  [S EXCEPT !.proc[pid] = after,
                  !.attached = IF after = "exited" THEN @ \ {pid} ELSE @]
SendSignal(S, c, sig) ==
    CASE c.malformed -> Throw(S)
      [] c.id.parent # 0 -> Res(S, Reply("null", ERR_INV_CONTEXT))
      [] c.id.pid = 0 -> Res(S, Reply("killed", ErrNone))
      [] S.proc[c.id.pid] \notin Alive -> Res(S, Reply("null", ESRCH))
      [] OTHER -> Res(Kill(S, c.id.pid, sig), Reply("null", ErrNone))
command_terminate(S, c) == SendSignal(S, c, "TERM")
command_signal(S, c) == SendSignal(S, c, c.sig)

command_get_environment(S, c) ==
    IF c.malformed THEN Throw(S) ELSE Res(S, Reply("env", ErrNone))

\* command_start, up to the reply: chdir(dir) when one is given, fork (the
\* child takes the agent's working directory, and with attach stops itself
\* before execve), context_attach of the child.  fork returns a pid of Pids
\* that is not in use, and fails (EAGAIN) when there is none.
Spawn(S, c) ==
    LET S1 == IF c.dir # NoDir THEN ChDir(S, c.dir) ELSE S
        e1 == IF c.dir # NoDir /\ ~DirExists(S, c.dir) THEN ErrOs ELSE ErrNone
        free == {p \in Pids : S.proc[p] \notin Alive}    \* a pid is reused once gone
        pid == IF e1 = ErrNone /\ c.fork_ok /\ free # {} THEN CHOOSE p \in free : TRUE ELSE 0
        S2 == IF pid = 0 THEN S1
              ELSE [S1 EXCEPT !.proc[pid] = IF c.attach THEN "stopped" ELSE "running"]
    IN  [st |-> S2, pid |-> pid, err |-> IF e1 = ErrNone /\ pid = 0 THEN ErrOs ELSE e1]
AttachChild(sp, c) ==
    LET a == Attach(sp.st, sp.pid, c.attach_ok)
    IN  IF c.attach /\ sp.err = ErrNone
           THEN [sp EXCEPT !.st = a.st, !.err = IF a.ok THEN ErrNone ELSE ErrOs]
        ELSE sp
StartReply(sp) ==
    IF sp.err # ErrNone \/ sp.pid = 0 THEN Res(sp.st, Reply("null", sp.err))
    ELSE LET w == write_context(sp.st, sp.pid, ProcDir(sp.pid))
         IN  Res(w.st, [Reply("context", ErrNone) EXCEPT !.ctx = w.ctx])
\* (Mutant: the reply written before the child is attached.)
command_start_reply_first(S, c) ==
    LET sp == Spawn(S, c)
        r == StartReply(sp)
        a == AttachChild([sp EXCEPT !.st = r.st], c)
    IN  IF c.malformed THEN Throw(S)
        ELSE [r EXCEPT !.st = a.st]
command_start(S, c) ==
    LET sp == Spawn(S, c)
        r == StartReply(AttachChild(sp, c))
    IN  IF c.malformed THEN Throw(S)
        ELSE r

\* The OS: a running process exits; the context layer drops its context.
ProcessExits(S, c) ==
    Res(IF S.proc[c.pid] = "running"
           THEN [S EXCEPT !.proc[c.pid] = "exited", !.attached = @ \ {c.pid}]
        ELSE S, Reply("os", ErrNone))

Handle(S, c) ==
    CASE c.op = "getContext" -> command_get_context(S, c)
      [] c.op = "getChildren" -> command_get_children(S, c)
      [] c.op = "attach" -> command_attach(S, c)
      [] c.op = "detach" -> command_detach(S, c)
      [] c.op = "terminate" -> command_terminate(S, c)
      [] c.op = "signal" -> command_signal(S, c)
      [] c.op = "getEnvironment" -> command_get_environment(S, c)
      [] c.op = "start" -> command_start(S, c)
      [] c.op = "exit" -> ProcessExits(S, c)

\* The steps of a session, each with the state before it, up to the first
\* exception or the agent's own death.
RECURSIVE Steps(_, _)
Steps(S, cs) ==
    IF cs = << >> THEN << >>
    ELSE LET r == Handle(S, Head(cs))
             step == [pre |-> S, cmd |-> Head(cs), post |-> r.st, reply |-> r.reply]
         IN  << step >> \o (IF r.reply.kind \in {"exception", "killed"} THEN << >>
                            ELSE Steps(r.st, Tail(cs)))

AllSteps == UNION {{ss[k] : k \in DOMAIN ss} : ss \in {Steps(InitState, cs) : cs \in Sessions}}

IsContextReply(r) == r.kind = "context"

(***************************************************************************)
(* Properties, over every session of Sessions: constant formulas, which    *)
(* the MC module states as invariants.                                     *)
(***************************************************************************)

\* A context in a reply (getContext, start) comes with no error, names a
\* process that is alive when the reply is written, and says "Attached"
\* exactly when the agent has attached it by then.
ContextReplyTruthful ==
    \A s \in AllSteps : IsContextReply(s.reply) =>
        /\ s.reply.err = ErrNone
        /\ s.post.proc[s.reply.ctx.pid] \in Alive
        /\ s.reply.ctx.attached = (s.reply.ctx.pid \in s.post.attached)

====
