------------------------- MODULE MCProtocolDispatch -------------------------
(* Three channels, two services, two references to the Protocol.             *)
EXTENDS ProtocolDispatch

MCChannels == {1, 2, 3}
MCNames == {"RunControl", "Memory"}

(***************************************************************************)
(* The Processes service (Processes), checked alongside the dispatch of    *)
(* the commands it registers: two pids, so a pid is reused once its       *)
(* process is gone and two children can be alive; a directory that exists *)
(* and one that does not; and every session of up to three commands from  *)
(* an alphabet with each handler, each of its error paths and each OS      *)
(* outcome (getChildren's three branches, a failed fork once), plus a      *)
(* process's own exit.                                                     *)
(***************************************************************************)
Id(p, par) == [pid |-> p, parent |-> par]
Cmd0 == [op |-> "", malformed |-> FALSE, id |-> Id(1, 0), id_nonempty |-> FALSE,
         opendir_ok |-> TRUE, attached_only |-> FALSE, attach_ok |-> TRUE, sig |-> "TERM",
         dir |-> << >>, attach |-> FALSE, fork_ok |-> TRUE, pid |-> 1]
HomeDir == <<"/home", 1>>
GoneDir == <<"/home", 2>>

MCProcCommands ==
    {[Cmd0 EXCEPT !.op = "getContext", !.id = i] : i \in {Id(1, 0), Id(0, 0), Id(1, 1)}}
    \cup {[Cmd0 EXCEPT !.op = "getChildren", !.id_nonempty = n, !.attached_only = a, !.opendir_ok = o]
           : <<n, a, o>> \in {<<TRUE, FALSE, TRUE>>, <<FALSE, TRUE, TRUE>>, <<FALSE, FALSE, FALSE>>}}
    \cup {[Cmd0 EXCEPT !.op = "attach", !.id = i, !.attach_ok = ok]
           : <<i, ok>> \in {<<Id(1, 0), TRUE>>, <<Id(1, 0), FALSE>>, <<Id(2, 0), TRUE>>, <<Id(1, 1), TRUE>>}}
    \cup {[Cmd0 EXCEPT !.op = "terminate", !.id = i] : i \in {Id(1, 0), Id(0, 0), Id(1, 1)}}
    \cup {[Cmd0 EXCEPT !.op = "signal", !.sig = g] : g \in {"KILL", "STOP", "CONT"}}
    \cup {[Cmd0 EXCEPT !.op = "start", !.dir = d, !.attach = at, !.attach_ok = ok]
           : d \in {<< >>, HomeDir, GoneDir}, at \in BOOLEAN, ok \in BOOLEAN}
    \cup {[Cmd0 EXCEPT !.op = "start", !.fork_ok = FALSE]}
    \cup {[Cmd0 EXCEPT !.op = o] : o \in {"detach", "getEnvironment"}}
    \cup {[Cmd0 EXCEPT !.op = o, !.malformed = TRUE] : o \in {"getContext", "start"}}
    \cup {[Cmd0 EXCEPT !.op = "exit", !.pid = p] : p \in {1, 2}}

MCProcSessions == UNION {[1..k -> MCProcCommands] : k \in 0..3}

Proc == INSTANCE Processes WITH Pids <- {1, 2}, ExistingDirs <- {HomeDir, <<"/">>},
            InitialDir <- <<"/">>, Sessions <- MCProcSessions

\* Every context a reply carries is of a live process, with no error, and
\* its "Attached" is the truth (Processes!ContextReplyTruthful).
ContextReplyTruthful == lock_cnt >= 0 => Proc!ContextReplyTruthful

====
