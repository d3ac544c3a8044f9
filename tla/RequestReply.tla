---------------------------- MODULE RequestReply ----------------------------
(***************************************************************************)
(* What the reply-handler registry of protocol.c promises the services     *)
(* that send commands: a command is issued on a channel; its reply handler *)
(* is later called once, either with the reply, while the channel is still *)
(* open, or with ERR_CHANNEL_CLOSED, once the channel has been closed.     *)
(* A handler may issue a new command from inside the call.                 *)
(***************************************************************************)
CONSTANTS Requests, Channels

VARIABLES
    pending,    \* set of << request, channel >> awaiting their handler call
    completed,  \* set of << request, "reply" or "closed" >>
    closed      \* channels whose closing has begun

vars == << pending, completed, closed >>

Issued == {p[1] : p \in pending} \cup {d[1] : d \in completed}

Init == pending = {} /\ completed = {} /\ closed = {}

Issue(r, c) ==
    /\ r \notin Issued
    /\ pending' = pending \cup {<< r, c >>}
    /\ UNCHANGED << completed, closed >>

\* The handler of r is called: with the reply only while r's channel is
\* open, with ERR_CHANNEL_CLOSED only once it is closed.
Complete(r, how) ==
    \E c \in Channels :
        /\ << r, c >> \in pending
        /\ (how = "reply") = (c \notin closed)
        /\ pending' = pending \ {<< r, c >>}
        /\ completed' = completed \cup {<< r, how >>}
        /\ UNCHANGED closed

\* A handler that issues the next command as it runs.
CompleteThenIssue(r, how, r2, c2) ==
    \E c \in Channels :
        /\ << r, c >> \in pending
        /\ (how = "reply") = (c \notin closed)
        /\ r2 \notin Issued
        /\ pending' = (pending \ {<< r, c >>}) \cup {<< r2, c2 >>}
        /\ completed' = completed \cup {<< r, how >>}
        /\ UNCHANGED closed

Close(c) ==
    /\ c \notin closed
    /\ closed' = closed \cup {c}
    /\ UNCHANGED << pending, completed >>

Next ==
    \/ \E r \in Requests, c \in Channels : Issue(r, c) \/ Close(c)
    \/ \E r \in Requests, how \in {"reply", "closed"} :
          \/ Complete(r, how)
          \/ \E r2 \in Requests, c2 \in Channels : CompleteThenIssue(r, how, r2, c2)

Spec == Init /\ [][Next]_vars

====
