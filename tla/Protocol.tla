------------------------------ MODULE Protocol ------------------------------
(***************************************************************************)
(* The reply-handler registry of protocol.c, for one Protocol and a set of *)
(* channels: protocol_send_command, the 'R' branch of                      *)
(* handle_protocol_message and the reply loop of channel_closed.  Reply    *)
(* handlers live in the REPLY_HASH_SIZE lists of reply_handlers, each list *)
(* in insertion-at-head order, keyed by (channel address + token).  The    *)
(* peer answers each command it received once, in any order, or sends a    *)
(* reply nobody waits for.  Everything runs on the dispatch thread: while  *)
(* channel_closed runs (one step per list element it visits) nothing else  *)
(* does, except what the reply handlers it calls do from inside the call.  *)
(* The other message types are the module ProtocolDispatch.                *)
(*                                                                         *)
(* A handler's body is the environment: it returns, throws, or sends a new *)
(* command first.  Ghost variables: `sent` numbers the commands (the id of *)
(* a handler record), calls/outcome count the handler calls.               *)
(***************************************************************************)
EXTENDS Integers, FiniteSets, Sequences, SequencesExt

CONSTANTS
    Channels,           \* channel addresses, as the hashes add them
    REPLY_HASH_SIZE,
    TOKEN_BITS,         \* width of the unsigned long token counter
    MaxSends,           \* bound: commands sent in one behaviour
    MaxPending,         \* bound: commands pending on one channel
    CloseSendsSame      \* a handler called with ERR_CHANNEL_CLOSED may send on that channel

NTok == 2^TOKEN_BITS
Ids == 1..MaxSends
Buckets == 0..(REPLY_HASH_SIZE - 1)
NoChan == 0
Idle == [c |-> NoChan, i |-> 0, k |-> 1]

ASSUME /\ Channels \subseteq Nat \ {0} /\ REPLY_HASH_SIZE \in Nat \ {0}
       /\ MaxPending < NTok     \* the token search of protocol_send_command ends
       /\ CloseSendsSame \in BOOLEAN

VARIABLES
    tokenid,        \* p->tokenid
    handlers,       \* reply_handlers: bucket -> Seq([tok, c, id])
    chan,           \* per channel: "open", "failed" (an exception escaped), "closing", "closed"
    closing,        \* the loop of channel_closed: the channel, bucket i, element k
    inbox,          \* per channel: the commands [id, tok] the peer has not answered
    default_handler,\* p->default_handler is set
    sent, calls, outcome

vars == << tokenid, handlers, chan, closing, inbox, default_handler, sent, calls, outcome >>

(***************************************************************************)
(* The reply-handler table.                                                *)
(***************************************************************************)
reply_hash(c, tok) == (c + tok) % REPLY_HASH_SIZE
Recs(tbl) == UNION {ToSet(tbl[b]) : b \in Buckets}
PendingOn(c, tbl) == {r \in Recs(tbl) : r.c = c}

\* find_reply_handler(c, tokenid, take): the first record of c with the token
\* in its list is returned and, with take, unlinked.
\* (Mutant: take = 0, the record stays linked.)
IsFor(c, tok, r) == r.c = c /\ r.tok = tok
Found(tbl, c, tok) ==
    LET s == tbl[reply_hash(c, tok)] IN s[SelectInSeq(s, LAMBDA r : IsFor(c, tok, r))]
TakeNone(tbl, c, tok) == tbl
Take(tbl, c, tok) ==
    [tbl EXCEPT ![reply_hash(c, tok)] = RemoveFirstMatch(@, LAMBDA r : IsFor(c, tok, r))]

\* protocol_send_command: `do tokenid = p->tokenid++; while (find_reply_handler(c, tokenid, 0))`.
\* (Mutants: no search for a free token; the counter not wrapped.)
NewTokNoSkip(c, tbl) == tokenid
NewTok(c, tbl) ==
    LET used == {r.tok : r \in PendingOn(c, tbl)}
    IN  (tokenid + Min({d \in 0..(NTok - 1) : (tokenid + d) % NTok \notin used})) % NTok
NextTokenIdNoWrap(t) == t + 1
NextTokenId(t) == (t + 1) % NTok

\* The command goes out on c (and reaches the peer if c is open); its
\* handler record goes to the head of its list.  tbl and ib are the table
\* and the peer's inbox as the calling step has left them.
SendOn(c, tbl, ib) ==
    LET t == NewTok(c, tbl) IN
    /\ sent < MaxSends /\ Cardinality(PendingOn(c, tbl)) < MaxPending
    /\ handlers' = [tbl EXCEPT ![reply_hash(c, t)] = Cons([tok |-> t, c |-> c, id |-> sent + 1], @)]
    /\ tokenid' = NextTokenId(t)
    /\ inbox' = IF chan[c] = "open" THEN [ib EXCEPT ![c] = @ \cup {[id |-> sent + 1, tok |-> t]}]
                ELSE ib
    /\ sent' = sent + 1

NoSend(tbl, ib) == handlers' = tbl /\ inbox' = ib /\ UNCHANGED << tokenid, sent >>

Called(id, how) ==
    /\ calls' = [calls EXCEPT ![id] = @ + 1]
    /\ outcome' = [outcome EXCEPT ![id] = how]

\* An exception escapes handle_protocol_message: the channel's reader stops.
Fail(c) == chan' = [chan EXCEPT ![c] = "failed"]

(***************************************************************************)
(* Actions.                                                                *)
(***************************************************************************)
Init ==
    /\ tokenid = 1                                          \* protocol_alloc
    /\ handlers = [b \in Buckets |-> << >>]
    /\ chan = [c \in Channels |-> "open"]
    /\ closing = Idle
    /\ inbox = [c \in Channels |-> {}]
    /\ default_handler \in BOOLEAN
    /\ sent = 0 /\ calls = [id \in Ids |-> 0] /\ outcome = [id \in Ids |-> "none"]

Dispatching == closing = Idle

\* A service sends a command on an open channel.
protocol_send_command(c) ==
    /\ Dispatching /\ chan[c] = "open"
    /\ SendOn(c, handlers, inbox)
    /\ UNCHANGED << chan, closing, default_handler, calls, outcome >>

\* What the body of a reply handler does from inside the call:
\* return, send a command on channel c2 first, or throw.
HandlerEffect(tbl, ib) ==
    \/ NoSend(tbl, ib)
    \/ \E c2 \in Channels : chan[c2] = "open" /\ SendOn(c2, tbl, ib)

\* An 'R' message naming a pending token: find_reply_handler(c, tokenid, 1)
\* unlinks the record, the handler is called with error 0 and freed; an
\* exception from it is rethrown after the free.
ReceiveReply(c) ==
    /\ Dispatching /\ chan[c] = "open"
    /\ \E m \in inbox[c] :
         LET ib == [inbox EXCEPT ![c] = @ \ {m}]
             tbl == Take(handlers, c, m.tok)
         IN  /\ Called(Found(handlers, c, m.tok).id, "reply")
             /\ HandlerEffect(tbl, ib)
             /\ \/ UNCHANGED chan
                \/ Fail(c)
    /\ UNCHANGED << closing, default_handler >>

\* An 'R' message whose token strtoul rejects or that matches no handler:
\* the default handler takes it, or ERR_PROTOCOL is thrown.
ReceiveStrayReply(c) ==
    /\ Dispatching /\ chan[c] = "open"
    /\ IF default_handler THEN UNCHANGED chan ELSE Fail(c)
    /\ UNCHANGED << tokenid, handlers, closing, inbox,
                    default_handler, sent, calls, outcome >>

(***************************************************************************)
(* channel_closed(c), the close listener, one step per list element.  It   *)
(* first drops c's event handlers and services (ProtocolDispatch), and    *)
(* the peer stops answering; then it walks every reply list through the   *)
(* link pointer rhp, calling each of c's handlers with ERR_CHANNEL_CLOSED; *)
(* an exception from such a handler is caught and dropped.  The cursor k  *)
(* is the index of *rhp in list i.                                         *)
(***************************************************************************)
CloseBegin(c) ==
    /\ Dispatching /\ chan[c] \in {"open", "failed"}
    /\ chan' = [chan EXCEPT ![c] = "closing"]
    /\ closing' = [c |-> c, i |-> 0, k |-> 1]
    /\ inbox' = [inbox EXCEPT ![c] = {}]
    /\ UNCHANGED << tokenid, handlers, default_handler, sent, calls, outcome >>

\* `for (i = 0; i < REPLY_HASH_SIZE; i++)`.  (Mutant: one list too few.)
CloseDoneEarly(i) == i >= REPLY_HASH_SIZE - 1
CloseDone(i) == i >= REPLY_HASH_SIZE

\* `if (rh->c == c)`.  (Mutant: the test dropped.)
MineAny(r, c) == TRUE
Mine(r, c) == r.c = c

\* Where *rhp stands after `*rhp = rh->next` and a call that may have put a
\* record at the head of list b: rhp still points at the same link, so when
\* that link is not the list head the element it reaches moves one down.
\* (Mutant: `rhp = &rh->next` also taken after the unlink.)
CursorAfterAdvance(k, i, b) == k + 1
CursorAfter(k, i, b) == IF b = i /\ k > 1 THEN k + 1 ELSE k

\* What a handler called with ERR_CHANNEL_CLOSED may send: on another open
\* channel, or (CloseSendsSame) on the closing channel itself.
CloseSendTarget(c2, c) ==
    IF c2 = c THEN CloseSendsSame ELSE chan[c2] = "open"

CloseStep ==
    LET c == closing.c
        i == closing.i
        k == closing.k
        list == handlers[i]
    IN
    /\ c # NoChan /\ ~CloseDone(i)
    /\ \/ /\ k > Len(list)
          /\ closing' = [closing EXCEPT !.i = i + 1, !.k = 1]
          /\ UNCHANGED << tokenid, handlers, inbox, sent, calls, outcome >>
       \/ /\ k <= Len(list) /\ ~Mine(list[k], c)
          /\ closing' = [closing EXCEPT !.k = k + 1]
          /\ UNCHANGED << tokenid, handlers, inbox, sent, calls, outcome >>
       \/ /\ k <= Len(list) /\ Mine(list[k], c)
          /\ LET tbl == [handlers EXCEPT ![i] = RemoveAt(@, k)] IN
             /\ Called(list[k].id, "closed")
             /\ \/ NoSend(tbl, inbox) /\ closing' = closing
                \/ \E c2 \in Channels :
                     /\ CloseSendTarget(c2, c)
                     /\ SendOn(c2, tbl, inbox)
                     /\ closing' = [closing EXCEPT !.k =
                                      CursorAfter(k, i, reply_hash(c2, NewTok(c2, tbl)))]
    /\ UNCHANGED << chan, default_handler >>

\* The loop is done and channel_closed returns.
CloseEnd ==
    LET c == closing.c IN
    /\ c # NoChan /\ CloseDone(closing.i)
    /\ chan' = [chan EXCEPT ![c] = "closed"]
    /\ closing' = Idle
    /\ UNCHANGED << tokenid, handlers, inbox, default_handler, sent, calls, outcome >>

\* The default handler is set or cleared.
set_default_message_handler ==
    /\ Dispatching
    /\ default_handler' = ~default_handler
    /\ UNCHANGED << tokenid, handlers, chan, closing, inbox, sent, calls, outcome >>

Next ==
    \/ \E c \in Channels :
          \/ protocol_send_command(c) \/ ReceiveReply(c) \/ ReceiveStrayReply(c) \/ CloseBegin(c)
    \/ CloseStep \/ CloseEnd
    \/ set_default_message_handler

\* channel_closed runs to its end once called: the dispatch thread is in it.
\* The peer, the services and the transport get no fairness.
Spec == Init /\ [][Next]_vars /\ WF_vars(CloseStep \/ CloseEnd)

(***************************************************************************)
(* Properties.                                                             *)
(***************************************************************************)
Rec == [tok : 0..(NTok - 1), c : Channels, id : Ids]

TypeOK ==
    /\ tokenid \in 0..(NTok - 1)
    /\ handlers \in [Buckets -> Seq(Rec)]
    /\ chan \in [Channels -> {"open", "failed", "closing", "closed"}]
    /\ inbox \in [Channels -> SUBSET [id : Ids, tok : 0..(NTok - 1)]]
    /\ closing.c \in Channels \cup {NoChan}
    /\ default_handler \in BOOLEAN
    /\ sent \in 0..MaxSends /\ calls \in [Ids -> Nat]

\* protocol_send_command's token search: no two commands pending on one
\* channel share a token, across the wrap of the token counter, so a reply
\* reaches the handler of the command it answers.
UniquePendingTokens ==
    \A c \in Channels : \A r1, r2 \in PendingOn(c, handlers) : r1.tok = r2.tok => r1 = r2

\* Each reply handler is called at most once, whether by the reply or by
\* channel_closed: the reply path unlinks the record before the call.
AtMostOnce == \A id \in Ids : calls[id] <= 1

\* Once channel_closed(c) has returned, no reply handler of c is left in
\* reply_handlers (it would point at the freed channel and never be called),
\* when the handlers it calls send only on other open channels (a send on
\* the closing channel itself is excluded by CloseSendsSame = FALSE).
ClosedLeavesNoPending ==
    \A c \in Channels : chan[c] = "closed" => PendingOn(c, handlers) = {}

\* Every command pending on a channel whose close has begun has its handler
\* called eventually: the walk through the lists ends and visits it.
CloseCompletesPending ==
    \A id \in Ids, c \in Channels :
        (chan[c] = "closing" /\ \E r \in PendingOn(c, handlers) : r.id = id) ~> calls[id] > 0

\* The registry implements RequestReply: a handler is called with the reply
\* only while its channel is open, with ERR_CHANNEL_CLOSED only for a
\* channel being closed, and a command is never issued twice.
RR == INSTANCE RequestReply WITH
        Requests <- Ids,
        pending <- {<< r.id, r.c >> : r \in Recs(handlers)},
        completed <- {<< id, outcome[id] >> : id \in {j \in Ids : calls[j] > 0}},
        closed <- {c \in Channels : chan[c] \in {"closing", "closed"}}

RefinesRequestReply == RR!Spec

====
