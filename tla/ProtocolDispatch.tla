-------------------------- MODULE ProtocolDispatch --------------------------
(***************************************************************************)
(* The message dispatch of protocol.c other than replies: the 'C', 'E',    *)
(* 'F' and unknown branches of handle_protocol_message, a malformed type,  *)
(* event_locator_hello, the command and event handler registries with the  *)
(* service records they point at (protocol_get_service, free_services),    *)
(* the default handler, the Protocol's reference count, and the part of    *)
(* channel_closed that drops a channel's event handlers, services and      *)
(* peer service list.  The reply handlers are the module Protocol; here a  *)
(* channel_closed call is one step.                                        *)
(*                                                                         *)
(* A handler is registered for a service; the service record is the pair *)
(* << owner, service name >> protocol_get_service finds or creates (the    *)
(* command name a handler answers to is folded into the service name: the *)
(* lookups compare both).  Which bucket of message_handlers or            *)
(* event_handlers holds a record only decides the order of a scan that    *)
(* compares every field, so the registries are sets.  Message bodies are  *)
(* not kept.  The ghost `overflow` records a write past a read_stringz     *)
(* buffer.                                                                 *)
(***************************************************************************)
EXTENDS Integers

CONSTANTS
    Channels,       \* channel addresses
    Names,          \* service names handlers are registered for
    MaxLocks,       \* bound: lock_cnt
    TYPE_SIZE,      \* sizeof(type) in handle_protocol_message
    TypeLens        \* lengths of the malformed message types the peer sends

\* The owner of the Protocol's services (the Protocol itself).
PROTO == 0

ASSUME Channels \subseteq Nat \ {0} /\ 1 \notin TypeLens /\ MaxLocks >= 2

VARIABLES
    chan,           \* per channel: "open", "failed" (an exception escaped), "closed"
    evh,            \* event_handlers: << c, name >> of each record
    cmd_handlers,   \* message_handlers: the names p has handlers for
    services,       \* the services list: << owner, name >> of each record
    peer_list,      \* per channel: c->peer_service_list is set
    default_handler,\* p->default_handler is set
    lock_cnt,       \* p->lock_cnt
    overflow

vars == << chan, evh, cmd_handlers, services, peer_list, default_handler, lock_cnt, overflow >>

\* protocol_get_service(owner, name): the record with that owner and name,
\* else a new one pushed on the list.
protocol_get_service(sv, owner, name) == sv \cup {<< owner, name >>}

\* free_services(owner): unlink every service record of the owner.
\* (Mutant: the owner test dropped.)
FreeServicesAll(sv, owner) == {}
FreeServices(sv, owner) == {s \in sv : s[1] # owner}

\* find_message_handler / find_event_handler: a record of p (of c) for
\* the service and name the message carries.
find_message_handler(n) == n \in cmd_handlers
find_event_handler(c, n) == << c, n >> \in evh

\* An exception escapes handle_protocol_message: the channel's reader stops.
Fail(c) == chan' = [chan EXCEPT ![c] = "failed"]

Receiving(c) == chan[c] = "open"

Init ==
    /\ chan = [c \in Channels |-> "open"]
    /\ evh = {} /\ cmd_handlers = {} /\ services = {}
    /\ peer_list = [c \in Channels |-> FALSE]
    /\ default_handler \in BOOLEAN
    /\ lock_cnt = 1                                   \* protocol_alloc
    /\ overflow = FALSE

\* A 'C' message: the registered handler runs and may throw; a command
\* nobody registered goes to the default handler, else ERR_PROTOCOL.
ReceiveCommand(c) ==
    /\ Receiving(c)
    /\ \E n \in Names :
          CASE find_message_handler(n) -> UNCHANGED chan \/ Fail(c)
            [] default_handler -> UNCHANGED chan
            [] OTHER -> Fail(c)
    /\ UNCHANGED << evh, cmd_handlers, services, peer_list, default_handler, lock_cnt, overflow >>

\* event_locator_hello(c): a well-formed list of service names replaces
\* c->peer_service_list (the old array is freed) and c->connected(c) runs;
\* a malformed one frees what was read and throws.
event_locator_hello(c) ==
    \/ peer_list' = [peer_list EXCEPT ![c] = TRUE] /\ UNCHANGED chan
    \/ Fail(c) /\ UNCHANGED peer_list

\* An 'E' message.  Locator.Hello goes to event_locator_hello.  Another
\* event: the channel's handler runs and may throw; without one, the
\* default handler takes it or its body is read and dropped.
ReceiveEvent(c) ==
    /\ Receiving(c)
    /\ \/ event_locator_hello(c)
       \/ \E n \in Names :
             /\ IF find_event_handler(c, n) THEN UNCHANGED chan \/ Fail(c)
                ELSE UNCHANGED chan
             /\ UNCHANGED peer_list
    /\ UNCHANGED << evh, cmd_handlers, services, default_handler, lock_cnt, overflow >>

\* An 'F' message: a well-formed number sets c->congestion_level (a value
\* of the transport, not kept here); a missing end marker throws.
ReceiveFlowControl(c) ==
    /\ Receiving(c)
    /\ UNCHANGED chan \/ Fail(c)
    /\ UNCHANGED << evh, cmd_handlers, services, peer_list, default_handler, lock_cnt, overflow >>

\* Any other one-letter type: the default handler, else ERR_PROTOCOL.
ReceiveOther(c) ==
    /\ Receiving(c)
    /\ IF default_handler THEN UNCHANGED chan ELSE Fail(c)
    /\ UNCHANGED << evh, cmd_handlers, services, peer_list, default_handler, lock_cnt, overflow >>

\* read_stringz(&c->inp, type, sizeof(type)) keeps at most size - 1
\* characters but stores the terminator at str[len] for the whole length
\* len it read; strlen(type) != 1 then throws ERR_PROTOCOL.
ReadStringzOverflows(len, size) == len >= size

ReceiveBadType(c) ==
    /\ Receiving(c)
    /\ \E len \in TypeLens : overflow' = (overflow \/ ReadStringzOverflows(len, TYPE_SIZE))
    /\ Fail(c)
    /\ UNCHANGED << evh, cmd_handlers, services, peer_list, default_handler, lock_cnt >>

\* channel_closed(c), all but its reply loop: c's event handlers are
\* unlinked, free_services(c), and the peer service list with its strings
\* is freed.
CloseChannel(c) ==
    /\ chan[c] \in {"open", "failed"}
    /\ chan' = [chan EXCEPT ![c] = "closed"]
    /\ evh' = {h \in evh : h[1] # c}
    /\ services' = FreeServices(services, c)
    /\ peer_list' = [peer_list EXCEPT ![c] = FALSE]
    /\ UNCHANGED << cmd_handlers, default_handler, lock_cnt, overflow >>

\* add_event_handler(c, service, ...): a new record at the head of its
\* bucket, pointing at the service of owner c.  Services register event
\* handlers on the channels they hold.
add_event_handler(c, n) ==
    /\ chan[c] \in {"open", "failed"}
    /\ evh' = evh \cup {<< c, n >>}
    /\ services' = protocol_get_service(services, c, n)
    /\ UNCHANGED << chan, cmd_handlers, peer_list, default_handler, lock_cnt, overflow >>

\* add_command_handler(p, service, ...): likewise with p as the owner.
add_command_handler(n) ==
    /\ cmd_handlers' = cmd_handlers \cup {n}
    /\ services' = protocol_get_service(services, PROTO, n)
    /\ UNCHANGED << chan, evh, peer_list, default_handler, lock_cnt, overflow >>

set_default_message_handler ==
    /\ default_handler' = ~default_handler
    /\ UNCHANGED << chan, evh, cmd_handlers, services, peer_list, lock_cnt, overflow >>

\* `assert(p->lock_cnt > 0)`: callers hold a reference.
\* (Mutant: the assertion gone, as in a build with NDEBUG.)
LockHeldAny(n) == TRUE
LockHeld(n) == n > 0

protocol_reference ==
    /\ LockHeld(lock_cnt) /\ lock_cnt < MaxLocks
    /\ lock_cnt' = lock_cnt + 1
    /\ UNCHANGED << chan, evh, cmd_handlers, services, peer_list, default_handler, overflow >>

\* At zero the Protocol's command handlers are unlinked and free_services(p).
protocol_release ==
    /\ LockHeld(lock_cnt)
    /\ lock_cnt' = lock_cnt - 1
    /\ IF lock_cnt' = 0
       THEN cmd_handlers' = {} /\ services' = FreeServices(services, PROTO)
       ELSE UNCHANGED << cmd_handlers, services >>
    /\ UNCHANGED << chan, evh, peer_list, default_handler, overflow >>

Next ==
    \/ \E c \in Channels :
          \/ ReceiveCommand(c) \/ ReceiveEvent(c) \/ ReceiveFlowControl(c)
          \/ ReceiveOther(c) \/ ReceiveBadType(c) \/ CloseChannel(c)
          \/ \E n \in Names : add_event_handler(c, n)
    \/ \E n \in Names : add_command_handler(n)
    \/ set_default_message_handler
    \/ protocol_reference \/ protocol_release

Spec == Init /\ [][Next]_vars

(***************************************************************************)
(* Properties.                                                             *)
(***************************************************************************)
TypeOK ==
    /\ chan \in [Channels -> {"open", "failed", "closed"}]
    /\ evh \subseteq Channels \X Names /\ cmd_handlers \subseteq Names
    /\ services \subseteq (Channels \cup {PROTO}) \X Names
    /\ peer_list \in [Channels -> BOOLEAN] /\ default_handler \in BOOLEAN
    /\ lock_cnt \in 0..MaxLocks /\ overflow \in BOOLEAN

\* Every registered handler's record points at a live service record:
\* channel_closed and protocol_release free a service only together with
\* the handlers of its owner, across any order of registrations, closes
\* and releases.
NoDanglingService ==
    /\ evh \subseteq services
    /\ \A n \in cmd_handlers : << PROTO, n >> \in services

\* read_stringz never writes past the buffer it is given, whatever the
\* peer sends as a message type.
NoStringOverflow == ~overflow

====
