----------------------------- MODULE RegisterIds -----------------------------
(***************************************************************************)
(* The ID strings of cpudefs.c: frame2id / id2frame ("FP<frame>.<ctx>")    *)
(* and register2id / id2register ("R<reg>.<ctx>" for a frame below zero,   *)
(* "R<reg>@<frame>.<ctx>" otherwise).  The parsers read IDs a peer sends,  *)
(* so they are modelled character by character: a C string is a sequence  *)
(* of one-character strings followed by its NUL.  A parser's result         *)
(* records how far it read (`last`), so that a read past the NUL shows.     *)
(* id2ctx is the lookup of the rest of the string among the contexts; it   *)
(* and the value of STACK_TOP_FRAME (context.h) are not among the sources. *)
(***************************************************************************)
EXTENDS Integers, Sequences

CONSTANTS
    Contexts,           \* records [id : ID string, exited, has_state : BOOLEAN]
    STACK_TOP_FRAME,    \* the frame id2register reports when the ID names none
    IdRegs, IdFrames,   \* register indexes and frames the IDs are made from
    IdStrings           \* the strings a peer may send as an ID

ASSUME STACK_TOP_FRAME < 0

NUL == "NUL"
DigitChar == << "0", "1", "2", "3", "4", "5", "6", "7", "8", "9" >>
IsDigit(ch) == \E d \in 0..9 : DigitChar[d + 1] = ch
DigitVal(ch) == CHOOSE d \in 0..9 : DigitChar[d + 1] = ch

\* *id at position pos of s: the NUL just after the last character.
Ch(s, pos) == IF pos <= Len(s) THEN s[pos] ELSE NUL

\* snprintf("%d", n) for n >= 0.
RECURSIVE Dec(_)
Dec(n) == IF n < 10 THEN << DigitChar[n + 1] >> ELSE Dec(n \div 10) \o << DigitChar[(n % 10) + 1] >>

Fail(pos) == [ok |-> FALSE, last |-> pos]

\* id2ctx: the context whose id is the rest of the string from pos on, as
\* a set of at most one (none: NULL).
id2ctx(s, pos) == {c \in Contexts : c.id = SubSeq(s, pos, Len(s))}
The(cs) == CHOOSE c \in cs : TRUE

\* The digit loops of id2frame and id2register: read from pos until a
\* character of Stop, accumulating `v = v * 10 + digit`; any other
\* character fails.  (Mutant: the digit test dropped, every other
\* character counted as a digit.)
RECURSIVE DigitsAny(_, _, _, _)
DigitsAny(s, pos, v, Stop) ==
    CASE pos > Len(s) + 1 -> Fail(pos)
      [] Ch(s, pos) \in Stop -> [ok |-> TRUE, v |-> v, pos |-> pos, last |-> pos]
      [] OTHER -> DigitsAny(s, pos + 1, v * 10 + (IF IsDigit(Ch(s, pos)) THEN DigitVal(Ch(s, pos)) ELSE 0), Stop)
RECURSIVE Digits(_, _, _, _)
Digits(s, pos, v, Stop) ==
    CASE pos > Len(s) + 1 -> Fail(pos)
      [] Ch(s, pos) \in Stop -> [ok |-> TRUE, v |-> v, pos |-> pos, last |-> pos]
      [] IsDigit(Ch(s, pos)) -> Digits(s, pos + 1, v * 10 + DigitVal(Ch(s, pos)), Stop)
      [] OTHER -> Fail(pos)

\* id2frame: 'F', 'P', the frame number up to '.', then the context.
id2frame(s) ==
    IF Ch(s, 1) # "F" THEN Fail(1)
    ELSE IF Ch(s, 2) # "P" THEN Fail(2)
    ELSE LET d == Digits(s, 3, 0, {"."})
             c == id2ctx(s, d.pos + 1)
         IN  CASE ~d.ok -> d
               [] c = {} -> Fail(Len(s) + 1)
               [] OTHER -> [ok |-> TRUE, ctx |-> The(c), frame |-> d.v, last |-> Len(s) + 1]

frame2id(ctx, frame) == << "F", "P" >> \o Dec(frame) \o << "." >> \o ctx.id

register2id(ctx, frame, reg) ==
    IF frame < 0 THEN << "R" >> \o Dec(reg) \o << "." >> \o ctx.id
    ELSE << "R" >> \o Dec(reg) \o << "@" >> \o Dec(frame) \o << "." >> \o ctx.id

\* id2register: 'R', the register index up to '.' or '@'; after '@' the
\* frame number up to '.'; then the context, which must not have exited.
\* The frame is STACK_TOP_FRAME when the ID has no '@'.
\* (Mutant: the '@' branch dropped.)
FramePartNoAt(s, r) == [ok |-> TRUE, v |-> STACK_TOP_FRAME, pos |-> r.pos, last |-> r.last]
FramePart(s, r) ==
    IF Ch(s, r.pos) = "@" THEN Digits(s, r.pos + 1, 0, {"."})
    ELSE [ok |-> TRUE, v |-> STACK_TOP_FRAME, pos |-> r.pos, last |-> r.last]
RegisterFrom(s, r, f, c) ==
    CASE ~r.ok -> r
      [] ~f.ok -> f
      [] c = {} \/ The(c).exited -> Fail(Len(s) + 1)
      [] OTHER -> [ok |-> TRUE, ctx |-> The(c), frame |-> f.v, reg |-> r.v, last |-> Len(s) + 1]
id2register(s) ==
    IF Ch(s, 1) # "R" THEN Fail(1)
    ELSE LET r == Digits(s, 2, 0, {".", "@"})
             f == FramePart(s, r)
         IN  RegisterFrom(s, r, f, IF r.ok /\ f.ok THEN id2ctx(s, f.pos + 1) ELSE {})

(***************************************************************************)
(* Properties, over bounded inputs: the contexts, register indexes and     *)
(* frames of the MC module, and every string up to a length over an        *)
(* alphabet of the IDs' characters.  Both are constant formulas; TLC       *)
(* evaluates them once, and the MC module states them as invariants.       *)
(***************************************************************************)

\* The IDs the agent hands out name what they were made from: id2frame
\* of frame2id gives back the context and frame (for a context with
\* state), and id2register of register2id the context, register and frame
\* (every frame below zero read back as STACK_TOP_FRAME), or fails with
\* ERR_ALREADY_EXITED once the context has exited.  Context IDs contain
\* digits and '.', so the loops must stop at the first '.'.
IdsRoundTripHolds ==
    \A c \in Contexts, r \in IdRegs, f \in IdFrames :
        /\ c.has_state /\ f >= 0 =>
              id2frame(frame2id(c, f)) = [ok |-> TRUE, ctx |-> c, frame |-> f,
                                          last |-> Len(frame2id(c, f)) + 1]
        /\ LET id == register2id(c, f, r) IN
           id2register(id) =
              IF c.exited THEN Fail(Len(id) + 1)
              ELSE [ok |-> TRUE, ctx |-> c, frame |-> IF f < 0 THEN STACK_TOP_FRAME ELSE f,
                    reg |-> r, last |-> Len(id) + 1]

\* Whatever string the peer sends as an ID, id2frame and id2register read
\* no further than its terminating NUL.
NoReadPastIdHolds ==
    \A s \in IdStrings : id2frame(s).last <= Len(s) + 1 /\ id2register(s).last <= Len(s) + 1

====
