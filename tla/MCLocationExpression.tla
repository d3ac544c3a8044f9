------------------------ MODULE MCLocationExpression ------------------------
(***************************************************************************)
(* Model values for LocationExpression: a uint64_t of two 4-bit bytes (so *)
(* values are 0..255 and shifts by 8 or more are undefined), the code's    *)
(* growth step of 4 cells, one argument, 16 readable addresses, and every  *)
(* expression of up to three commands from an alphabet that reaches every  *)
(* check of the loop, plus longer expressions that grow the stack twice.   *)
(***************************************************************************)
EXTENDS LocationExpression, RegisterIds

MCByteBits == 4
MCWordBytes == 2
MCStkInc == 4
MCArgs == << 5 >>
MCFP == 4
MCMemOk == 0..15
MCMemByte(a) == (a * 5 + 3) % 16

Num(n) == [cmd |-> "NUMBER", num |-> n]
Reg(size, be, val, ok) ==
    [cmd |-> "REGISTER", reg |-> [size |-> size, big_endian |-> be, val |-> val, ok |-> ok]]
Rd(size, be) == [cmd |-> "DEREF", size |-> size, big_endian |-> be]
Op(c) == [cmd |-> c]
ArgNo(n) == [cmd |-> "ARG", arg_no |-> n]

\* Pushes: small numbers, a shift amount past the width, an address that
\* cannot be read; a big- and a little-endian register, one that cannot be
\* read and one wider than buf; fp; an argument and one past args_cnt.
Pushes ==
    { Num(0), Num(3), Num(9), Num(200),
      Reg(2, TRUE, 165, TRUE), Reg(2, FALSE, 60, TRUE), Reg(1, FALSE, 6, FALSE),
      Reg(3, FALSE, 7, TRUE), Op("FP"), ArgNo(0), ArgNo(1) }

Alphabet(Unary) ==
    Pushes \cup {Rd(2, TRUE), Rd(2, FALSE), Rd(1, FALSE), Op("BAD")}
           \cup {Op(c) : c \in BinaryCmds \cup Unary}

Upto3(A) == UNION {[1..k -> A] : k \in 1..3}

\* Five pushes (the buffer grows at the first and the fifth), then the sums.
Longer ==
    { << Num(3), Op("FP"), ArgNo(0), Num(9), Num(3), Op("ADD"), Op("SUB"), Op("MUL"), Op("XOR") >>,
      << Op("FP"), Rd(2, TRUE), Num(3), Op("FP"), Op("FP"), Op("ADD"), Rd(1, FALSE),
         Op("SHL"), Op("OR") >> }

MCExprs == Upto3(Alphabet({"NEG"})) \cup Longer

\* `~3 & 9`, the complement of a mask and an AND.
NegExprs == { << Num(3), Op("NEG"), Num(9), Op("AND") >> }

\* The ID codec: a process without state, one of its threads (its ID holds
\* a '.'), and a thread that has exited; register indexes and frames of one
\* and two digits; every string of up to six characters over the IDs'
\* alphabet.  STACK_TOP_FRAME is a negative constant of context.h, which is
\* not among the sources; -2 stands for it.
MCContexts ==
    { [id |-> << "P", "1" >>, exited |-> FALSE, has_state |-> FALSE],
      [id |-> << "P", "1", ".", "2" >>, exited |-> FALSE, has_state |-> TRUE],
      [id |-> << "P", "2" >>, exited |-> TRUE, has_state |-> TRUE] }
MCStackTopFrame == -2
MCIdRegs == 0..12
MCIdFrames == {-2, -1, 0, 1, 10, 12}
MCIdStrings == UNION {[1..k -> {"F", "P", "R", "@", ".", "1", "2"}] : k \in 0..6}

(***************************************************************************)
(* The ID codec of RegisterIds, stated in every state of the evaluation:   *)
(* the constant part is evaluated once, and a failure is reported as an    *)
(* invariant violated in the initial state.                                *)
(***************************************************************************)

\* id2frame and id2register give back the context, frame and register
\* that frame2id and register2id encoded (RegisterIds!IdsRoundTripHolds).
IdsRoundTrip == i >= 1 => IdsRoundTripHolds

\* No ID a peer sends makes id2frame or id2register read past its NUL
\* (RegisterIds!NoReadPastIdHolds).
NoReadPastId == i >= 1 => NoReadPastIdHolds

=============================================================================
