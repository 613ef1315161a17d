--------------------------- MODULE DeIceProtocol ---------------------------
(* What the comments of deice.h promise of the debugger's requests: the      *)
(* reply to a request, and its effect on the memory and the registers, as    *)
(* functions of the request alone. Nothing here knows the buffer the target  *)
(* reads a request into and builds its reply in.                             *)
EXTENDS Integers, Sequences, FiniteSets

CONSTANTS
    M,        \* values of a byte
    REGS,     \* bytes of the register block
    TSTG,     \* the target's description
    Ram,      \* the addresses that keep what is written to them
    Rom       \* what is read at the others

FN_GET_STAT  == M - 1
FN_READ_MEM  == M - 2
FN_WRITE_M   == M - 3
FN_READ_RG   == M - 4
FN_WRITE_RG  == M - 5
FN_RUN_TARG  == M - 6
FN_SET_BYTES == M - 7
FN_IN        == M - 8
FN_OUT       == M - 9
FN_ERROR     == M - 16

Peek(m, a) == IF a \in Ram THEN m[a] ELSE Rom
Poke(m, a, d) == IF a \in Ram THEN [m EXCEPT ![a] = d] ELSE m

\* The frame of a function, its length and its data, without the checksum.
FrameOf(fn, data) == <<fn, Len(data)>> \o data
-----------------------------------------------------------------------------
(* An address takes one byte, so that a request is <<fn, len, addr, ...>>.   *)

Data(req) == SubSeq(req, 3, Len(req))

\* A write of `bytes` from address a on: the last one to a cell stays.
Written(m, a, bytes) ==
    [c \in Ram |-> IF c \in a .. (a + Len(bytes) - 1) THEN bytes[c - a + 1] ELSE m[c]]

\* SET_BYTES is a list of addresses and bytes, done one after the other.
Pairs(req) == (Len(req) - 2) \div 2
AddrOf(req, j) == req[2 * j + 1]
ByteOf(req, j) == req[2 * j + 2]
Sticks(req, j) == AddrOf(req, j) \in Ram \/ Rom = ByteOf(req, j)

\* How many pairs are done before one does not stick.
Done(req) == CHOOSE k \in 0 .. Pairs(req) :
                /\ \A j \in 1 .. k : Sticks(req, j)
                /\ k < Pairs(req) => ~Sticks(req, k + 1)

\* What a cell holds when the first k pairs are done.
After(m, req, k, a) ==
    LET hits == {j \in 1 .. k : AddrOf(req, j) = a}
    IN  IF a \notin Ram \/ hits = {} THEN Peek(m, a)
        ELSE ByteOf(req, CHOOSE j \in hits : \A h \in hits : h <= j)
-----------------------------------------------------------------------------
(* The promise, request by request.                                          *)

Same(m, r, frame) == [mem |-> m, regs |-> r, reply |-> frame]

Promised(req, m, r, status) ==
    CASE req[1] = FN_GET_STAT -> Same(m, r, FrameOf(req[1], TSTG))
      [] req[1] = FN_READ_MEM ->
            Same(m, r, FrameOf(req[1], [k \in 1 .. req[4] |-> Peek(m, req[3] + k - 1)]))
      [] req[1] = FN_WRITE_M ->
            LET bytes == SubSeq(req, 4, Len(req))
                sticks == \A k \in 1 .. Len(bytes) :
                             req[3] + k - 1 \in Ram \/ Rom = bytes[k]
            IN  Same(IF bytes = <<>> THEN m ELSE Written(m, req[3], bytes), r,
                     FrameOf(req[1], <<IF sticks THEN 0 ELSE 1>>))
      [] req[1] = FN_READ_RG -> Same(m, r, FrameOf(req[1], Append(r, status)))
      [] req[1] = FN_WRITE_RG -> Same(m, SubSeq(req, 3, REGS + 2), FrameOf(req[1], <<0>>))
      [] req[1] = FN_SET_BYTES ->
            Same([c \in Ram |-> After(m, req, Done(req), c)], r,
                 FrameOf(req[1], [j \in 1 .. Done(req) |->
                                    After(m, req, j - 1, AddrOf(req, j))]))
      [] OTHER -> Same(m, r, FrameOf(req[1], <<FN_ERROR>>))

\* The requests the promise is about. It leaves out RUN_TARG, which is
\* answered when the program stops; a READ_MEM without its length, or of more
\* than fits the buffer, whose size the reply to GET_STAT tells the host; and
\* a WRITE_RG that is not of the registers' length: deice.h has "reply with
\* status" for it, and the target does not do that.
WellFormed(req, size) ==
    /\ req[1] # FN_RUN_TARG
    /\ req[1] = FN_READ_MEM => Len(req) >= 4 /\ req[4] + 3 <= size
    /\ req[1] = FN_WRITE_RG => Len(req) = REGS + 3
=============================================================================
