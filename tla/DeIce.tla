------------------------------- MODULE DeIce -------------------------------
(* The debugger's target side, deice.c: it reads a frame (a function, a      *)
(* length, the data, a checksum) byte by byte from the serial line into      *)
(* combuf, does what it asks, builds the reply in the same buffer and sends  *)
(* it. A byte that does not come in time, or a checksum that does not match, *)
(* drops the frame. The host and the line are external: a frame may lose or  *)
(* change a byte, and the host may send again at any time.                   *)
EXTENDS DeIceProtocol, SequencesExt

CONSTANTS
    COMSZ,     \* the size of combuf
    Requests,  \* the frames of the host, without their checksum
    Noise,     \* what a disturbed byte is changed by
    Registers, \* the register blocks of a program that stops
    Statuses,  \* why it stopped
    FRAMES     \* bound: the frames the host sends

Byte == 0 .. (M - 1)
FN_MIN == FN_OUT
SB_LEN == 2

ASSUME ByteAssumption == M \in Nat /\ M > 24 /\ COMSZ \in 8 .. FN_ERROR
ASSUME RegsAssumption ==
    /\ REGS \in Nat /\ REGS + 4 <= COMSZ
    /\ Registers \subseteq [1 .. REGS -> Byte]
    /\ Statuses \subseteq Byte /\ FRAMES \in Nat
ASSUME HostAssumption ==
    /\ \A req \in Requests : /\ req \in Seq(Byte)
                             /\ Len(req) >= 2 /\ req[2] = Len(req) - 2
                             /\ req[1] >= FN_MIN /\ req[2] <= COMSZ
    /\ Noise \subseteq 1 .. (M - 1)
    /\ TSTG \in Seq(Byte) /\ Len(TSTG) + 3 <= COMSZ
    /\ Ram \subseteq Byte /\ Rom \in Byte

VARIABLES
    pc,       \* the byte that is read next, "serve", or "run": the program runs
    combuf,   \* combuf and what a length byte lets be stored behind it
    p, n,     \* where the next byte goes, how many are to come
    mem, deice_registers, deice_host_status,
    line,     \* the bytes on their way to the target
    request,  \* the last frame sent: "whole" into a target that waits for one,
              \* the same but "garbled" behind its length, or "unsure"
    sent,     \* the frames sent, counted for the bound
    replies   \* what has been sent since a frame was last sent or begun

vars == <<pc, combuf, p, n, mem, deice_registers, deice_host_status, line, request, sent, replies>>

Init ==
    /\ pc = "run"
    /\ combuf = [k \in 0 .. (M + 1) |-> 0]
    /\ p = 0 /\ n = 0
    /\ mem = [a \in Ram |-> 0]
    /\ deice_registers \in Registers /\ deice_host_status = 0
    /\ line = <<>> /\ request = "unsure" /\ sent = 0 /\ replies = <<>>
-----------------------------------------------------------------------------
(* The host and the line.                                                    *)

Sum(s) ==
    LET total[k \in 0 .. Len(s)] == IF k = 0 THEN 0 ELSE total[k - 1] + s[k]
    IN  total[Len(s)] % M
Framed(req) == Append(req, (M - Sum(req)) % M)

HostSends ==
    /\ line = <<>> /\ sent < FRAMES
    /\ sent' = sent + 1
    /\ \E req \in Requests :
          LET f == Framed(req)
          IN  \/ /\ line' = f
                 /\ request' = IF pc = "fn" THEN "whole" ELSE "unsure"
              \/ \E k \in DOMAIN f, d \in Noise :
                    /\ line' = [f EXCEPT ![k] = (f[k] + d) % M]
                    /\ request' = IF pc = "fn" /\ k > 2 THEN "garbled" ELSE "unsure"
              \/ \E k \in DOMAIN f : line' = RemoveAt(f, k) /\ request' = "unsure"
    /\ replies' = <<>>
    /\ UNCHANGED <<pc, combuf, p, n, mem, deice_registers, deice_host_status>>

\* Nobody reads the line while the program runs.
Overrun ==
    /\ pc = "run" /\ line # <<>>
    /\ line' = <<>> /\ request' = "unsure"
    /\ UNCHANGED <<pc, combuf, p, n, mem, deice_registers, deice_host_status, sent, replies>>
-----------------------------------------------------------------------------
(* deice_main: the bytes of a frame.                                         *)

\* deice_get_byte, with what the rest of a step makes of the byte.
Get(b) == line # <<>> /\ b = Head(line) /\ line' = Tail(line)

Stored(b) == combuf' = [combuf EXCEPT ![p] = b] /\ p' = p + 1

GetFn == \E b \in Byte :
    /\ pc = "fn" /\ Get(b)
    /\ IF b < FN_MIN
       THEN UNCHANGED <<pc, combuf, p>>
       ELSE pc' = "len" /\ Stored(b)
    /\ replies' = <<>>
    /\ UNCHANGED <<n, mem, deice_registers, deice_host_status, request, sent>>

\* Mutant: an empty frame is taken for one with data.
Bug_GetLen == \E b \in Byte :
    /\ pc = "len" /\ Get(b)
    /\ IF b > COMSZ
       THEN pc' = "fn" /\ p' = 0 /\ UNCHANGED <<combuf, n>>
       ELSE pc' = "data" /\ Stored(b) /\ n' = b
    /\ UNCHANGED <<mem, deice_registers, deice_host_status, request, sent, replies>>

GetLen == \E b \in Byte :
    /\ pc = "len" /\ Get(b)
    /\ IF b > COMSZ
       THEN pc' = "fn" /\ p' = 0 /\ UNCHANGED <<combuf, n>>
       ELSE pc' = (IF b > 0 THEN "data" ELSE "check") /\ Stored(b) /\ n' = b
    /\ UNCHANGED <<mem, deice_registers, deice_host_status, request, sent, replies>>

GetData == \E b \in Byte :
    /\ pc = "data" /\ Get(b) /\ Stored(b)
    /\ n' = n - 1
    /\ pc' = IF n > 1 THEN "data" ELSE "check"
    /\ UNCHANGED <<mem, deice_registers, deice_host_status, request, sent, replies>>

\* deice_checksum: its count is a byte.
Checksum(buf) == Sum([k \in 1 .. ((buf[1] + 2) % M) |-> buf[k - 1]])

\* Mutant: the checksum is read and not compared.
Bug_Accepts(cs) == cs \in Byte

Accepts(cs) == (cs + Checksum(combuf)) % M = 0

GetChecksum == \E b \in Byte :
    /\ pc = "check" /\ Get(b)
    /\ IF Accepts(b) THEN pc' = "serve" /\ UNCHANGED request
       ELSE pc' = "fn" /\ request' = IF request = "garbled" THEN "unsure" ELSE request
    /\ p' = 0
    /\ UNCHANGED <<combuf, n, mem, deice_registers, deice_host_status, sent, replies>>

\* Mutant: the pointer stays where the frame broke off.
Bug_Timeout ==
    /\ pc \in {"len", "data", "check"}
    /\ pc' = "fn" /\ request' = "unsure"
    /\ UNCHANGED <<combuf, p, n, mem, deice_registers, deice_host_status, line, sent, replies>>

\* deice_get_byte gives up, before or between the bytes of a late host.
Timeout ==
    /\ pc \in {"len", "data", "check"}
    /\ pc' = "fn" /\ p' = 0 /\ request' = "unsure"
    /\ UNCHANGED <<combuf, n, mem, deice_registers, deice_host_status, line, sent, replies>>
-----------------------------------------------------------------------------
(* deice_send, and the frames it is given. The reply is cut off where        *)
(* deice_put_byte gives up.                                                  *)

Put(buf, i, bytes) ==
    [k \in DOMAIN buf |-> IF k \in i .. (i + Len(bytes) - 1) THEN bytes[k - i + 1] ELSE buf[k]]

Take(buf, i, len) == [k \in 1 .. len |-> buf[i + k - 1]]

Summed(buf) == [buf EXCEPT ![buf[1] + 2] = (M - Checksum(buf)) % M]
Wire(buf) == Take(Summed(buf), 0, (buf[1] + 3) % M)

CutOff(w) == {SubSeq(w, 1, k) : k \in 0 .. Len(w)}

Send(buf) ==
    /\ combuf' = Summed(buf)
    /\ \E w \in CutOff(Wire(buf)) : replies' = Append(replies, w)

StatusFrame(buf, code) == Put(buf, 1, <<1, code>>)

RegisterFrame(fn, regs, status) ==
    Put(combuf, 0, <<fn, REGS + 1>> \o regs \o <<status>>)
-----------------------------------------------------------------------------
(* The functions. Each is one call between two frames.                       *)

Serve(fns) ==
    /\ pc = "serve" /\ combuf[0] \in fns
    /\ pc' = "fn" /\ request' = "unsure"
    /\ UNCHANGED <<p, n, line, deice_host_status, sent>>

FnGetStat ==
    /\ Serve({FN_GET_STAT})
    /\ Send(Put(combuf, 1, <<Len(TSTG)>> \o TSTG))
    /\ UNCHANGED <<mem, deice_registers>>

FnReadMem ==
    /\ Serve({FN_READ_MEM})
    /\ LET len == combuf[3]
       IN  Send(Put(combuf, 1, <<len>> \o [k \in 1 .. len |-> Peek(mem, combuf[2] + k - 1)]))
    /\ UNCHANGED <<mem, deice_registers>>

FnWriteM ==
    /\ Serve({FN_WRITE_M})
    /\ LET src == Take(combuf, 3, combuf[1] - 1)
           dest == combuf[2]
       IN  /\ mem' = Written(mem, dest, src)
           /\ \/ /\ \A k \in DOMAIN src : Peek(mem', dest + k - 1) = src[k]
                 /\ Send(StatusFrame(combuf, 0))
              \/ /\ \E k \in DOMAIN src : Peek(mem', dest + k - 1) # src[k]
                 /\ Send(StatusFrame(combuf, 1))
    /\ UNCHANGED deice_registers

FnReadRg ==
    /\ Serve({FN_READ_RG})
    /\ Send(RegisterFrame(FN_READ_RG, deice_registers, deice_host_status))
    /\ UNCHANGED <<mem, deice_registers>>

FnWriteRg ==
    /\ Serve({FN_WRITE_RG}) /\ combuf[1] = REGS + 1
    /\ deice_registers' = Take(combuf, 2, REGS)
    /\ Send(StatusFrame(combuf, 0))
    /\ UNCHANGED mem

\* A wrong length is answered, and then the call goes on: the registers are
\* taken from the buffer the answer was built in, and a second answer follows.
FnWriteRgLength ==
    /\ Serve({FN_WRITE_RG}) /\ combuf[1] # REGS + 1
    /\ LET wrong == Summed(StatusFrame(combuf, 1))
           right == StatusFrame(wrong, 0)
       IN  /\ deice_registers' = Take(wrong, 2, REGS)
           /\ combuf' = Summed(right)
           /\ \E v \in CutOff(Wire(wrong)), w \in CutOff(Wire(right)) :
                 replies' = replies \o <<v, w>>
    /\ UNCHANGED mem

\* Mutant: the old byte is read after the new one is written.
Bug_SetByte(s, k) ==
    LET i == 2 + SB_LEN * (k - 1)
        addr == s.buf[i]
        d == s.buf[i + 1]
        m == Poke(s.mem, addr, d)
    IN  IF s.out THEN s
        ELSE IF Peek(m, addr) # d THEN [s EXCEPT !.mem = m, !.out = TRUE]
        ELSE [buf |-> [s.buf EXCEPT ![2 + s.ll] = Peek(m, addr)],
              mem |-> m, ll |-> s.ll + 1, out |-> FALSE]

\* One address and byte of SET_BYTES: the old byte goes over the request.
SetByte(s, k) ==
    LET i == 2 + SB_LEN * (k - 1)
        addr == s.buf[i]
        d == s.buf[i + 1]
        m == Poke(s.mem, addr, d)
    IN  IF s.out THEN s
        ELSE IF Peek(m, addr) # d THEN [s EXCEPT !.mem = m, !.out = TRUE]
        ELSE [buf |-> [s.buf EXCEPT ![2 + s.ll] = Peek(s.mem, addr)],
              mem |-> m, ll |-> s.ll + 1, out |-> FALSE]

FnSetBytes ==
    /\ Serve({FN_SET_BYTES})
    /\ LET len == combuf[1] \div SB_LEN
           after[k \in 0 .. len] ==
               IF k = 0 THEN [buf |-> combuf, mem |-> mem, ll |-> 0, out |-> FALSE]
               ELSE SetByte(after[k - 1], k)
           s == after[len]
       IN  mem' = s.mem /\ Send([s.buf EXCEPT ![1] = s.ll])
    /\ UNCHANGED deice_registers

FnError ==
    /\ Serve({FN_IN, FN_OUT})
    /\ Send(StatusFrame(combuf, FN_ERROR))
    /\ UNCHANGED <<mem, deice_registers>>

FnRunTarg ==
    /\ pc = "serve" /\ combuf[0] = FN_RUN_TARG
    /\ pc' = "run" /\ request' = "unsure"
    /\ UNCHANGED <<combuf, p, n, mem, deice_registers, deice_host_status, line, sent, replies>>

\* deice_enter: the program stops, which answers the last RUN_TARG.
Enter ==
    /\ pc = "run"
    /\ \E regs \in Registers, status \in Statuses :
          /\ deice_registers' = regs /\ deice_host_status' = status
          /\ combuf' = Summed(RegisterFrame(FN_RUN_TARG, regs, status))
          /\ \E w \in CutOff(Wire(RegisterFrame(FN_RUN_TARG, regs, status))) : replies' = <<w>>
    /\ pc' = "fn"
    /\ UNCHANGED <<p, n, mem, line, request, sent>>
-----------------------------------------------------------------------------
Target ==
    \/ GetFn \/ GetLen \/ GetData \/ GetChecksum \/ Timeout
    \/ FnGetStat \/ FnReadMem \/ FnWriteM \/ FnReadRg \/ FnWriteRg \/ FnWriteRgLength
    \/ FnSetBytes \/ FnError \/ FnRunTarg

Next == Target \/ HostSends \/ Overrun \/ Enter

Spec == Init /\ [][Next]_vars
-----------------------------------------------------------------------------
\* Every variable stays in its type, and a frame that is being read fills the
\* buffer from its start: whatever was lost before, one of at most COMSZ bytes
\* is stored inside combuf. A longer one is not refused: the check is of the
\* data's length alone, so that the last two bytes may go behind combuf.
TypeOK ==
    /\ pc \in {"fn", "len", "data", "check", "serve", "run"}
    /\ combuf \in [0 .. (M + 1) -> Byte] /\ mem \in [Ram -> Byte]
    /\ deice_registers \in [1 .. REGS -> Byte] /\ deice_host_status \in Byte
    /\ line \in Seq(Byte) /\ request \in {"whole", "garbled", "unsure"}
    /\ n \in 0 .. COMSZ /\ p \in 0 .. (COMSZ + 2)
    /\ pc \in {"fn", "serve", "run"} => p = 0
    /\ pc \in {"data", "check"} => p + n = combuf[1] + 2
    /\ pc = "data" => n > 0
    /\ pc = "data" /\ combuf[1] + 2 <= COMSZ => p < COMSZ

\* deice.h: "reply with data", "reply with status", "truncate if error". What
\* a function does and answers is what the request it was given asks for, for
\* every well-formed frame that is accepted, by whatever bytes it came about
\* and whatever the buffer held before: building the reply in the buffer of
\* the request destroys no byte that is still needed, and the reply's checksum
\* fits. (Not well-formed, and not promised, are a READ_MEM that is too short
\* or asks for too much, and a WRITE_RG of a wrong length: FnWriteRgLength.)
PromiseKept ==
    [][LET req == Take(combuf, 0, combuf[1] + 2)
           want == Promised(req, mem, deice_registers, deice_host_status)
       IN  pc = "serve" /\ pc' = "fn" /\ WellFormed(req, COMSZ) =>
             /\ mem' = want.mem /\ deice_registers' = want.regs
             /\ \E w \in CutOff(Framed(want.reply)) : replies' = <<w>>]_vars

\* A frame whose function and length came through is never acted upon if one
\* of its other bytes was changed on the line: the checksum sees it.
GarbledRefused == pc = "serve" => request # "garbled"

\* A frame that reaches a waiting target whole is acted upon, unless the host
\* is so slow that it is dropped: whatever frames went before, refused, cut
\* short or run together, when the last byte is read nothing of it is left to
\* be waited for and nothing older has swallowed it.
WholeServed == request = "whole" /\ line = <<>> => pc = "serve"
=============================================================================
