--------------------------- MODULE SessionProofs ---------------------------
(***************************************************************************)
(* Proofs about modules LineInput, Session and Numbers: for buffers of     *)
(* every size, every set of characters, any number of handlers, and words  *)
(* and strings of every length.                                            *)
(*                                                                         *)
(* The provers cannot use the library's induction theorems, whose          *)
(* parameter is an operator.  What a recursive function computes is proved *)
(* by induction over a set that is named: a set of numbers that is not     *)
(* empty has a least one (lemma Least, from WFMin).                        *)
(***************************************************************************)
EXTENDS Session, SequenceTheorems, WellFoundedInduction, TLAPS

-----------------------------------------------------------------------------
(* The input of a line.                                                    *)

(* Only characters of the caller's range are kept, and the size that is    *)
(* returned is the index.                                                  *)
KeptPrintable == \A i \in 0..ix-1 : ptr[i] \in Printable
Ended == pc = "returned" => size = ix /\ ptr[ix] = RET
Echo == ~stray => screen = Kept

(* The types, apart from that of stray.                                    *)
LineType ==
  /\ ix \in 0..maxindex
  /\ ptr \in [0..maxindex -> Bytes]
  /\ pc \in {"read", "kill", "returned", "escaped"}
  /\ size \in -1..maxindex
  /\ queue \in 0..Params
  /\ screen \in Seq(Bytes)

LineInv == LineType /\ stray \in BOOLEAN /\ KeptPrintable /\ Ended /\ Echo

LEMMA Limits0 ==
  /\ maxindex \in Nat /\ 0 \in 0..maxindex /\ Params \in Nat /\ Params > 0
  /\ Printable \cup Beyond \cup Lead \subseteq Bytes
  /\ RET \in Bytes /\ Unwritten \in Bytes
  BY MaxAssumption, ParamsAssumption DEF Bytes

(* Two sequences are one if they agree.                                    *)
LEMMA Alike ==
  ASSUME NEW S, NEW s \in Seq(S), NEW t \in Seq(S), Len(s) = Len(t),
         \A i \in 1..Len(s) : s[i] = t[i]
  PROVE  s = t
  BY SeqEqual

(* A sequence without its last element.                                    *)
LEMMA Popped ==
  ASSUME NEW S, NEW s \in Seq(S), s # <<>>
  PROVE  /\ SubSeq(s, 1, Len(s) - 1) \in Seq(S) /\ Len(SubSeq(s, 1, Len(s) - 1)) = Len(s) - 1
         /\ \A i \in 1..Len(s)-1 : SubSeq(s, 1, Len(s) - 1)[i] = s[i]
<1>1. 1 \in Int /\ Len(s) - 1 \in Int /\ Len(s) > 0 /\ \A i \in 1..Len(s)-1 : s[i] \in S
  OBVIOUS
<1>2. Len(s) - 1 - 1 + 1 = Len(s) - 1 /\ \A i \in 1..Len(s)-1 : 1 + i - 1 = i
  OBVIOUS
<1> QED BY <1>1, <1>2, SubSeqProperties, SMTT(30)

(* The first n characters of a buffer, as a sequence.                      *)
First(p, n) == [i \in 1..n |-> p[i-1]]
Buffers == [0..maxindex -> Bytes]

LEMMA FirstSeq ==
  ASSUME NEW p \in Buffers, NEW n \in 0..maxindex
  PROVE  /\ First(p, n) \in Seq(Bytes) /\ Len(First(p, n)) = n
         /\ \A i \in 1..n : First(p, n)[i] = p[i-1]
<1>1. n \in Nat /\ \A i \in 1..n : p[i-1] \in Bytes
  BY Limits0 DEF Buffers
<1> QED BY <1>1 DEF First

(* It depends on the buffer below n only.                                  *)
LEMMA FirstSame ==
  ASSUME NEW p \in Buffers, NEW q \in Buffers, NEW n \in 0..maxindex,
         \A i \in 0..n-1 : p[i] = q[i]
  PROVE  First(p, n) = First(q, n)
<1>1. n \in Nat /\ \A i \in 1..n : i-1 \in 0..n-1
  BY Limits0
<1> QED BY <1>1 DEF First

LEMMA FirstGrows ==
  ASSUME NEW p \in Buffers, NEW q \in Buffers, NEW n \in 0..maxindex, n + 1 \in 0..maxindex,
         \A i \in 0..n-1 : p[i] = q[i]
  PROVE  First(q, n + 1) = Append(First(p, n), q[n])
<1> DEFINE s == First(p, n)
           t == First(q, n + 1)
           u == Append(s, q[n])
<1>1. n \in Nat /\ q[n] \in Bytes
  BY Limits0 DEF Buffers
<1>2. /\ s \in Seq(Bytes) /\ Len(s) = n /\ \A i \in 1..n : s[i] = p[i-1]
      /\ t \in Seq(Bytes) /\ Len(t) = n + 1 /\ \A i \in 1..n+1 : t[i] = q[i-1]
  BY FirstSeq
<1> HIDE DEF s, t
<1>3. /\ u \in Seq(Bytes) /\ Len(u) = n + 1 /\ \A i \in 1..n : u[i] = s[i]
      /\ u[n + 1] = q[n]
  BY <1>1, <1>2
<1> HIDE DEF u
<1>4. \A i \in 1..n+1 : t[i] = u[i]
  <2> TAKE i \in 1..n+1
  <2>1. CASE i = n + 1
    BY <2>1, <1>1, <1>2, <1>3
  <2>2. CASE i \in 1..n
    <3>1. i - 1 \in 0..n-1
      BY <2>2, <1>1
    <3> QED BY <3>1, <2>2, <1>1, <1>2, <1>3
  <2> QED BY <2>1, <2>2, <1>1
<1>5. t = u
  BY <1>1, <1>2, <1>3, <1>4, Alike
<1> QED BY <1>5 DEF s, t, u

LEMMA FirstShrinks ==
  ASSUME NEW p \in Buffers, NEW n \in 0..maxindex, n > 0
  PROVE  First(p, n) # <<>> /\ First(p, n-1) = SubSeq(First(p, n), 1, Len(First(p, n)) - 1)
<1> DEFINE s == First(p, n)
           t == First(p, n - 1)
           u == SubSeq(s, 1, n - 1)
<1>1. n \in Nat /\ n - 1 \in 0..maxindex
  BY Limits0
<1>2. /\ s \in Seq(Bytes) /\ Len(s) = n /\ \A i \in 1..n : s[i] = p[i-1]
      /\ t \in Seq(Bytes) /\ Len(t) = n - 1 /\ \A i \in 1..n-1 : t[i] = p[i-1]
  BY <1>1, FirstSeq
<1> HIDE DEF s, t
<1>5. s # <<>>
  BY <1>1, <1>2
<1>3. u \in Seq(Bytes) /\ Len(u) = n - 1 /\ \A i \in 1..n-1 : u[i] = s[i]
  BY <1>2, <1>5, Popped
<1> HIDE DEF u
<1>4. t = u
  <2>1. \A i \in 1..n-1 : t[i] = u[i]
    BY <1>1, <1>2, <1>3
  <2> QED BY <2>1, <1>1, <1>2, <1>3, Alike
<1> QED BY <1>2, <1>4, <1>5 DEF s, t, u

LEMMA FirstEmpty == ASSUME NEW p \in Buffers PROVE First(p, 0) = <<>>
  BY FirstSeq, Limits0

LEMMA KeptIs == Kept = First(ptr, ix) /\ Kept' = First(ptr', ix')
  BY DEF Kept, First

LEMMA LineInit == Init => LineInv
<1> SUFFICES ASSUME Init PROVE LineInv
  OBVIOUS
<1>1. LineType
  <2>1. screen \in Seq(Bytes)
    BY DEF Init
  <2> QED BY <2>1, Limits0 DEF Init, LineType
<1>2. Kept = <<>>
  BY <1>1, FirstEmpty, KeptIs DEF Init, LineType, Buffers
<1>3. stray \in BOOLEAN /\ Echo
  BY <1>2 DEF Init, Echo
<1>4. KeptPrintable /\ Ended
  BY DEF Init, KeptPrintable, Ended
<1> QED BY <1>1, <1>3, <1>4 DEF LineInv

-----------------------------------------------------------------------------
(* Steps.                                                                  *)

(* One character of the buffer is written, at the index.                   *)
LEMMA Written ==
  ASSUME LineType, NEW c \in Bytes, ptr' = [ptr EXCEPT ![ix] = c]
  PROVE  /\ ptr' \in Buffers /\ ptr'[ix] = c /\ \A i \in 0..ix-1 : ptr'[i] = ptr[i]
         /\ First(ptr', ix) = First(ptr, ix)
<1>1. ptr \in Buffers /\ ix \in 0..maxindex /\ ix \in Nat
  BY Limits0 DEF LineType, Buffers
<1>2. ptr' \in Buffers /\ ptr'[ix] = c /\ \A i \in 0..ix-1 : ptr'[i] = ptr[i]
  BY <1>1 DEF Buffers
<1>3. First(ptr', ix) = First(ptr, ix)
  BY <1>1, <1>2, FirstSame
<1> QED BY <1>2, <1>3

(* A character goes from the screen, as one goes from the line.            *)
LEMMA Unshown ==
  ASSUME LineType, Echo, Unshow, ix > 0
  PROVE  /\ screen' \in Seq(Bytes)
         /\ ~stray => screen' = First(ptr, ix - 1)
<1>1. screen' \in Seq(Bytes)
  <2>1. screen \in Seq(Bytes)
    BY DEF LineType
  <2>2. CASE screen = <<>>
    BY <2>2 DEF Unshow
  <2>3. CASE screen # <<>>
    BY <2>1, <2>3, Popped DEF Unshow
  <2> QED BY <2>2, <2>3
<1>2. ASSUME ~stray PROVE screen' = First(ptr, ix - 1)
  <2>1. screen = First(ptr, ix)
    BY <1>2, KeptIs DEF Echo
  <2>2. ptr \in Buffers /\ ix \in 0..maxindex
    BY DEF LineType, Buffers
  <2> QED BY <2>1, <2>2, FirstShrinks DEF Unshow
<1> QED BY <1>1, <1>2

LEMMA StrayKept == stray \in BOOLEAN /\ [Next]_vars => stray' \in BOOLEAN
  BY DEF Next, Edited, vars, Escaped, ToVdu, Delete, Kill, KillOne, Return, StorePrintable,
         StoreBeyond, StoreLead, StoreBell, Again

LEMMA LineNext == LineInv /\ [Next]_vars => LineInv'
<1> SUFFICES ASSUME LineInv, [Next]_vars PROVE LineInv'
  OBVIOUS
<1>s. stray' \in BOOLEAN
  BY StrayKept DEF LineInv
<1> SUFFICES LineType' /\ KeptPrintable' /\ Ended' /\ Echo'
  BY <1>s DEF LineInv
<1>a. LineType /\ KeptPrintable /\ Ended /\ Echo
  BY DEF LineInv
<1>b. /\ ix \in 0..maxindex /\ ix \in Nat /\ ptr \in Buffers /\ screen \in Seq(Bytes)
      /\ queue \in 0..Params /\ size \in -1..maxindex
      /\ maxindex \in Nat /\ Params \in Nat /\ Params > 0
  BY <1>a, Limits0 DEF LineType, Buffers
<1>c. ASSUME UNCHANGED <<ptr, ix, screen, stray>>, pc' # "returned",
             pc' \in {"read", "kill", "escaped"}, size' \in -1..maxindex, queue' \in 0..Params
      PROVE  LineType' /\ KeptPrintable' /\ Ended' /\ Echo'
  BY <1>c, <1>a, KeptIs DEF LineType, KeptPrintable, Ended, Echo
<1>d. ASSUME ix > 0, ix' = ix - 1, Unshow, UNCHANGED <<ptr, pc, size, queue, stray>>, pc # "returned"
      PROVE  LineType' /\ KeptPrintable' /\ Ended' /\ Echo'
  <2>1. screen' \in Seq(Bytes) /\ (~stray => screen' = First(ptr, ix - 1))
    BY <1>d, <1>a, Unshown
  <2>2. LineType'
    BY <1>d, <2>1, <1>a, <1>b DEF LineType
  <2>3. Echo'
    BY <1>d, <2>1, KeptIs DEF Echo
  <2>4. KeptPrintable'
    BY <1>d, <1>a, <1>b DEF KeptPrintable
  <2>5. Ended'
    BY <1>d DEF Ended
  <2> QED BY <2>2, <2>3, <2>4, <2>5
<1>e. ASSUME NEW c \in Bytes, ptr' = [ptr EXCEPT ![ix] = c], UNCHANGED <<ix, pc, size>>, pc = "read",
             queue' \in 0..Params,
             \/ screen' = screen /\ stray' = stray
             \/ screen' = <<>> /\ stray'
      PROVE  LineType' /\ KeptPrintable' /\ Ended' /\ Echo'
  <2>1. /\ ptr' \in Buffers /\ \A i \in 0..ix-1 : ptr'[i] = ptr[i]
        /\ First(ptr', ix) = First(ptr, ix)
    BY <1>e, <1>a, Written
  <2>2. screen' \in Seq(Bytes)
    <3>1. screen' \in {screen, <<>>}
      BY <1>e
    <3>2. <<>> \in Seq(Bytes)
      OBVIOUS
    <3> QED BY <3>1, <3>2, <1>b
  <2>3. LineType'
    BY <1>e, <2>1, <2>2, <1>a DEF LineType, Buffers
  <2>4. KeptPrintable' /\ Ended'
    BY <1>e, <2>1, <1>a, <1>b DEF KeptPrintable, Ended
  <2>5. Echo'
    BY <1>e, <2>1, <1>a, KeptIs DEF Echo
  <2> QED BY <2>3, <2>4, <2>5
<1>1. CASE Escaped
  BY <1>1, <1>b, <1>c DEF Escaped
<1>2. ASSUME NEW c \in Chars, ToVdu(c) PROVE LineType' /\ KeptPrintable' /\ Ended' /\ Echo'
  BY <1>2, <1>b, <1>c DEF ToVdu
<1>3. CASE Delete
  <2>1. CASE ix > 0
    BY <2>1, <1>3, <1>d DEF Delete
  <2>2. CASE ~(ix > 0)
    BY <2>2, <1>3, <1>b, <1>c DEF Delete
  <2> QED BY <2>1, <2>2
<1>4. CASE Kill
  BY <1>4, <1>b, <1>c DEF Kill
<1>5. CASE KillOne
  <2>1. CASE ix > 0
    BY <2>1, <1>5, <1>d DEF KillOne
  <2>2. CASE ~(ix > 0)
    BY <2>2, <1>5, <1>b, <1>c DEF KillOne
  <2> QED BY <2>1, <2>2
<1>6. CASE Return
  <2>1. /\ ptr' \in Buffers /\ ptr'[ix] = RET /\ \A i \in 0..ix-1 : ptr'[i] = ptr[i]
        /\ First(ptr', ix) = First(ptr, ix)
    BY <1>6, <1>a, Written, Limits0 DEF Return
  <2>2. size' = ix /\ ix' = ix /\ pc' = "returned" /\ UNCHANGED <<queue, screen, stray>>
    BY <1>6 DEF Return
  <2>3. LineType'
    BY <2>1, <2>2, <1>a, <1>b DEF LineType, Buffers
  <2>4. KeptPrintable' /\ Ended'
    BY <2>1, <2>2, <1>a, <1>b DEF KeptPrintable, Ended
  <2>5. Echo'
    BY <2>1, <2>2, <1>a, KeptIs DEF Echo
  <2> QED BY <2>3, <2>4, <2>5
<1>7. ASSUME NEW c \in Printable, StorePrintable(c)
      PROVE LineType' /\ KeptPrintable' /\ Ended' /\ Echo'
  <2>1. c \in Bytes /\ ptr' = [ptr EXCEPT ![ix] = c] /\ ix' = ix + 1 /\ ix < maxindex /\ pc = "read"
        /\ UNCHANGED <<pc, size, queue, stray>> /\ Show(c)
    BY <1>7, Limits0 DEF StorePrintable, Room
  <2>2. ptr' \in Buffers /\ ptr'[ix] = c /\ \A i \in 0..ix-1 : ptr'[i] = ptr[i]
    BY <2>1, <1>a, Written
  <2>3. First(ptr', ix + 1) = Append(First(ptr, ix), c)
    <3>1. ix + 1 \in 0..maxindex
      BY <2>1, <1>b
    <3> QED BY <3>1, <2>2, <1>b, FirstGrows
  <2>4. screen' \in Seq(Bytes)
    BY <2>1, <1>b DEF Show
  <2>5. LineType'
    BY <2>1, <2>2, <2>4, <1>a, <1>b DEF LineType, Buffers
  <2>6. Echo'
    <3>1. ~stray => screen' = Append(First(ptr, ix), c)
      BY <2>1, <1>a, KeptIs DEF Echo, Show
    <3> QED BY <3>1, <2>1, <2>3, KeptIs DEF Echo
  <2>7. KeptPrintable' /\ Ended'
    BY <2>1, <2>2, <1>a, <1>b DEF KeptPrintable, Ended
  <2> QED BY <2>5, <2>6, <2>7
<1>8. ASSUME NEW c \in Beyond, StoreBeyond(c)
      PROVE LineType' /\ KeptPrintable' /\ Ended' /\ Echo'
  BY <1>8, <1>b, <1>e, Limits0 DEF StoreBeyond
<1>9. ASSUME NEW c \in Lead, StoreLead(c)
      PROVE LineType' /\ KeptPrintable' /\ Ended' /\ Echo'
  <2>1. queue' = Params /\ Params \in 0..Params
    BY <1>9, <1>b DEF StoreLead
  <2> QED BY <2>1, <1>9, <1>e, Limits0 DEF StoreLead
<1>10. ASSUME NEW c \in Printable \cup Beyond \cup Lead, StoreBell(c)
      PROVE LineType' /\ KeptPrintable' /\ Ended' /\ Echo'
  BY <1>10, <1>b, <1>e, Limits0 DEF StoreBell
<1>11. CASE Again
  <2>1. pc' = "read" /\ ix' = 0 /\ size' = 0 /\ screen' = <<>> /\ queue' \in {queue, 0} /\ ptr' = ptr
    BY <1>11 DEF Again
  <2>2. screen' \in Seq(Bytes)
    BY <2>1
  <2>3. LineType'
    BY <2>1, <2>2, <1>a, <1>b DEF LineType
  <2>4. Echo'
    BY <2>1, <1>b, FirstEmpty, KeptIs DEF Echo
  <2> QED BY <2>1, <2>3, <2>4 DEF KeptPrintable, Ended
<1>12. CASE UNCHANGED vars
  BY <1>12, <1>a, KeptIs DEF vars, LineType, KeptPrintable, Ended, Echo
<1> QED BY <1>1, <1>2, <1>3, <1>4, <1>5, <1>6, <1>7, <1>8, <1>9, <1>10, <1>11, <1>12 DEF Next, Edited

LEMMA LineInputInv == Spec => []LineInv
  BY LineInit, LineNext, PTL DEF Spec

LEMMA LineInvImplies == LineInv => TypeOK /\ EchoIsLine
<1> SUFFICES ASSUME LineInv PROVE TypeOK /\ EchoIsLine
  OBVIOUS
<1>1. LineType /\ stray \in BOOLEAN
  BY DEF LineInv
<1>2. TypeOK
  BY <1>1 DEF LineType, TypeOK
<1>3. EchoIsLine
  BY DEF LineInv, EchoIsLine, Echo, Ended, KeptPrintable
<1> QED BY <1>2, <1>3

(* The types of the line, with an index that may be that of the byte       *)
(* behind the caller's buffer.                                             *)
LEMMA LineTypes == Spec => []TypeOK
  BY LineInputInv, LineInvImplies, PTL

(* What the user sees is what is returned, with RETURN at the size and     *)
(* only characters of the caller's range below it: for every size of       *)
(* buffer and set of characters.                                           *)
THEOREM EchoCorrect == Spec => []EchoIsLine
  BY LineInputInv, LineInvImplies, PTL

-----------------------------------------------------------------------------
(* OSWORD 0 implements LineEdit.                                           *)

LEMMA EditInit == Init => Edit!Init
<1> SUFFICES ASSUME Init PROVE Edit!Init
  OBVIOUS
<1>1. Kept = <<>>
  BY Limits0, LineInit, FirstEmpty, KeptIs DEF Init, LineInv, LineType, Buffers
<1> QED BY <1>1 DEF Init, Edit!Init, Returned

LEMMA EditStep == LineInv /\ [Next]_vars => [Edit!Next]_(Edit!vars)
<1> SUFFICES ASSUME LineInv, [Next]_vars PROVE [Edit!Next]_(Edit!vars)
  OBVIOUS
<1>a. LineType /\ KeptPrintable /\ Ended /\ ix \in 0..maxindex /\ ix \in Nat /\ ptr \in Buffers
  BY Limits0 DEF LineInv, LineType, Buffers
<1>b. Kept = First(ptr, ix) /\ Kept' = First(ptr', ix') /\ Len(Kept) = ix
  BY <1>a, KeptIs, FirstSeq
<1>c. ASSUME UNCHANGED <<ptr, ix, size>>, pc = "read", pc' = "read" PROVE UNCHANGED Edit!vars
  BY <1>c, <1>b DEF Edit!vars, Returned
<1>d. ASSUME NEW c \in Bytes, ptr' = [ptr EXCEPT ![ix] = c], UNCHANGED <<ix, size>>, pc = "read", pc' = "read"
      PROVE UNCHANGED Edit!vars
  <2>1. Kept' = Kept
    BY <1>d, <1>a, <1>b, Written
  <2> QED BY <2>1, <1>d DEF Edit!vars, Returned
<1>1. CASE Escaped
  <2>1. pc = "read" /\ pc' = "escaped" /\ Kept' = Kept
    BY <1>1, <1>b DEF Escaped
  <2>2. Edit!Escape
    BY <2>1 DEF Edit!Escape, Returned
  <2> QED BY <2>2 DEF Edit!Next
<1>2. ASSUME NEW c \in Chars, ToVdu(c) PROVE [Edit!Next]_(Edit!vars)
  BY <1>2, <1>c DEF ToVdu
<1>3. CASE Delete
  <2>1. CASE ix > 0
    <3>1. Kept # <<>> /\ Kept' = SubSeq(Kept, 1, Len(Kept) - 1) /\ pc = "read" /\ pc' = pc
      BY <2>1, <1>3, <1>a, <1>b, FirstShrinks DEF Delete
    <3>2. Edit!Delete
      BY <3>1 DEF Edit!Delete, Returned
    <3> QED BY <3>2 DEF Edit!Next
  <2>2. CASE ~(ix > 0)
    BY <2>2, <1>3, <1>c DEF Delete
  <2> QED BY <2>1, <2>2
<1>4. CASE Kill
  <2>1. pc = "read" /\ pc' = "kill"
    BY <1>4 DEF Kill
  <2>2. Edit!Kill
    BY <2>1 DEF Edit!Kill, Returned
  <2> QED BY <2>2 DEF Edit!Next
<1>5. CASE KillOne
  <2>1. CASE ix > 0
    BY <2>1, <1>5 DEF KillOne, Edit!vars, Returned
  <2>2. CASE ~(ix > 0)
    <3>1. Kept' = <<>> /\ pc = "kill" /\ pc' = "read"
      BY <2>2, <1>5, <1>a, <1>b, FirstEmpty DEF KillOne
    <3> QED BY <3>1 DEF Edit!vars, Returned
  <2> QED BY <2>1, <2>2
<1>6. CASE Return
  <2>1. pc = "read" /\ pc' = "returned" /\ size' = ix /\ ix' = ix /\ First(ptr', ix) = First(ptr, ix)
    BY <1>6, <1>a, Written, Limits0 DEF Return
  <2>2. Kept' = Kept /\ Returned' = Kept
    BY <2>1, <1>b DEF Returned, First
  <2>3. Edit!Return
    BY <2>1, <2>2 DEF Edit!Return, Returned
  <2> QED BY <2>3 DEF Edit!Next
<1>7. ASSUME NEW c \in Printable, StorePrintable(c) PROVE [Edit!Next]_(Edit!vars)
  <2>1. c \in Bytes /\ ptr' = [ptr EXCEPT ![ix] = c] /\ ix' = ix + 1 /\ ix < maxindex
        /\ pc = "read" /\ pc' = pc /\ UNCHANGED size
    BY <1>7, Limits0 DEF StorePrintable, Room
  <2>2. ptr' \in Buffers /\ ptr'[ix] = c /\ \A i \in 0..ix-1 : ptr'[i] = ptr[i]
    BY <2>1, <1>a, Written
  <2>3. Kept' = Append(Kept, c)
    <3>1. ix + 1 \in 0..maxindex
      BY <2>1, <1>a, Limits0
    <3>2. First(ptr', ix + 1) = Append(First(ptr, ix), ptr'[ix])
      BY <3>1, <2>2, <1>a, FirstGrows
    <3> QED BY <3>2, <2>1, <2>2, <1>b
  <2>4. Edit!Add(c)
    BY <2>1, <2>3, <1>b DEF Edit!Add, Returned
  <2> QED BY <2>4 DEF Edit!Next
<1>8. ASSUME NEW c \in Beyond, StoreBeyond(c) PROVE [Edit!Next]_(Edit!vars)
  BY <1>8, <1>d, Limits0 DEF StoreBeyond
<1>9. ASSUME NEW c \in Lead, StoreLead(c) PROVE [Edit!Next]_(Edit!vars)
  BY <1>9, <1>d, Limits0 DEF StoreLead
<1>10. ASSUME NEW c \in Printable \cup Beyond \cup Lead, StoreBell(c)
       PROVE [Edit!Next]_(Edit!vars)
  BY <1>10, <1>d, Limits0 DEF StoreBell
<1>11. CASE Again
  <2>1. pc \in {"returned", "escaped"} /\ pc' = "read" /\ ix' = 0 /\ ptr' = ptr
    BY <1>11 DEF Again
  <2>2. Kept' = <<>>
    BY <2>1, <1>a, <1>b, FirstEmpty
  <2>3. Edit!Again
    BY <2>1, <2>2 DEF Edit!Again, Returned
  <2> QED BY <2>3 DEF Edit!Next
<1>12. CASE UNCHANGED vars
  BY <1>12, <1>b DEF vars, Edit!vars, Returned
<1> QED BY <1>1, <1>2, <1>3, <1>4, <1>5, <1>6, <1>7, <1>8, <1>9, <1>10, <1>11, <1>12 DEF Next, Edited

(* OSWORD 0 edits a line as LineEdit says, and returns exactly that line,  *)
(* for every size of buffer and every set of characters.                   *)
THEOREM LineInputImplementsEdit == Spec => RefinesEdit
  BY LineInputInv, EditInit, EditStep, PTL DEF Spec, Edit!Spec, RefinesEdit

-----------------------------------------------------------------------------
(* The supervisor's OSWORD 0 is that of module LineInput.                  *)

LEMMA SessionSteps == [SNext]_sessionvars => [Next]_vars
<1> SUFFICES ASSUME [SNext]_sessionvars PROVE [Next]_vars
  OBVIOUS
<1>1. CASE at = "input" /\ Edited
  BY <1>1 DEF Next
<1>2. CASE TakeLine \/ TakeEscape
  BY <1>2 DEF TakeLine, TakeEscape, Next
<1>3. CASE \/ \E h \in Changed : Install(h)
           \/ PutBack \/ Finish \/ CallError \/ CallExit \/ Reset
           \/ \E base \in Bases, flags \in FlagSets, s \in Strings, max \in Limits, x \in BOOLEAN :
                ReadNumber(base, flags, s, max, x)
  <2>1. UNCHANGED vars
    BY <1>3 DEF Install, PutBack, ReadNumber, Finish, CallError, CallExit, Reset
  <2> QED BY <2>1
<1>4. CASE UNCHANGED sessionvars
  BY <1>4 DEF sessionvars
<1> QED BY <1>1, <1>2, <1>3, <1>4 DEF SNext

(* The supervisor reads its lines as OSWORD 0 does: what is proved of that *)
(* holds for the supervisor.                                               *)
THEOREM SessionReadsLines == SSpec => Spec
<1>1. SInit => Init
  BY DEF SInit
<1> QED BY <1>1, SessionSteps, PTL DEF SSpec, Spec

(* The same for the supervisor's lines, whatever it does between them.     *)
THEOREM SessionEchoCorrect == SSpec => []EchoIsLine
  BY SessionReadsLines, EchoCorrect, PTL

(* The supervisor's lines are lines that LineEdit gives.                   *)
THEOREM SessionImplementsEdit == SSpec => RefinesEdit
  BY SessionReadsLines, LineInputImplementsEdit, PTL

-----------------------------------------------------------------------------
(* Handlers.                                                               *)

Owners == {"mos", "null", "program", "ended"}

(* No entry with a default is ever null, in the table or kept; such an     *)
(* entry is the program's only if something is kept for it, and what was   *)
(* kept first is not the program's.                                        *)
Restorable(t, k) ==
  \A h \in Defaulted :
    /\ t[h] # "null"
    /\ \A i \in 1..Len(k) : k[i][1] = h => k[i][2] # "null"
    /\ (\A i \in 1..Len(k) : k[i][1] # h) => t[h] # "program"
    /\ \A i \in 1..Len(k) :
         k[i][1] = h /\ (\A j \in 1..i-1 : k[j][1] # h) => k[i][2] # "program"

HandlersType ==
  /\ at \in {"input", "program", "error", "exit", "return", "astray"}
  /\ table \in [Numbers17 -> Owners]
  /\ kept \in Seq(Numbers17 \X Owners) /\ Len(kept) <= MaxKept
  /\ ra \in {"mos", "ended"}

(* At the prompt nothing is kept, so that the table holds no program.      *)
Settled == at = "input" => kept = <<>>

SessionInv == HandlersType /\ Restorable(table, kept) /\ Settled

LEMMA DefaultedNumbers == Defaulted \subseteq Numbers17 /\ EXIT \in Defaulted /\ ERROR \in Defaulted
  BY HandlersAssumption DEF Numbers17

(* A program replaces a handler and keeps the old one.                     *)
LEMMA InstallRestorable ==
  ASSUME NEW t \in [Numbers17 -> Owners], NEW k \in Seq(Numbers17 \X Owners), Restorable(t, k),
         NEW h \in Numbers17
  PROVE  Restorable([t EXCEPT ![h] = "program"], Append(k, <<h, t[h]>>))
<1> DEFINE u == [t EXCEPT ![h] = "program"]
           m == Append(k, <<h, t[h]>>)
           n == Len(k)
<1>1. /\ n \in Nat /\ Len(m) = n + 1 /\ m[n + 1] = <<h, t[h]>>
      /\ \A i \in 1..n : m[i] = k[i]
      /\ \A g \in Numbers17 : u[g] = IF g = h THEN "program" ELSE t[g]
  OBVIOUS
<1> HIDE DEF u, m
<1> SUFFICES ASSUME NEW g \in Defaulted
             PROVE  /\ u[g] # "null"
                    /\ \A i \in 1..n+1 : m[i][1] = g => m[i][2] # "null"
                    /\ (\A i \in 1..n+1 : m[i][1] # g) => u[g] # "program"
                    /\ \A i \in 1..n+1 :
                         m[i][1] = g /\ (\A j \in 1..i-1 : m[j][1] # g) => m[i][2] # "program"
  BY <1>1 DEF Restorable, u, m
<1>2. g \in Numbers17
  BY DefaultedNumbers
<1>3. /\ t[g] # "null"
      /\ \A i \in 1..n : k[i][1] = g => k[i][2] # "null"
      /\ (\A i \in 1..n : k[i][1] # g) => t[g] # "program"
      /\ \A i \in 1..n : k[i][1] = g /\ (\A j \in 1..i-1 : k[j][1] # g) => k[i][2] # "program"
  BY DEF Restorable
<1>4. u[g] # "null"
  BY <1>1, <1>2, <1>3
<1>5. ASSUME NEW i \in 1..n+1, m[i][1] = g
      PROVE  m[i][2] # "null" /\ ((\A j \in 1..i-1 : m[j][1] # g) => m[i][2] # "program")
  <2>1. CASE i = n + 1
    <3>1. g = h /\ m[i][2] = t[g]
      BY <2>1, <1>1, <1>5
    <3>2. ASSUME \A j \in 1..i-1 : m[j][1] # g PROVE t[g] # "program"
      BY <3>2, <2>1, <1>1, <1>3
    <3> QED BY <3>1, <3>2, <1>3
  <2>2. CASE i \in 1..n
    <3>1. m[i] = k[i] /\ \A j \in 1..i-1 : m[j] = k[j]
      BY <2>2, <1>1
    <3> QED BY <3>1, <2>2, <1>3, <1>5
  <2> QED BY <2>1, <2>2, <1>1
<1>6. ASSUME \A i \in 1..n+1 : m[i][1] # g PROVE u[g] # "program"
  <2>1. g # h
    BY <1>1, <1>6
  <2>2. \A i \in 1..n : k[i][1] # g
    BY <1>1, <1>6
  <2> QED BY <2>1, <2>2, <1>1, <1>2, <1>3
<1> QED BY <1>4, <1>5, <1>6

(* It puts back the one it kept last.                                      *)
LEMMA PutBackRestorable ==
  ASSUME NEW t \in [Numbers17 -> Owners], NEW k \in Seq(Numbers17 \X Owners), Restorable(t, k),
         k # <<>>
  PROVE  LET last == k[Len(k)]
             u == HandlersSet(last[1], last[2]).table
         IN t = table => u \in [Numbers17 -> Owners] /\ Restorable(u, SubSeq(k, 1, Len(k) - 1))
<1> SUFFICES ASSUME t = table
             PROVE  /\ HandlersSet(k[Len(k)][1], k[Len(k)][2]).table \in [Numbers17 -> Owners]
                    /\ Restorable(HandlersSet(k[Len(k)][1], k[Len(k)][2]).table, SubSeq(k, 1, Len(k) - 1))
  OBVIOUS
<1> DEFINE n == Len(k)
           h == k[n][1]
           old == k[n][2]
           u == HandlersSet(h, old).table
           m == SubSeq(k, 1, n - 1)
<1>1. n \in Nat /\ n > 0 /\ h \in Numbers17 /\ old \in Owners
  OBVIOUS
<1>2. /\ u = IF old = "null" THEN t ELSE [t EXCEPT ![h] = old]
      /\ u \in [Numbers17 -> Owners]
  BY <1>1 DEF HandlersSet
<1>3. /\ Len(m) = n - 1 /\ \A i \in 1..n-1 : m[i] = k[i]
  BY Popped
<1>4. \A g \in Numbers17 : u[g] = IF g = h /\ old # "null" THEN old ELSE t[g]
  BY <1>1, <1>2
<1> HIDE DEF u, m
<1> SUFFICES ASSUME NEW g \in Defaulted
             PROVE  /\ u[g] # "null"
                    /\ \A i \in 1..n-1 : m[i][1] = g => m[i][2] # "null"
                    /\ (\A i \in 1..n-1 : m[i][1] # g) => u[g] # "program"
                    /\ \A i \in 1..n-1 :
                         m[i][1] = g /\ (\A j \in 1..i-1 : m[j][1] # g) => m[i][2] # "program"
  BY <1>2, <1>3 DEF Restorable, u, m
<1>5. g \in Numbers17
  BY DefaultedNumbers
<1>6. /\ t[g] # "null"
      /\ \A i \in 1..n : k[i][1] = g => k[i][2] # "null"
      /\ (\A i \in 1..n : k[i][1] # g) => t[g] # "program"
      /\ \A i \in 1..n : k[i][1] = g /\ (\A j \in 1..i-1 : k[j][1] # g) => k[i][2] # "program"
  BY DEF Restorable
<1>7. n \in 1..n
  BY <1>1
<1>8. u[g] # "null"
  BY <1>4, <1>5, <1>6
<1>9. ASSUME NEW i \in 1..n-1, m[i][1] = g
      PROVE  m[i][2] # "null" /\ ((\A j \in 1..i-1 : m[j][1] # g) => m[i][2] # "program")
  <2>1. i \in 1..n /\ m[i] = k[i] /\ \A j \in 1..i-1 : m[j] = k[j]
    BY <1>1, <1>3
  <2> QED BY <2>1, <1>6, <1>9
<1>10. ASSUME \A i \in 1..n-1 : m[i][1] # g PROVE u[g] # "program"
  <2>1. \A i \in 1..n-1 : k[i][1] # g
    BY <1>3, <1>10
  <2>2. CASE g = h
    <3>1. old # "null" /\ old # "program"
      BY <2>1, <2>2, <1>6, <1>7
    <3> QED BY <3>1, <2>2, <1>4, <1>5
  <2>3. CASE g # h
    <3>1. \A i \in 1..n : k[i][1] # g
      BY <2>1, <2>3, <1>1
    <3> QED BY <3>1, <2>3, <1>4, <1>5, <1>6
  <2> QED BY <2>2, <2>3
<1> QED BY <1>8, <1>9, <1>10

LEMMA DefaultRestorable == Default \in [Numbers17 -> Owners] /\ Restorable(Default, <<>>)
<1>1. Default \in [Numbers17 -> Owners]
  BY DEF Default, Owners
<1>2. \A h \in Defaulted : Default[h] = "mos"
  BY DefaultedNumbers DEF Default
<1> QED BY <1>1, <1>2 DEF Restorable

LEMMA SessionInit == SInit => SessionInv
<1> SUFFICES ASSUME SInit PROVE SessionInv
  OBVIOUS
<1>1. kept = <<>> /\ at = "input" /\ ra = "mos" /\ table = Default
  BY DEF SInit
<1>2. kept \in Seq(Numbers17 \X Owners) /\ Len(kept) = 0 /\ MaxKept \in Nat
  BY <1>1, HandlersAssumption
<1> QED BY <1>1, <1>2, DefaultRestorable DEF SessionInv, HandlersType, Settled

(* What a line can lead to.                                                *)
LEMMA Outcomes == \A s : Outcome(s) \in {"input", "error", "astray", "program"}
<1> TAKE s
<1>1. Command(s) \in {"nothing", "junk", "go", "unrecognised"}
  BY DEF Command
<1> QED BY <1>1 DEF Outcome

LEMMA SessionNext == SessionInv /\ [SNext]_sessionvars => SessionInv'
<1> SUFFICES ASSUME SessionInv, [SNext]_sessionvars PROVE SessionInv'
  OBVIOUS
<1>a. HandlersType /\ Restorable(table, kept) /\ Settled
  BY DEF SessionInv
<1>b. /\ table \in [Numbers17 -> Owners] /\ kept \in Seq(Numbers17 \X Owners)
      /\ Len(kept) \in Nat /\ Len(kept) <= MaxKept /\ MaxKept \in Nat
      /\ ra \in {"mos", "ended"}
  BY <1>a, HandlersAssumption DEF HandlersType
<1>c. ASSUME UNCHANGED <<table, kept>>, ra' \in {"mos", "ended"}, at' # "input" \/ at = "input",
             at' \in {"input", "program", "error", "exit", "return", "astray"}
      PROVE  SessionInv'
  BY <1>c, <1>a DEF SessionInv, HandlersType, Settled
<1>1. CASE at = "input" /\ Edited /\ UNCHANGED svars
  BY <1>1, <1>c, <1>a DEF svars, HandlersType
<1>2. CASE TakeLine
  <2>1. at = "input" /\ at' = Outcome(Returned) /\ UNCHANGED <<table, kept>>
        /\ ra' \in {ra, table[EXIT]}
    BY <1>2 DEF TakeLine
  <2>2. table[EXIT] \in {"mos", "ended"}
    <3>1. kept = <<>>
      BY <2>1, <1>a DEF Settled
    <3>2. table[EXIT] # "null" /\ table[EXIT] # "program"
      BY <3>1, <1>a, DefaultedNumbers DEF Restorable
    <3> QED BY <3>2, <1>b, DefaultedNumbers DEF Owners
  <2> QED BY <2>1, <2>2, <1>b, <1>c, Outcomes
<1>3. CASE TakeEscape
  BY <1>3, <1>b, <1>c DEF TakeEscape
<1>4. ASSUME NEW h \in Changed, Install(h) PROVE SessionInv'
  <2>1. /\ at = "program" /\ Len(kept) < MaxKept /\ UNCHANGED ra
        /\ at' \in {"program", "error"}
    BY <1>4 DEF Install
  <2>2. CASE h \in Numbers17
    <3>1. /\ table' = [table EXCEPT ![h] = "program"] /\ kept' = Append(kept, <<h, table[h]>>)
      BY <1>4, <2>2 DEF Install, HandlersSet
    <3>2. /\ table' \in [Numbers17 -> Owners] /\ kept' \in Seq(Numbers17 \X Owners)
          /\ Len(kept') = Len(kept) + 1
      <4>1. <<h, table[h]>> \in Numbers17 \X Owners
        BY <2>2, <1>b
      <4> QED BY <3>1, <4>1, <1>b DEF Owners
    <3>3. Len(kept') <= MaxKept
      BY <2>1, <3>2, <1>b
    <3>4. Restorable(table', kept')
      BY <3>1, <2>2, <1>a, <1>b, InstallRestorable
    <3> QED BY <2>1, <3>2, <3>3, <3>4, <1>b DEF SessionInv, HandlersType, Settled
  <2>3. CASE h \notin Numbers17
    BY <1>4, <2>1, <2>3, <1>b, <1>c DEF Install, HandlersSet
  <2> QED BY <2>2, <2>3
<1>5. CASE PutBack
  <2>1. /\ at = "program" /\ kept # <<>> /\ UNCHANGED <<at, ra>>
        /\ table' = HandlersSet(kept[Len(kept)][1], kept[Len(kept)][2]).table
        /\ kept' = SubSeq(kept, 1, Len(kept) - 1)
    BY <1>5 DEF PutBack
  <2>2. table' \in [Numbers17 -> Owners] /\ Restorable(table', kept')
    BY <2>1, <1>a, <1>b, PutBackRestorable
  <2>3. kept' \in Seq(Numbers17 \X Owners) /\ Len(kept') = Len(kept) - 1
    BY <2>1, <1>b, Popped
  <2>4. Len(kept') <= MaxKept
    BY <2>3, <1>b
  <2> QED BY <2>1, <2>2, <2>3, <2>4, <1>b DEF SessionInv, HandlersType, Settled
<1>6. ASSUME NEW base, NEW flags, NEW s, NEW max, NEW x, ReadNumber(base, flags, s, max, x)
      PROVE SessionInv'
  BY <1>6, <1>b, <1>c DEF ReadNumber
<1>7. CASE Finish
  BY <1>7, <1>b, <1>c DEF Finish
<1>8. CASE CallError
  <2>1. at' \in {"exit", "program", "astray"}
    BY <1>8 DEF CallError, Call
  <2> QED BY <2>1, <1>8, <1>b, <1>c DEF CallError
<1>9. CASE CallExit
  <2>1. at' \in {"input", "program", "astray"} /\ UNCHANGED ra
    BY <1>9 DEF CallExit, Call
  <2>2. CASE at' = "program"
    BY <2>1, <2>2, <1>9, <1>b, <1>c DEF CallExit
  <2>3. CASE at' # "program"
    <3>1. /\ table' = [h \in Numbers17 |-> IF table[h] = "program" THEN "ended" ELSE table[h]]
          /\ kept' = <<>>
      BY <2>3, <1>9 DEF CallExit
    <3>2. kept' \in Seq(Numbers17 \X Owners) /\ Len(kept') = 0
      BY <3>1
    <3>3. table' \in [Numbers17 -> Owners]
      BY <3>1, <1>b DEF Owners
    <3>4. \A h \in Defaulted : table'[h] # "null" /\ table'[h] # "program"
      <4> TAKE h \in Defaulted
      <4>1. h \in Numbers17 /\ table[h] # "null"
        BY <1>a, DefaultedNumbers DEF Restorable
      <4> QED BY <4>1, <3>1
    <3>5. Restorable(table', kept')
      BY <3>2, <3>4 DEF Restorable
    <3> QED BY <2>1, <3>1, <3>2, <3>3, <3>5, <1>b DEF SessionInv, HandlersType, Settled
  <2> QED BY <2>2, <2>3
<1>10. CASE Reset
  <2>1. at' = "input" /\ table' = Default /\ kept' = <<>> /\ ra' = "mos"
    BY <1>10 DEF Reset
  <2>2. kept' \in Seq(Numbers17 \X Owners) /\ Len(kept') = 0
    BY <2>1
  <2> QED BY <2>1, <2>2, <1>b, DefaultRestorable DEF SessionInv, HandlersType, Settled
<1>11. CASE UNCHANGED sessionvars
  BY <1>11, <1>a DEF sessionvars, svars, SessionInv, HandlersType, Settled
<1> QED BY <1>1, <1>2, <1>3, <1>4, <1>5, <1>6, <1>7, <1>8, <1>9, <1>10, <1>11 DEF SNext

(* The table stays within its numbers, and a program that puts back what   *)
(* OS_HANDLERS returned leaves the defaults as it found them: for any      *)
(* number of handlers, any defaults and any number of handlers replaced at *)
(* a time.                                                                 *)
THEOREM HandlersCorrect == SSpec => []HandlersInv
<1>1. SSpec => []SessionInv
  BY SessionInit, SessionNext, PTL DEF SSpec
<1>2. SessionInv => HandlersInv
  <2> SUFFICES ASSUME SessionInv PROVE HandlersInv
    OBVIOUS
  <2>1. STypeOK
    BY DEF SessionInv, HandlersType, STypeOK, Owners
  <2>2. PutBackRestores
    BY DEF SessionInv, Restorable, PutBackRestores
  <2> QED BY <2>1, <2>2 DEF HandlersInv
<1> QED BY <1>1, <1>2, PTL

-----------------------------------------------------------------------------
(* Numbers.                                                                *)

(* A set of numbers that is not empty has a least one, from which follow   *)
(* induction over an interval and recursion along it.                      *)
LEMMA Least ==
  ASSUME NEW T, T \subseteq Nat, T # {}
  PROVE  \E i \in T : \A j \in T : i <= j
<1> DEFINE R == {pair \in Nat \X Nat : pair[1] < pair[2]}
<1>1. IsWellFoundedOn(R, Nat)
  BY NatLessThanWellFounded DEF OpToRel
<1>2. PICK i \in T : \A j \in T : ~(<<j, i>> \in R)
  <2> HIDE DEF R
  <2> QED BY <1>1, WFMin, Zenon
<1>3. \A j \in T : j < i => <<j, i>> \in R
  OBVIOUS
<1>4. \A j \in T : ~(j < i)
  <2> HIDE DEF R
  <2> QED BY <1>2, <1>3
<1>5. \A j \in T : i <= j
  BY <1>4
<1> QED BY <1>5

(* Induction along an interval.                                            *)
LEMMA Induct ==
  ASSUME NEW a \in Nat, NEW b \in Nat, NEW T, a \in T,
         \A k \in a+1..b : k-1 \in T => k \in T
  PROVE  a..b \subseteq T
<1> DEFINE Bad == {k \in a..b : k \notin T}
<1>1. Bad = {}
  <2> SUFFICES ASSUME Bad # {} PROVE FALSE
    OBVIOUS
  <2>1. Bad \subseteq Nat
    OBVIOUS
  <2>2. PICK k \in Bad : \A j \in Bad : k <= j
    <3> HIDE DEF Bad
    <3> QED BY <2>1, Least
  <2>3. k \in a+1..b /\ k-1 \in a..b /\ ~(k <= k-1) /\ k \notin T
    BY <2>2
  <2>4. k-1 \notin Bad
    <3> HIDE DEF Bad
    <3> QED BY <2>2, <2>3
  <2>5. k-1 \in T
    BY <2>3, <2>4
  <2> HIDE DEF Bad
  <2> QED BY <2>3, <2>5
<1> QED BY <1>1

Steps(a, b) == [a+1..b -> [Int -> Int]]
Follows(f, a, b, x, step) == f[a] = x /\ \A k \in a+1..b : f[k] = step[k][f[k-1]]
Recurs(a, b, x, step) == \E f \in [a..b -> Int] : Follows(f, a, b, x, step)

(* Recursion along an interval defines a function.                         *)
LEMMA Recursion ==
  ASSUME NEW a \in Nat, NEW b \in Nat, a <= b, NEW x \in Int, NEW step \in Steps(a, b)
  PROVE  Recurs(a, b, x, step)
<1>0. step \in [a+1..b -> [Int -> Int]]
  BY DEF Steps
<1> DEFINE Good(f, m) == f[a] = x /\ \A k \in a+1..m : f[k] = step[k][f[k-1]]
           T == {m \in a..b : \E f \in [a..m -> Int] : Good(f, m)}
<1>1. a \in T
  <2>1. [k \in a..a |-> x] \in [a..a -> Int]
    OBVIOUS
  <2>2. Good([k \in a..a |-> x], a)
    OBVIOUS
  <2> HIDE DEF Good
  <2> QED BY <2>1, <2>2
<1>2. ASSUME NEW m \in a+1..b, m-1 \in T PROVE m \in T
  <2>1. PICK f \in [a..m-1 -> Int] : Good(f, m-1)
    BY <1>2
  <2> DEFINE y == step[m][f[m-1]]
             g == [k \in a..m |-> IF k = m THEN y ELSE f[k]]
  <2>2. m-1 \in a..m-1 /\ m \in Nat /\ m # a /\ a \in a..m
    OBVIOUS
  <2>3. y \in Int
    BY <1>0, <2>2
  <2> HIDE DEF y
  <2>4. g \in [a..m -> Int]
    BY <2>3
  <2>5. ASSUME NEW k \in a+1..m PROVE g[k] = step[k][g[k-1]]
    <3>1. k \in a..m /\ k-1 \in a..m-1 /\ k-1 \in a..m /\ k-1 # m
      OBVIOUS
    <3>2. g[k-1] = f[k-1]
      BY <3>1
    <3>3. CASE k = m
      BY <3>1, <3>2, <3>3 DEF y
    <3>4. CASE k # m
      <4>1. k \in a+1..m-1
        BY <3>4
      <4>2. f[k] = step[k][f[k-1]]
        BY <2>1, <4>1
      <4>3. g[k] = f[k]
        BY <3>1, <3>4
      <4> QED BY <3>2, <4>2, <4>3
    <3> QED BY <3>3, <3>4
  <2>6. g[a] = x
    BY <2>1, <2>2
  <2>7. Good(g, m)
    <3> HIDE DEF g
    <3> QED BY <2>5, <2>6
  <2> HIDE DEF Good, g
  <2> QED BY <2>4, <2>7
<1>3. a..b \subseteq T
  <2> HIDE DEF T
  <2> QED BY <1>1, <1>2, Induct
<1>4. b \in T
  <2> HIDE DEF T
  <2> QED BY <1>3
<1> HIDE DEF Good
<1>5. \E f \in [a..b -> Int] : Good(f, b)
  BY <1>4
<1> QED BY <1>5 DEF Good, Recurs, Follows

(* Remainders.                                                             *)
LEMMA Division ==
  ASSUME NEW x \in Int
  PROVE  x % WORD \in 0..WORD-1 /\ \E q \in Int : x = (q * WORD) + (x % WORD)
<1>1. WORD \in Nat /\ WORD > 0
  BY WordAssumption
<1>2. x = ((x \div WORD) * WORD) + (x % WORD)
  BY <1>1
<1> QED BY <1>1, <1>2

LEMMA Rest ==
  ASSUME NEW q \in Int, NEW r \in 0..WORD-1
  PROVE  ((q * WORD) + r) % WORD = r
BY WordAssumption

LEMMA SameRest ==
  ASSUME NEW q \in Int, NEW x \in Int
  PROVE  ((q * WORD) + x) % WORD = x % WORD
<1>1. PICK r \in Int : x = (r * WORD) + (x % WORD)
  BY Division
<1> DEFINE d == x % WORD
<1>2. d \in 0..WORD-1 /\ d \in Int /\ WORD \in Int
  BY Division, WordAssumption
<1>3. x = (r * WORD) + d
  BY <1>1
<1> HIDE DEF d
<1>4. (q * WORD) + x = ((q + r) * WORD) + d
  <2>1. (q + r) * WORD = (q * WORD) + (r * WORD)
    BY <1>2
  <2>2. q * WORD \in Int /\ r * WORD \in Int
    BY <1>2
  <2> QED BY <1>2, <1>3, <2>1, <2>2
<1>5. (((q + r) * WORD) + d) % WORD = d
  BY <1>2, Rest
<1> QED BY <1>4, <1>5 DEF d

(* A digit may be added to the rest or to the whole.                       *)
LEMMA RestOfDigit ==
  ASSUME NEW x \in Int, NEW base \in Nat, NEW d \in Nat
  PROVE  (((x % WORD) * base) + d) % WORD = ((x * base) + d) % WORD
<1> DEFINE r == x % WORD
<1>1. PICK q \in Int : x = (q * WORD) + r
  BY Division
<1>2. r \in Int /\ WORD \in Int
  BY Division, WordAssumption
<1> HIDE DEF r
<1>3. (x * base) + d = ((q * base) * WORD) + ((r * base) + d)
  <2>1. x * base = ((q * base) * WORD) + (r * base)
    BY <1>1, <1>2
  <2>2. x * base \in Int /\ (q * base) * WORD \in Int /\ r * base \in Int
    BY <1>2
  <2> DEFINE u == x * base
             v == (q * base) * WORD
             w == r * base
  <2>3. u = v + w /\ u \in Int /\ v \in Int /\ w \in Int
    BY <2>1, <2>2
  <2> HIDE DEF u, v, w
  <2>4. u + d = v + (w + d)
    BY <2>3
  <2> QED BY <2>4 DEF u, v, w
<1>4. q * base \in Int /\ (r * base) + d \in Int
  BY <1>2
<1>5. (((q * base) * WORD) + ((r * base) + d)) % WORD = ((r * base) + d) % WORD
  BY <1>4, SameRest
<1> QED BY <1>3, <1>5 DEF r

(* Characters.                                                             *)
LEMMA DigitType == ASSUME NEW c \in 0..255 PROVE DigitOf(c) \in 0..36
BY DEF DigitOf

(* The characters of a string and its end.                                 *)
LEMMA AtFacts ==
  ASSUME NEW s \in Seq(1..255)
  PROVE  /\ Len(s) \in Nat
         /\ \A i \in 0..Len(s) : At(s, i) \in 0..255 /\ DigitOf(At(s, i)) \in 0..36
         /\ \A i \in 0..Len(s) : i # Len(s) => i+1 \in 1..Len(s) /\ At(s, i) = s[i+1]
         /\ At(s, Len(s)) = 0 /\ DigitOf(At(s, Len(s))) = 36
<1>1. Len(s) \in Nat /\ \A i \in 1..Len(s) : s[i] \in 1..255
  BY LenProperties
<1>2. \A i \in 0..Len(s) : i # Len(s) => i+1 \in 1..Len(s) /\ At(s, i) = s[i+1]
  BY <1>1 DEF At
<1>3. At(s, Len(s)) = 0
  BY <1>1 DEF At
<1>4. \A i \in 0..Len(s) : At(s, i) \in 0..255
  <2> TAKE i \in 0..Len(s)
  <2>1. CASE i = Len(s)
    BY <1>3, <2>1
  <2>2. CASE i # Len(s)
    <3>1. s[i+1] \in 1..255 /\ At(s, i) = s[i+1]
      BY <1>1, <1>2, <2>2
    <3> QED BY <3>1
  <2> QED BY <2>1, <2>2
<1>5. DigitOf(0) = 36
  BY DEF DigitOf
<1> QED BY <1>1, <1>2, <1>3, <1>4, <1>5, DigitType

(* The run of characters of a set.                                         *)
IsRunEnd(s, p, chars, e) ==
  /\ \A i \in p..e-1 : At(s, i) \in chars
  /\ e = Len(s) \/ At(s, e) \notin chars

(* A run has exactly one end.                                              *)
LEMMA RunEndIs ==
  ASSUME NEW s, Len(s) \in Nat, NEW p \in 0..Len(s), NEW chars
  PROVE  /\ RunEnd(s, p, chars) \in p..Len(s) /\ IsRunEnd(s, p, chars, RunEnd(s, p, chars))
         /\ \A e \in p..Len(s) : IsRunEnd(s, p, chars, e) => e = RunEnd(s, p, chars)
<1> DEFINE T == {i \in p..Len(s) : i = Len(s) \/ At(s, i) \notin chars}
<1>1. PICK e \in T : \A j \in T : e <= j
  <2>1. T \subseteq Nat /\ Len(s) \in T
    OBVIOUS
  <2> HIDE DEF T
  <2> QED BY <2>1, Least
<1>2. \A i \in p..e-1 : At(s, i) \in chars
  <2> TAKE i \in p..e-1
  <2>1. i \in p..Len(s) /\ ~(e <= i) /\ i # Len(s)
    BY <1>1
  <2>2. i \notin T
    <3> HIDE DEF T
    <3> QED BY <1>1, <2>1
  <2> QED BY <2>1, <2>2
<1>3. e \in p..Len(s) /\ IsRunEnd(s, p, chars, e)
  BY <1>1, <1>2 DEF IsRunEnd
<1>4. RunEnd(s, p, chars) = CHOOSE f \in p..Len(s) : IsRunEnd(s, p, chars, f)
  BY DEF RunEnd, IsRunEnd
<1>5. RunEnd(s, p, chars) \in p..Len(s) /\ IsRunEnd(s, p, chars, RunEnd(s, p, chars))
  BY <1>3, <1>4
<1>6. ASSUME NEW f \in p..Len(s), NEW g \in p..Len(s),
             IsRunEnd(s, p, chars, f), IsRunEnd(s, p, chars, g)
      PROVE  ~(f < g)
  <2> SUFFICES ASSUME f < g PROVE FALSE
    OBVIOUS
  <2>1. f \in p..g-1 /\ f # Len(s)
    BY <1>6
  <2> QED BY <1>6, <2>1 DEF IsRunEnd
<1>7. ASSUME NEW f \in p..Len(s), IsRunEnd(s, p, chars, f) PROVE f = RunEnd(s, p, chars)
  <2> DEFINE g == RunEnd(s, p, chars)
  <2>1. g \in p..Len(s) /\ IsRunEnd(s, p, chars, g)
    BY <1>5
  <2> HIDE DEF g
  <2>2. ~(f < g) /\ ~(g < f)
    BY <1>6, <1>7, <2>1
  <2>3. f = g
    BY <2>1, <2>2
  <2> QED BY <2>3 DEF g
<1> QED BY <1>5, <1>7

(* The value the code computes and the one a numeral means both come from  *)
(* the unbounded sum, digit after digit.                                   *)
Folded(s, p, e, base) ==
  LET sum[i \in p..e] == IF i = p THEN 0 ELSE (sum[i-1] * base + DigitOf(At(s, i-1))) % WORD
  IN sum

Power(base, m) == LET power[k \in 0..m] == IF k = 0 THEN 1 ELSE base * power[k-1] IN power

Weighted(s, base) ==
  LET sum[k \in 0..Len(s)] == IF k = 0 THEN 0
                              ELSE sum[k-1] + DigitOf(s[k]) * Power(base, Len(s))[Len(s) - k]
  IN sum

LEMMA ReadIs ==
  ASSUME NEW s, NEW p, NEW base
  PROVE  LET e == RunEnd(s, p, Digits(base))
         IN  /\ ReadInBase(s, p, base).p = e /\ ReadInBase(s, p, base).ok = (e > p)
             /\ ReadInBase(s, p, base).n = Folded(s, p, e, base)[e]
BY DEF ReadInBase, Folded

(* Value by its weights.                                                   *)
LEMMA ValueIs == ASSUME NEW s, NEW base PROVE Value(s, base) = Weighted(s, base)[Len(s)]
BY DEF Value, Weighted, Power

LEMMA DigitAt ==
  ASSUME NEW s \in Seq(1..255), NEW i \in 0..Len(s)
  PROVE  DigitOf(At(s, i)) \in Nat /\ DigitOf(At(s, i)) \in Int
<1>1. DigitOf(At(s, i)) \in 0..36
  BY AtFacts
<1> DEFINE d == DigitOf(At(s, i))
<1>2. d \in 0..36
  BY <1>1
<1> HIDE DEF d
<1>3. d \in Nat /\ d \in Int
  BY <1>2
<1> QED BY <1>3 DEF d

(* The sum that the loop keeps, digit by digit.                            *)
LEMMA FoldedFacts ==
  ASSUME NEW s \in Seq(1..255), NEW p \in 0..Len(s), NEW e \in p..Len(s), NEW base \in Nat
  PROVE  LET g == Folded(s, p, e, base)
         IN  /\ g \in [p..e -> Int] /\ g[p] = 0
             /\ \A k \in p+1..e : g[k] = (g[k-1] * base + DigitOf(At(s, k-1))) % WORD
<1> DEFINE d(k) == DigitOf(At(s, k-1))
           Next1(y, k) == (y * base + d(k)) % WORD
           Solves(f) == f = [k \in p..e |-> IF k = p THEN 0 ELSE Next1(f[k-1], k)]
           step == [k \in p+1..e |-> [y \in Int |-> Next1(y, k)]]
           g == Folded(s, p, e, base)
<1>1. Len(s) \in Nat /\ p \in Nat /\ e \in Nat /\ p <= e
  BY AtFacts
<1>2. ASSUME NEW k \in p+1..e, NEW y \in Int PROVE Next1(y, k) \in Int
  <2>1. k-1 \in 0..Len(s)
    BY <1>1
  <2>2. d(k) \in Int
    <3> DEFINE i == k-1
    <3>1. i \in 0..Len(s)
      BY <2>1
    <3> HIDE DEF i
    <3>2. DigitOf(At(s, i)) \in Int
      BY <3>1, DigitAt
    <3> QED BY <3>2 DEF i
  <2> HIDE DEF d
  <2>3. y * base + d(k) \in Int
    BY <2>2
  <2>4. \A z \in Int : z % WORD \in Int
    BY WordAssumption
  <2> QED BY <2>3, <2>4
<1>3. g = CHOOSE f : Solves(f)
  BY DEF Folded
<1> HIDE DEF g, Next1
<1>4. step \in [p+1..e -> [Int -> Int]]
  BY <1>2
<1>5. PICK f \in [p..e -> Int] : f[p] = 0 /\ \A k \in p+1..e : f[k] = step[k][f[k-1]]
  <2> HIDE DEF step
  <2>1. 0 \in Int
    OBVIOUS
  <2>2. step \in Steps(p, e)
    BY <1>4 DEF Steps
  <2>3. Recurs(p, e, 0, step)
    BY <1>1, <2>1, <2>2, Recursion
  <2> QED BY <2>3 DEF Recurs, Follows
<1>6. Solves(f)
  <2>1. ASSUME NEW k \in p..e PROVE f[k] = IF k = p THEN 0 ELSE Next1(f[k-1], k)
    <3>1. CASE k = p
      BY <1>5, <3>1
    <3>2. CASE k # p
      <4>1. k \in p+1..e /\ k-1 \in p..e
        BY <1>1, <3>2
      <4>2. f[k-1] \in Int
        BY <4>1
      <4> QED BY <1>5, <3>2, <4>1, <4>2
    <3> QED BY <3>1, <3>2
  <2> QED BY <2>1
<1>7. Solves(g)
  <2> HIDE DEF Solves
  <2> QED BY <1>3, <1>6
<1>8. g[p] = 0 /\ \A k \in p+1..e : g[k] = Next1(g[k-1], k)
  <2>1. \A k \in p..e : g[k] = IF k = p THEN 0 ELSE Next1(g[k-1], k)
    BY <1>7
  <2>2. p \in p..e /\ \A k \in p+1..e : k \in p..e /\ k # p
    BY <1>1
  <2> QED BY <2>1, <2>2
<1>9. g \in [p..e -> Int]
  <2> DEFINE T == {k \in p..e : g[k] \in Int}
  <2>1. p \in T
    BY <1>1, <1>8
  <2>2. ASSUME NEW k \in p+1..e, k-1 \in T PROVE k \in T
    <3>1. k \in p..e /\ g[k-1] \in Int
      BY <1>1, <2>2
    <3>2. Next1(g[k-1], k) \in Int
      BY <1>2, <3>1
    <3> QED BY <1>8, <3>1, <3>2
  <2>3. p..e \subseteq T
    <3> HIDE DEF T
    <3> QED BY <1>1, <2>1, <2>2, Induct
  <2> QED BY <1>7, <2>3
<1> QED BY <1>8, <1>9 DEF g, Next1

(* The powers of a base.                                                   *)
LEMMA PowerFacts ==
  ASSUME NEW base \in Nat, NEW m \in Nat
  PROVE  LET g == Power(base, m)
         IN  g \in [0..m -> Int] /\ g[0] = 1 /\ \A k \in 1..m : g[k] = base * g[k-1]
<1> DEFINE Next1(y, k) == base * y
           Solves(f) == f = [k \in 0..m |-> IF k = 0 THEN 1 ELSE Next1(f[k-1], k)]
           step == [k \in 0+1..m |-> [y \in Int |-> Next1(y, k)]]
           g == Power(base, m)
<1>1. 0 \in Nat /\ m \in Nat /\ 0 <= m
  OBVIOUS
<1>2. ASSUME NEW k \in 0+1..m, NEW y \in Int PROVE Next1(y, k) \in Int
  OBVIOUS
<1>3. g = CHOOSE f : Solves(f)
  BY DEF Power
<1> HIDE DEF g, Next1
<1>4. step \in Steps(0, m)
  BY <1>2 DEF Steps
<1>5. PICK f \in [0..m -> Int] : f[0] = 1 /\ \A k \in 0+1..m : f[k] = step[k][f[k-1]]
  <2> HIDE DEF step
  <2>1. 1 \in Int
    OBVIOUS
  <2>2. Recurs(0, m, 1, step)
    BY <1>1, <1>4, <2>1, Recursion
  <2> QED BY <2>2 DEF Recurs, Follows
<1>6. Solves(f)
  <2>1. ASSUME NEW k \in 0..m PROVE f[k] = IF k = 0 THEN 1 ELSE Next1(f[k-1], k)
    <3>1. CASE k = 0
      BY <1>5, <3>1
    <3>2. CASE k # 0
      <4>1. k \in 0+1..m /\ k-1 \in 0..m
        BY <1>1, <3>2
      <4>2. f[k-1] \in Int
        BY <4>1
      <4> QED BY <1>5, <3>2, <4>1, <4>2
    <3> QED BY <3>1, <3>2
  <2> QED BY <2>1
<1>7. Solves(g)
  <2> HIDE DEF Solves
  <2> QED BY <1>3, <1>6
<1>8. g[0] = 1 /\ \A k \in 0+1..m : g[k] = Next1(g[k-1], k)
  <2>1. \A k \in 0..m : g[k] = IF k = 0 THEN 1 ELSE Next1(g[k-1], k)
    BY <1>7
  <2>2. 0 \in 0..m /\ \A k \in 0+1..m : k \in 0..m /\ k # 0
    BY <1>1
  <2> QED BY <2>1, <2>2
<1>9. g \in [0..m -> Int]
  <2> DEFINE T == {k \in 0..m : g[k] \in Int}
  <2>1. 0 \in T
    BY <1>1, <1>8
  <2>2. ASSUME NEW k \in 0+1..m, k-1 \in T PROVE k \in T
    <3>1. k \in 0..m /\ g[k-1] \in Int
      BY <1>1, <2>2
    <3>2. Next1(g[k-1], k) \in Int
      BY <1>2, <3>1
    <3> QED BY <1>8, <3>1, <3>2
  <2>3. 0..m \subseteq T
    <3> HIDE DEF T
    <3> QED BY <1>1, <2>1, <2>2, Induct
  <2> QED BY <1>7, <2>3
<1>10. \A k \in 1..m : k \in 0+1..m
  OBVIOUS
<1> QED BY <1>8, <1>9, <1>10 DEF g, Next1

(* The sum of the weighted digits.                                         *)
LEMMA WeightedFacts ==
  ASSUME NEW t \in Seq(1..255), NEW base \in Nat
  PROVE  LET g == Weighted(t, base)
             P == Power(base, Len(t))
         IN  /\ g \in [0..Len(t) -> Int] /\ g[0] = 0
             /\ \A k \in 1..Len(t) : g[k] = g[k-1] + DigitOf(t[k]) * P[Len(t) - k]
<1> DEFINE l == Len(t)
           P == Power(base, l)
           Next1(y, k) == y + DigitOf(t[k]) * P[l - k]
           Solves(f) == f = [k \in 0..l |-> IF k = 0 THEN 0 ELSE Next1(f[k-1], k)]
           step == [k \in 0+1..l |-> [y \in Int |-> Next1(y, k)]]
           g == Weighted(t, base)
<1>1. 0 \in Nat /\ l \in Nat /\ 0 <= l
  BY LenProperties
<1>2. ASSUME NEW k \in 0+1..l, NEW y \in Int PROVE Next1(y, k) \in Int
  <2>1. l - k \in 0..l /\ k \in 1..l
    BY <1>1
  <2>2. P[l - k] \in Int
    <3> HIDE DEF l
    <3>1. P \in [0..l -> Int]
      BY <1>1, PowerFacts
    <3> QED BY <2>1, <3>1
  <2>3. DigitOf(t[k]) \in Int
    <3> DEFINE c == t[k]
    <3>1. c \in 0..255
      <4>1. \A i \in 1..Len(t) : t[i] \in 1..255
        BY LenProperties
      <4>2. t[k] \in 1..255
        BY <2>1, <4>1
      <4> QED BY <4>2
    <3> HIDE DEF c
    <3>2. DigitOf(c) \in 0..36
      BY <3>1, DigitType
    <3>3. \A z \in 0..36 : z \in Int
      OBVIOUS
    <3>4. DigitOf(c) \in Int
      BY <3>2, <3>3
    <3> QED BY <3>4 DEF c
  <2> QED BY <2>2, <2>3
<1>3. g = CHOOSE f : Solves(f)
  BY DEF Weighted
<1> HIDE DEF P
<1> HIDE DEF l
<1> HIDE DEF g, Next1
<1>4. step \in Steps(0, l)
  BY <1>2 DEF Steps
<1>5. PICK f \in [0..l -> Int] : f[0] = 0 /\ \A k \in 0+1..l : f[k] = step[k][f[k-1]]
  <2> HIDE DEF step
  <2>1. 0 \in Int
    OBVIOUS
  <2>2. Recurs(0, l, 0, step)
    BY <1>1, <1>4, <2>1, Recursion
  <2> QED BY <2>2 DEF Recurs, Follows
<1>6. Solves(f)
  <2>1. ASSUME NEW k \in 0..l PROVE f[k] = IF k = 0 THEN 0 ELSE Next1(f[k-1], k)
    <3>1. CASE k = 0
      BY <1>5, <3>1
    <3>2. CASE k # 0
      <4>1. k \in 0+1..l /\ k-1 \in 0..l
        BY <1>1, <3>2
      <4>2. f[k-1] \in Int
        BY <4>1
      <4> QED BY <1>5, <3>2, <4>1, <4>2
    <3> QED BY <3>1, <3>2
  <2> QED BY <2>1
<1>7. Solves(g)
  <2> HIDE DEF Solves
  <2> QED BY <1>3, <1>6
<1>8. g[0] = 0 /\ \A k \in 0+1..l : g[k] = Next1(g[k-1], k)
  <2>1. \A k \in 0..l : g[k] = IF k = 0 THEN 0 ELSE Next1(g[k-1], k)
    BY <1>7
  <2>2. 0 \in 0..l /\ \A k \in 0+1..l : k \in 0..l /\ k # 0
    BY <1>1
  <2> QED BY <2>1, <2>2
<1>9. g \in [0..l -> Int]
  <2> DEFINE T == {k \in 0..l : g[k] \in Int}
  <2>1. 0 \in T
    BY <1>1, <1>8
  <2>2. ASSUME NEW k \in 0+1..l, k-1 \in T PROVE k \in T
    <3>1. k \in 0..l /\ g[k-1] \in Int
      BY <1>1, <2>2
    <3>2. Next1(g[k-1], k) \in Int
      BY <1>2, <3>1
    <3> QED BY <1>8, <3>1, <3>2
  <2>3. 0..l \subseteq T
    <3> HIDE DEF T
    <3> QED BY <1>1, <2>1, <2>2, Induct
  <2> QED BY <1>7, <2>3
<1>10. \A k \in 1..l : k \in 0+1..l
  OBVIOUS
<1> QED BY <1>8, <1>9, <1>10 DEF g, Next1, P, l

(* A part of a string, by its characters.                                  *)
LEMMA PartFacts ==
  ASSUME NEW s \in Seq(1..255), NEW p \in 0..Len(s), NEW e \in p..Len(s)
  PROVE  /\ Part(s, p, e) \in Seq(1..255) /\ Len(Part(s, p, e)) = e - p /\ e - p \in Nat
         /\ \A k \in 1..(e-p) : Part(s, p, e)[k] = At(s, p+k-1) /\ Part(s, p, e)[k] = s[p+k]
<1> DEFINE a == p+1
<1>1. Len(s) \in Nat /\ p \in Nat /\ e \in Nat /\ a \in Nat /\ a = p+1 /\ p <= e /\ e <= Len(s)
  BY LenProperties
<1>2. \A i \in a..e : s[i] \in 1..255
  <2>1. \A i \in 1..Len(s) : s[i] \in 1..255
    BY LenProperties
  <2> QED BY <1>1, <2>1
<1> HIDE DEF a
<1>3. /\ SubSeq(s, a, e) \in Seq(1..255)
      /\ Len(SubSeq(s, a, e)) = IF a <= e THEN e - a + 1 ELSE 0
      /\ \A i \in 1..(e - a + 1) : SubSeq(s, a, e)[i] = s[a + i - 1]
  BY <1>1, <1>2, SubSeqProperties
<1>4. Len(SubSeq(s, a, e)) = e - p /\ e - a + 1 = e - p /\ e - p \in Nat
  BY <1>1, <1>3
<1>5. Part(s, p, e) = SubSeq(s, a, e)
  BY DEF Part, a
<1>6. ASSUME NEW k \in 1..(e-p) PROVE Part(s, p, e)[k] = At(s, p+k-1) /\ Part(s, p, e)[k] = s[p+k]
  <2>1. a + k - 1 = p + k /\ p+k-1 < Len(s) /\ p+k-1+1 = p+k
    BY <1>1
  <2>2. Part(s, p, e)[k] = s[p+k]
    BY <1>3, <1>4, <1>5, <2>1
  <2>3. At(s, p+k-1) = s[p+k]
    BY <2>1 DEF At
  <2> QED BY <2>2, <2>3
<1> QED BY <1>3, <1>4, <1>5, <1>6

(* The loop that multiplies and adds has the value that the weights give,  *)
(* in a word.                                                              *)
LEMMA ReadsValue ==
  ASSUME NEW s \in Seq(1..255), NEW p \in 0..Len(s), NEW e \in p..Len(s), NEW base \in Nat
  PROVE  /\ Folded(s, p, e, base)[e] = Value(Part(s, p, e), base) % WORD
         /\ Value(Part(s, p, e), base) \in Nat
<1> DEFINE t == Part(s, p, e)
           l == e - p
           d(k) == DigitOf(t[k])
           step == [k \in 0+1..l |-> [y \in Int |-> y * base + d(k)]]
           G == Folded(s, p, e, base)
           W == Weighted(t, base)
           P == Power(base, l)
<1>1. /\ t \in Seq(1..255) /\ Len(t) = l /\ l \in Nat
      /\ \A k \in 1..l : t[k] = At(s, p+k-1)
  BY PartFacts
<1>2. p \in Nat /\ e \in Nat /\ p + l = e
  BY LenProperties
<1> HIDE DEF t, l
<1>3. \A k \in 1..l : d(k) \in Nat /\ d(k) \in Int /\ d(k) = DigitOf(At(s, p+k-1))
  <2> TAKE k \in 1..l
  <2>1. t[k] \in 1..255
    <3> DEFINE chars == 1..255
    <3>1. t \in Seq(chars) /\ k \in 1..Len(t)
      BY <1>1
    <3> HIDE DEF chars
    <3>2. t[k] \in chars
      BY <3>1, ElementOfSeq
    <3> QED BY <3>2 DEF chars
  <2>2. t[k] \in 0..255
    BY <2>1
  <2>3. d(k) \in 0..36
    BY <2>2, DigitType
  <2>4. \A z \in 0..36 : z \in Nat /\ z \in Int
    OBVIOUS
  <2>5. d(k) = DigitOf(At(s, p+k-1))
    BY <1>1
  <2> HIDE DEF d
  <2> QED BY <2>3, <2>4, <2>5
<1> HIDE DEF d
<1>4. PICK F \in [0..l -> Int] : F[0] = 0 /\ \A k \in 0+1..l : F[k] = step[k][F[k-1]]
  <2>1. step \in Steps(0, l)
    <3>1. \A k \in 0+1..l : k \in 1..l
      BY <1>1
    <3>2. ASSUME NEW k \in 0+1..l, NEW y \in Int PROVE y * base + d(k) \in Int
      BY <1>3, <3>1
    <3> QED BY <3>2 DEF Steps
  <2> HIDE DEF step
  <2>2. 0 \in Nat /\ 0 \in Int /\ l \in Nat /\ 0 <= l
    BY <1>1
  <2>3. Recurs(0, l, 0, step)
    BY <2>1, <2>2, Recursion
  <2> QED BY <2>3 DEF Recurs, Follows
<1>5. \A k \in 1..l : /\ k \in 0..l /\ k-1 \in 0..l /\ F[k-1] \in Int /\ F[k] \in Int
                      /\ F[k] = F[k-1] * base + d(k)
  <2> TAKE k \in 1..l
  <2>1. k \in 0+1..l /\ k-1 \in 0..l /\ k \in 0..l
    BY <1>1
  <2>2. F[k-1] \in Int /\ F[k] \in Int
    BY <2>1
  <2> QED BY <1>4, <2>1, <2>2
<1> HIDE DEF step
<1>6. G[p + l] = F[l] % WORD
  <2> DEFINE T == {k \in 0..l : G[p + k] = F[k] % WORD}
  <2>1. /\ G \in [p..e -> Int] /\ G[p] = 0
        /\ \A k \in p+1..e : G[k] = (G[k-1] * base + DigitOf(At(s, k-1))) % WORD
    BY FoldedFacts
  <2> HIDE DEF G
  <2>2. 0 \in T
    <3>1. 0 % WORD = 0
      BY WordAssumption
    <3>2. p + 0 = p
      BY <1>2
    <3> QED BY <1>1, <1>4, <2>1, <3>1, <3>2
  <2>3. ASSUME NEW k \in 0+1..l, k-1 \in T PROVE k \in T
    <3>1. k \in 1..l /\ k \in 0..l /\ p + k \in p+1..e /\ p + k - 1 = p + (k - 1)
      BY <1>1, <1>2
    <3>2. G[p + k] = (G[p + k - 1] * base + DigitOf(At(s, p+k-1))) % WORD
      BY <2>1, <3>1
    <3>3. G[p + k - 1] = F[k-1] % WORD
      BY <2>3, <3>1
    <3>4. DigitOf(At(s, p+k-1)) = d(k) /\ d(k) \in Nat /\ F[k-1] \in Int
      BY <1>3, <1>5, <3>1
    <3>5. G[p + k] = (((F[k-1] % WORD) * base) + d(k)) % WORD
      BY <3>2, <3>3, <3>4
    <3>6. G[p + k] = ((F[k-1] * base) + d(k)) % WORD
      BY <3>4, <3>5, RestOfDigit
    <3> QED BY <1>5, <3>1, <3>6
  <2>4. 0..l \subseteq T
    <3> HIDE DEF T
    <3>1. 0 \in Nat /\ l \in Nat
      BY <1>1
    <3> QED BY <2>2, <2>3, <3>1, Induct
  <2>5. l \in T
    <3> HIDE DEF T
    <3> QED BY <1>1, <2>4
  <2> QED BY <2>5
<1>7. W[l] = F[l]
  <2> DEFINE T == {k \in 0..l : W[k] = F[k] * P[l - k]}
  <2>1. /\ W \in [0..l -> Int] /\ W[0] = 0
        /\ \A k \in 1..l : W[k] = W[k-1] + d(k) * P[l - k]
    BY <1>1, WeightedFacts DEF d
  <2>2. P \in [0..l -> Int] /\ P[0] = 1 /\ \A k \in 1..l : P[k] = base * P[k-1]
    BY <1>1, PowerFacts
  <2> HIDE DEF W, P
  <2>3. 0 \in T
    <3>1. l - 0 \in 0..l /\ 0 \in 0..l
      BY <1>1
    <3>2. P[l - 0] \in Int
      BY <2>2, <3>1
    <3>3. 0 * P[l - 0] = 0
      BY <3>2
    <3> QED BY <1>4, <2>1, <3>1, <3>3
  <2>4. ASSUME NEW k \in 0+1..l, k-1 \in T PROVE k \in T
    <3> DEFINE f == F[k-1]
               q == P[l - k]
               c == d(k)
    <3>1. /\ k \in 1..l /\ k \in 0..l /\ l - k \in 0..l /\ l - (k-1) \in 1..l
          /\ (l - (k-1)) - 1 = l - k
      BY <1>1
    <3>2. f \in Int /\ q \in Int /\ c \in Int /\ base \in Int
      BY <1>3, <1>5, <2>2, <3>1
    <3>3. P[l - (k-1)] = base * q
      BY <2>2, <3>1
    <3>4. W[k] = (f * (base * q)) + (c * q)
      BY <2>1, <2>4, <3>1, <3>3
    <3>5. F[k] = (f * base) + c
      BY <1>5, <3>1
    <3> HIDE DEF f, q, c
    <3>6. (f * (base * q)) + (c * q) = ((f * base) + c) * q
      BY <3>2
    <3>7. W[k] = F[k] * q
      BY <3>4, <3>5, <3>6
    <3> QED BY <3>1, <3>7 DEF q
  <2>5. 0..l \subseteq T
    <3> HIDE DEF T
    <3>1. 0 \in Nat /\ l \in Nat
      BY <1>1
    <3> QED BY <2>3, <2>4, <3>1, Induct
  <2>6. W[l] = F[l] * P[l - l] /\ F[l] \in Int
    <3>1. l \in 0..l
      BY <1>1
    <3>2. l \in T
      <4> HIDE DEF T
      <4> QED BY <2>5, <3>1
    <3> QED BY <3>1, <3>2
  <2>7. l - l = 0
    BY <1>1
  <2> QED BY <2>2, <2>6, <2>7
<1>8. Value(t, base) = W[l]
  BY <1>1, ValueIs
<1>9. F[l] \in Nat
  <2> DEFINE T == {k \in 0..l : F[k] \in Nat}
  <2>1. 0 \in T
    BY <1>1, <1>4
  <2>2. ASSUME NEW k \in 0+1..l, k-1 \in T PROVE k \in T
    <3>1. k \in 1..l /\ F[k] = F[k-1] * base + d(k) /\ k \in 0..l
      BY <1>1, <1>5
    <3>2. F[k-1] \in Nat /\ d(k) \in Nat
      BY <1>3, <2>2, <3>1
    <3> DEFINE f == F[k-1]
               c == d(k)
    <3>3. f \in Nat /\ c \in Nat /\ base \in Nat
      BY <3>2
    <3> HIDE DEF f, c
    <3>4. f * base \in Nat
      BY <3>3
    <3>5. f * base + c \in Nat
      BY <3>3, <3>4
    <3> QED BY <3>1, <3>5 DEF f, c
  <2>3. 0 \in Nat /\ l \in Nat /\ l \in 0..l
    BY <1>1
  <2> HIDE DEF T
  <2>4. l \in T
    BY <2>1, <2>2, <2>3, Induct
  <2> QED BY <2>4 DEF T
<1> QED BY <1>2, <1>6, <1>7, <1>8, <1>9 DEF t

-----------------------------------------------------------------------------
(* A number at a place of a string.                                        *)

(* What mos_read_number_in_base returns.                                   *)
LEMMA ReadFacts ==
  ASSUME NEW s \in Seq(1..255), NEW p \in 0..Len(s), NEW base \in 0..36
  PROVE  LET r == ReadInBase(s, p, base)
         IN  /\ r.p \in p..Len(s) /\ r.ok = (r.p > p)
             /\ r.n = Value(Part(s, p, r.p), base) % WORD
             /\ \A i \in p..r.p-1 : DigitOf(At(s, i)) < base
             /\ DigitOf(At(s, r.p)) >= base
<1> DEFINE D == Digits(base)
           e == RunEnd(s, p, D)
           r == ReadInBase(s, p, base)
<1>1. Len(s) \in Nat /\ base \in Nat
  BY LenProperties
<1>2. e \in p..Len(s) /\ IsRunEnd(s, p, D, e)
  <2> HIDE DEF D
  <2> QED BY <1>1, RunEndIs
<1>3. r.p = e /\ r.ok = (e > p) /\ r.n = Folded(s, p, e, base)[e]
  BY ReadIs
<1> HIDE DEF e, r
<1>4. r.n = Value(Part(s, p, e), base) % WORD
  BY <1>1, <1>2, <1>3, ReadsValue
<1>5. ASSUME NEW i \in p..e-1 PROVE DigitOf(At(s, i)) < base
  BY <1>2 DEF IsRunEnd, D, Digits
<1>6. DigitOf(At(s, e)) >= base
  <2>1. e \in 0..Len(s)
    BY <1>1, <1>2
  <2>2. At(s, e) \in 0..255 /\ DigitOf(At(s, e)) \in 0..36
    BY <2>1, AtFacts
  <2>3. CASE e = Len(s)
    <3>1. DigitOf(At(s, e)) = 36
      BY <2>3, AtFacts
    <3> QED BY <3>1
  <2>4. CASE At(s, e) \notin D
    <3>1. ~(DigitOf(At(s, e)) < base)
      BY <2>2, <2>4 DEF D, Digits
    <3> DEFINE d == DigitOf(At(s, e))
    <3>2. d \in 0..36 /\ ~(d < base)
      BY <2>2, <3>1
    <3> HIDE DEF d
    <3>3. d >= base
      BY <3>2
    <3> QED BY <3>3 DEF d
  <2> QED BY <1>2, <2>3, <2>4 DEF IsRunEnd
<1> QED BY <1>2, <1>3, <1>4, <1>5, <1>6 DEF r

(* The digits of a base from p to e, with none behind them.                *)
Stands(s, p, e, base) == InBase(Part(s, p, e), base) /\ DigitOf(At(s, e)) >= base

(* A part is a numeral when it is not empty and has only digits.           *)
LEMMA InBaseIs ==
  ASSUME NEW s \in Seq(1..255), NEW p \in 0..Len(s), NEW e \in 0..Len(s), NEW base \in 0..36
  PROVE  InBase(Part(s, p, e), base) <=> p < e /\ \A i \in p..e-1 : DigitOf(At(s, i)) < base
<1>1. Len(s) \in Nat /\ p \in Nat /\ e \in Nat
  BY LenProperties
<1>2. CASE p < e
  <2> DEFINE t == Part(s, p, e)
             l == e - p
  <2>1. e \in p..Len(s)
    BY <1>1, <1>2
  <2>2. t \in Seq(1..255) /\ Len(t) = l /\ l \in Nat /\ l > 0 /\ \A k \in 1..l : t[k] = At(s, p+k-1)
    <3>1. t \in Seq(1..255) /\ Len(t) = e - p /\ e - p \in Nat /\ \A k \in 1..(e-p) : t[k] = At(s, p+k-1)
      BY <2>1, PartFacts
    <3> QED BY <1>1, <1>2, <3>1
  <2>3. t # <<>>
    BY <2>2
  <2> HIDE DEF t
  <2>4. InBase(t, base) <=> \A k \in 1..l : DigitOf(At(s, p+k-1)) < base
    BY <2>2, <2>3 DEF InBase
  <2>5. ASSUME \A k \in 1..l : DigitOf(At(s, p+k-1)) < base, NEW i \in p..e-1
        PROVE  DigitOf(At(s, i)) < base
    <3>1. i-p+1 \in 1..l /\ p + (i-p+1) - 1 = i
      BY <1>1
    <3> HIDE DEF l
    <3> QED BY <2>5, <3>1
  <2>6. ASSUME \A i \in p..e-1 : DigitOf(At(s, i)) < base, NEW k \in 1..l
        PROVE  DigitOf(At(s, p+k-1)) < base
    <3>1. p+k-1 \in p..e-1
      BY <1>1
    <3> QED BY <2>6, <3>1
  <2>7. InBase(t, base) <=> \A i \in p..e-1 : DigitOf(At(s, i)) < base
    <3> HIDE DEF l
    <3> QED BY <2>4, <2>5, <2>6
  <2> QED BY <1>2, <2>7 DEF t
<1>3. CASE ~(p < e)
  <2> DEFINE a == p+1
  <2>1. e < a /\ a \in Int /\ e \in Int
    BY <1>1, <1>3
  <2> HIDE DEF a
  <2>2. SubSeq(s, a, e) = <<>>
    BY <2>1, SubSeqEmpty
  <2> QED BY <1>3, <2>2 DEF InBase, Part, a
<1> QED BY <1>2, <1>3

(* Digits end at one place only: where the loop stops.                     *)
LEMMA OneNumeral ==
  ASSUME NEW s \in Seq(1..255), NEW p \in 0..Len(s), NEW e \in 0..Len(s), NEW base \in 0..36
  PROVE  Stands(s, p, e, base) <=> p < e /\ e = ReadInBase(s, p, base).p
<1> DEFINE r == ReadInBase(s, p, base)
           f == r.p
<1>1. /\ f \in p..Len(s)
      /\ \A i \in p..f-1 : DigitOf(At(s, i)) < base
      /\ DigitOf(At(s, f)) >= base
  BY ReadFacts
<1>2. Len(s) \in Nat /\ p \in Nat /\ e \in Nat /\ f \in 0..Len(s) /\ f \in Nat
  BY <1>1, LenProperties
<1>3. \A i \in 0..Len(s) : DigitOf(At(s, i)) \in 0..36
  BY AtFacts
<1> HIDE DEF r, f
<1>4. ASSUME p < e, e = f PROVE Stands(s, p, e, base)
  <2>1. p < e /\ \A i \in p..e-1 : DigitOf(At(s, i)) < base
    BY <1>1, <1>2, <1>4
  <2>2. InBase(Part(s, p, e), base)
    BY <2>1, InBaseIs
  <2> QED BY <1>1, <1>4, <2>2 DEF Stands
<1>5. ASSUME Stands(s, p, e, base) PROVE p < e /\ e = f
  <2>1. p < e /\ (\A i \in p..e-1 : DigitOf(At(s, i)) < base) /\ DigitOf(At(s, e)) >= base
    BY <1>5, InBaseIs DEF Stands
  <2>2. ~(f < e)
    <3> SUFFICES ASSUME f < e PROVE FALSE
      OBVIOUS
    <3>1. f \in p..e-1
      BY <1>1, <1>2
    <3>2. DigitOf(At(s, f)) < base /\ DigitOf(At(s, f)) >= base
      BY <1>1, <2>1, <3>1
    <3> DEFINE d == DigitOf(At(s, f))
    <3>3. d \in 0..36 /\ d < base /\ d >= base
      BY <1>2, <1>3, <3>2
    <3> HIDE DEF d
    <3> QED BY <3>3
  <2>3. ~(e < f)
    <3> SUFFICES ASSUME e < f PROVE FALSE
      OBVIOUS
    <3>1. e \in p..f-1
      BY <1>1, <1>2, <2>1
    <3>2. DigitOf(At(s, e)) < base /\ DigitOf(At(s, e)) >= base
      BY <1>1, <2>1, <3>1
    <3> DEFINE d == DigitOf(At(s, e))
    <3>3. d \in 0..36 /\ d < base /\ d >= base
      BY <1>2, <1>3, <3>2
    <3> HIDE DEF d
    <3> QED BY <3>3
  <2>4. e = f
    BY <1>2, <2>2, <2>3
  <2> QED BY <1>1, <1>2, <2>1, <2>4
<1> QED BY <1>4, <1>5 DEF r, f

-----------------------------------------------------------------------------
(* Where the number starts, and in which base: what mos_read_unsigned does *)
(* with spaces, '&' and prefixes, and what Starts says.                    *)
Blank(s) == RunEnd(s, 0, {32})
InTen(s) == ReadInBase(s, Blank(s), 10)
Amp(s) == At(s, Blank(s)) = 38
Prefixed(s) == Blank(s) < InTen(s).p /\ At(s, InTen(s).p) = 95

Place(s) == IF Amp(s) THEN Blank(s) + 1 ELSE IF Prefixed(s) THEN InTen(s).p + 1 ELSE Blank(s)
InBase0(s, dflt) == IF Amp(s) THEN 16 ELSE IF Prefixed(s) THEN InTen(s).n ELSE dflt

(* The spaces at the start of a string.                                    *)
LEMMA BlankFacts ==
  ASSUME NEW s \in Seq(1..255)
  PROVE  /\ Blank(s) \in 0..Len(s) /\ Spaces(s, Blank(s)) /\ At(s, Blank(s)) # 32
         /\ \A z \in 0..Len(s) : Spaces(s, z) => z <= Blank(s)
         /\ \A z \in 0..Len(s) : z < Blank(s) => At(s, z) = 32
<1> DEFINE b == Blank(s)
<1>1. Len(s) \in Nat
  BY LenProperties
<1>2. b \in 0..Len(s) /\ IsRunEnd(s, 0, {32}, b)
  BY <1>1, RunEndIs DEF Blank
<1> HIDE DEF b
<1>3. \A z \in 0..Len(s) : z < b => At(s, z) = 32
  BY <1>1, <1>2 DEF IsRunEnd
<1>4. At(s, b) # 32
  <2>1. CASE b = Len(s)
    <3>1. At(s, b) = 0
      BY <2>1, AtFacts
    <3> QED BY <3>1
  <2> QED BY <1>2, <2>1 DEF IsRunEnd
<1>5. Spaces(s, b)
  <2> SUFFICES ASSUME NEW k \in 1..b PROVE s[k] = 32
    BY DEF Spaces
  <2>1. k-1 \in 0..Len(s) /\ k-1 < b /\ k-1 < Len(s) /\ k-1+1 = k
    BY <1>1, <1>2
  <2>2. At(s, k-1) = s[k]
    BY <2>1 DEF At
  <2> QED BY <1>3, <2>1, <2>2
<1>6. ASSUME NEW z \in 0..Len(s), Spaces(s, z) PROVE z <= b
  <2> SUFFICES ASSUME b < z PROVE FALSE
    BY <1>1, <1>2
  <2>1. b+1 \in 1..z /\ b < Len(s)
    BY <1>1, <1>2
  <2>2. s[b+1] = 32
    BY <1>6, <2>1 DEF Spaces
  <2>3. At(s, b) = s[b+1]
    BY <2>1 DEF At
  <2> QED BY <1>4, <2>2, <2>3
<1> QED BY <1>2, <1>3, <1>4, <1>5, <1>6 DEF b

(* Digits stand at z after spaces only where the spaces end.               *)
LEMMA DigitsAtBlank ==
  ASSUME NEW s \in Seq(1..255), NEW z \in 0..Len(s), NEW e \in 0..Len(s), NEW base \in 0..36,
         Spaces(s, z), InBase(Part(s, z, e), base)
  PROVE  z = Blank(s) /\ ~Amp(s)
<1>1. z < e /\ \A i \in z..e-1 : DigitOf(At(s, i)) < base
  BY InBaseIs
<1>2. z \in z..e-1
  BY <1>1, LenProperties
<1>3. DigitOf(At(s, z)) < base
  BY <1>1, <1>2
<1>4. At(s, z) # 32 /\ At(s, z) # 38
  <2>1. DigitOf(32) = 36 /\ DigitOf(38) = 36
    BY DEF DigitOf
  <2> QED BY <1>3, <2>1
<1>5. z <= Blank(s) /\ ~(z < Blank(s)) /\ Blank(s) \in 0..Len(s) /\ Len(s) \in Nat
  BY <1>4, BlankFacts, LenProperties
<1>6. z = Blank(s)
  BY <1>5
<1> QED BY <1>4, <1>6 DEF Amp

(* There is at most one prefix: the one mos_read_unsigned finds.           *)
LEMMA PrefixIs ==
  ASSUME NEW s \in Seq(1..255), NEW z \in 0..Len(s), NEW u \in 0..Len(s)
  PROVE  Prefix(s, z, u) <=> z = Blank(s) /\ u = InTen(s).p /\ Prefixed(s)
<1>1. Blank(s) \in 0..Len(s) /\ 10 \in 0..36 /\ Spaces(s, Blank(s))
  BY BlankFacts
<1>2. DigitOf(95) = 36
  BY DEF DigitOf
<1> DEFINE ten == 10
           q == Blank(s)
<1>3. Stands(s, q, u, ten) <=> q < u /\ u = InTen(s).p
  <2>1. q \in 0..Len(s) /\ ten \in 0..36
    BY <1>1
  <2> HIDE DEF q, ten
  <2>2. Stands(s, q, u, ten) <=> q < u /\ u = ReadInBase(s, q, ten).p
    BY <2>1, OneNumeral
  <2> QED BY <2>2 DEF InTen, q, ten
<1>4. ASSUME Prefix(s, z, u) PROVE z = Blank(s) /\ u = InTen(s).p /\ Prefixed(s)
  <2>1. Spaces(s, z) /\ InBase(Part(s, z, u), 10) /\ At(s, u) = 95
    BY <1>4 DEF Prefix
  <2>2. z = Blank(s)
    BY <1>1, <2>1, DigitsAtBlank
  <2>3. Stands(s, Blank(s), u, 10)
    BY <1>2, <2>1, <2>2 DEF Stands
  <2>4. Blank(s) < u /\ u = InTen(s).p
    BY <1>3, <2>3
  <2> QED BY <2>1, <2>2, <2>4 DEF Prefixed
<1>5. ASSUME z = Blank(s), u = InTen(s).p, Prefixed(s) PROVE Prefix(s, z, u)
  <2>1. Stands(s, Blank(s), u, 10)
    BY <1>3, <1>5 DEF Prefixed
  <2> QED BY <1>1, <1>5, <2>1 DEF Prefix, Stands, Prefixed
<1> QED BY <1>4, <1>5

(* What the first attempt, in base ten, leaves.                            *)
LEMMA InTenFacts ==
  ASSUME NEW s \in Seq(1..255)
  PROVE  /\ InTen(s).p \in 0..Len(s) /\ Blank(s) <= InTen(s).p
         /\ InTen(s).n = Value(Part(s, Blank(s), InTen(s).p), 10) % WORD
         /\ Prefixed(s) => ~Amp(s) /\ Blank(s) < InTen(s).p /\ InTen(s).p + 1 \in 0..Len(s)
<1> DEFINE r == InTen(s)
           f == r.p
<1>1. Blank(s) \in 0..Len(s) /\ Len(s) \in Nat /\ 10 \in 0..36
  BY BlankFacts, LenProperties
<1>2. f \in Blank(s)..Len(s) /\ r.n = Value(Part(s, Blank(s), f), 10) % WORD
  BY <1>1, ReadFacts DEF InTen
<1> HIDE DEF r, f
<1>3. f \in 0..Len(s) /\ Blank(s) <= f
  BY <1>1, <1>2
<1>4. ASSUME Prefixed(s) PROVE ~Amp(s) /\ Blank(s) < f /\ f + 1 \in 0..Len(s)
  <2>1. Blank(s) < f /\ At(s, f) = 95
    BY <1>4 DEF Prefixed, r, f
  <2>2. Blank(s) < f
    BY <1>1, <1>2, <1>3, <2>1
  <2>3. f # Len(s)
    <3> SUFFICES ASSUME f = Len(s) PROVE FALSE
      OBVIOUS
    <3>1. At(s, f) = 0
      BY AtFacts
    <3> QED BY <2>1, <3>1
  <2>4. f + 1 \in 0..Len(s)
    BY <1>1, <1>3, <2>3
  <2>5. Prefix(s, Blank(s), f)
    BY <1>1, <1>3, <1>4, PrefixIs DEF r, f
  <2>6. ~Amp(s)
    BY <1>1, <1>3, <2>5, DigitsAtBlank DEF Prefix
  <2> QED BY <2>2, <2>4, <2>6
<1> QED BY <1>2, <1>3, <1>4 DEF r, f

LEMMA PlaceType == ASSUME NEW s \in Seq(1..255) PROVE Place(s) \in 0..Len(s)
<1>1. Blank(s) \in 0..Len(s) /\ Len(s) \in Nat
  BY BlankFacts, LenProperties
<1>2. ASSUME Amp(s) PROVE Blank(s) + 1 \in 0..Len(s)
  <2>1. Blank(s) # Len(s)
    <3> SUFFICES ASSUME Blank(s) = Len(s) PROVE FALSE
      OBVIOUS
    <3>1. At(s, Blank(s)) = 0
      BY AtFacts
    <3> QED BY <1>2, <3>1 DEF Amp
  <2> QED BY <1>1, <2>1
<1> QED BY <1>1, <1>2, InTenFacts DEF Place

(* The number starts where mos_read_unsigned looks, or nowhere.            *)
LEMMA StartsAre ==
  ASSUME NEW s \in Seq(1..255), NEW dflt \in 2..36
  PROVE  /\ <<Place(s), InBase0(s, dflt)>> \in Starts(s, dflt)
         /\ \A a \in Starts(s, dflt) : a = <<a[1], a[2]>>
         /\ \A i, b : <<i, b>> \in Starts(s, dflt) =>
              \/ i = Place(s) /\ b = InBase0(s, dflt)
              \/ i \in 0..Len(s) /\ Spaces(s, i) /\ b = dflt
                 /\ ~(\E u \in i..Len(s) : Prefix(s, i, u))
<1> DEFINE A == {<<z + 1, 16>> : z \in {y \in 0..Len(s) : Spaces(s, y) /\ At(s, y) = 38}}
           B == {<<u[2] + 1, Value(Part(s, u[1], u[2]), 10) % WORD>> :
                  u \in {v \in (0..Len(s)) \X (0..Len(s)) : v[1] < v[2] /\ Prefix(s, v[1], v[2])}}
           C == {<<z, dflt>> : z \in {y \in 0..Len(s) :
                                       Spaces(s, y) /\ ~\E u \in y..Len(s) : Prefix(s, y, u)}}
           f == InTen(s).p
<1>1. Starts(s, dflt) = (A \cup B) \cup C
  BY DEF Starts
<1>2. Blank(s) \in 0..Len(s) /\ Spaces(s, Blank(s)) /\ Len(s) \in Nat
  BY BlankFacts, LenProperties
<1>3. /\ f \in 0..Len(s) /\ InTen(s).n = Value(Part(s, Blank(s), f), 10) % WORD
      /\ Prefixed(s) => ~Amp(s) /\ Blank(s) < f
  BY InTenFacts
<1>4. <<Place(s), InBase0(s, dflt)>> \in Starts(s, dflt)
  <2>1. CASE Amp(s)
    <3>1. <<Blank(s) + 1, 16>> \in A
      BY <1>2, <2>1 DEF Amp
    <3> QED BY <1>1, <2>1, <3>1 DEF Place, InBase0
  <2>2. CASE Prefixed(s)
    <3>1. Prefix(s, Blank(s), f)
      BY <1>2, <1>3, <2>2, PrefixIs
    <3> DEFINE w == <<Blank(s), f>>
    <3>2. w \in (0..Len(s)) \X (0..Len(s)) /\ w[1] = Blank(s) /\ w[2] = f
      BY <1>2, <1>3
    <3>3. w[1] < w[2] /\ Prefix(s, w[1], w[2])
      BY <1>3, <2>2, <3>1, <3>2
    <3>4. <<w[2] + 1, Value(Part(s, w[1], w[2]), 10) % WORD>> \in B
      <4> HIDE DEF w
      <4> QED BY <3>2, <3>3
    <3>5. <<f + 1, InTen(s).n>> \in B
      BY <1>3, <3>2, <3>4
    <3> QED BY <1>1, <1>3, <2>2, <3>5 DEF Place, InBase0
  <2>3. CASE ~Amp(s) /\ ~Prefixed(s)
    <3>1. ~\E u \in Blank(s)..Len(s) : Prefix(s, Blank(s), u)
      <4> SUFFICES ASSUME NEW u \in Blank(s)..Len(s), Prefix(s, Blank(s), u) PROVE FALSE
        OBVIOUS
      <4>1. u \in 0..Len(s)
        BY <1>2
      <4> QED BY <1>2, <2>3, <4>1, PrefixIs
    <3>2. <<Blank(s), dflt>> \in C
      BY <1>2, <3>1
    <3> QED BY <1>1, <2>3, <3>2 DEF Place, InBase0
  <2> QED BY <2>1, <2>2, <2>3
<1>5. ASSUME NEW i, NEW b, <<i, b>> \in Starts(s, dflt)
      PROVE  \/ i = Place(s) /\ b = InBase0(s, dflt)
             \/ i \in 0..Len(s) /\ Spaces(s, i) /\ b = dflt /\ ~(\E u \in i..Len(s) : Prefix(s, i, u))
  <2>1. CASE <<i, b>> \in A
    <3>1. PICK z \in 0..Len(s) : Spaces(s, z) /\ At(s, z) = 38 /\ <<i, b>> = <<z + 1, 16>>
      BY <2>1
    <3>2. z <= Blank(s) /\ ~(z < Blank(s))
      BY <3>1, BlankFacts
    <3>3. z = Blank(s)
      BY <1>2, <3>2
    <3> QED BY <3>1, <3>3 DEF Place, InBase0, Amp
  <2>2. CASE <<i, b>> \in B
    <3>1. PICK u \in (0..Len(s)) \X (0..Len(s)) :
            /\ Prefix(s, u[1], u[2]) /\ <<i, b>> = <<u[2] + 1, Value(Part(s, u[1], u[2]), 10) % WORD>>
      BY <2>2
    <3>2. u[1] \in 0..Len(s) /\ u[2] \in 0..Len(s)
      OBVIOUS
    <3>3. u[1] = Blank(s) /\ u[2] = f /\ Prefixed(s)
      BY <3>1, <3>2, PrefixIs
    <3>4. i = f + 1 /\ b = InTen(s).n
      BY <1>3, <3>1, <3>3
    <3> QED BY <1>3, <3>3, <3>4 DEF Place, InBase0
  <2>3. CASE <<i, b>> \in C
    BY <2>3
  <2> QED BY <1>1, <1>5, <2>1, <2>2, <2>3
<1>6. \A a \in Starts(s, dflt) : a = <<a[1], a[2]>>
  BY <1>1
<1> QED BY <1>4, <1>5, <1>6

(* There is one numeral, or none.                                          *)
LEMMA NumeralsAre ==
  ASSUME NEW s \in Seq(1..255), NEW dflt \in 2..36
  PROVE  LET i == Place(s)
             b == InBase0(s, dflt)
             e == ReadInBase(s, i, b).p
         IN  /\ \A m \in Numerals(s, dflt) : m[1] = i /\ m[2] = e /\ m[3] = b /\ b \in 2..36 /\ i < e
             /\ b \in 2..36 /\ i < e => Numerals(s, dflt) # {}
<1> DEFINE i == Place(s)
           b == InBase0(s, dflt)
           e == ReadInBase(s, i, b).p
<1>1. i \in 0..Len(s) /\ Blank(s) \in 0..Len(s) /\ Len(s) \in Nat /\ \A x \in 2..36 : x \in 0..36
  BY PlaceType, BlankFacts, LenProperties
<1>2. ASSUME NEW m \in Numerals(s, dflt) PROVE m[1] = i /\ m[2] = e /\ m[3] = b /\ b \in 2..36 /\ i < e
  <2>1. PICK a \in Starts(s, dflt), j \in 0..Len(s) :
          /\ m = <<a[1], j, a[2]>> /\ m[1] < m[2] /\ m[3] \in 2..36
          /\ InBase(Part(s, m[1], m[2]), m[3]) /\ DigitOf(At(s, m[2])) >= m[3]
    BY DEF Numerals
  <2> DEFINE i1 == a[1]
             b1 == a[2]
  <2>2. m[1] = i1 /\ m[2] = j /\ m[3] = b1 /\ i1 < j /\ b1 \in 2..36 /\ Stands(s, i1, j, b1)
    BY <2>1 DEF Stands
  <2>3. a = <<i1, b1>>
    BY StartsAre
  <2> HIDE DEF i1, b1, i, b, e
  <2>4. i1 = i /\ b1 = b
    <3>1. \/ i1 = Place(s) /\ b1 = InBase0(s, dflt)
          \/ i1 \in 0..Len(s) /\ Spaces(s, i1) /\ b1 = dflt /\ ~(\E u \in i1..Len(s) : Prefix(s, i1, u))
      BY <2>1, <2>3, StartsAre
    <3>2. CASE i1 \in 0..Len(s) /\ Spaces(s, i1) /\ b1 = dflt /\ ~(\E u \in i1..Len(s) : Prefix(s, i1, u))
      <4>1. InBase(Part(s, i1, j), b1) /\ b1 \in 0..36
        BY <1>1, <2>2 DEF Stands
      <4>2. i1 = Blank(s) /\ ~Amp(s)
        BY <3>2, <4>1, DigitsAtBlank
      <4>3. ~Prefixed(s)
        <5> SUFFICES ASSUME Prefixed(s) PROVE FALSE
          OBVIOUS
        <5> DEFINE f == InTen(s).p
        <5>1. f \in 0..Len(s) /\ Blank(s) < f
          BY InTenFacts
        <5> HIDE DEF f
        <5>2. f \in i1..Len(s)
          BY <1>1, <4>2, <5>1
        <5>3. Prefix(s, i1, f)
          BY <4>2, <5>1, <3>2, PrefixIs DEF f
        <5> QED BY <3>2, <5>2, <5>3
      <4> QED BY <3>2, <4>2, <4>3 DEF i, b, Place, InBase0
    <3> QED BY <3>1, <3>2 DEF i, b
  <2>5. j = ReadInBase(s, i1, b1).p
    <3>1. i1 \in 0..Len(s) /\ b1 \in 0..36
      BY <1>1, <2>2, <2>4 DEF i
    <3>2. j \in 0..Len(s) /\ Stands(s, i1, j, b1)
      BY <2>2
    <3>3. Stands(s, i1, j, b1) <=> i1 < j /\ j = ReadInBase(s, i1, b1).p
      BY <3>1, <3>2, OneNumeral
    <3> QED BY <3>2, <3>3
  <2> QED BY <2>2, <2>4, <2>5 DEF e
<1>3. ASSUME b \in 2..36, i < e PROVE Numerals(s, dflt) # {}
  <2> DEFINE a == <<i, b>>
             m == <<a[1], e, a[2]>>
  <2>1. a \in Starts(s, dflt) /\ a[1] = i /\ a[2] = b
    BY StartsAre
  <2> HIDE DEF i, b
  <2>2. b \in 0..36
    BY <1>1, <1>3
  <2>3. e \in 0..Len(s)
    <3>1. e \in i..Len(s)
      BY <1>1, <2>2, ReadFacts DEF i, b
    <3> QED BY <1>1, <3>1
  <2>4. Stands(s, i, e, b)
    <3> HIDE DEF e
    <3>1. e = ReadInBase(s, i, b).p
      BY DEF e
    <3>2. i \in 0..Len(s)
      BY <1>1 DEF i
    <3> QED BY <1>3, <2>2, <2>3, <3>1, <3>2, OneNumeral
  <2> HIDE DEF a, e
  <2>5. m[1] = i /\ m[2] = e /\ m[3] = b
    BY <2>1
  <2>6. m \in {<<c[1], j, c[2]>> : c \in Starts(s, dflt), j \in 0..Len(s)}
    BY <2>1, <2>3
  <2> HIDE DEF m
  <2>7. m[1] < m[2] /\ m[3] \in 2..36 /\ InBase(Part(s, m[1], m[2]), m[3]) /\ DigitOf(At(s, m[2])) >= m[3]
    BY <1>3, <2>4, <2>5 DEF Stands
  <2>8. m \in Numerals(s, dflt)
    BY <2>6, <2>7 DEF Numerals
  <2> QED BY <2>8
<1> QED BY <1>2, <1>3

(* What the call does in these terms.                                      *)
Verdict(s, p, n, flags, max) ==
  IF TooBig(n, flags, max) THEN "NumbTooBig"
  ELSE IF "terminator" \in flags /\ At(s, p) > 32 THEN "BadNumb" ELSE "none"

(* The flags, on a number that is there.                                   *)
LEMMA CheckedIs ==
  ASSUME NEW s \in Seq(1..255), NEW p \in 0..Len(s), NEW base \in 0..36, NEW flags, NEW max
  PROVE  LET r == ReadInBase(s, p, base)
             c == Checked(s, p, base, flags, max)
         IN  /\ ~(p < r.p) => c.err = "BadNumb"
             /\ p < r.p => c.p = r.p /\ c.n = r.n /\ c.err = Verdict(s, r.p, r.n, flags, max)
<1> DEFINE r == ReadInBase(s, p, base)
           c == Checked(s, p, base, flags, max)
<1>1. r.ok = (r.p > p) /\ r.p \in Nat /\ p \in Nat
  <2>1. r.p \in p..Len(s) /\ r.ok = (r.p > p)
    BY ReadFacts
  <2>2. p \in Nat /\ Len(s) \in Nat
    BY LenProperties
  <2> HIDE DEF r
  <2> QED BY <2>1, <2>2
<1>2. r.ok <=> p < r.p
  <2> DEFINE f == r.p
             k == r.ok
  <2>1. k = (f > p) /\ f \in Nat
    BY <1>1
  <2> HIDE DEF f, k
  <2>2. k <=> p < f
    BY <1>1, <2>1
  <2> QED BY <2>2 DEF f, k
<1>3. c = CASE ~r.ok -> Answer("BadNumb", r.p, 0)
            [] r.ok /\ TooBig(r.n, flags, max) -> Answer("NumbTooBig", r.p, r.n)
            [] r.ok /\ ~TooBig(r.n, flags, max) /\ "terminator" \in flags /\ At(s, r.p) > 32 ->
                 Answer("BadNumb", r.p, r.n)
            [] OTHER -> Answer("none", r.p, r.n)
  BY DEF Checked
<1> HIDE DEF r, c
<1>4. ASSUME ~(p < r.p) PROVE c.err = "BadNumb"
  BY <1>2, <1>3, <1>4 DEF Answer
<1>5. ASSUME p < r.p PROVE c.p = r.p /\ c.n = r.n /\ c.err = Verdict(s, r.p, r.n, flags, max)
  BY <1>2, <1>3, <1>5 DEF Answer, Verdict
<1> QED BY <1>4, <1>5 DEF r, c

(* A bad base, or the number that stands at Place.                         *)
LEMMA ReadUnsignedIs ==
  ASSUME NEW s \in Seq(1..255), NEW base, NEW flags, NEW max
  PROVE  LET dflt == IF base \in 2..36 THEN base ELSE 10
             r == ReadUnsigned(base, flags, s, max)
         IN  \/ r.err = "BadBase" /\ InBase0(s, dflt) \notin 2..36
             \/ r = Checked(s, Place(s), InBase0(s, dflt), flags, max) /\ InBase0(s, dflt) \in 2..36
<1> DEFINE dflt == IF base \in 2..36 THEN base ELSE 10
           r == ReadUnsigned(base, flags, s, max)
           b == InTen(s)
           pre == b.ok /\ At(s, b.p) = 95
<1>1. r = CASE At(s, Blank(s)) = 38 -> Checked(s, Blank(s) + 1, 16, flags, max)
            [] pre /\ b.n \in 2..36 -> Checked(s, b.p + 1, b.n, flags, max)
            [] pre /\ b.n \notin 2..36 -> Answer("BadBase", Blank(s), max)
            [] OTHER -> Checked(s, Blank(s), dflt, flags, max)
  BY DEF ReadUnsigned, InTen, Blank
<1>2. pre <=> Prefixed(s)
  <2>1. b.ok = (b.p > Blank(s)) /\ b.p \in Blank(s)..Len(s) /\ Blank(s) \in Nat /\ Len(s) \in Nat
    <3> DEFINE q == Blank(s)
               ten == 10
    <3>1. q \in 0..Len(s) /\ ten \in 0..36
      BY BlankFacts
    <3> HIDE DEF q, ten
    <3>2. ReadInBase(s, q, ten).ok = (ReadInBase(s, q, ten).p > q) /\ ReadInBase(s, q, ten).p \in q..Len(s)
      BY <3>1, ReadFacts
    <3>3. q \in Nat /\ Len(s) \in Nat
      BY <3>1, LenProperties
    <3> QED BY <3>2, <3>3 DEF q, ten, InTen
  <2> DEFINE f == b.p
             k == b.ok
             q == Blank(s)
  <2>2. k = (f > q) /\ f \in Nat /\ q \in Nat
    BY <2>1
  <2> HIDE DEF f, k, q
  <2>3. k <=> q < f
    BY <2>2
  <2> QED BY <2>3 DEF f, k, q, Prefixed
<1>3. Prefixed(s) => ~Amp(s)
  BY InTenFacts
<1>4. dflt \in 2..36
  OBVIOUS
<1> HIDE DEF r, b, pre, dflt
<1>5. CASE Amp(s)
  <2>1. r = Checked(s, Blank(s) + 1, 16, flags, max)
    BY <1>1, <1>2, <1>3, <1>5 DEF Amp
  <2> QED BY <1>5, <2>1 DEF Place, InBase0, r, dflt
<1>6. CASE Prefixed(s) /\ b.n \in 2..36
  <2>1. r = Checked(s, b.p + 1, b.n, flags, max)
    BY <1>1, <1>2, <1>3, <1>6 DEF Amp
  <2> QED BY <1>3, <1>6, <2>1 DEF Place, InBase0, r, b, dflt
<1>7. CASE Prefixed(s) /\ b.n \notin 2..36
  <2>1. r = Answer("BadBase", Blank(s), max)
    BY <1>1, <1>2, <1>3, <1>7 DEF Amp
  <2>2. r.err = "BadBase" /\ InBase0(s, dflt) \notin 2..36
    BY <1>3, <1>7, <2>1 DEF InBase0, b, Answer
  <2> QED BY <2>2 DEF r, dflt
<1>8. CASE ~Amp(s) /\ ~Prefixed(s)
  <2>1. r = Checked(s, Blank(s), dflt, flags, max)
    BY <1>1, <1>2, <1>8 DEF Amp
  <2>2. r = Checked(s, Place(s), InBase0(s, dflt), flags, max) /\ InBase0(s, dflt) \in 2..36
    BY <1>4, <1>8, <2>1 DEF Place, InBase0
  <2> QED BY <2>2 DEF r, dflt
<1> QED BY <1>5, <1>6, <1>7, <1>8

(* What NumberRead says of one answer.                                     *)
Means(base, flags, s, max, r) ==
  LET found == Numerals(s, IF base \in 2..36 THEN base ELSE 10)
  IN /\ found = {} => r.err \in {"BadBase", "BadNumb"}
     /\ \A m \in found :
          LET v == Value(Part(s, m[1], m[2]), m[3])
          IN v < WORD => r.n = v /\ r.p = m[2] /\ r.err = Verdict(s, m[2], v, flags, max)

(* The answer says of the numerals of the string what NumberRead says.     *)
LEMMA AnswerMeans ==
  ASSUME NEW s \in Seq(1..255), NEW base, NEW flags, NEW max
  PROVE  Means(base, flags, s, max, ReadUnsigned(base, flags, s, max))
<1> DEFINE dflt == IF base \in 2..36 THEN base ELSE 10
           r == ReadUnsigned(base, flags, s, max)
           i == Place(s)
           b == InBase0(s, dflt)
           e == ReadInBase(s, i, b).p
           c == Checked(s, i, b, flags, max)
<1>1. dflt \in 2..36
  OBVIOUS
<1>2. \/ r.err = "BadBase" /\ b \notin 2..36
      \/ r = c /\ b \in 2..36
  BY ReadUnsignedIs
<1> HIDE DEF r, dflt
<1>3. /\ \A m \in Numerals(s, dflt) : m[1] = i /\ m[2] = e /\ m[3] = b /\ b \in 2..36 /\ i < e
      /\ b \in 2..36 /\ i < e => Numerals(s, dflt) # {}
  BY <1>1, NumeralsAre
<1>4. i \in 0..Len(s) /\ Len(s) \in Nat
  BY PlaceType, LenProperties
<1> HIDE DEF i, b
<1>5. ASSUME b \in 2..36
      PROVE  /\ ~(i < e) => c.err = "BadNumb"
             /\ i < e => c.p = e /\ c.n = ReadInBase(s, i, b).n
                         /\ c.err = Verdict(s, e, ReadInBase(s, i, b).n, flags, max)
  <2>1. b \in 0..36
    BY <1>5
  <2> QED BY <1>4, <2>1, CheckedIs
<1>6. ASSUME b \in 2..36
      PROVE  e \in i..Len(s) /\ ReadInBase(s, i, b).n = Value(Part(s, i, e), b) % WORD
  <2>1. b \in 0..36
    BY <1>6
  <2> QED BY <1>4, <2>1, ReadFacts
<1> HIDE DEF c
<1>7. ASSUME Numerals(s, dflt) = {} PROVE r.err \in {"BadBase", "BadNumb"}
  BY <1>2, <1>3, <1>5, <1>7
<1>8. ASSUME NEW m \in Numerals(s, dflt), Value(Part(s, m[1], m[2]), m[3]) < WORD
      PROVE  LET v == Value(Part(s, m[1], m[2]), m[3])
             IN  r.n = v /\ r.p = m[2] /\ r.err = Verdict(s, m[2], v, flags, max)
  <2>1. m[1] = i /\ m[2] = e /\ m[3] = b /\ b \in 2..36 /\ i < e
    BY <1>3, <1>8
  <2> DEFINE v == Value(Part(s, i, e), b)
             n == ReadInBase(s, i, b).n
  <2>2. e \in i..Len(s) /\ n = v % WORD
    BY <1>6, <2>1
  <2>3. v \in Nat
    <3> HIDE DEF e
    <3>1. b \in Nat
      BY <2>1
    <3> QED BY <1>4, <2>2, <3>1, ReadsValue
  <2>4. v < WORD
    BY <1>8, <2>1
  <2>5. r = c /\ c.p = e /\ c.n = n /\ c.err = Verdict(s, e, n, flags, max)
    BY <1>2, <1>5, <2>1
  <2> HIDE DEF v, n, e
  <2>6. n = v
    BY <2>2, <2>3, <2>4, WordAssumption
  <2> QED BY <2>1, <2>5, <2>6 DEF v
<1> QED BY <1>7, <1>8 DEF Means, r, dflt

-----------------------------------------------------------------------------
(* The numbers that programs read.                                         *)

(* What stands in reply is an answer to its arguments.                     *)
ReplyInv ==
  reply # None =>
    /\ reply[1].s \in Strings
    /\ reply[2] = ReadUnsigned(reply[1].base, reply[1].flags, reply[1].s, reply[1].max)

LEMMA ReplyNext == ReplyInv /\ [SNext]_sessionvars => ReplyInv'
<1> SUFFICES ASSUME ReplyInv, [SNext]_sessionvars PROVE ReplyInv'
  OBVIOUS
<1>1. CASE \/ at = "input" /\ Edited /\ UNCHANGED svars
           \/ TakeLine \/ TakeEscape \/ UNCHANGED sessionvars
  <2>1. UNCHANGED reply
    BY <1>1 DEF svars, sessionvars, TakeLine, TakeEscape
  <2> QED BY <2>1 DEF ReplyInv
<1>2. CASE (\E h \in Changed : Install(h)) \/ PutBack \/ Finish \/ CallError \/ CallExit \/ Reset
  <2>1. reply' = None
    BY <1>2 DEF Install, PutBack, Finish, CallError, CallExit, Reset
  <2> QED BY <2>1 DEF ReplyInv
<1>3. ASSUME NEW base \in Bases, NEW flags \in FlagSets, NEW s \in Strings, NEW max \in Limits,
             NEW x \in BOOLEAN, ReadNumber(base, flags, s, max, x)
      PROVE  ReplyInv'
  <2> DEFINE q == [base |-> base, flags |-> flags, s |-> s, max |-> max]
             r == ReadUnsigned(base, flags, s, max)
  <2>1. reply' = <<q, r>>
    BY <1>3 DEF ReadNumber
  <2>2. q.base = base /\ q.flags = flags /\ q.s = s /\ q.max = max
    OBVIOUS
  <2> HIDE DEF q
  <2>3. r = ReadUnsigned(q.base, q.flags, q.s, q.max) /\ q.s \in Strings
    BY <2>2
  <2> HIDE DEF r
  <2>4. reply'[1] = q /\ reply'[2] = r
    BY <2>1
  <2> QED BY <2>3, <2>4 DEF ReplyInv
<1> QED BY <1>1, <1>2, <1>3 DEF SNext

(* OS_READUNS reads the numeral that a string starts with, for strings,    *)
(* words and limits of any size: the loop that shifts the sum and adds a   *)
(* digit has the value that the weights of the digits give, and no other   *)
(* place of the string could be where the number starts or ends.           *)
THEOREM NumberReadCorrect == SSpec => []NumberRead
<1>1. SInit => ReplyInv
  BY DEF SInit, ReplyInv
<1>2. ReplyInv => NumberRead
  <2> SUFFICES ASSUME ReplyInv, reply # None PROVE NumberRead
    BY DEF NumberRead
  <2> DEFINE q == reply[1]
             r == reply[2]
  <2>1. q.s \in Seq(1..255) /\ r = ReadUnsigned(q.base, q.flags, q.s, q.max)
    BY StringsAssumption DEF ReplyInv
  <2> HIDE DEF q, r
  <2>2. Means(q.base, q.flags, q.s, q.max, r)
    BY <2>1, AnswerMeans
  <2> QED BY <2>2 DEF Means, Verdict, NumberRead, q, r
<1> QED BY <1>1, <1>2, ReplyNext, PTL DEF SSpec

-----------------------------------------------------------------------------
(* Commands.                                                               *)

(* A name and a word agree for n characters and no longer.                 *)
Agree(name, word, n) ==
  /\ n <= Len(word) /\ SubSeq(name, 1, n) = SubSeq(word, 1, n)
  /\ n = Len(name) \/ n = Len(word) \/ name[n+1] # word[n+1]

(* The first n characters of a string.                                     *)
LEMMA Front ==
  ASSUME NEW s \in Seq(0..255), NEW n \in 0..Len(s)
  PROVE  /\ SubSeq(s, 1, n) \in Seq(0..255) /\ Len(SubSeq(s, 1, n)) = n
         /\ \A i \in 1..n : SubSeq(s, 1, n)[i] = s[i]
<1> DEFINE one == 1
           chars == 0..255
<1>1. Len(s) \in Nat /\ n \in Nat /\ n \in Int /\ one \in Int /\ one = 1
  BY LenProperties
<1>2. \A i \in one..n : s[i] \in chars
  <2> TAKE i \in one..n
  <2>1. i \in 1..Len(s)
    BY <1>1
  <2> QED BY <2>1, LenProperties
<1> HIDE DEF one, chars
<1>3. /\ SubSeq(s, one, n) \in Seq(chars)
      /\ Len(SubSeq(s, one, n)) = IF one <= n THEN n - one + 1 ELSE 0
      /\ \A i \in one..(n - one + 1) : SubSeq(s, one, n)[i] = s[one + i - 1]
  <2>1. /\ SubSeq(s, one, n) \in Seq(chars)
        /\ Len(SubSeq(s, one, n)) = IF one <= n THEN n - one + 1 ELSE 0
        /\ \A i \in 1..(n - one + 1) : SubSeq(s, one, n)[i] = s[one + i - 1]
    BY <1>1, <1>2, SubSeqProperties
  <2> QED BY <1>1, <2>1
<1>4. n - one + 1 = n /\ (n = 0 \/ one <= n) /\ \A i \in 1..n : one + i - 1 = i
  BY <1>1
<1> QED BY <1>1, <1>3, <1>4 DEF one, chars

LEMMA AgreeIs ==
  ASSUME NEW name \in Seq(0..255), NEW word \in Seq(0..255), NEW n \in 0..Len(name)
  PROVE  Agree(name, word, n) <=>
           /\ n <= Len(word) /\ \A i \in 1..n : name[i] = word[i]
           /\ n = Len(name) \/ n = Len(word) \/ name[n+1] # word[n+1]
<1>1. CASE n <= Len(word)
  <2>1. n \in 0..Len(word)
    BY <1>1, LenProperties
  <2> DEFINE a == SubSeq(name, 1, n)
             b == SubSeq(word, 1, n)
  <2>2. /\ a \in Seq(0..255) /\ Len(a) = n /\ \A i \in 1..n : a[i] = name[i]
        /\ b \in Seq(0..255) /\ Len(b) = n /\ \A i \in 1..n : b[i] = word[i]
    BY <2>1, Front
  <2> HIDE DEF a, b
  <2>3. (\A i \in 1..n : name[i] = word[i]) => a = b
    BY <2>2, Alike
  <2>4. a = b => \A i \in 1..n : name[i] = word[i]
    BY <2>2
  <2> QED BY <1>1, <2>3, <2>4 DEF Agree, a, b
<1> QED BY <1>1 DEF Agree

(* There is a number for which they agree.                                 *)
LEMMA SomeAgree ==
  ASSUME NEW name \in Seq(0..255), NEW word \in Seq(0..255)
  PROVE  \E n \in 0..Len(name) : Agree(name, word, n)
<1> DEFINE T == {n \in 0..Len(name) : n = Len(name) \/ n = Len(word) \/ name[n+1] # word[n+1]}
<1>1. Len(name) \in Nat /\ Len(word) \in Nat
  BY LenProperties
<1>2. PICK n \in T : \A j \in T : n <= j
  <2>1. T \subseteq Nat /\ Len(name) \in T
    BY <1>1
  <2> HIDE DEF T
  <2> QED BY <2>1, Least
<1>3. n <= Len(word)
  <2>1. CASE Len(word) <= Len(name)
    <3>1. Len(word) \in T
      BY <1>1, <2>1
    <3> HIDE DEF T
    <3> QED BY <1>2, <3>1
  <2> QED BY <1>1, <2>1
<1>4. ASSUME NEW i \in 1..n PROVE name[i] = word[i]
  <2>1. i-1 \in 0..Len(name) /\ ~(n <= i-1) /\ i-1+1 = i
    BY <1>1
  <2>2. i-1 \notin T
    <3> HIDE DEF T
    <3> QED BY <1>2, <2>1
  <2> QED BY <2>1, <2>2
<1> QED BY <1>3, <1>4, AgreeIs

(* cmdcmp accepts the name and its abbreviations.                          *)
LEMMA MatchesIs ==
  ASSUME NEW name \in Seq(0..255), NEW word \in Seq(0..255)
  PROVE  Matches(name, word) <=> word \in Abbreviations(name)
<1> DEFINE k == CHOOSE n \in 0..Len(name) : Agree(name, word, n)
<1>1. Matches(name, word) <=> (k = Len(word) /\ k = Len(name)) \/ (k + 1 = Len(word) /\ word[k+1] = 46)
  BY DEF Matches, Agree
<1>2. k \in 0..Len(name) /\ Agree(name, word, k)
  BY SomeAgree
<1> HIDE DEF k
<1>3. /\ k <= Len(word) /\ \A i \in 1..k : name[i] = word[i]
      /\ k = Len(name) \/ k = Len(word) \/ name[k+1] # word[k+1]
  BY <1>2, AgreeIs
<1>4. Len(name) \in Nat /\ Len(word) \in Nat /\ k \in Nat
  BY <1>2, LenProperties
<1> DEFINE Short(j) == SubSeq(name, 1, j) \o <<46>>
<1>5. ASSUME NEW j \in 0..Len(name)
      PROVE  /\ Short(j) \in Seq(0..255) /\ Len(Short(j)) = j + 1
             /\ Short(j)[j+1] = 46 /\ \A i \in 1..j : Short(j)[i] = name[i]
  <2> DEFINE a == SubSeq(name, 1, j)
             b == <<46>>
  <2>1. a \in Seq(0..255) /\ Len(a) = j /\ \A i \in 1..j : a[i] = name[i]
    BY Front
  <2>2. b \in Seq(0..255) /\ Len(b) = 1 /\ b[1] = 46
    OBVIOUS
  <2> HIDE DEF a, b
  <2>3. /\ a \o b \in Seq(0..255) /\ Len(a \o b) = Len(a) + Len(b)
        /\ \A i \in 1..Len(a)+Len(b) : (a \o b)[i] = IF i <= Len(a) THEN a[i] ELSE b[i - Len(a)]
    <3> DEFINE chars == 0..255
    <3>1. a \in Seq(chars) /\ b \in Seq(chars)
      BY <2>1, <2>2
    <3> HIDE DEF chars
    <3>2. /\ a \o b \in Seq(chars) /\ Len(a \o b) = Len(a) + Len(b)
          /\ \A i \in 1..Len(a)+Len(b) : (a \o b)[i] = IF i <= Len(a) THEN a[i] ELSE b[i - Len(a)]
      BY <3>1, ConcatProperties
    <3> QED BY <3>2 DEF chars
  <2>4. j \in Nat /\ j+1 \in 1..j+1 /\ ~(j+1 <= j) /\ j+1-j = 1 /\ \A i \in 1..j : i \in 1..j+1 /\ i <= j
    BY <1>4
  <2>5. (a \o b)[j+1] = 46 /\ \A i \in 1..j : (a \o b)[i] = name[i]
    BY <2>1, <2>2, <2>3, <2>4
  <2> QED BY <2>1, <2>2, <2>3, <2>5 DEF a, b
<1> HIDE DEF Short
<1>6. word \in Abbreviations(name) <=>
        \/ word = name
        \/ \E j \in 0..Len(name) : word = Short(j) /\ (j = Len(name) \/ name[j+1] # 46)
  BY DEF Abbreviations, Short
<1>7. ASSUME k = Len(word), k = Len(name) PROVE word = name
  BY <1>3, <1>7, Alike
<1>8. ASSUME k + 1 = Len(word), word[k+1] = 46
      PROVE  word = Short(k) /\ (k = Len(name) \/ name[k+1] # 46)
  <2>1. k # Len(word)
    BY <1>4, <1>8
  <2>2. \A i \in 1..Len(word) : word[i] = Short(k)[i]
    <3> TAKE i \in 1..Len(word)
    <3>1. i \in 1..k \/ i = k+1
      BY <1>4, <1>8
    <3> QED BY <1>2, <1>3, <1>5, <1>8, <3>1
  <2>3. word = Short(k)
    BY <1>2, <1>5, <1>8, <2>2, Alike
  <2> QED BY <1>3, <1>8, <2>1, <2>3
<1>9. ASSUME word = name PROVE k = Len(word) /\ k = Len(name)
  BY <1>3, <1>9
<1>10. ASSUME NEW j \in 0..Len(name), word = Short(j), j = Len(name) \/ name[j+1] # 46
       PROVE  k + 1 = Len(word) /\ word[k+1] = 46
  <2>1. Len(word) = j + 1 /\ word[j+1] = 46 /\ \A i \in 1..j : word[i] = name[i]
    BY <1>5, <1>10
  <2>2. ~(k < j)
    <3> SUFFICES ASSUME k < j PROVE FALSE
      OBVIOUS
    <3>1. k + 1 \in 1..j /\ k # Len(name) /\ k # Len(word)
      BY <1>4, <2>1
    <3> QED BY <1>3, <2>1, <3>1
  <2>3. k # j + 1
    <3> SUFFICES ASSUME k = j + 1 PROVE FALSE
      OBVIOUS
    <3>1. j # Len(name) /\ j + 1 \in 1..k
      BY <1>2, <1>4
    <3> QED BY <1>3, <1>10, <2>1, <3>1
  <2>4. k = j
    BY <1>3, <1>4, <2>1, <2>2, <2>3
  <2> QED BY <2>1, <2>4
<1> QED BY <1>1, <1>2, <1>6, <1>7, <1>8, <1>9, <1>10

(* The first word of a line is where cmd_run looks for it.                 *)
LEMMA WordIs ==
  ASSUME NEW s \in Seq(0..255), NEW i \in 0..Len(s), NEW j \in 0..Len(s)
  PROVE  FirstWord(s, i, j) <=> i = WordStart(s) /\ j = WordEnd(s) /\ i < j
<1> DEFINE blank == 0..32 \cup {42}
           letter == 33..255
<1>1. Len(s) \in Nat /\ i \in Nat /\ j \in Nat
  BY LenProperties
<1>2. \A p \in 0..Len(s)-1 : At(s, p) = s[p+1] /\ s[p+1] \in 0..255
  <2> TAKE p \in 0..Len(s)-1
  <2>1. p < Len(s) /\ p+1 \in 1..Len(s)
    BY <1>1
  <2>2. \A k \in 1..Len(s) : s[k] \in 0..255
    BY LenProperties
  <2> QED BY <2>1, <2>2 DEF At
<1>3. \A c \in 0..255 : /\ c \in blank <=> c <= 32 \/ c = 42
                        /\ c \in letter <=> c > 32
  OBVIOUS
<1> HIDE DEF blank, letter
<1>4. ASSUME FirstWord(s, i, j) PROVE i = WordStart(s) /\ j = WordEnd(s) /\ i < j
  <2>1. /\ \A k \in 1..i : s[k] <= 32 \/ s[k] = 42
        /\ i < j /\ s[i+1] # 42 /\ \A k \in i+1..j : s[k] > 32
        /\ j = Len(s) \/ s[j+1] <= 32
    BY <1>4 DEF FirstWord
  <2>2. IsRunEnd(s, 0, blank, i)
    <3>1. ASSUME NEW p \in 0..i-1 PROVE At(s, p) \in blank
      <4>1. p \in 0..Len(s)-1 /\ p+1 \in 1..i
        BY <1>1
      <4> DEFINE c == s[p+1]
      <4>2. At(s, p) = c /\ c \in 0..255 /\ (c <= 32 \/ c = 42)
        BY <1>2, <2>1, <4>1
      <4> HIDE DEF c
      <4> QED BY <1>3, <4>2
    <3>2. At(s, i) \notin blank
      <4>1. i \in 0..Len(s)-1 /\ i+1 \in i+1..j
        BY <1>1, <2>1
      <4> DEFINE c == s[i+1]
      <4>2. At(s, i) = c /\ c \in 0..255 /\ c > 32 /\ c # 42
        BY <1>2, <2>1, <4>1
      <4> HIDE DEF c
      <4>3. ~(c <= 32)
        BY <4>2
      <4> QED BY <1>3, <4>2, <4>3
    <3> QED BY <3>1, <3>2 DEF IsRunEnd
  <2>3. IsRunEnd(s, i, letter, j)
    <3>1. ASSUME NEW p \in i..j-1 PROVE At(s, p) \in letter
      <4>1. p \in 0..Len(s)-1 /\ p+1 \in i+1..j
        BY <1>1
      <4> DEFINE c == s[p+1]
      <4>2. At(s, p) = c /\ c \in 0..255 /\ c > 32
        BY <1>2, <2>1, <4>1
      <4> HIDE DEF c
      <4> QED BY <1>3, <4>2
    <3>2. CASE j # Len(s)
      <4>1. j \in 0..Len(s)-1
        BY <1>1, <3>2
      <4> DEFINE c == s[j+1]
      <4>2. At(s, j) = c /\ c \in 0..255 /\ c <= 32
        BY <1>2, <2>1, <3>2, <4>1
      <4> HIDE DEF c
      <4>3. ~(c > 32)
        BY <4>2
      <4>4. At(s, j) \notin letter
        BY <1>3, <4>2, <4>3
      <4> QED BY <3>1, <4>4 DEF IsRunEnd
    <3> QED BY <3>1, <3>2 DEF IsRunEnd
  <2>4. i = WordStart(s)
    <3>1. i \in 0..Len(s) /\ 0 \in 0..Len(s)
      BY <1>1
    <3>2. i = RunEnd(s, 0, blank)
      BY <1>1, <2>2, <3>1, RunEndIs
    <3> QED BY <3>2 DEF WordStart, blank
  <2>5. j = WordEnd(s)
    <3>1. j \in i..Len(s)
      BY <1>1, <2>1
    <3>2. j = RunEnd(s, i, letter)
      BY <1>1, <2>3, <3>1, RunEndIs
    <3> QED BY <2>4, <3>2 DEF WordEnd, letter
  <2> QED BY <2>1, <2>4, <2>5
<1>5. ASSUME i = WordStart(s), j = WordEnd(s), i < j PROVE FirstWord(s, i, j)
  <2>1. IsRunEnd(s, 0, blank, i)
    <3>1. 0 \in 0..Len(s)
      BY <1>1
    <3>2. IsRunEnd(s, 0, blank, RunEnd(s, 0, blank))
      BY <1>1, <3>1, RunEndIs
    <3> QED BY <1>5, <3>2 DEF WordStart, blank
  <2>2. IsRunEnd(s, i, letter, j)
    <3>1. IsRunEnd(s, i, letter, RunEnd(s, i, letter))
      BY <1>1, RunEndIs
    <3> QED BY <1>5, <3>1 DEF WordEnd, letter
  <2>3. ASSUME NEW k \in 1..i PROVE s[k] <= 32 \/ s[k] = 42
    <3>1. k-1 \in 0..i-1 /\ k-1 \in 0..Len(s)-1 /\ k-1+1 = k
      BY <1>1
    <3>2. At(s, k-1) \in blank /\ At(s, k-1) = s[k] /\ s[k] \in 0..255
      BY <1>2, <2>1, <3>1 DEF IsRunEnd
    <3> QED BY <1>3, <3>2
  <2>4. ASSUME NEW k \in i+1..j PROVE s[k] > 32
    <3>1. k-1 \in i..j-1 /\ k-1 \in 0..Len(s)-1 /\ k-1+1 = k
      BY <1>1
    <3>2. At(s, k-1) \in letter /\ At(s, k-1) = s[k] /\ s[k] \in 0..255
      BY <1>2, <2>2, <3>1 DEF IsRunEnd
    <3> QED BY <1>3, <3>2
  <2>5. s[i+1] # 42
    <3>1. i # Len(s) /\ i \in 0..Len(s)-1
      BY <1>1, <1>5
    <3>2. At(s, i) \notin blank /\ At(s, i) = s[i+1] /\ s[i+1] \in 0..255
      BY <1>2, <2>1, <3>1 DEF IsRunEnd
    <3> QED BY <1>3, <3>2
  <2>6. CASE j # Len(s)
    <3>1. j \in 0..Len(s)-1
      BY <1>1, <2>6
    <3>2. At(s, j) \notin letter /\ At(s, j) = s[j+1] /\ s[j+1] \in 0..255
      BY <1>2, <2>2, <2>6, <3>1 DEF IsRunEnd
    <3> DEFINE c == s[j+1]
    <3>3. c \in 0..255 /\ ~(c > 32)
      BY <1>3, <3>2
    <3> HIDE DEF c
    <3>4. c <= 32
      BY <3>3
    <3> QED BY <1>5, <2>3, <2>4, <2>5, <3>4 DEF FirstWord, c
  <2> QED BY <1>5, <2>3, <2>4, <2>5, <2>6 DEF FirstWord
<1> QED BY <1>4, <1>5

(* A line is GO when its word is one of GO's, and none of the junk's.      *)
LEMMA CommandIs ==
  ASSUME NEW s \in Seq(0..255)
  PROVE  Command(s) = "go" <=>
           \E i \in 0..Len(s), j \in 0..Len(s) :
             FirstWord(s, i, j) /\ Part(s, i, j) \in Abbreviations(GO) \ Abbreviations(Junk)
<1> DEFINE b == WordStart(s)
           e == WordEnd(s)
           word == Word(s)
<1>1. Len(s) \in Nat
  BY LenProperties
<1>2. b \in 0..Len(s)
  <2>1. 0 \in 0..Len(s)
    BY <1>1
  <2>2. b \in 0..Len(s)
    BY <1>1, <2>1, RunEndIs DEF WordStart
  <2> QED BY <2>2
<1>3. e \in b..Len(s)
  <2> HIDE DEF b
  <2>1. RunEnd(s, b, 33..255) \in b..Len(s)
    BY <1>1, <1>2, RunEndIs
  <2> QED BY <2>1 DEF WordEnd, b
<1>4. word = Part(s, b, e)
  BY DEF Word
<1> HIDE DEF b, e, word
<1>5. e \in 0..Len(s)
  BY <1>1, <1>2, <1>3
<1>6. word \in Seq(0..255) /\ (word # <<>> <=> b < e)
  <2> DEFINE chars == 0..255
             a == b + 1
  <2>1. a \in Int /\ e \in Int /\ a = b + 1
    BY <1>1, <1>2, <1>5
  <2>2. \A k \in a..e : s[k] \in chars
    <3> TAKE k \in a..e
    <3>1. k \in 1..Len(s)
      BY <1>1, <1>2, <1>5
    <3> QED BY <3>1, LenProperties
  <2> HIDE DEF chars, a
  <2>3. SubSeq(s, a, e) \in Seq(chars) /\ Len(SubSeq(s, a, e)) = IF a <= e THEN e - a + 1 ELSE 0
    BY <2>1, <2>2, SubSeqProperties
  <2>4. word = SubSeq(s, a, e)
    BY <1>4 DEF Part, a
  <2>5. word \in Seq(chars) /\ Len(word) = IF a <= e THEN e - a + 1 ELSE 0
    BY <2>3, <2>4
  <2>6. word # <<>> <=> Len(word) # 0
    BY <2>5
  <2>7. Len(word) # 0 <=> b < e
    BY <1>1, <1>2, <1>5, <2>1, <2>5
  <2> QED BY <2>5, <2>6, <2>7 DEF chars
<1>7. s = <<>> => ~(b < e)
  BY <1>1, <1>2, <1>5
<1>8. GO \in Seq(0..255) /\ Junk \in Seq(0..255)
  BY CommandAssumption
<1>9. /\ Matches(GO, word) <=> word \in Abbreviations(GO)
      /\ Matches(Junk, word) <=> word \in Abbreviations(Junk)
  BY <1>6, <1>8, MatchesIs
<1>10. Command(s) = "go" <=> b < e /\ ~Matches(Junk, word) /\ Matches(GO, word)
  <2>1. CASE b < e
    <3>1. s # <<>> /\ word # <<>>
      BY <1>6, <1>7, <2>1
    <3> QED BY <2>1, <3>1 DEF Command, word
  <2>2. CASE ~(b < e)
    <3>1. Word(s) = <<>>
      BY <1>6, <2>2 DEF word
    <3>2. Command(s) = "nothing"
      BY <3>1 DEF Command
    <3> QED BY <2>2, <3>2
  <2> QED BY <2>1, <2>2
<1>11. ASSUME NEW i \in 0..Len(s), NEW j \in 0..Len(s)
       PROVE  FirstWord(s, i, j) <=> i = b /\ j = e /\ i < j
  BY WordIs DEF b, e
<1> QED BY <1>2, <1>4, <1>5, <1>9, <1>10, <1>11

(* A line runs GO exactly when its first word is GO or an abbreviation of  *)
(* it that what stands past the table does not take: for every name of the *)
(* command, every memory past the table and lines of any size.             *)
THEOREM LineMeansCommandCorrect == SSpec => []LineMeansCommand
<1>1. LineInv => LineMeansCommand
  <2> SUFFICES ASSUME LineInv, at = "input", pc = "returned" PROVE LineMeansCommand
    BY DEF LineMeansCommand
  <2>1. size = ix /\ ix \in 0..maxindex /\ KeptPrintable /\ maxindex \in Nat
    BY Limits0 DEF LineInv, LineType, Ended
  <2> DEFINE s == Returned
  <2>2. s = [i \in 1..size |-> ptr[i-1]]
    BY DEF Returned
  <2>3. \A i \in 1..size : ptr[i-1] \in 0..255
    <3> TAKE i \in 1..size
    <3>1. i-1 \in 0..ix-1
      BY <2>1
    <3>2. ptr[i-1] \in Printable
      BY <2>1, <3>1 DEF KeptPrintable
    <3> QED BY <3>2, CharAssumption
  <2> HIDE DEF s
  <2>4. s \in Seq(0..255) /\ Len(s) = size
    <3>1. size \in Nat
      BY <2>1
    <3> QED BY <2>2, <2>3, <3>1
  <2> QED BY <2>4, CommandIs DEF LineMeansCommand, s
<1>2. SSpec => []LineInv
  BY SessionReadsLines, LineInputInv, PTL
<1> QED BY <1>1, <1>2, PTL
=============================================================================
