----------------------------- MODULE HartProofs -----------------------------
(***************************************************************************)
(* Every method of the hart keeps a well-formed hart well formed and its   *)
(* addresses aligned, for every value of the constants.  HartCallsProofs   *)
(* turns these lemmas into invariants.                                     *)
(***************************************************************************)
EXTENDS Hart, TLAPS

-----------------------------------------------------------------------------
(* Arithmetic *)

LEMMA RemainderRange ==
    ASSUME NEW a \in Int, NEW n \in Nat \ {0}
    PROVE  a % n \in 0 .. n - 1
OBVIOUS

LEMMA DivisionIdentity ==
    ASSUME NEW a \in Int, NEW n \in Nat \ {0}
    PROVE  a \div n \in Int /\ a = n * (a \div n) + (a % n)
OBVIOUS

(* A multiple of four stays one modulo a multiple of four. *)
LEMMA AlignmentSurvivesWrap ==
    ASSUME NEW a \in Int, NEW n \in Nat \ {0}, a % 4 = 0, n % 4 = 0
    PROVE  (a % n) % 4 = 0
<1> DEFINE m == n \div 4
           q == a \div n
<1>1. n = 4 * m /\ m \in Int
  OBVIOUS
<1>2. q \in Int /\ a = n * q + (a % n) /\ a % n \in Int
  BY DivisionIdentity, RemainderRange
<1>3. n * q = 4 * (m * q) /\ m * q \in Int
  BY <1>1, <1>2
<1> HIDE DEF m, q
<1>4. a % n = a - 4 * (m * q)
  BY <1>2, <1>3
<1> QED
  BY <1>3, <1>4

LEMMA CounterRange ==
    /\ Half * Half \in Nat \ {0}
    /\ 0 \in Counters
BY HartAssumption DEF HartAssumption, Counters

LEMMA CountersAreNaturals ==
    ASSUME NEW c \in Counters
    PROVE  c \in Nat
BY CounterRange DEF Counters

LEMMA CounterWraps ==
    ASSUME NEW a \in Nat
    PROVE  a % (Half * Half) \in Counters
<1> DEFINE limit == Half * Half
<1>1. limit \in Nat \ {0}
  BY CounterRange
<1>2. Counters = 0 .. limit - 1
  BY DEF Counters
<1> HIDE DEF limit
<1>3. a % limit \in 0 .. limit - 1
  BY <1>1, RemainderRange
<1> QED
  BY <1>2, <1>3 DEF limit

LEMMA AddressWraps ==
    ASSUME NEW a \in Nat
    PROVE  a % AddressSpace \in Addresses
BY AddressSpaceAssumption, RemainderRange DEF AddressSpaceAssumption, Addresses

-----------------------------------------------------------------------------
(* Well-formed harts *)

LEMMA ResetType ==
    ASSUME NEW h, h.nextToken \in 1 .. MaxToken
    PROVE  Reset(h) \in Harts
BY HartAssumption, AddressSpaceAssumption, CounterRange
DEF HartAssumption, AddressSpaceAssumption, Reset, TokenAfterReset, Harts, Csrs, ResetCsrs, Words, Addresses, Lines, NoPending

LEMMA StartType ==
    ASSUME NEW h \in Harts, NEW entry \in Addresses
    PROVE  Start(h, entry).hart \in Harts
BY DEF Start, Harts, Returned, Refused

LEMMA AccountCyclesType ==
    ASSUME NEW h \in Harts, NEW elapsed \in Nat
    PROVE  AccountCycles(h, elapsed) \in Harts
<1>1. (h.cycle + elapsed) % (Half * Half) \in Counters
  <2>1. h.cycle \in Nat
    BY CountersAreNaturals DEF Harts
  <2> QED
    BY <2>1, CounterWraps
<1> QED
  BY <1>1 DEF AccountCycles, Harts

LEMMA CommitType ==
    ASSUME NEW h \in Harts, NEW next \in Addresses, NEW count \in BOOLEAN
    PROVE  Commit(h, next, count) \in Harts
<1>1. h.retired \in Nat /\ h.instret \in Nat
  BY CountersAreNaturals DEF Harts
<1>2. /\ (h.retired + 1) % (Half * Half) \in Counters
      /\ (h.instret + 1) % (Half * Half) \in Counters
  BY <1>1, CounterWraps
<1> QED
  BY <1>2 DEF Commit, Harts

LEMMA WriteRegisterType ==
    ASSUME NEW h \in Harts, NEW rd \in Registers, NEW value \in Words
    PROVE  WriteRegister(h, rd, value) \in Harts
BY DEF WriteRegister, Harts

LEMMA EnterTrapType ==
    ASSUME NEW h \in Harts, NEW interrupt \in BOOLEAN, NEW code \in Nat, NEW value \in Words
    PROVE  EnterTrap(h, interrupt, code, value) \in Harts
<1> DEFINE vector == IF interrupt /\ h.csr.vectored THEN 4 * code ELSE 0
<1>1. (h.csr.base + vector) % AddressSpace \in Addresses
  <2>1. h.csr.base \in Nat /\ vector \in Nat
    BY AddressSpaceAssumption DEF AddressSpaceAssumption, Harts, Csrs, Addresses
  <2> QED
    BY <2>1, AddressWraps
<1>2. [h.csr EXCEPT !.mepc = h.pc, !.interrupt = interrupt, !.code = code,
                     !.mtval = value, !.mpieBit = h.csr.mieBit, !.mieBit = FALSE] \in Csrs
  BY DEF Harts, Csrs
<1> HIDE DEF vector
<1>3. ASSUME NEW target \in Addresses, NEW csr \in Csrs
      PROVE  [h EXCEPT !.pc = target, !.waiting = FALSE, !.csr = csr] \in Harts
  BY DEF Harts
<1>4. EnterTrap(h, interrupt, code, value)
        = [h EXCEPT !.pc = (h.csr.base + vector) % AddressSpace, !.waiting = FALSE,
                    !.csr = [h.csr EXCEPT !.mepc = h.pc, !.interrupt = interrupt, !.code = code,
                                          !.mtval = value, !.mpieBit = h.csr.mieBit, !.mieBit = FALSE]]
  BY DEF EnterTrap, vector, Harts
<1> QED
  BY <1>1, <1>2, <1>3, <1>4

LEMMA SetInterruptsType ==
    ASSUME NEW h \in Harts, NEW lines \in SUBSET Lines
    PROVE  SetInterrupts(h, lines) \in Harts
BY DEF SetInterrupts, Harts, Csrs

LEMMA HighestIsNatural ==
    ASSUME NEW lines
    PROVE  Highest(lines) \in Nat
BY DEF Highest, External, Software, Timer

LEMMA PollInterruptType ==
    ASSUME NEW h \in Harts
    PROVE  PollInterrupt(h).hart \in Harts
<1> DEFINE awake == [h EXCEPT !.waiting = @ /\ Enabled(h) = {}]
<1>1. awake \in Harts
  BY DEF Harts
<1> HIDE DEF awake
<1>2. EnterTrap(awake, TRUE, Highest(Enabled(h)), 0) \in Harts
  BY <1>1, HighestIsNatural, EnterTrapType DEF Words
<1> QED
  BY <1>1, <1>2 DEF PollInterrupt, Returned, Refused, awake

LEMMA FetchFaultType ==
    ASSUME NEW h \in Harts, NEW address \in Addresses
    PROVE  FetchFault(h, address).hart \in Harts
<1>1. address \in Words
  BY AddressSpaceAssumption DEF AddressSpaceAssumption, Addresses, Words
<1> QED
  BY <1>1, EnterTrapType DEF FetchFault, Returned, Refused

LEMMA ReturnFromTrapType ==
    ASSUME NEW h \in Harts
    PROVE  ReturnFromTrap(h) \in Harts
<1> DEFINE popped == [h EXCEPT !.csr = [@ EXCEPT !.mieBit = h.csr.mpieBit, !.mpieBit = TRUE]]
<1>1. popped \in Harts /\ h.csr.mepc \in Addresses
  BY DEF Harts, Csrs
<1> HIDE DEF popped
<1> QED
  BY <1>1, CommitType DEF ReturnFromTrap, popped

LEMMA NextPcType ==
    ASSUME NEW h \in Harts
    PROVE  NextPc(h) \in Addresses
<1>1. h.pc + 4 \in Nat
  BY AddressSpaceAssumption DEF AddressSpaceAssumption, Harts, Addresses
<1> QED
  BY <1>1, AddressWraps DEF NextPc

LEMMA DeferType ==
    ASSUME NEW h \in Harts, NEW e \in ExternalEffects
    PROVE  Defer(h, e).hart \in Harts
<1> DEFINE deferred == [token |-> h.nextToken, pc |-> h.pc, request |-> e, next |-> NextPc(h)]
<1>1. CASE h.nextToken = MaxToken
  BY <1>1 DEF Defer, Refused, Returned
<1>2. CASE h.nextToken # MaxToken
  <2>1. h.nextToken \in 1 .. MaxToken - 1 /\ h.nextToken + 1 \in 1 .. MaxToken
    BY <1>2, HartAssumption DEF HartAssumption, Harts
  <2>2. deferred \in PendingEffects
    BY <2>1, NextPcType DEF PendingEffects, Harts
  <2> HIDE DEF deferred
  <2>3. [h EXCEPT !.nextToken = @ + 1, !.pending = deferred] \in Harts
    BY <2>1, <2>2 DEF Harts
  <2> QED
    BY <1>2, <2>3 DEF Defer, Returned, deferred
<1> QED
  BY <1>1, <1>2

-----------------------------------------------------------------------------
(* CSR instructions *)

LEMMA CounterHalves ==
    ASSUME NEW c \in Counters, NEW v \in Nat
    PROVE  LowHalf(c, v) \in Counters /\ HighHalf(c, v) \in Counters
<1> DEFINE q == c \div Half
           r == c % Half
           w == v % Half
<1>1. Half \in Nat /\ Half > 0
  BY HartAssumption DEF HartAssumption
<1>2. c \in Nat /\ c < Half * Half
  BY CountersAreNaturals, CounterRange DEF Counters
<1>3. q \in Int /\ c = Half * q + r
  BY <1>1, <1>2, DivisionIdentity
<1>4. r \in 0 .. Half - 1 /\ w \in 0 .. Half - 1
  BY <1>1, <1>2, RemainderRange
<1> HIDE DEF q, r, w
<1>5. Half * q < Half * Half
  BY <1>1, <1>2, <1>3, <1>4
<1>6. q <= Half - 1
  BY <1>1, <1>3, <1>5
<1>7. q >= 0
  BY <1>1, <1>2, <1>3, <1>4
<1>8. Half * q <= Half * (Half - 1) /\ Half * q >= 0
  BY <1>1, <1>3, <1>6, <1>7
<1>9. Half * q + w \in 0 .. Half * Half - 1
  BY <1>1, <1>3, <1>4, <1>8
<1>10. w * Half <= (Half - 1) * Half /\ w * Half >= 0
  BY <1>1, <1>4
<1>11. r + w * Half \in 0 .. Half * Half - 1
  BY <1>1, <1>4, <1>10
<1>12. LowHalf(c, v) = c - r + w /\ HighHalf(c, v) = r + w * Half
  BY DEF LowHalf, HighHalf, r, w
<1>13. r \in Int /\ w \in Int /\ Half * q \in Int
  BY <1>1, <1>3, <1>4
<1>14. LowHalf(c, v) = Half * q + w
  BY <1>3, <1>12, <1>13
<1> QED
  BY <1>9, <1>11, <1>12, <1>14 DEF Counters

LEMMA HalfOfCounter ==
    ASSUME NEW c \in Counters
    PROVE  c % Half \in Words /\ c \div Half \in Words
<1>1. Half \in Nat \ {0} /\ c \in Nat
  BY CountersAreNaturals, HartAssumption DEF HartAssumption
<1> QED
  BY <1>1 DEF Words

LEMMA LineWordIsNatural ==
    ASSUME NEW lines
    PROVE  LineWord(lines) \in Words
BY DEF LineWord, Weight, Words

LEMMA ReadCsrType ==
    ASSUME NEW h \in Harts, NEW name
    PROVE  ReadCsr(h, name) \in Words
<1>1. /\ h.csr.base \in Nat /\ h.csr.mepc \in Nat /\ h.csr.mscratch \in Nat
      /\ h.csr.mtval \in Nat /\ h.csr.code \in Nat
  BY AddressSpaceAssumption DEF AddressSpaceAssumption, Harts, Csrs, Addresses, Words
<1>2. /\ h.cycle % Half \in Words /\ h.cycle \div Half \in Words
      /\ h.instret % Half \in Words /\ h.instret \div Half \in Words
  BY HalfOfCounter DEF Harts
<1> QED
  BY <1>1, <1>2, LineWordIsNatural DEF ReadCsr, Words, Weight, InterruptBit

LEMMA AlignedDownType ==
    ASSUME NEW value \in Nat
    PROVE  AlignedDown(value) \in Aligned
<1>1. value - (value % 4) \in Nat /\ (value - (value % 4)) % 4 = 0
  OBVIOUS
<1>2. AddressSpace \in Nat \ {0} /\ AddressSpace % 4 = 0
  BY AddressSpaceAssumption DEF AddressSpaceAssumption
<1> QED
  BY <1>1, <1>2, AlignmentSurvivesWrap, AddressWraps DEF AlignedDown, Aligned

LEMMA WriteCsrType ==
    ASSUME NEW h \in Harts, NEW name, NEW value \in Words
    PROVE  WriteCsr(h, name, value) \in Harts
<1>1. AlignedDown(value) \in Addresses
  BY AlignedDownType DEF Words, Aligned
<1>2. /\ LowHalf(h.cycle, value) \in Counters /\ HighHalf(h.cycle, value) \in Counters
      /\ LowHalf(h.instret, value) \in Counters /\ HighHalf(h.instret, value) \in Counters
  BY CounterHalves DEF Harts, Words
<1>3. \A b : Bit(value, b) \in BOOLEAN
  BY DEF Bit
<1>4. value % InterruptBit \in Nat /\ (value % 4 = 1) \in BOOLEAN
  BY DEF Words, InterruptBit
<1>5. ASSUME NEW csr \in Csrs
      PROVE  [h EXCEPT !.csr = csr] \in Harts
  BY DEF Harts
<1>6. h.csr \in Csrs
  BY DEF Harts
<1>7. CASE name = "mstatus"
  <2>1. [h.csr EXCEPT !.mieBit = Bit(value, 3), !.mpieBit = Bit(value, 7)] \in Csrs
    BY <1>3, <1>6 DEF Csrs
  <2> QED
    BY <1>5, <1>7, <2>1 DEF WriteCsr, Harts
<1>8. CASE name \in {"mie", "mcountinhibit"}
  <2>1. /\ {l \in Lines : Bit(value, l)} \in SUBSET Lines
        /\ {c \in {"CY", "IR"} : Bit(value, IF c = "CY" THEN 0 ELSE 2)} \in SUBSET {"CY", "IR"}
    OBVIOUS
  <2>2. /\ \A lines \in SUBSET Lines : [h.csr EXCEPT !.mie = lines] \in Csrs
        /\ \A mask \in SUBSET {"CY", "IR"} : [h.csr EXCEPT !.inhibit = mask] \in Csrs
    BY <1>6 DEF Csrs
  <2>3. WriteCsr(h, name, value) \in
          {[h EXCEPT !.csr = [h.csr EXCEPT !.mie = {l \in Lines : Bit(value, l)}]],
           [h EXCEPT !.csr = [h.csr EXCEPT !.inhibit = {c \in {"CY", "IR"} : Bit(value, IF c = "CY" THEN 0 ELSE 2)}]]}
    BY <1>8 DEF WriteCsr
  <2> QED
    BY <1>5, <2>1, <2>2, <2>3
<1>9. CASE name \in {"mscratch", "mepc", "mtval"}
  <2>1. /\ [h.csr EXCEPT !.mscratch = value] \in Csrs
        /\ [h.csr EXCEPT !.mepc = AlignedDown(value)] \in Csrs
        /\ [h.csr EXCEPT !.mtval = value] \in Csrs
    BY <1>1, <1>6 DEF Csrs
  <2> QED
    BY <1>5, <1>9, <2>1 DEF WriteCsr, Harts
<1>10. CASE name \in {"mtvec", "mcause"}
  <2>1. /\ [h.csr EXCEPT !.base = AlignedDown(value), !.vectored = (value % 4 = 1)] \in Csrs
        /\ [h.csr EXCEPT !.interrupt = Bit(value, 12), !.code = value % InterruptBit] \in Csrs
    BY <1>1, <1>3, <1>4, <1>6 DEF Csrs
  <2> QED
    BY <1>5, <1>10, <2>1 DEF WriteCsr, Harts
<1>11. CASE name \in {"mcycle", "mcycleh", "minstret", "minstreth"}
  BY <1>2, <1>11 DEF WriteCsr, Harts
<1>12. CASE name \notin {"mstatus", "mie", "mtvec", "mcountinhibit", "mscratch", "mepc", "mcause", "mtval",
                         "mcycle", "mcycleh", "minstret", "minstreth"}
  BY <1>12 DEF WriteCsr
<1> QED
  BY <1>7, <1>8, <1>9, <1>10, <1>11, <1>12

LEMMA ExecuteCsrType ==
    ASSUME NEW h \in Harts, NEW e \in Effects, e.kind = "csr", NEW next \in Addresses
    PROVE  ExecuteCsr(h, e, next).hart \in Harts
<1> DEFINE read == IF e.read THEN WriteRegister(h, e.rd, ReadCsr(h, e.csr)) ELSE h
           count == ~(e.write /\ e.csr \in {"minstret", "minstreth"})
           committed == Commit(read, next, count)
<1>1. e.rd \in Registers /\ e.value \in Words /\ e.bits \in Words
  BY DEF Effects
<1>2. read \in Harts
  BY <1>1, ReadCsrType, WriteRegisterType
<1> HIDE DEF read
<1>3. count \in BOOLEAN
  OBVIOUS
<1> HIDE DEF count
<1>4. committed \in Harts
  BY <1>2, <1>3, CommitType
<1> HIDE DEF committed
<1>5. WriteCsr(committed, e.csr, e.value) \in Harts
  BY <1>1, <1>4, WriteCsrType
<1>6. EnterTrap(h, FALSE, 2, e.bits) \in Harts
  BY <1>1, EnterTrapType
<1> QED
  BY <1>4, <1>5, <1>6 DEF ExecuteCsr, Returned, committed, read, count

-----------------------------------------------------------------------------
(* issue and complete *)

LEMMA ExecuteType ==
    ASSUME NEW h \in Harts, NEW e \in Effects
    PROVE  Execute(h, e).hart \in Harts
<1>1. NextPc(h) \in Addresses
  BY NextPcType
<1>2. CASE e.kind = "trap"
  <2>1. e.cause \in Nat /\ e.value \in Words
    BY <1>2 DEF Effects
  <2> QED
    BY <1>2, <2>1, EnterTrapType DEF Execute, Returned
<1>3. CASE e.kind = "result"
  <2>1. e.rd \in Registers /\ e.value \in Words /\ e.target \in Addresses \cup {Fallthrough}
    BY <1>3 DEF Effects, Aligned
  <2>2. (IF e.target = Fallthrough THEN NextPc(h) ELSE e.target) \in Addresses
    BY <1>1, <2>1
  <2> QED
    BY <1>3, <2>1, <2>2, WriteRegisterType, CommitType DEF Execute, Returned
<1>4. CASE e.kind = "csr"
  BY <1>1, <1>4, ExecuteCsrType DEF Execute
<1>5. CASE e.kind = "mret"
  BY <1>5, ReturnFromTrapType DEF Execute, Returned
<1>6. CASE e.kind = "wfi"
  <2>1. [h EXCEPT !.waiting = TRUE] \in Harts
    BY DEF Harts
  <2> QED
    BY <1>1, <1>6, <2>1, CommitType DEF Execute, Returned
<1>7. CASE e.kind \in {"load", "store", "fence"}
  <2>1. e \in ExternalEffects
    BY <1>7 DEF ExternalEffects
  <2> QED
    BY <1>7, <2>1, DeferType DEF Execute
<1> QED
  BY <1>2, <1>3, <1>4, <1>5, <1>6, <1>7 DEF Effects

LEMMA IssueType ==
    ASSUME NEW h \in Harts, NEW e \in Effects
    PROVE  Issue(h, e).hart \in Harts
<1> DEFINE polled == PollInterrupt(h)
<1>1. polled.hart \in Harts
  BY PollInterruptType
<1>2. Execute(polled.hart, e).hart \in Harts
  BY <1>1, ExecuteType
<1> QED
  BY <1>1, <1>2 DEF Issue, Returned

LEMMA ExtendedType ==
    ASSUME NEW request, NEW b \in Seq(Bytes), Len(b) # 0
    PROVE  Extended(request, b) \in Words
<1> DEFINE fill == IF request.sign /\ 2 * b[Len(b)] >= ByteValues THEN ByteValues - 1 ELSE 0
           byte(i) == IF i <= Len(b) THEN b[i] ELSE fill
<1>1. ByteValues \in Nat /\ fill \in Nat
  BY HartAssumption DEF HartAssumption
<1>2. \A i \in 1 .. 4 : byte(i) \in Nat
  BY <1>1 DEF Bytes
<1> HIDE DEF fill, byte
<1>3. byte(1) \in Nat /\ byte(2) \in Nat /\ byte(3) \in Nat /\ byte(4) \in Nat
  BY <1>2
<1>4. \A x, y \in Nat : x + ByteValues * y \in Nat
  BY <1>1
<1>5. byte(1) + ByteValues * (byte(2) + ByteValues * (byte(3) + ByteValues * byte(4))) \in Nat
  BY <1>3, <1>4
<1> QED
  BY <1>5 DEF Extended, Words, byte, fill

(* What complete returns: the hart as it was, or without its effect, at the *)
(* handler of a trap or at the successor, after writing a register.         *)
Completed(h, token, returned) ==
    LET settled == [h EXCEPT !.pending = NoPending]
    IN  /\ h.pending # NoPending /\ h.pending.token = token
        /\ \/ /\ returned.event = "trap"
              /\ \E code \in Nat, value \in Words : returned.hart = EnterTrap(settled, FALSE, code, value)
           \/ /\ returned.event = "committed"
              /\ \/ returned.hart = Commit(settled, h.pending.next, TRUE)
                 \/ \E rd \in Registers, value \in Words :
                       returned.hart = Commit(WriteRegister(settled, rd, value), h.pending.next, TRUE)

LEMMA CompleteShape ==
    ASSUME NEW h \in Harts, NEW token, NEW result \in ExternalResults
    PROVE  LET returned == Complete(h, token, result)
           IN  returned = [event |-> "error", hart |-> h] \/ Completed(h, token, returned)
<1> DEFINE request == h.pending.request
           failing == IF result.address = NoAddress THEN request.address ELSE result.address
           settled == [h EXCEPT !.pending = NoPending]
           returned == Complete(h, token, result)
<1>1. CASE h.pending = NoPending \/ h.pending.token # token
  BY <1>1 DEF Complete, Refused, Returned
<1>2. CASE ~(h.pending = NoPending \/ h.pending.token # token)
  <2>1. request \in ExternalEffects
    BY <1>2 DEF Harts, PendingEffects
  <2>2. CASE result.kind = "fault"
    <3> DEFINE code == IF request.kind = "load" THEN 5 ELSE 7
    <3>1. CASE request.kind = "fence" \/ failing < request.address \/ failing >= request.address + request.width
      BY <1>2, <2>2, <3>1 DEF Complete, Refused, Returned
    <3>2. CASE ~(request.kind = "fence" \/ failing < request.address \/ failing >= request.address + request.width)
      <4>1. returned = [event |-> "trap", hart |-> EnterTrap(settled, FALSE, code, failing)]
        BY <1>2, <2>2, <3>2 DEF Complete, Returned
      <4>2. \A a \in Addresses : a \in Words
        BY AddressSpaceAssumption DEF AddressSpaceAssumption, Addresses, Words
      <4>3. request.address \in Addresses /\ result.address \in Addresses \cup {NoAddress}
        BY <2>1, <2>2, <3>2 DEF ExternalEffects, Effects, ExternalResults
      <4>4. failing \in Words /\ code \in Nat
        BY <4>2, <4>3
      <4> HIDE DEF failing, code
      <4>5. returned.event = "trap" /\ returned.hart = EnterTrap(settled, FALSE, code, failing)
        BY <4>1
      <4> HIDE DEF returned
      <4>6. \E c \in Nat, value \in Words : returned.hart = EnterTrap(settled, FALSE, c, value)
        BY <4>4, <4>5
      <4>7. Completed(h, token, returned)
        BY <1>2, <4>5, <4>6 DEF Completed
      <4> QED
        BY <4>7 DEF returned
    <3> QED
      BY <3>1, <3>2
  <2>3. CASE result.kind # "fault" /\ request.kind = "load"
    <3>1. request.rd \in Registers /\ request.width # 0
      BY <2>1, <2>3 DEF ExternalEffects, Effects
    <3>2. CASE result.kind # "data" \/ Len(result.bytes) # request.width
      BY <1>2, <2>3, <3>2 DEF Complete, Refused, Returned
    <3>3. CASE result.kind = "data" /\ Len(result.bytes) = request.width
      <4> DEFINE value == Extended(request, result.bytes)
      <4>1. result.bytes \in Seq(Bytes)
        BY <3>3 DEF ExternalResults
      <4>2. value \in Words
        BY <3>1, <3>3, <4>1, ExtendedType
      <4> HIDE DEF value
      <4>3. returned = [event |-> "committed",
                        hart |-> Commit(WriteRegister(settled, request.rd, value), h.pending.next, TRUE)]
        BY <1>2, <2>3, <3>3 DEF Complete, Returned, value
      <4>4. /\ returned.event = "committed"
            /\ returned.hart = Commit(WriteRegister(settled, request.rd, value), h.pending.next, TRUE)
        BY <4>3
      <4> HIDE DEF returned
      <4>5. \E rd \in Registers, v \in Words :
              returned.hart = Commit(WriteRegister(settled, rd, v), h.pending.next, TRUE)
        BY <3>1, <4>2, <4>4
      <4>6. Completed(h, token, returned)
        BY <1>2, <4>4, <4>5 DEF Completed
      <4> QED
        BY <4>6 DEF returned
    <3> QED
      BY <3>2, <3>3
  <2>4. CASE result.kind # "fault" /\ request.kind # "load"
    BY <1>2, <2>4 DEF Complete, Completed, Refused, Returned
  <2> QED
    BY <2>2, <2>3, <2>4
<1> QED
  BY <1>1, <1>2

LEMMA CompleteType ==
    ASSUME NEW h \in Harts, NEW token, NEW result \in ExternalResults
    PROVE  Complete(h, token, result).hart \in Harts
<1> DEFINE settled == [h EXCEPT !.pending = NoPending]
           returned == Complete(h, token, result)
<1>1. settled \in Harts
  BY DEF Harts
<1>2. h.pending # NoPending => h.pending.next \in Addresses
  BY DEF Harts, PendingEffects
<1>3. CASE returned = [event |-> "error", hart |-> h]
  BY <1>3
<1>4. CASE Completed(h, token, returned)
  <2> HIDE DEF returned, settled
  <2>1. \/ \E code \in Nat, value \in Words : returned.hart = EnterTrap(settled, FALSE, code, value)
        \/ returned.hart = Commit(settled, h.pending.next, TRUE)
        \/ \E rd \in Registers, value \in Words :
              returned.hart = Commit(WriteRegister(settled, rd, value), h.pending.next, TRUE)
    BY <1>4 DEF Completed, settled
  <2>2. h.pending.next \in Addresses
    BY <1>2, <1>4 DEF Completed
  <2> QED
    BY <1>1, <2>1, <2>2, EnterTrapType, CommitType, WriteRegisterType DEF returned
<1> QED
  BY <1>3, <1>4, CompleteShape

-----------------------------------------------------------------------------
(* Instruction boundaries *)

LEMMA NextPcAligned ==
    ASSUME NEW h \in Harts, h.pc \in Aligned
    PROVE  NextPc(h) \in Aligned
<1>1. h.pc + 4 \in Nat /\ (h.pc + 4) % 4 = 0
  BY AddressSpaceAssumption DEF AddressSpaceAssumption, Aligned, Addresses
<1>2. AddressSpace \in Nat \ {0} /\ AddressSpace % 4 = 0
  BY AddressSpaceAssumption DEF AddressSpaceAssumption
<1> QED
  BY <1>1, <1>2, AlignmentSurvivesWrap, NextPcType DEF NextPc, Aligned

LEMMA CommitAligned ==
    ASSUME NEW h \in Harts, OnBoundaries(h), NEW next \in Aligned, NEW count
    PROVE  OnBoundaries(Commit(h, next, count))
BY DEF Commit, OnBoundaries, Harts

LEMMA WriteRegisterAligned ==
    ASSUME NEW h \in Harts, OnBoundaries(h), NEW rd, NEW value
    PROVE  OnBoundaries(WriteRegister(h, rd, value))
BY DEF WriteRegister, OnBoundaries, Harts

LEMMA EnterTrapAligned ==
    ASSUME NEW h \in Harts, OnBoundaries(h), NEW interrupt \in BOOLEAN, NEW code \in Nat, NEW value
    PROVE  OnBoundaries(EnterTrap(h, interrupt, code, value))
<1> DEFINE vector == IF interrupt /\ h.csr.vectored THEN 4 * code ELSE 0
           target == (h.csr.base + vector) % AddressSpace
<1>1. vector \in Nat /\ vector % 4 = 0
  OBVIOUS
<1> HIDE DEF vector
<1>2. h.csr.base \in Nat /\ h.csr.base % 4 = 0
  BY AddressSpaceAssumption DEF AddressSpaceAssumption, OnBoundaries, Aligned, Addresses
<1>3. h.csr.base + vector \in Nat /\ (h.csr.base + vector) % 4 = 0
  BY <1>1, <1>2
<1>4. AddressSpace \in Nat \ {0} /\ AddressSpace % 4 = 0
  BY AddressSpaceAssumption DEF AddressSpaceAssumption
<1>5. target \in Aligned
  BY <1>3, <1>4, AlignmentSurvivesWrap, AddressWraps DEF Aligned
<1>6. LET g == EnterTrap(h, interrupt, code, value)
      IN  /\ g.pc = target /\ g.csr.mepc = h.pc /\ g.csr.base = h.csr.base
          /\ g.pending = h.pending
  BY DEF EnterTrap, Harts, Csrs, vector
<1> QED
  BY <1>5, <1>6 DEF OnBoundaries

LEMMA PollInterruptAligned ==
    ASSUME NEW h \in Harts, OnBoundaries(h)
    PROVE  OnBoundaries(PollInterrupt(h).hart)
<1> DEFINE awake == [h EXCEPT !.waiting = @ /\ Enabled(h) = {}]
<1>1. awake \in Harts /\ OnBoundaries(awake)
  BY DEF Harts, OnBoundaries
<1> HIDE DEF awake
<1>2. OnBoundaries(EnterTrap(awake, TRUE, Highest(Enabled(h)), 0))
  BY <1>1, HighestIsNatural, EnterTrapAligned
<1> QED
  BY <1>1, <1>2 DEF PollInterrupt, Returned, Refused, awake

LEMMA WriteCsrAligned ==
    ASSUME NEW h \in Harts, OnBoundaries(h), NEW name, NEW value \in Words
    PROVE  OnBoundaries(WriteCsr(h, name, value))
<1>1. AlignedDown(value) \in Aligned
  BY AlignedDownType DEF Words
<1>2. LET g == WriteCsr(h, name, value)
      IN  /\ g.pc = h.pc /\ g.pending = h.pending
          /\ g.csr.mepc \in {h.csr.mepc, AlignedDown(value)}
          /\ g.csr.base \in {h.csr.base, AlignedDown(value)}
  BY DEF WriteCsr, Harts, Csrs
<1> QED
  BY <1>1, <1>2 DEF OnBoundaries

LEMMA ExecuteCsrAligned ==
    ASSUME NEW h \in Harts, OnBoundaries(h), NEW e \in Effects, e.kind = "csr", NEW next \in Aligned
    PROVE  OnBoundaries(ExecuteCsr(h, e, next).hart)
<1> DEFINE read == IF e.read THEN WriteRegister(h, e.rd, ReadCsr(h, e.csr)) ELSE h
           count == ~(e.write /\ e.csr \in {"minstret", "minstreth"})
           committed == Commit(read, next, count)
<1>1. e.rd \in Registers /\ e.value \in Words /\ e.bits \in Words
  BY DEF Effects
<1>2. read \in Harts /\ OnBoundaries(read)
  BY <1>1, ReadCsrType, WriteRegisterType, WriteRegisterAligned
<1> HIDE DEF read
<1>3. count \in BOOLEAN /\ next \in Addresses
  BY DEF Aligned
<1> HIDE DEF count
<1>4. committed \in Harts /\ OnBoundaries(committed)
  BY <1>2, <1>3, CommitType, CommitAligned
<1> HIDE DEF committed
<1>5. OnBoundaries(WriteCsr(committed, e.csr, e.value))
  BY <1>1, <1>4, WriteCsrAligned
<1>6. OnBoundaries(EnterTrap(h, FALSE, 2, e.bits))
  BY <1>1, EnterTrapAligned
<1> QED
  BY <1>4, <1>5, <1>6 DEF ExecuteCsr, Returned, committed, read, count

LEMMA ExecuteAligned ==
    ASSUME NEW h \in Harts, OnBoundaries(h), NEW e \in Effects
    PROVE  OnBoundaries(Execute(h, e).hart)
<1>1. NextPc(h) \in Aligned
  BY NextPcAligned DEF OnBoundaries
<1>2. CASE e.kind = "trap"
  <2>1. e.cause \in Nat
    BY <1>2 DEF Effects
  <2> QED
    BY <1>2, <2>1, EnterTrapAligned DEF Execute, Returned
<1>3. CASE e.kind = "result"
  <2>1. e.rd \in Registers /\ e.value \in Words /\ e.target \in Aligned \cup {Fallthrough}
    BY <1>3 DEF Effects
  <2>2. (IF e.target = Fallthrough THEN NextPc(h) ELSE e.target) \in Aligned
    BY <1>1, <2>1
  <2> QED
    BY <1>3, <2>1, <2>2, WriteRegisterType, WriteRegisterAligned, CommitAligned DEF Execute, Returned
<1>4. CASE e.kind = "csr"
  BY <1>1, <1>4, ExecuteCsrAligned DEF Execute
<1>5. CASE e.kind = "mret"
  <2> DEFINE popped == [h EXCEPT !.csr = [@ EXCEPT !.mieBit = h.csr.mpieBit, !.mpieBit = TRUE]]
  <2>1. popped \in Harts /\ OnBoundaries(popped) /\ h.csr.mepc \in Aligned
    BY DEF Harts, Csrs, OnBoundaries
  <2> HIDE DEF popped
  <2>2. OnBoundaries(Commit(popped, h.csr.mepc, TRUE))
    BY <2>1, CommitAligned
  <2> QED
    BY <1>5, <2>2 DEF Execute, Returned, ReturnFromTrap, popped
<1>6. CASE e.kind = "wfi"
  <2>1. [h EXCEPT !.waiting = TRUE] \in Harts /\ OnBoundaries([h EXCEPT !.waiting = TRUE])
    BY DEF Harts, OnBoundaries
  <2> QED
    BY <1>1, <1>6, <2>1, CommitAligned DEF Execute, Returned
<1>7. CASE e.kind \in {"load", "store", "fence"}
  <2>1. Execute(h, e) = Defer(h, e)
    BY <1>7 DEF Execute
  <2>2. LET g == Defer(h, e).hart
        IN  /\ g.pc = h.pc /\ g.csr = h.csr
            /\ g = h \/ g.pending.next = NextPc(h)
    BY DEF Defer, Refused, Returned, Harts
  <2> QED
    BY <1>1, <2>1, <2>2 DEF OnBoundaries
<1> QED
  BY <1>2, <1>3, <1>4, <1>5, <1>6, <1>7 DEF Effects

LEMMA IssueAligned ==
    ASSUME NEW h \in Harts, OnBoundaries(h), NEW e \in Effects
    PROVE  OnBoundaries(Issue(h, e).hart)
<1> DEFINE polled == PollInterrupt(h)
<1>1. polled.hart \in Harts /\ OnBoundaries(polled.hart)
  BY PollInterruptType, PollInterruptAligned
<1>2. OnBoundaries(Execute(polled.hart, e).hart)
  BY <1>1, ExecuteAligned
<1> QED
  BY <1>1, <1>2 DEF Issue, Returned

LEMMA CompleteAligned ==
    ASSUME NEW h \in Harts, OnBoundaries(h), NEW token, NEW result \in ExternalResults
    PROVE  OnBoundaries(Complete(h, token, result).hart)
<1> DEFINE settled == [h EXCEPT !.pending = NoPending]
           returned == Complete(h, token, result)
<1>1. settled \in Harts /\ OnBoundaries(settled)
  BY DEF Harts, OnBoundaries
<1>2. h.pending # NoPending => h.pending.next \in Aligned
  BY DEF OnBoundaries
<1>3. CASE returned = [event |-> "error", hart |-> h]
  BY <1>3
<1>4. CASE Completed(h, token, returned)
  <2> HIDE DEF returned, settled
  <2>1. \/ \E code \in Nat, value \in Words : returned.hart = EnterTrap(settled, FALSE, code, value)
        \/ returned.hart = Commit(settled, h.pending.next, TRUE)
        \/ \E rd \in Registers, value \in Words :
              returned.hart = Commit(WriteRegister(settled, rd, value), h.pending.next, TRUE)
    BY <1>4 DEF Completed, settled
  <2>2. h.pending.next \in Aligned
    BY <1>2, <1>4 DEF Completed
  <2> QED
    BY <1>1, <2>1, <2>2, EnterTrapAligned, CommitAligned, WriteRegisterType, WriteRegisterAligned DEF returned
<1> QED
  BY <1>3, <1>4, CompleteShape

-----------------------------------------------------------------------------
(* The pending effect *)

(* What a call may do to it: leave it and the instruction it belongs to in  *)
(* place, end it, or begin one under a token never issued before.           *)
EffectStep(h, g) ==
    \/ g.pending = h.pending /\ g.nextToken = h.nextToken /\ (h.pending # NoPending => g.pc = h.pc)
    \/ g.pending = NoPending /\ g.nextToken = h.nextToken
    \/ /\ h.pending = NoPending /\ g.pending # NoPending
       /\ g.nextToken = h.nextToken + 1
       /\ g.pending.token = h.nextToken /\ g.pending.pc = g.pc

(* Commits, register writes, CSR writes and traps do not touch it. *)
LEMMA CommitKeepsEffect ==
    ASSUME NEW h \in Harts, NEW next \in Addresses, NEW count \in BOOLEAN
    PROVE  Commit(h, next, count).pending = h.pending /\ Commit(h, next, count).nextToken = h.nextToken
BY DEF Commit, Harts

LEMMA WriteRegisterKeepsEffect ==
    ASSUME NEW h \in Harts, NEW rd \in Registers, NEW value \in Words
    PROVE  /\ WriteRegister(h, rd, value).pending = h.pending
           /\ WriteRegister(h, rd, value).nextToken = h.nextToken
BY DEF WriteRegister, Harts

LEMMA WriteCsrKeepsEffect ==
    ASSUME NEW h \in Harts, NEW name, NEW value \in Words
    PROVE  WriteCsr(h, name, value).pending = h.pending /\ WriteCsr(h, name, value).nextToken = h.nextToken
BY DEF WriteCsr, Harts

LEMMA EnterTrapKeepsEffect ==
    ASSUME NEW h \in Harts, NEW interrupt \in BOOLEAN, NEW code \in Nat, NEW value \in Words
    PROVE  /\ EnterTrap(h, interrupt, code, value).pending = h.pending
           /\ EnterTrap(h, interrupt, code, value).nextToken = h.nextToken
BY DEF EnterTrap, Harts

LEMMA PollInterruptEffect ==
    ASSUME NEW h \in Harts
    PROVE  LET polled == PollInterrupt(h)
           IN  /\ polled.hart.pending = h.pending /\ polled.hart.nextToken = h.nextToken
               /\ h.pending # NoPending => polled.event = "error" /\ polled.hart = h
               /\ polled.event \in {"none", "trap", "error"}
               /\ polled.event = "error" => h.pending # NoPending
<1> DEFINE awake == [h EXCEPT !.waiting = @ /\ Enabled(h) = {}]
<1>1. awake \in Harts /\ awake.pending = h.pending /\ awake.nextToken = h.nextToken
  BY DEF Harts
<1> HIDE DEF awake
<1>2. LET g == EnterTrap(awake, TRUE, Highest(Enabled(h)), 0)
      IN  g.pending = h.pending /\ g.nextToken = h.nextToken
  <2> DEFINE code == Highest(Enabled(h))
  <2>1. code \in Nat /\ 0 \in Words
    BY HighestIsNatural DEF Words
  <2> HIDE DEF code
  <2>2. LET g == EnterTrap(awake, TRUE, code, 0)
        IN  g.pending = awake.pending /\ g.nextToken = awake.nextToken
    BY <1>1, <2>1, EnterTrapKeepsEffect
  <2> QED
    BY <1>1, <2>2 DEF code
<1> QED
  BY <1>1, <1>2 DEF PollInterrupt, Returned, Refused, awake

LEMMA ExecuteEffect ==
    ASSUME NEW h \in Harts, h.pending = NoPending, NEW e \in Effects
    PROVE  /\ EffectStep(h, Execute(h, e).hart)
           /\ Execute(h, e).event \in {"committed", "trap", "pending", "error"}
<1>1. CASE e.kind = "trap"
  <2>1. e.cause \in Nat /\ e.value \in Words
    BY <1>1 DEF Effects
  <2> QED
    BY <1>1, <2>1, EnterTrapKeepsEffect DEF Execute, Returned, EffectStep
<1>2. CASE e.kind = "result"
  <2> DEFINE target == IF e.target = Fallthrough THEN NextPc(h) ELSE e.target
  <2>1. e.rd \in Registers /\ e.value \in Words /\ target \in Addresses
    BY <1>2, NextPcType DEF Effects, Aligned
  <2> DEFINE written == WriteRegister(h, e.rd, e.value)
             g == Commit(written, target, TRUE)
  <2>2. Execute(h, e).event = "committed" /\ Execute(h, e).hart = g
    BY <1>2 DEF Execute, Returned
  <2> HIDE DEF target
  <2>3. written \in Harts /\ written.pending = h.pending /\ written.nextToken = h.nextToken
    BY <2>1, WriteRegisterType, WriteRegisterKeepsEffect
  <2> HIDE DEF written
  <2>4. g.pending = h.pending /\ g.nextToken = h.nextToken
    BY <2>1, <2>3, CommitKeepsEffect
  <2> HIDE DEF g
  <2> QED
    BY <2>2, <2>4 DEF EffectStep
<1>3. CASE e.kind = "csr"
  <2> DEFINE read == IF e.read THEN WriteRegister(h, e.rd, ReadCsr(h, e.csr)) ELSE h
             count == ~(e.write /\ e.csr \in {"minstret", "minstreth"})
             committed == Commit(read, NextPc(h), count)
  <2>1. e.rd \in Registers /\ e.value \in Words /\ e.bits \in Words
    BY <1>3 DEF Effects
  <2>2. read \in Harts /\ read.pending = h.pending /\ read.nextToken = h.nextToken
    BY <2>1, ReadCsrType, WriteRegisterType, WriteRegisterKeepsEffect
  <2> HIDE DEF read
  <2>3. count \in BOOLEAN
    OBVIOUS
  <2> HIDE DEF count
  <2>4. committed \in Harts /\ committed.pending = h.pending /\ committed.nextToken = h.nextToken
    BY <2>2, <2>3, NextPcType, CommitType, CommitKeepsEffect
  <2> HIDE DEF committed
  <2>5. LET written == WriteCsr(committed, e.csr, e.value)
        IN  written.pending = h.pending /\ written.nextToken = h.nextToken
    BY <2>1, <2>4, WriteCsrKeepsEffect
  <2>6. LET trapped == EnterTrap(h, FALSE, 2, e.bits)
        IN  trapped.pending = h.pending /\ trapped.nextToken = h.nextToken
    BY <2>1, EnterTrapKeepsEffect
  <2>7. LET g == ExecuteCsr(h, e, NextPc(h))
        IN  /\ g.hart.pending = h.pending /\ g.hart.nextToken = h.nextToken
            /\ g.event \in {"trap", "committed"}
    BY <2>4, <2>5, <2>6 DEF ExecuteCsr, Returned, committed, read, count
  <2> QED
    BY <1>3, <2>7 DEF Execute, EffectStep
<1>4. CASE e.kind = "mret"
  <2> DEFINE popped == [h EXCEPT !.csr = [@ EXCEPT !.mieBit = h.csr.mpieBit, !.mpieBit = TRUE]]
  <2>1. /\ popped \in Harts /\ popped.pending = h.pending /\ popped.nextToken = h.nextToken
        /\ h.csr.mepc \in Addresses
    BY DEF Harts, Csrs
  <2> HIDE DEF popped
  <2>2. LET g == Commit(popped, h.csr.mepc, TRUE)
        IN  g.pending = h.pending /\ g.nextToken = h.nextToken
    BY <2>1, CommitKeepsEffect
  <2> QED
    BY <1>4, <2>2 DEF Execute, Returned, ReturnFromTrap, EffectStep, popped
<1>5. CASE e.kind = "wfi"
  <2> DEFINE asleep == [h EXCEPT !.waiting = TRUE]
  <2>1. asleep \in Harts /\ asleep.pending = h.pending /\ asleep.nextToken = h.nextToken
    BY DEF Harts
  <2> HIDE DEF asleep
  <2> QED
    BY <1>5, <2>1, NextPcType, CommitKeepsEffect DEF Execute, Returned, EffectStep, asleep
<1>6. CASE e.kind \in {"load", "store", "fence"}
  <2>1. Execute(h, e) = Defer(h, e)
    BY <1>6 DEF Execute
  <2>2. CASE h.nextToken = MaxToken
    BY <2>1, <2>2 DEF Defer, Refused, Returned, EffectStep
  <2>3. CASE h.nextToken # MaxToken
    <3> DEFINE g == Defer(h, e).hart
    <3>1. /\ Defer(h, e).event = "pending"
          /\ g.nextToken = h.nextToken + 1 /\ g.pc = h.pc
          /\ g.pending = [token |-> h.nextToken, pc |-> h.pc, request |-> e, next |-> NextPc(h)]
      BY <2>3 DEF Defer, Returned, Harts
    <3>2. g.pending # NoPending
      BY <3>1, HartAssumption DEF HartAssumption, NoPending, Harts
    <3> QED
      BY <2>1, <3>1, <3>2 DEF EffectStep
  <2> QED
    BY <2>2, <2>3
<1> QED
  BY <1>1, <1>2, <1>3, <1>4, <1>5, <1>6 DEF Effects

LEMMA IssueEffect ==
    ASSUME NEW h \in Harts, NEW e \in Effects
    PROVE  /\ EffectStep(h, Issue(h, e).hart)
           /\ Issue(h, e).event \in {"committed", "trap", "pending", "sleeping", "error"}
           /\ h.pending # NoPending => Issue(h, e).hart = h
<1> DEFINE polled == PollInterrupt(h)
           g == polled.hart
<1>1. /\ g \in Harts /\ g.pending = h.pending /\ g.nextToken = h.nextToken
      /\ polled.event \in {"none", "trap", "error"}
      /\ h.pending # NoPending => polled.event = "error" /\ g = h
  BY PollInterruptType, PollInterruptEffect
<1>2. /\ Issue(h, e).hart \in {g, Execute(g, e).hart}
      /\ Issue(h, e).event \in {polled.event, "sleeping", Execute(g, e).event}
      /\ polled.event = "none" => Issue(h, e).event # "none" \/ Issue(h, e) = Execute(g, e)
      /\ polled.event # "none" => Issue(h, e) = polled
  BY DEF Issue, Returned
<1> HIDE DEF polled
<1>3. CASE h.pending # NoPending
  BY <1>1, <1>2, <1>3 DEF EffectStep
<1>4. CASE h.pending = NoPending
  <2>1. /\ EffectStep(g, Execute(g, e).hart)
        /\ Execute(g, e).event \in {"committed", "trap", "pending", "error"}
    BY <1>1, <1>4, ExecuteEffect
  <2>2. EffectStep(h, Execute(g, e).hart) /\ EffectStep(h, g)
    BY <1>1, <1>4, <2>1 DEF EffectStep
  <2> QED
    BY <1>1, <1>2, <1>4, <2>1, <2>2
<1> QED
  BY <1>3, <1>4

LEMMA CompleteEffect ==
    ASSUME NEW h \in Harts, NEW token, NEW result \in ExternalResults
    PROVE  /\ EffectStep(h, Complete(h, token, result).hart)
           /\ Complete(h, token, result).event \in {"committed", "trap", "error"}
           /\ Complete(h, token, result).event = "error" => Complete(h, token, result).hart = h
<1> DEFINE settled == [h EXCEPT !.pending = NoPending]
           returned == Complete(h, token, result)
<1>1. settled \in Harts /\ settled.pending = NoPending /\ settled.nextToken = h.nextToken
  BY DEF Harts
<1>2. h.pending # NoPending => h.pending.next \in Addresses
  BY DEF Harts, PendingEffects
<1>3. CASE returned = [event |-> "error", hart |-> h]
  BY <1>3 DEF EffectStep
<1>4. CASE Completed(h, token, returned)
  <2> HIDE DEF returned, settled
  <2>1. \/ \E code \in Nat, value \in Words : returned.hart = EnterTrap(settled, FALSE, code, value)
        \/ returned.hart = Commit(settled, h.pending.next, TRUE)
        \/ \E rd \in Registers, value \in Words :
              returned.hart = Commit(WriteRegister(settled, rd, value), h.pending.next, TRUE)
    BY <1>4 DEF Completed, settled
  <2>2. h.pending.next \in Addresses /\ returned.event \in {"committed", "trap"}
    BY <1>2, <1>4 DEF Completed
  <2>3. \A g \in Harts : g.pending = NoPending /\ g.nextToken = h.nextToken =>
          LET c == Commit(g, h.pending.next, TRUE) IN c.pending = NoPending /\ c.nextToken = h.nextToken
    BY <2>2, CommitKeepsEffect
  <2>4. \A code \in Nat, value \in Words :
          LET g == EnterTrap(settled, FALSE, code, value) IN g.pending = NoPending /\ g.nextToken = h.nextToken
    BY <1>1, EnterTrapKeepsEffect
  <2>5. \A rd \in Registers, value \in Words :
          LET g == WriteRegister(settled, rd, value)
          IN  g \in Harts /\ g.pending = NoPending /\ g.nextToken = h.nextToken
    BY <1>1, WriteRegisterType, WriteRegisterKeepsEffect
  <2>6. returned.hart.pending = NoPending /\ returned.hart.nextToken = h.nextToken
    <3>1. CASE \E code \in Nat, value \in Words : returned.hart = EnterTrap(settled, FALSE, code, value)
      BY <2>4, <3>1
    <3>2. CASE returned.hart = Commit(settled, h.pending.next, TRUE)
      BY <1>1, <2>3, <3>2
    <3>3. CASE \E rd \in Registers, value \in Words :
                returned.hart = Commit(WriteRegister(settled, rd, value), h.pending.next, TRUE)
      <4>1. PICK rd \in Registers, value \in Words :
                returned.hart = Commit(WriteRegister(settled, rd, value), h.pending.next, TRUE)
        BY <3>3
      <4> DEFINE g == WriteRegister(settled, rd, value)
      <4>2. g \in Harts /\ g.pending = NoPending /\ g.nextToken = h.nextToken
        BY <2>5
      <4> HIDE DEF g
      <4>3. Commit(g, h.pending.next, TRUE).pending = NoPending /\ Commit(g, h.pending.next, TRUE).nextToken = h.nextToken
        BY <2>3, <4>2
      <4> QED
        BY <4>1, <4>3 DEF g
    <3> QED
      BY <2>1, <3>1, <3>2, <3>3
  <2> QED
    BY <2>2, <2>6 DEF EffectStep, returned
<1> QED
  BY <1>3, <1>4, CompleteShape

-----------------------------------------------------------------------------
(* What one call does, seen from outside: it retires an instruction, takes *)
(* a trap or an interrupt, or defers an effect.  The machine's invariants   *)
(* and its refinement of PreciseCore rest on these forms, and not on how   *)
(* the methods are composed.                                               *)

KeepsEffect(h, g) == g.pending = h.pending /\ g.nextToken = h.nextToken

(* x0 holds zero. *)
ZeroHolds(h) == h.registers[0] = 0

(* The state between h and the handler's first instruction. *)
Trapped(h, g, interrupt, code, value) ==
    /\ g.pc = (h.csr.base + (IF interrupt /\ h.csr.vectored THEN 4 * code ELSE 0)) % AddressSpace
    /\ g.csr = [h.csr EXCEPT !.mepc = h.pc, !.interrupt = interrupt, !.code = code,
                             !.mtval = value, !.mpieBit = h.csr.mieBit, !.mieBit = FALSE]
    /\ g.waiting = FALSE
    /\ g.registers = h.registers /\ g.retired = h.retired

TookTrap(h, g) == \E code \in Nat, value \in Words : Trapped(h, g, FALSE, code, value)

TookInterrupt(h, g) ==
    /\ h.csr.mieBit /\ Enabled(h) # {}
    /\ Trapped(h, g, TRUE, Highest(Enabled(h)), 0)

(* One instruction: at most one register, never x0, and no wait with other  *)
(* effects.                                                                 *)
Retired(h, g) ==
    /\ g.pc \in Aligned
    /\ g.retired = (h.retired + 1) % (Half * Half)
    /\ \E r \in Registers : \A q \in Registers \ {r} : g.registers[q] = h.registers[q]
    /\ ZeroHolds(g)
    /\ g.csr.mip = h.csr.mip
    /\ g.waiting => g.csr = h.csr /\ g.registers = h.registers

-----------------------------------------------------------------------------
(* Traps and interrupts *)

LEMMA EnterTrapShape ==
    ASSUME NEW h \in Harts, NEW interrupt \in BOOLEAN, NEW code \in Nat, NEW value \in Words
    PROVE  /\ Trapped(h, EnterTrap(h, interrupt, code, value), interrupt, code, value)
           /\ KeepsEffect(h, EnterTrap(h, interrupt, code, value))
BY DEF EnterTrap, Trapped, KeepsEffect, Harts

(* A synchronous trap, perhaps of a hart that differs in its pending effect. *)
LEMMA EnterTrapTaken ==
    ASSUME NEW h, NEW f \in Harts, NEW code \in Nat, NEW value \in Words,
           f.pc = h.pc, f.csr = h.csr, f.registers = h.registers, f.retired = h.retired
    PROVE  /\ TookTrap(h, EnterTrap(f, FALSE, code, value))
           /\ KeepsEffect(f, EnterTrap(f, FALSE, code, value))
<1> DEFINE g == EnterTrap(f, FALSE, code, value)
<1>1. Trapped(f, g, FALSE, code, value) /\ KeepsEffect(f, g)
  BY EnterTrapShape
<1> HIDE DEF g
<1>2. Trapped(h, g, FALSE, code, value)
  BY <1>1 DEF Trapped
<1>3. TookTrap(h, g)
  BY <1>2 DEF TookTrap
<1> QED
  BY <1>1, <1>3 DEF g

LEMMA PollShape ==
    ASSUME NEW h \in Harts, h.pending = NoPending
    PROVE  LET polled == PollInterrupt(h)
           IN  /\ KeepsEffect(h, polled.hart)
               /\ \/ polled.event = "trap" /\ TookInterrupt(h, polled.hart)
                  \/ /\ polled.event = "none"
                     /\ polled.hart = [h EXCEPT !.waiting = h.waiting /\ Enabled(h) = {}]
<1> DEFINE awake == [h EXCEPT !.waiting = h.waiting /\ Enabled(h) = {}]
           code == Highest(Enabled(h))
           g == EnterTrap(awake, TRUE, code, 0)
           polled == PollInterrupt(h)
<1>1. /\ awake \in Harts /\ awake.registers = h.registers /\ awake.retired = h.retired
      /\ awake.pc = h.pc /\ awake.csr = h.csr /\ KeepsEffect(h, awake)
  BY DEF Harts, KeepsEffect
<1>2. code \in Nat /\ 0 \in Words
  BY HighestIsNatural DEF Words
<1>3. CASE Enabled(h) # {} /\ h.csr.mieBit
  <2>1. polled.event = "trap" /\ polled.hart = g
    BY <1>3 DEF PollInterrupt, Returned
  <2> HIDE DEF awake, code
  <2>2. Trapped(awake, g, TRUE, code, 0) /\ KeepsEffect(awake, g)
    BY <1>1, <1>2, EnterTrapShape
  <2> HIDE DEF g, polled
  <2>3. Trapped(h, g, TRUE, code, 0) /\ KeepsEffect(h, g)
    BY <1>1, <2>2 DEF Trapped, KeepsEffect
  <2> QED
    BY <1>3, <2>1, <2>3 DEF TookInterrupt, polled, code
<1>4. CASE ~(Enabled(h) # {} /\ h.csr.mieBit)
  BY <1>1, <1>4 DEF PollInterrupt, Returned
<1> QED
  BY <1>3, <1>4

-----------------------------------------------------------------------------
(* Retirement *)

LEMMA CommitShape ==
    ASSUME NEW h \in Harts, NEW next \in Aligned, NEW count \in BOOLEAN
    PROVE  LET g == Commit(h, next, count)
           IN  /\ g.pc = next /\ g.retired = (h.retired + 1) % (Half * Half)
               /\ g.registers = h.registers /\ g.csr = h.csr /\ g.waiting = h.waiting
               /\ KeepsEffect(h, g)
BY DEF Commit, KeepsEffect, Harts

LEMMA WriteRegisterShape ==
    ASSUME NEW h \in Harts, NEW rd \in Registers, NEW value \in Words
    PROVE  LET g == WriteRegister(h, rd, value)
           IN  /\ g.pc = h.pc /\ g.retired = h.retired /\ g.csr = h.csr /\ g.waiting = h.waiting
               /\ \A q \in Registers \ {rd} : g.registers[q] = h.registers[q]
               /\ ZeroHolds(h) => ZeroHolds(g)
               /\ KeepsEffect(h, g)
BY HartAssumption DEF HartAssumption, WriteRegister, KeepsEffect, ZeroHolds, Harts

(* The common form: perhaps a register write, then the commit. *)
LEMMA RetireShape ==
    ASSUME NEW h \in Harts, ZeroHolds(h), ~h.waiting, NEW next \in Aligned, NEW count \in BOOLEAN
    PROVE  /\ Retired(h, Commit(h, next, count))
           /\ \A rd \in Registers, value \in Words : Retired(h, Commit(WriteRegister(h, rd, value), next, count))
<1>1. ASSUME NEW f \in Harts, ZeroHolds(f), ~f.waiting, f.retired = h.retired, f.csr = h.csr,
             NEW r \in Registers, \A q \in Registers \ {r} : f.registers[q] = h.registers[q]
      PROVE  Retired(h, Commit(f, next, count))
  <2> DEFINE g == Commit(f, next, count)
  <2>1. /\ g.pc = next /\ g.retired = (f.retired + 1) % (Half * Half)
        /\ g.registers = f.registers /\ g.csr = f.csr /\ g.waiting = f.waiting
    BY CommitShape
  <2> HIDE DEF g
  <2>2. Retired(h, g)
    BY <1>1, <2>1 DEF Retired, ZeroHolds
  <2> QED
    BY <2>2 DEF g
<1>2. Retired(h, Commit(h, next, count))
  BY <1>1, HartAssumption DEF HartAssumption
<1>3. ASSUME NEW rd \in Registers, NEW value \in Words
      PROVE  Retired(h, Commit(WriteRegister(h, rd, value), next, count))
  <2> DEFINE f == WriteRegister(h, rd, value)
  <2>1. /\ f \in Harts /\ ZeroHolds(f) /\ ~f.waiting /\ f.retired = h.retired /\ f.csr = h.csr
        /\ \A q \in Registers \ {rd} : f.registers[q] = h.registers[q]
    BY WriteRegisterShape, WriteRegisterType
  <2> HIDE DEF f
  <2>2. Retired(h, Commit(f, next, count))
    BY <1>1, <2>1
  <2> QED
    BY <2>2 DEF f
<1> QED
  BY <1>2, <1>3

LEMMA WriteCsrShape ==
    ASSUME NEW h \in Harts, NEW name, NEW value \in Words
    PROVE  LET g == WriteCsr(h, name, value)
           IN  /\ g.pc = h.pc /\ g.retired = h.retired /\ g.registers = h.registers /\ g.waiting = h.waiting
               /\ g.csr.mip = h.csr.mip
               /\ KeepsEffect(h, g)
BY DEF WriteCsr, KeepsEffect, Harts, Csrs

-----------------------------------------------------------------------------
(* issue *)

(* A deferred effect waits under the next token at the pc of its instruction. *)
Deferred(h, e, g) ==
    /\ h.nextToken # MaxToken
    /\ g = [h EXCEPT !.nextToken = h.nextToken + 1,
                     !.pending = [token |-> h.nextToken, pc |-> h.pc, request |-> e, next |-> NextPc(h)]]

(* The forms of what execution from an awake hart with nothing pending returns. *)
Issued(h, e, returned) ==
    \/ returned.event = "error" /\ returned.hart = h /\ h.nextToken = MaxToken
    \/ returned.event = "trap" /\ TookTrap(h, returned.hart) /\ KeepsEffect(h, returned.hart)
    \/ returned.event = "trap" /\ TookInterrupt(h, returned.hart) /\ KeepsEffect(h, returned.hart)
    \/ returned.event = "committed" /\ Retired(h, returned.hart) /\ KeepsEffect(h, returned.hart)
    \/ returned.event = "pending" /\ e \in ExternalEffects /\ Deferred(h, e, returned.hart)

LEMMA CsrShape ==
    ASSUME NEW h \in Harts, ZeroHolds(h), ~h.waiting, NEW next \in Aligned,
           NEW e \in Effects, e.kind = "csr"
    PROVE  Issued(h, e, ExecuteCsr(h, e, next))
<1> DEFINE count == ~(e.write /\ e.csr \in {"minstret", "minstreth"})
           read == IF e.read THEN WriteRegister(h, e.rd, ReadCsr(h, e.csr)) ELSE h
           committed == Commit(read, next, count)
           written == IF e.write THEN WriteCsr(committed, e.csr, e.value) ELSE committed
           returned == ExecuteCsr(h, e, next)
<1>1. e.rd \in Registers /\ e.value \in Words /\ e.bits \in Words
  BY DEF Effects
<1>2. count \in BOOLEAN /\ next \in Addresses
  BY DEF Aligned
<1>3. CASE returned = Returned("trap", EnterTrap(h, FALSE, 2, e.bits))
  <2>1. TookTrap(h, EnterTrap(h, FALSE, 2, e.bits)) /\ KeepsEffect(h, EnterTrap(h, FALSE, 2, e.bits))
    BY <1>1, EnterTrapTaken
  <2>2. returned.event = "trap" /\ returned.hart = EnterTrap(h, FALSE, 2, e.bits)
    BY <1>3 DEF Returned
  <2> HIDE DEF returned
  <2> QED
    BY <2>1, <2>2 DEF Issued, returned
<1>4. CASE returned = Returned("committed", written)
  <2>1. ReadCsr(h, e.csr) \in Words
    BY ReadCsrType
  <2>2. read \in Harts /\ KeepsEffect(h, read)
    BY <1>1, <2>1, WriteRegisterType, WriteRegisterShape DEF KeepsEffect
  <2>3. Retired(h, committed)
    BY <1>1, <1>2, <2>1, RetireShape
  <2> HIDE DEF read, count
  <2>4. committed \in Harts /\ KeepsEffect(h, committed) /\ committed.waiting = read.waiting
    BY <1>2, <2>2, CommitType, CommitShape DEF KeepsEffect
  <2>5. read.waiting = h.waiting
    BY <1>1, <2>1, WriteRegisterShape DEF read
  <2> HIDE DEF committed
  <2>6. /\ written.pc = committed.pc /\ written.retired = committed.retired
        /\ written.registers = committed.registers /\ written.waiting = committed.waiting
        /\ written.csr.mip = committed.csr.mip /\ KeepsEffect(committed, written)
    BY <1>1, <2>4, WriteCsrShape DEF KeepsEffect
  <2> HIDE DEF written
  <2>7. Retired(h, written) /\ KeepsEffect(h, written)
    BY <2>3, <2>4, <2>5, <2>6 DEF Retired, ZeroHolds, KeepsEffect
  <2> QED
    BY <1>4, <2>7 DEF Issued, Returned
<1> QED
  BY <1>3, <1>4 DEF ExecuteCsr

LEMMA ExecuteShape ==
    ASSUME NEW h \in Harts, OnBoundaries(h), ZeroHolds(h), ~h.waiting, NEW e \in Effects
    PROVE  Issued(h, e, Execute(h, e))
<1>1. NextPc(h) \in Aligned
  BY NextPcAligned DEF OnBoundaries
<1>2. CASE e.kind = "trap"
  <2>1. e.cause \in Nat /\ e.value \in Words
    BY <1>2 DEF Effects
  <2>2. /\ TookTrap(h, EnterTrap(h, FALSE, e.cause, e.value))
        /\ KeepsEffect(h, EnterTrap(h, FALSE, e.cause, e.value))
    BY <2>1, EnterTrapTaken
  <2> QED
    BY <1>2, <2>2 DEF Execute, Issued, Returned
<1>3. CASE e.kind = "result"
  <2> DEFINE target == IF e.target = Fallthrough THEN NextPc(h) ELSE e.target
             f == WriteRegister(h, e.rd, e.value)
             g == Commit(f, target, TRUE)
  <2>1. e.rd \in Registers /\ e.value \in Words /\ target \in Aligned
    BY <1>1, <1>3 DEF Effects
  <2>2. Execute(h, e).event = "committed" /\ Execute(h, e).hart = g
    BY <1>3 DEF Execute, Returned
  <2> HIDE DEF target
  <2>3. Retired(h, g)
    BY <2>1, RetireShape
  <2>4. f \in Harts /\ KeepsEffect(h, f)
    BY <2>1, WriteRegisterType, WriteRegisterShape
  <2> HIDE DEF f
  <2>5. KeepsEffect(h, g)
    BY <2>1, <2>4, CommitShape DEF KeepsEffect
  <2> QED
    BY <2>2, <2>3, <2>5 DEF Issued
<1>4. CASE e.kind = "csr"
  BY <1>1, <1>4, CsrShape DEF Execute
<1>5. CASE e.kind = "mret"
  <2> DEFINE f == [h EXCEPT !.csr = [@ EXCEPT !.mieBit = h.csr.mpieBit, !.mpieBit = TRUE]]
             g == Commit(f, h.csr.mepc, TRUE)
  <2>1. /\ f \in Harts /\ KeepsEffect(h, f) /\ f.registers = h.registers /\ f.retired = h.retired
        /\ f.csr.mip = h.csr.mip /\ ~f.waiting /\ h.csr.mepc \in Aligned
    BY DEF Harts, Csrs, OnBoundaries, KeepsEffect
  <2>2. Execute(h, e).event = "committed" /\ Execute(h, e).hart = g
    BY <1>5 DEF Execute, ReturnFromTrap, Returned
  <2> HIDE DEF f
  <2>3. /\ g.pc \in Aligned /\ g.retired = (h.retired + 1) % (Half * Half) /\ g.registers = h.registers
        /\ g.csr.mip = h.csr.mip /\ g.waiting = f.waiting /\ KeepsEffect(h, g)
    BY <2>1, CommitShape, ZenonT(60) DEF KeepsEffect
  <2> HIDE DEF g
  <2>4. Retired(h, g)
    BY <2>1, <2>3, HartAssumption DEF HartAssumption, Retired, ZeroHolds
  <2> QED
    BY <2>2, <2>3, <2>4 DEF Issued
<1>6. CASE e.kind = "wfi"
  <2> DEFINE f == [h EXCEPT !.waiting = TRUE]
             g == Commit(f, NextPc(h), TRUE)
  <2>1. /\ f \in Harts /\ KeepsEffect(h, f) /\ f.registers = h.registers /\ f.retired = h.retired
        /\ f.csr = h.csr
    BY DEF Harts, KeepsEffect
  <2>2. Execute(h, e).event = "committed" /\ Execute(h, e).hart = g
    BY <1>6 DEF Execute, Returned
  <2> HIDE DEF f
  <2>3. /\ g.pc \in Aligned /\ g.retired = (h.retired + 1) % (Half * Half) /\ g.registers = h.registers
        /\ g.csr = h.csr /\ KeepsEffect(h, g)
    BY <1>1, <2>1, CommitShape, ZenonT(60) DEF KeepsEffect
  <2> HIDE DEF g
  <2>4. Retired(h, g)
    BY <2>3, HartAssumption DEF HartAssumption, Retired, ZeroHolds
  <2> QED
    BY <2>2, <2>3, <2>4 DEF Issued
<1>7. CASE e.kind \in {"load", "store", "fence"}
  <2>1. Execute(h, e) = Defer(h, e) /\ e \in ExternalEffects
    BY <1>7 DEF Execute, ExternalEffects
  <2> QED
    BY <2>1 DEF Defer, Issued, Deferred, Refused, Returned
<1> QED
  BY <1>2, <1>3, <1>4, <1>5, <1>6, <1>7 DEF Effects

(* issue on an awake hart with nothing pending: an interrupt first, else    *)
(* the instruction.                                                         *)
LEMMA IssueShape ==
    ASSUME NEW h \in Harts, OnBoundaries(h), ZeroHolds(h), ~h.waiting, h.pending = NoPending, NEW e \in Effects
    PROVE  Issued(h, e, Issue(h, e))
<1> DEFINE polled == PollInterrupt(h)
<1>1. CASE polled.event = "trap" /\ TookInterrupt(h, polled.hart)
  <2>1. KeepsEffect(h, polled.hart)
    BY PollShape
  <2> QED
    BY <1>1, <2>1 DEF Issue, Issued
<1>2. CASE polled.event = "none" /\ polled.hart = [h EXCEPT !.waiting = h.waiting /\ Enabled(h) = {}]
  <2>1. polled.hart = h
    BY <1>2 DEF Harts
  <2>2. Issue(h, e) = Execute(h, e)
    BY <1>2, <2>1 DEF Issue
  <2> QED
    BY <2>2, ExecuteShape
<1> QED
  BY <1>1, <1>2, PollShape

-----------------------------------------------------------------------------
(* complete *)

(* The results a pending effect accepts. *)
Suits(e, result) ==
    IF result.kind = "fault"
    THEN /\ e.kind # "fence"
         /\ result.address # NoAddress =>
              result.address >= e.address /\ result.address < e.address + e.width
    ELSE IF e.kind = "load" THEN result.kind = "data" /\ Len(result.bytes) = e.width
    ELSE result.kind = "acknowledged"

LEMMA CompleteSettles ==
    ASSUME NEW h \in Harts, OnBoundaries(h), ZeroHolds(h), ~h.waiting, h.pending # NoPending,
           NEW result \in ExternalResults, Suits(h.pending.request, result)
    PROVE  LET returned == Complete(h, h.pending.token, result)
               g == returned.hart
           IN  /\ g.pending = NoPending /\ g.nextToken = h.nextToken
               /\ \/ returned.event = "trap" /\ result.kind = "fault" /\ TookTrap(h, g)
                  \/ /\ returned.event = "committed" /\ result.kind # "fault" /\ Retired(h, g)
                     /\ g.csr = h.csr /\ ~g.waiting
                     /\ h.pending.request.kind # "load" => g.registers = h.registers
<1> DEFINE e == h.pending.request
           next == h.pending.next
           failing == IF result.address = NoAddress THEN e.address ELSE result.address
           code == IF e.kind = "load" THEN 5 ELSE 7
           value == Extended(e, result.bytes)
           settled == [h EXCEPT !.pending = NoPending]
           returned == Complete(h, h.pending.token, result)
<1>1. e \in ExternalEffects /\ next \in Aligned
  BY DEF Harts, PendingEffects, OnBoundaries
<1>2. /\ settled \in Harts /\ ZeroHolds(settled) /\ settled.waiting = FALSE
      /\ settled.pending = NoPending /\ settled.nextToken = h.nextToken
      /\ settled.registers = h.registers /\ settled.retired = h.retired /\ settled.csr = h.csr
      /\ settled.pc = h.pc
  BY DEF Harts, ZeroHolds
<1>3. CASE result.kind = "fault"
  <2>1. e.kind \in {"load", "store"} /\ e.address \in Addresses /\ e.width \in {1, 2, 4}
    BY <1>1, <1>3 DEF Suits, ExternalEffects, Effects
  <2>2. result.address \in Addresses \cup {NoAddress}
    BY <1>3 DEF ExternalResults
  <2>3. failing \in Words /\ code \in Nat
    BY <2>1, <2>2, AddressSpaceAssumption DEF AddressSpaceAssumption, Addresses, Words
  <2>4. ~(failing < e.address) /\ ~(failing >= e.address + e.width)
    BY <1>3, <2>1, <2>2, AddressSpaceAssumption DEF AddressSpaceAssumption, Suits, Addresses, NoAddress
  <2>5. returned = Returned("trap", EnterTrap(settled, FALSE, code, failing))
    BY <1>3, <2>1, <2>4 DEF Complete
  <2> HIDE DEF settled, failing, code
  <2>6. /\ TookTrap(h, EnterTrap(settled, FALSE, code, failing))
        /\ KeepsEffect(settled, EnterTrap(settled, FALSE, code, failing))
    BY <1>2, <2>3, EnterTrapTaken
  <2>7. returned.event = "trap" /\ returned.hart = EnterTrap(settled, FALSE, code, failing)
    BY <2>5 DEF Returned
  <2> HIDE DEF returned
  <2> QED
    BY <1>2, <1>3, <2>6, <2>7 DEF KeepsEffect, returned
<1>4. CASE result.kind # "fault" /\ e.kind = "load"
  <2> DEFINE f == WriteRegister(settled, e.rd, value)
             g == Commit(f, next, TRUE)
  <2>1. e.rd \in Registers /\ e.width # 0 /\ result.kind = "data" /\ Len(result.bytes) = e.width
    BY <1>1, <1>4 DEF Suits, ExternalEffects, Effects
  <2>2. value \in Words
    BY <2>1, ExtendedType DEF ExternalResults
  <2>3. returned = Returned("committed", g)
    BY <1>4, <2>1 DEF Complete
  <2> HIDE DEF settled, value, returned
  <2>4. Retired(settled, g)
    BY <1>1, <1>2, <2>1, <2>2, RetireShape
  <2>5. f \in Harts /\ KeepsEffect(settled, f) /\ f.csr = settled.csr /\ f.waiting = FALSE
    BY <1>2, <2>1, <2>2, WriteRegisterType, WriteRegisterShape
  <2> HIDE DEF f
  <2>6. KeepsEffect(settled, g) /\ g.csr = settled.csr /\ g.waiting = FALSE
    BY <1>1, <2>5, CommitShape DEF KeepsEffect
  <2> HIDE DEF g
  <2>7. Retired(h, g)
    BY <1>2, <2>4 DEF Retired, ZeroHolds
  <2>8. returned.event = "committed" /\ returned.hart = g
    BY <2>3 DEF Returned
  <2> QED
    BY <1>2, <1>4, <2>6, <2>7, <2>8 DEF KeepsEffect, returned
<1>5. CASE result.kind # "fault" /\ e.kind # "load"
  <2> DEFINE g == Commit(settled, next, TRUE)
  <2>1. result.kind = "acknowledged"
    BY <1>5 DEF Suits
  <2>2. returned = Returned("committed", g)
    BY <1>5, <2>1 DEF Complete
  <2> HIDE DEF settled, returned
  <2>3. Retired(settled, g)
    BY <1>1, <1>2, RetireShape
  <2>4. KeepsEffect(settled, g) /\ g.csr = settled.csr /\ g.registers = settled.registers /\ g.waiting = FALSE
    BY <1>1, <1>2, CommitShape
  <2> HIDE DEF g
  <2>5. Retired(h, g)
    BY <1>2, <2>3 DEF Retired, ZeroHolds
  <2>6. returned.event = "committed" /\ returned.hart = g
    BY <2>2 DEF Returned
  <2> QED
    BY <1>2, <1>5, <2>4, <2>5, <2>6 DEF KeepsEffect, returned
<1> QED
  BY <1>3, <1>4, <1>5
=============================================================================
