--------------------------- MODULE HartCallsProofs ---------------------------
(***************************************************************************)
(* Invariants of the hart under arbitrary calls, for every register file,  *)
(* byte and counter width, address space, token limit and repertoire.      *)
(***************************************************************************)
EXTENDS HartCalls, HartProofs

(* The inductive invariant: a token is fresh because every token issued is  *)
(* below nextToken, and addresses stay boundaries because the CSRs they are *)
(* loaded from do.                                                          *)
Inv == TypeOK /\ AlwaysAligned /\ TokensNameOneEffect

(* What every call returns, relative to the hart it was called on. *)
Sound(h, returned) ==
    /\ returned.hart \in Harts
    /\ OnBoundaries(returned.hart)
    /\ EffectStep(h, returned.hart)
    /\ returned.event \in Events

LEMMA InitEstablishesInv == Init => Inv
<1> SUFFICES ASSUME Init PROVE Inv
  OBVIOUS
<1>1. [nextToken |-> 1].nextToken \in 1 .. MaxToken
  BY HartAssumption DEF HartAssumption
<1>2. hart \in Harts
  BY <1>1, ResetType DEF Init
<1>3. hart.pc = 0 /\ hart.csr.mepc = 0 /\ hart.csr.base = 0 /\ hart.pending = NoPending
  BY DEF Init, Reset, ResetCsrs
<1>4. 0 \in Aligned
  BY AddressSpaceAssumption DEF AddressSpaceAssumption, Aligned, Addresses
<1>5. TypeOK
  BY <1>2 DEF Init, TypeOK, Events
<1>6. AlwaysAligned
  BY <1>3, <1>4 DEF AlwaysAligned, OnBoundaries
<1>7. TokensNameOneEffect
  BY <1>3 DEF Init, TokensNameOneEffect
<1> QED
  BY <1>5, <1>6, <1>7 DEF Inv

LEMMA AdoptKeepsInv ==
    ASSUME Inv, NEW returned, Sound(hart, returned), Adopt(returned)
    PROVE  Inv'
<1>1. /\ hart' = returned.hart /\ hart' \in Harts /\ event' \in Events
      /\ OnBoundaries(hart') /\ EffectStep(hart, hart')
  BY DEF Sound, Adopt
<1>2. hart \in Harts /\ spent \in SUBSET (1 .. MaxToken - 1)
  BY DEF Inv, TypeOK
<1>3. /\ hart.nextToken \in 1 .. MaxToken /\ MaxToken \in Nat
      /\ hart.pending # NoPending => hart.pending.token \in 1 .. MaxToken - 1
  BY <1>2, HartAssumption DEF HartAssumption, Harts, PendingEffects
<1>4. PendingToken \in SUBSET (1 .. MaxToken - 1)
  BY <1>3 DEF PendingToken
<1>5. spent' \in {spent, spent \cup PendingToken}
      /\ (hart'.pending = hart.pending => spent' = spent)
  BY <1>1 DEF Adopt
<1>6. TypeOK'
  BY <1>1, <1>2, <1>4, <1>5 DEF TypeOK
<1>7. AlwaysAligned'
  BY <1>1 DEF AlwaysAligned
<1>8. TokensNameOneEffect'
  <2>1. /\ hart.pending # NoPending =>
            hart.pending.pc = hart.pc /\ hart.pending.token < hart.nextToken /\ hart.pending.token \notin spent
        /\ \A t \in spent : t < hart.nextToken
    BY DEF Inv, TokensNameOneEffect
  <2>2. hart.pending = NoPending => spent' = spent
    BY <1>5 DEF PendingToken
  <2>3. \A t \in spent \cup PendingToken : t \in Int /\ t < hart.nextToken
    BY <1>2, <1>3, <2>1 DEF PendingToken
  <2>4. CASE hart'.pending = hart.pending /\ hart'.nextToken = hart.nextToken
               /\ (hart.pending # NoPending => hart'.pc = hart.pc)
    BY <1>5, <2>1, <2>4 DEF TokensNameOneEffect
  <2>5. CASE hart'.pending = NoPending /\ hart'.nextToken = hart.nextToken
    BY <1>5, <2>3, <2>5 DEF TokensNameOneEffect
  <2>6. CASE /\ hart.pending = NoPending /\ hart'.pending # NoPending
             /\ hart'.nextToken = hart.nextToken + 1
             /\ hart'.pending.token = hart.nextToken /\ hart'.pending.pc = hart'.pc
    <3>1. spent' = spent
      BY <2>2, <2>6
    <3>2. \A t \in spent' : t < hart.nextToken /\ t < hart'.nextToken
      BY <1>3, <2>3, <2>6, <3>1
    <3>3. hart.nextToken \notin spent' /\ hart.nextToken < hart'.nextToken
      BY <1>3, <2>6, <3>2
    <3> QED
      BY <2>6, <3>2, <3>3 DEF TokensNameOneEffect
  <2> QED
    BY <1>1, <2>4, <2>5, <2>6 DEF EffectStep
<1> QED
  BY <1>6, <1>7, <1>8 DEF Inv

-----------------------------------------------------------------------------
(* The calls *)

LEMMA ResetSound ==
    ASSUME NEW h \in Harts
    PROVE  Sound(h, Returned("none", Reset(h)))
<1>1. Reset(h) \in Harts
  BY ResetType DEF Harts
<1>2. /\ Reset(h).pc = 0 /\ Reset(h).csr.mepc = 0 /\ Reset(h).csr.base = 0
      /\ Reset(h).pending = NoPending /\ Reset(h).nextToken = h.nextToken
  BY DEF Reset, ResetCsrs, TokenAfterReset
<1>3. 0 \in Aligned
  BY AddressSpaceAssumption DEF AddressSpaceAssumption, Aligned, Addresses
<1> QED
  BY <1>1, <1>2, <1>3 DEF Sound, Returned, OnBoundaries, EffectStep, Events

LEMMA StartSound ==
    ASSUME NEW h \in Harts, OnBoundaries(h), NEW entry \in Addresses
    PROVE  Sound(h, Start(h, entry))
<1>1. Start(h, entry).hart \in Harts
  BY StartType
<1>2. CASE h.pending # NoPending \/ entry % 4 # 0
  BY <1>1, <1>2 DEF Sound, Start, Refused, Returned, EffectStep, Events
<1>3. CASE ~(h.pending # NoPending \/ entry % 4 # 0)
  <2>1. LET g == Start(h, entry).hart
        IN  /\ g.pc = entry /\ g.csr = h.csr /\ g.pending = h.pending /\ g.nextToken = h.nextToken
            /\ Start(h, entry).event = "none"
    BY <1>3 DEF Start, Returned, Harts
  <2>2. entry \in Aligned
    BY <1>3 DEF Aligned
  <2> QED
    BY <1>1, <1>3, <2>1, <2>2 DEF Sound, OnBoundaries, EffectStep, Events
<1> QED
  BY <1>2, <1>3

LEMMA PollSound ==
    ASSUME NEW h \in Harts, OnBoundaries(h)
    PROVE  Sound(h, PollInterrupt(h))
<1>1. /\ PollInterrupt(h).hart \in Harts
      /\ OnBoundaries(PollInterrupt(h).hart)
      /\ PollInterrupt(h).event \in Events
  BY PollInterruptType, PollInterruptAligned, PollInterruptEffect DEF Events
<1>2. EffectStep(h, PollInterrupt(h).hart)
  BY PollInterruptEffect DEF EffectStep
<1> QED
  BY <1>1, <1>2 DEF Sound

LEMMA IssueSound ==
    ASSUME NEW h \in Harts, OnBoundaries(h), NEW e \in Effects
    PROVE  Sound(h, Issue(h, e))
BY IssueType, IssueAligned, IssueEffect DEF Sound, Events

LEMMA CompleteSound ==
    ASSUME NEW h \in Harts, OnBoundaries(h), NEW token, NEW result \in ExternalResults
    PROVE  Sound(h, Complete(h, token, result))
BY CompleteType, CompleteAligned, CompleteEffect DEF Sound, Events

LEMMA FetchFaultSound ==
    ASSUME NEW h \in Harts, OnBoundaries(h), NEW address \in Addresses
    PROVE  Sound(h, FetchFault(h, address))
<1>1. FetchFault(h, address).hart \in Harts
  BY FetchFaultType
<1>2. address \in Words
  BY AddressSpaceAssumption DEF AddressSpaceAssumption, Addresses, Words
<1>3. LET g == EnterTrap(h, FALSE, 1, address)
      IN  OnBoundaries(g) /\ g.pending = h.pending /\ g.nextToken = h.nextToken
  BY <1>2, EnterTrapAligned, EnterTrapKeepsEffect
<1> QED
  BY <1>1, <1>3 DEF FetchFault, Sound, Refused, Returned, EffectStep, Events

LEMMA SetInterruptsSound ==
    ASSUME NEW h \in Harts, OnBoundaries(h), NEW lines \in SUBSET Lines
    PROVE  Sound(h, Returned("none", SetInterrupts(h, lines)))
<1>1. SetInterrupts(h, lines) \in Harts
  BY SetInterruptsType
<1>2. LET g == SetInterrupts(h, lines)
      IN  /\ g.pc = h.pc /\ g.csr.mepc = h.csr.mepc /\ g.csr.base = h.csr.base
          /\ g.pending = h.pending /\ g.nextToken = h.nextToken
  BY DEF SetInterrupts, Harts, Csrs
<1> QED
  BY <1>1, <1>2 DEF Sound, Returned, OnBoundaries, EffectStep, Events

LEMMA AccountCyclesSound ==
    ASSUME NEW h \in Harts, OnBoundaries(h), NEW elapsed \in Nat
    PROVE  Sound(h, Returned("none", AccountCycles(h, elapsed)))
<1>1. AccountCycles(h, elapsed) \in Harts
  BY AccountCyclesType
<1>2. LET g == AccountCycles(h, elapsed)
      IN  g.pc = h.pc /\ g.csr = h.csr /\ g.pending = h.pending /\ g.nextToken = h.nextToken
  BY DEF AccountCycles, Harts
<1> QED
  BY <1>1, <1>2 DEF Sound, Returned, OnBoundaries, EffectStep, Events

-----------------------------------------------------------------------------
(* Precision: what a call may not change *)

(* A trap changes control state only; a call under a pending effect that    *)
(* leaves it pending leaves the architecture alone; a refused one, all.     *)
Exact(h, returned) ==
    /\ returned.event = "trap" =>
          /\ returned.hart.registers = h.registers
          /\ returned.hart.retired = h.retired /\ returned.hart.instret = h.instret
          /\ returned.hart.csr.mepc = h.pc
          /\ ~returned.hart.csr.mieBit /\ ~returned.hart.waiting
          /\ returned.hart.pending = NoPending
    /\ h.pending # NoPending /\ returned.hart.pending = h.pending =>
          Architecture(returned.hart) = Architecture(h)
    /\ h.pending # NoPending /\ returned.event = "error" => returned.hart = h

LEMMA EnterTrapExact ==
    ASSUME NEW h \in Harts, NEW interrupt \in BOOLEAN, NEW code \in Nat, NEW value \in Words
    PROVE  LET g == EnterTrap(h, interrupt, code, value)
           IN  /\ g.registers = h.registers /\ g.retired = h.retired /\ g.instret = h.instret
               /\ g.csr.mepc = h.pc /\ g.csr.mieBit = FALSE /\ g.waiting = FALSE
               /\ g.pending = h.pending
BY DEF EnterTrap, Harts, Csrs

LEMMA PollExact ==
    ASSUME NEW h \in Harts
    PROVE  Exact(h, PollInterrupt(h))
<1> DEFINE awake == [h EXCEPT !.waiting = @ /\ Enabled(h) = {}]
           code == Highest(Enabled(h))
           g == EnterTrap(awake, TRUE, code, 0)
<1>1. /\ awake \in Harts /\ awake.registers = h.registers /\ awake.retired = h.retired
      /\ awake.instret = h.instret /\ awake.pc = h.pc /\ awake.pending = h.pending
  BY DEF Harts
<1>2. code \in Nat /\ 0 \in Words
  BY HighestIsNatural DEF Words
<1>3. CASE h.pending # NoPending
  BY <1>3 DEF PollInterrupt, Refused, Returned, Exact
<1>4. CASE h.pending = NoPending
  <2>1. PollInterrupt(h) \in {Returned("trap", g), Returned("none", awake)}
    BY <1>4 DEF PollInterrupt
  <2> HIDE DEF awake, code
  <2>2. /\ g.registers = h.registers /\ g.retired = h.retired /\ g.instret = h.instret
        /\ g.csr.mepc = h.pc /\ g.csr.mieBit = FALSE /\ g.waiting = FALSE /\ g.pending = NoPending
    BY <1>1, <1>2, <1>4, EnterTrapExact
  <2> HIDE DEF g
  <2> QED
    BY <1>4, <2>1, <2>2 DEF Returned, Exact
<1> QED
  BY <1>3, <1>4

LEMMA ExecuteTrapExact ==
    ASSUME NEW h \in Harts, h.pending = NoPending, NEW e \in Effects, Execute(h, e).event = "trap"
    PROVE  \E code \in Nat, value \in Words : Execute(h, e).hart = EnterTrap(h, FALSE, code, value)
<1>1. CASE e.kind = "trap"
  <2>1. e.cause \in Nat /\ e.value \in Words
    BY <1>1 DEF Effects
  <2> QED
    BY <1>1, <2>1 DEF Execute, Returned
<1>2. CASE e.kind = "csr"
  <2>1. e.bits \in Words
    BY <1>2 DEF Effects
  <2>2. ExecuteCsr(h, e, NextPc(h)).event = "trap" =>
          ExecuteCsr(h, e, NextPc(h)).hart = EnterTrap(h, FALSE, 2, e.bits)
    BY DEF ExecuteCsr, Returned
  <2>3. Execute(h, e) = ExecuteCsr(h, e, NextPc(h))
    BY <1>2 DEF Execute
  <2> QED
    BY <2>1, <2>2, <2>3
<1>3. CASE e.kind \in {"result", "mret", "wfi", "load", "store", "fence"}
  <2>1. Execute(h, e).event # "trap"
    BY <1>3 DEF Execute, Defer, Refused, Returned
  <2> QED
    BY <2>1
<1> QED
  BY <1>1, <1>2, <1>3 DEF Effects

LEMMA IssueExact ==
    ASSUME NEW h \in Harts, NEW e \in Effects
    PROVE  Exact(h, Issue(h, e))
<1> DEFINE polled == PollInterrupt(h)
           g == polled.hart
<1>1. Exact(h, polled) /\ g \in Harts /\ g.pending = h.pending
  BY PollExact, PollInterruptType, PollInterruptEffect
<1>2. CASE polled.event # "none"
  BY <1>1, <1>2 DEF Issue
<1>3. CASE polled.event = "none"
  <2>1. /\ h.pending = NoPending
        /\ g.registers = h.registers /\ g.retired = h.retired /\ g.instret = h.instret /\ g.pc = h.pc
    BY <1>3 DEF PollInterrupt, Refused, Returned, Harts
  <2>2. Issue(h, e) = Returned("sleeping", g) \/ Issue(h, e) = Execute(g, e)
    BY <1>3 DEF Issue
  <2> HIDE DEF polled, g
  <2>3. ASSUME Execute(g, e).event = "trap"
        PROVE  Exact(h, Execute(g, e))
    <3>1. PICK code \in Nat, value \in Words : Execute(g, e).hart = EnterTrap(g, FALSE, code, value)
      BY <1>1, <2>1, <2>3, ExecuteTrapExact
    <3> DEFINE f == EnterTrap(g, FALSE, code, value)
    <3>2. /\ f.registers = g.registers /\ f.retired = g.retired /\ f.instret = g.instret
          /\ f.csr.mepc = g.pc /\ f.csr.mieBit = FALSE /\ f.waiting = FALSE /\ f.pending = g.pending
      BY <1>1, EnterTrapExact
    <3> QED
      BY <1>1, <2>1, <3>1, <3>2 DEF Exact
  <2>4. ASSUME Execute(g, e).event # "trap"
        PROVE  Exact(h, Execute(g, e))
    BY <2>1, <2>4 DEF Exact
  <2>5. Exact(h, Returned("sleeping", g))
    BY <2>1 DEF Exact, Returned
  <2> QED
    BY <2>2, <2>3, <2>4, <2>5
<1> QED
  BY <1>2, <1>3

LEMMA CompleteExact ==
    ASSUME NEW h \in Harts, NEW token, NEW result \in ExternalResults
    PROVE  Exact(h, Complete(h, token, result))
<1> DEFINE settled == [h EXCEPT !.pending = NoPending]
           returned == Complete(h, token, result)
<1>1. /\ settled \in Harts /\ settled.pending = NoPending /\ settled.registers = h.registers
      /\ settled.retired = h.retired /\ settled.instret = h.instret /\ settled.pc = h.pc
  BY DEF Harts
<1>2. CASE returned = [event |-> "error", hart |-> h]
  BY <1>2 DEF Exact
<1>3. CASE Completed(h, token, returned)
  <2>1. h.pending # NoPending => h.pending.next \in Addresses
    BY DEF Harts, PendingEffects
  <2>2. CASE \E code \in Nat, value \in Words : returned.hart = EnterTrap(settled, FALSE, code, value)
    <3>1. PICK code \in Nat, value \in Words : returned.hart = EnterTrap(settled, FALSE, code, value)
      BY <2>2
    <3> DEFINE f == EnterTrap(settled, FALSE, code, value)
    <3> HIDE DEF settled, returned
    <3>2. /\ f.registers = settled.registers /\ f.retired = settled.retired /\ f.instret = settled.instret
          /\ f.csr.mepc = settled.pc /\ f.csr.mieBit = FALSE /\ f.waiting = FALSE
          /\ f.pending = settled.pending
      BY <1>1, EnterTrapExact
    <3>3. returned.event \in {"trap", "committed"} /\ h.pending # NoPending
      BY <1>3 DEF Completed
    <3> QED
      BY <1>1, <3>1, <3>2, <3>3 DEF Exact, returned
  <2>3. CASE returned.event = "committed" /\ returned.hart.pending = NoPending /\ h.pending # NoPending
    BY <2>3 DEF Exact
  <2>4. ASSUME NEW g \in Harts, g.pending = NoPending, h.pending # NoPending
        PROVE  Commit(g, h.pending.next, TRUE).pending = NoPending
    BY <2>1, <2>4, CommitKeepsEffect
  <2>5. ASSUME NEW rd \in Registers, NEW value \in Words
        PROVE  /\ WriteRegister(settled, rd, value) \in Harts
               /\ WriteRegister(settled, rd, value).pending = NoPending
    <3> HIDE DEF settled
    <3> QED
      BY <1>1, WriteRegisterType, WriteRegisterKeepsEffect
  <2> QED
    BY <1>1, <1>3, <2>2, <2>3, <2>4, <2>5 DEF Completed
<1> QED
  BY <1>2, <1>3, CompleteShape

LEMMA FetchFaultExact ==
    ASSUME NEW h \in Harts, NEW address \in Addresses
    PROVE  Exact(h, FetchFault(h, address))
<1> DEFINE f == EnterTrap(h, FALSE, 1, address)
<1>1. address \in Words
  BY AddressSpaceAssumption DEF AddressSpaceAssumption, Addresses, Words
<1>2. /\ f.registers = h.registers /\ f.retired = h.retired /\ f.instret = h.instret
      /\ f.csr.mepc = h.pc /\ f.csr.mieBit = FALSE /\ f.waiting = FALSE /\ f.pending = h.pending
  BY <1>1, EnterTrapExact
<1> QED
  BY <1>2 DEF FetchFault, Refused, Returned, Exact

(* Reset drops what is pending and start is refused under it; interrupt     *)
(* lines and the cycle counter are not architecture.                        *)
LEMMA ResetExact ==
    ASSUME NEW h \in Harts
    PROVE  Exact(h, Returned("none", Reset(h)))
BY DEF Reset, Returned, Exact

LEMMA StartExact ==
    ASSUME NEW h \in Harts, NEW entry \in Addresses
    PROVE  Exact(h, Start(h, entry))
BY DEF Start, Refused, Returned, Exact

LEMMA SetInterruptsExact ==
    ASSUME NEW h \in Harts, NEW lines \in SUBSET Lines
    PROVE  Exact(h, Returned("none", SetInterrupts(h, lines)))
<1>1. [h.csr EXCEPT !.mip = {}] = [[h.csr EXCEPT !.mip = lines] EXCEPT !.mip = {}]
  BY DEF Harts, Csrs
<1>2. Architecture(SetInterrupts(h, lines)) = Architecture(h)
  BY <1>1 DEF SetInterrupts, Architecture, Harts
<1> QED
  BY <1>2 DEF Returned, Exact

LEMMA AccountCyclesExact ==
    ASSUME NEW h \in Harts, NEW elapsed \in Nat
    PROVE  Exact(h, Returned("none", AccountCycles(h, elapsed)))
<1>1. Architecture(AccountCycles(h, elapsed)) = Architecture(h)
  BY DEF AccountCycles, Architecture, Harts
<1> QED
  BY <1>1 DEF Returned, Exact

-----------------------------------------------------------------------------
(* Every step is a call, and every call is sound and exact. *)
LEMMA NextIsSound ==
    ASSUME hart \in Harts, OnBoundaries(hart), Next
    PROVE  \E returned : Sound(hart, returned) /\ Exact(hart, returned) /\ Adopt(returned)
<1>1. CASE CallReset
  BY <1>1, ResetSound, ResetExact DEF CallReset
<1>2. ASSUME NEW entry \in Entries, CallStart(entry)
      PROVE  \E returned : Sound(hart, returned) /\ Exact(hart, returned) /\ Adopt(returned)
  BY <1>2, StartSound, StartExact, EnvironmentAssumption DEF EnvironmentAssumption, CallStart
<1>3. CASE CallPoll
  BY <1>3, PollSound, PollExact DEF CallPoll
<1>4. ASSUME NEW e \in Repertoire, CallIssue(e)
      PROVE  \E returned : Sound(hart, returned) /\ Exact(hart, returned) /\ Adopt(returned)
  BY <1>4, IssueSound, IssueExact, RepertoireAssumption DEF RepertoireAssumption, CallIssue
<1>5. ASSUME NEW t, NEW r \in Results, CallComplete(t, r)
      PROVE  \E returned : Sound(hart, returned) /\ Exact(hart, returned) /\ Adopt(returned)
  BY <1>5, CompleteSound, CompleteExact, EnvironmentAssumption DEF EnvironmentAssumption, CallComplete
<1>6. ASSUME NEW a \in {hart.pc, (hart.pc + 4) % AddressSpace}, CallFetchFault(a)
      PROVE  \E returned : Sound(hart, returned) /\ Exact(hart, returned) /\ Adopt(returned)
  <2>1. a \in Addresses
    BY NextPcType DEF Harts, NextPc
  <2> QED
    BY <1>6, <2>1, FetchFaultSound, FetchFaultExact DEF CallFetchFault
<1>7. ASSUME NEW ls \in LineSets, CallSetInterrupts(ls)
      PROVE  \E returned : Sound(hart, returned) /\ Exact(hart, returned) /\ Adopt(returned)
  BY <1>7, SetInterruptsSound, SetInterruptsExact, EnvironmentAssumption DEF EnvironmentAssumption, CallSetInterrupts
<1>8. ASSUME NEW n \in Elapsed, CallAccountCycles(n)
      PROVE  \E returned : Sound(hart, returned) /\ Exact(hart, returned) /\ Adopt(returned)
  BY <1>8, AccountCyclesSound, AccountCyclesExact, EnvironmentAssumption DEF EnvironmentAssumption, CallAccountCycles
<1> QED
  BY <1>1, <1>2, <1>3, <1>4, <1>5, <1>6, <1>7, <1>8 DEF Next

LEMMA NextKeepsInv == Inv /\ [Next]_vars => Inv'
<1> SUFFICES ASSUME Inv, [Next]_vars PROVE Inv'
  OBVIOUS
<1>1. hart \in Harts /\ OnBoundaries(hart)
  BY DEF Inv, TypeOK, AlwaysAligned
<1>2. CASE Next
  BY <1>1, <1>2, NextIsSound, AdoptKeepsInv
<1>3. CASE UNCHANGED vars
  BY <1>3 DEF vars, Inv, TypeOK, AlwaysAligned, TokensNameOneEffect
<1> QED
  BY <1>2, <1>3

-----------------------------------------------------------------------------
(* The hart stays well formed, on instruction boundaries, and never lets a  *)
(* token name a second effect, under any sequence of calls.                 *)
THEOREM Invariance == Spec => []Inv
<1>1. Init => Inv
  BY InitEstablishesInv
<1>2. Inv /\ [Next]_vars => Inv'
  BY NextKeepsInv
<1> QED
  BY <1>1, <1>2, PTL DEF Spec

(* Registers, CSRs and counters keep their widths; tokens and the pending   *)
(* context keep their shape.                                                *)
THEOREM TypeCorrect == Spec => []TypeOK
<1>1. Inv => TypeOK
  BY DEF Inv
<1> QED
  BY <1>1, Invariance, PTL

(* pc, mepc, the vector base and a pending successor are instruction        *)
(* boundaries: no call can make the fetch loop start inside an instruction. *)
THEOREM AlignmentHolds == Spec => []AlwaysAligned
<1>1. Inv => AlwaysAligned
  BY DEF Inv
<1> QED
  BY <1>1, Invariance, PTL

(* A completion that names an old token never matches the pending effect,   *)
(* before or after any reset (hart_state::reset and hart_state::complete).  *)
THEOREM TokensHold == Spec => []TokensNameOneEffect
<1>1. Inv => TokensNameOneEffect
  BY DEF Inv
<1> QED
  BY <1>1, Invariance, PTL

-----------------------------------------------------------------------------
(* Every step of a run is an exact call, or changes nothing. *)
LEMMA StepIsExact ==
    ASSUME Inv, Next
    PROVE  \E returned : Exact(hart, returned) /\ hart' = returned.hart /\ event' = returned.event
<1>1. hart \in Harts /\ OnBoundaries(hart)
  BY DEF Inv, TypeOK, AlwaysAligned
<1> QED
  BY <1>1, NextIsSound DEF Adopt

(* A trap retires nothing, writes no register, leaves its own pc in mepc    *)
(* and nothing pending, whichever call raised it and from whatever state    *)
(* (hart_state::enter_trap and every caller of it).                         *)
THEOREM TrapPrecision == Spec => TrapsArePrecise
<1>1. Inv /\ [Next]_vars =>
        [event' = "trap" =>
            /\ hart'.registers = hart.registers
            /\ hart'.retired = hart.retired /\ hart'.instret = hart.instret
            /\ hart'.csr.mepc = hart.pc
            /\ ~hart'.csr.mieBit /\ ~hart'.waiting
            /\ hart'.pending = NoPending]_vars
  BY StepIsExact DEF Exact
<1> QED
  BY <1>1, Invariance, PTL DEF Spec, TrapsArePrecise

(* Under a pending effect only reset and its own completion move the        *)
(* architecture: no interrupt, no other word; and a refused call is as if   *)
(* it had not been made (the pending check and the early returns at the     *)
(* head of every hart_state method).                                        *)
THEOREM PendingFreezes == Spec => PendingFreezesArchitecture
<1>1. Inv /\ [Next]_vars =>
        [hart.pending # NoPending =>
            /\ hart'.pending = hart.pending => Architecture(hart') = Architecture(hart)
            /\ event' = "error" => hart' = hart]_vars
  BY StepIsExact DEF Exact
<1> QED
  BY <1>1, Invariance, PTL DEF Spec, PendingFreezesArchitecture

(* Returning from a trap resumes at the trapped pc with the interrupt       *)
(* enable it had (hart_state::enter_trap against the MRET case of issue).   *)
THEOREM TrapReturn == Spec => []ReturnUndoesTrap
<1>1. Inv => ReturnUndoesTrap
  <2> SUFFICES ASSUME Inv, NEW interrupt \in BOOLEAN, NEW code \in Lines
               PROVE  LET back == ReturnFromTrap(EnterTrap(hart, interrupt, code, 0))
                      IN  back.pc = hart.pc /\ back.csr.mieBit = hart.csr.mieBit
    BY DEF ReturnUndoesTrap
  <2>1. hart \in Harts
    BY DEF Inv, TypeOK
  <2> QED
    BY <2>1, ZenonT(60) DEF ReturnFromTrap, EnterTrap, Commit, Harts, Csrs
<1> QED
  BY <1>1, Invariance, PTL
=============================================================================
