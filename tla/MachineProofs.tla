---------------------------- MODULE MachineProofs ----------------------------
(***************************************************************************)
(* The program machine and its callers, for every map, store size,         *)
(* repertoire of instructions, environment and token limit.  First the     *)
(* invariants: machine and hart never disagree, and nothing of an          *)
(* instruction outlives it.  Then the machine as others see it: every step *)
(* has one of six forms to an observer of the architectural state, from    *)
(* which follow that it implements PreciseCore, that it takes interrupts   *)
(* only between instructions and that what Runner reports of it is true.   *)
(***************************************************************************)
EXTENDS Runner, HartProofs, MapProofs

(* The inductive invariant.  None of the three is inductive alone: what     *)
(* complete may accept depends on the phase, the phase on the operation     *)
(* held, and the hart's supply of tokens on the machine's.                  *)
Inv == CompletionsAgree /\ NothingIsStale /\ TokensNameOneOperation

(* What every step keeps of the hart alone. *)
SoundHart(h) == h \in Harts /\ OnBoundaries(h) /\ ZeroHolds(h)

MachineEvents == {"none", "progress", "committed", "trap", "pending", "sleeping", "stopped", "error"}

-----------------------------------------------------------------------------
(* The hart *)

LEMMA TrapIsSound ==
    ASSUME NEW h, SoundHart(h), NEW code \in Nat, NEW value \in Words
    PROVE  /\ SoundHart(EnterTrap(h, FALSE, code, value))
           /\ KeepsEffect(h, EnterTrap(h, FALSE, code, value))
<1> DEFINE g == EnterTrap(h, FALSE, code, value)
<1>1. h \in Harts /\ OnBoundaries(h) /\ ZeroHolds(h)
  BY DEF SoundHart
<1>2. g \in Harts /\ OnBoundaries(g)
  BY <1>1, EnterTrapType, EnterTrapAligned
<1>3. Trapped(h, g, FALSE, code, value) /\ KeepsEffect(h, g)
  BY <1>1, EnterTrapShape
<1> HIDE DEF g
<1>4. ZeroHolds(g)
  BY <1>1, <1>3 DEF Trapped, ZeroHolds
<1> QED
  BY <1>2, <1>3, <1>4 DEF SoundHart, g

LEMMA CommitIsSound ==
    ASSUME NEW h, SoundHart(h), NEW next \in Aligned
    PROVE  SoundHart(Commit(h, next, TRUE)) /\ KeepsEffect(h, Commit(h, next, TRUE))
<1> DEFINE g == Commit(h, next, TRUE)
<1>1. h \in Harts /\ OnBoundaries(h) /\ ZeroHolds(h) /\ next \in Addresses
  BY DEF SoundHart, Aligned
<1>2. g \in Harts /\ OnBoundaries(g)
  BY <1>1, CommitType, CommitAligned
<1>3. g.registers = h.registers /\ KeepsEffect(h, g)
  BY <1>1, CommitShape
<1> HIDE DEF g
<1> QED
  BY <1>1, <1>2, <1>3 DEF SoundHart, ZeroHolds, g

LEMMA WriteIsSound ==
    ASSUME NEW h, SoundHart(h), NEW rd \in Registers, NEW value \in Words
    PROVE  /\ SoundHart(WriteRegister(h, rd, value))
           /\ KeepsEffect(h, WriteRegister(h, rd, value))
           /\ WriteRegister(h, rd, value).pc = h.pc
           /\ WriteRegister(h, rd, value).waiting = h.waiting
BY WriteRegisterType, WriteRegisterAligned, WriteRegisterShape DEF SoundHart

LEMMA ResetIsSound ==
    ASSUME NEW h, h.nextToken \in 1 .. MaxToken
    PROVE  /\ SoundHart(Reset(h))
           /\ Reset(h).pending = NoPending /\ Reset(h).nextToken = h.nextToken
           /\ Reset(h).waiting = FALSE
<1>1. Reset(h) \in Harts
  BY ResetType
<1>2. /\ Reset(h).pc = 0 /\ Reset(h).csr.mepc = 0 /\ Reset(h).csr.base = 0
      /\ Reset(h).pending = NoPending /\ Reset(h).nextToken = h.nextToken /\ Reset(h).waiting = FALSE
      /\ Reset(h).registers = [r \in Registers |-> 0]
  BY DEF Reset, ResetCsrs, TokenAfterReset
<1>3. 0 \in Aligned /\ 0 \in Registers
  BY AddressSpaceAssumption, HartAssumption DEF AddressSpaceAssumption, HartAssumption, Aligned, Addresses
<1> QED
  BY <1>1, <1>2, <1>3 DEF SoundHart, OnBoundaries, ZeroHolds

LEMMA StartIsSound ==
    ASSUME NEW h, SoundHart(h), h.pending = NoPending, NEW entry \in Aligned
    PROVE  LET begun == Start(h, entry)
           IN  /\ begun.event = "none" /\ SoundHart(begun.hart) /\ KeepsEffect(h, begun.hart)
               /\ begun.hart.waiting = FALSE /\ begun.hart.pc = entry
               /\ begun.hart.registers = h.registers /\ begun.hart.csr = h.csr
               /\ begun.hart.retired = h.retired
<1> DEFINE g == [h EXCEPT !.pc = entry, !.waiting = FALSE]
<1>1. Start(h, entry) = Returned("none", g)
  BY DEF Start, Aligned
<1>2. /\ g \in Harts /\ g.csr = h.csr /\ g.pc = entry /\ g.registers = h.registers
      /\ g.waiting = FALSE /\ g.retired = h.retired /\ KeepsEffect(h, g)
  BY DEF SoundHart, Harts, Aligned, KeepsEffect
<1> HIDE DEF g
<1>3. SoundHart(g)
  BY <1>2 DEF SoundHart, OnBoundaries, ZeroHolds, KeepsEffect
<1> QED
  BY <1>1, <1>2, <1>3 DEF Returned

(* issue, of a hart that is awake between two effects. *)
LEMMA IssueIsSound ==
    ASSUME NEW h, SoundHart(h), ~h.waiting, h.pending = NoPending, NEW e \in Effects
    PROVE  SoundHart(Issue(h, e).hart) /\ Issued(h, e, Issue(h, e))
<1> DEFINE returned == Issue(h, e)
<1>1. h \in Harts /\ OnBoundaries(h) /\ ZeroHolds(h)
  BY DEF SoundHart
<1>2. Issued(h, e, returned)
  BY <1>1, IssueShape
<1>3. returned.hart \in Harts /\ OnBoundaries(returned.hart)
  BY <1>1, IssueType, IssueAligned
<1> HIDE DEF returned
<1>4. ZeroHolds(returned.hart)
  BY <1>1, <1>2
  DEF Issued, TookTrap, TookInterrupt, Trapped, Retired, Deferred, ZeroHolds, Harts
<1> QED
  BY <1>2, <1>3, <1>4 DEF SoundHart, returned

LEMMA CompleteIsSound ==
    ASSUME NEW h, SoundHart(h), ~h.waiting, h.pending # NoPending,
           NEW result \in ExternalResults, Suits(h.pending.request, result)
    PROVE  LET returned == Complete(h, h.pending.token, result)
           IN  /\ SoundHart(returned.hart)
               /\ returned.hart.pending = NoPending /\ returned.hart.nextToken = h.nextToken
               /\ returned.event \in {"trap", "committed"}
<1> DEFINE returned == Complete(h, h.pending.token, result)
<1>1. h \in Harts /\ OnBoundaries(h) /\ ZeroHolds(h)
  BY DEF SoundHart
<1>2. /\ returned.hart.pending = NoPending /\ returned.hart.nextToken = h.nextToken
      /\ \/ returned.event = "trap" /\ TookTrap(h, returned.hart)
         \/ returned.event = "committed" /\ Retired(h, returned.hart)
  BY <1>1, CompleteSettles
<1>3. returned.hart \in Harts /\ OnBoundaries(returned.hart)
  BY <1>1, CompleteType, CompleteAligned
<1> HIDE DEF returned
<1>4. ZeroHolds(returned.hart)
  BY <1>1, <1>2 DEF TookTrap, Trapped, Retired, ZeroHolds
<1> QED
  BY <1>2, <1>3, <1>4 DEF SoundHart, returned

-----------------------------------------------------------------------------
(* Requests *)

LEMMA TheMapIsValid == MapIsValid(Map)
BY MachineAssumption, CreatedMapIsValid DEF MachineAssumption, Map

LEMMA SliceType ==
    ASSUME scratchpad \in ScratchpadContents, NEW at \in Nat, NEW size \in Nat, at + size <= ScratchpadBytes
    PROVE  ScratchpadSlice(at, size) \in Seq(Bytes) /\ Len(ScratchpadSlice(at, size)) = size
<1>1. ScratchpadBytes \in Nat
  BY MachineAssumption DEF MachineAssumption
<1>2. \A i \in 1 .. size : at + i - 1 \in 0 .. ScratchpadBytes - 1
  BY <1>1
<1>3. \A i \in 1 .. size : scratchpad[at + i - 1] \in Bytes
  BY <1>2 DEF ScratchpadContents
<1> QED
  BY <1>3 DEF ScratchpadSlice

(* A request that is made routes to where it says, within what backs it. *)
LEMMA MemoryOperationShape ==
    ASSUME NEW address \in Int, NEW size \in Nat, NEW access \in AccessKinds, NEW payload
    PROVE  LET made == MemoryOperation(address, size, access, payload)
               route == Resolve(Map, address, size, access)
           IN  /\ made.ok \in BOOLEAN
               /\ made.ok =>
                    /\ route.ok /\ LocallyBacked(route)
                    /\ made.request = [kind |-> "memory", address |-> address, size |-> size, access |-> access,
                                      storage |-> route.storage, payload |-> payload]
                    /\ payload \in Seq(Bytes) => made.request \in MemoryRequests
               /\ ~made.ok => made.cause \in Nat /\ made.value = address
<1> DEFINE route == Resolve(Map, address, size, access)
           made == MemoryOperation(address, size, access, payload)
<1>1. CASE route.ok /\ LocallyBacked(route)
  <2>1. made = [ok |-> TRUE,
                request |-> [kind |-> "memory", address |-> address, size |-> size, access |-> access,
                             storage |-> route.storage, payload |-> payload]]
    BY <1>1 DEF MemoryOperation
  <2>2. address \in Addresses /\ route.storage \in Storages
    BY <1>1, TheMapIsValid, RouteGuarantees
  <2> HIDE DEF route
  <2> QED
    BY <1>1, <2>1, <2>2 DEF MemoryRequests, route
<1>2. CASE ~(route.ok /\ LocallyBacked(route))
  <2>1. made = [ok |-> FALSE, cause |-> AccessFault(access), value |-> address]
    BY <1>2 DEF MemoryOperation
  <2>2. AccessFault(access) \in Nat
    BY DEF AccessFault, AccessKinds
  <2> QED
    BY <2>1, <2>2
<1> QED
  BY <1>1, <1>2

LEMMA LocalBytesShape ==
    ASSUME NEW address \in Addresses, NEW size \in Nat, NEW write \in BOOLEAN
    PROVE  LET local == LocalBytes(address, size, write)
           IN  /\ local.ok \in BOOLEAN
               /\ local.ok => local.at \in Nat /\ local.at + size <= ScratchpadBytes
               /\ ~local.ok => local.cause \in Nat /\ local.value = address
<1> DEFINE access == IF write THEN "write" ELSE "read"
           route == Resolve(Map, address, size, access)
           local == LocalBytes(address, size, write)
<1>1. address \in Int /\ ScratchpadBytes \in Nat
  BY AddressSpaceAssumption, MachineAssumption DEF AddressSpaceAssumption, MachineAssumption, Addresses
<1>2. CASE route.ok /\ route.storage = "scratchpad" /\ LocallyBacked(route)
  <2>1. local = [ok |-> TRUE, at |-> route.at]
    BY <1>2 DEF LocalBytes
  <2>2. route.at \in Nat /\ route.size = size
    BY <1>1, <1>2, TheMapIsValid, RouteGuarantees
  <2>3. LocalRange(ScratchpadBytes, route.at, route.size)
    BY <1>2 DEF LocallyBacked
  <2> QED
    BY <1>1, <2>1, <2>2, <2>3 DEF LocalRange
<1>3. CASE ~(route.ok /\ route.storage = "scratchpad" /\ LocallyBacked(route))
  <2>1. local = [ok |-> FALSE, cause |-> IF write THEN 7 ELSE 5, value |-> address]
    BY <1>3 DEF LocalBytes
  <2> QED
    BY <2>1
<1> QED
  BY <1>2, <1>3

(* The effects a scalar word defers, and the requests made of them. *)
LEMMA ScalarRequestShape ==
    ASSUME NEW e \in Repertoire, e \in ExternalEffects
    PROVE  LET made == ScalarRequest(e)
           IN  /\ made.ok \in BOOLEAN
               /\ ~made.ok => e.kind # "fence"
               /\ made.ok =>
                    /\ made.request \in Requests
                    /\ Servable([token |-> nextToken, pc |-> hart.pc, why |-> "scalar", request |-> made.request])
                    /\ IF e.kind = "fence" THEN made.request.kind = "fence"
                       ELSE /\ made.request.kind = "memory"
                            /\ made.request.address = e.address /\ made.request.size = e.width
                            /\ made.request.access = IF e.kind = "load" THEN "read" ELSE "write"
<1> DEFINE made == ScalarRequest(e)
           operation == [token |-> nextToken, pc |-> hart.pc, why |-> "scalar", request |-> made.request]
<1>1. e.kind \in {"load", "store", "fence"}
  BY DEF ExternalEffects
<1>2. CASE e.kind = "fence"
  BY <1>2 DEF ScalarRequest, Requests, Servable
<1>3. ASSUME NEW access \in {"read", "write"}, NEW payload \in Seq(Bytes),
             e.kind = IF access = "read" THEN "load" ELSE "store",
             access = "write" => Len(payload) = e.width,
             made = MemoryOperation(e.address, e.width, access, payload)
      PROVE  /\ made.ok \in BOOLEAN
             /\ made.ok =>
                  /\ made.request \in Requests /\ Servable(operation)
                  /\ made.request.kind = "memory"
                  /\ made.request.address = e.address /\ made.request.size = e.width
                  /\ made.request.access = access
  <2>1. e.address \in Int /\ e.width \in Nat /\ access \in AccessKinds
    BY <1>3, AddressSpaceAssumption DEF AddressSpaceAssumption, ExternalEffects, Effects, Addresses, AccessKinds
  <2> DEFINE route == Resolve(Map, e.address, e.width, access)
             request == [kind |-> "memory", address |-> e.address, size |-> e.width, access |-> access,
                         storage |-> route.storage, payload |-> payload]
  <2>2. /\ made.ok \in BOOLEAN
        /\ made.ok => route.ok /\ LocallyBacked(route) /\ made.request = request
                        /\ made.request \in MemoryRequests
    BY <1>3, <2>1, MemoryOperationShape
  <2>3. route.ok /\ LocallyBacked(route)
            => Servable([token |-> nextToken, pc |-> hart.pc, why |-> "scalar", request |-> request])
    BY <1>3 DEF Servable
  <2> HIDE DEF route, made
  <2> QED
    BY <2>2, <2>3 DEF Requests
<1>4. CASE e.kind = "load"
  <2>1. made = MemoryOperation(e.address, e.width, "read", << >>)
    BY <1>4 DEF ScalarRequest
  <2>2. << >> \in Seq(Bytes) /\ "read" \in {"read", "write"}
    OBVIOUS
  <2> HIDE DEF made
  <2>3. /\ made.ok \in BOOLEAN
        /\ made.ok =>
             /\ made.request \in Requests /\ Servable(operation)
             /\ made.request.kind = "memory"
             /\ made.request.address = e.address /\ made.request.size = e.width
             /\ made.request.access = "read"
    BY <1>3, <1>4, <2>1, <2>2
  <2> QED
    BY <1>4, <2>3 DEF made
<1>5. CASE e.kind = "store"
  <2>1. made = MemoryOperation(e.address, e.width, "write", e.payload)
    BY <1>5 DEF ScalarRequest
  <2>2. e.payload \in [1 .. e.width -> Bytes] /\ e.width \in Nat
    BY <1>5, MachineAssumption DEF MachineAssumption, ExternalEffects, Effects
  <2>3. e.payload \in Seq(Bytes) /\ Len(e.payload) = e.width
    BY <2>2
  <2> HIDE DEF made
  <2> QED
    BY <1>3, <1>5, <2>1, <2>3 DEF made
<1> QED
  BY <1>1, <1>2, <1>4, <1>5

-----------------------------------------------------------------------------
(* Steps *)

(* What the invariant says of a machine that may advance. *)
LEMMA ReadyMachine ==
    ASSUME Inv, pending = NoOperation
    PROVE  /\ SoundHart(hart) /\ hart.pending = NoPending
           /\ dmaLocal = NoAddress
           /\ PendingToken = {}
           /\ frame # "none" => ~firstParcel
           /\ ~AtBoundary => ~hart.waiting
           /\ hart.nextToken <= nextToken
           /\ frame = "scalar" => hart.nextToken < nextToken
BY DEF Inv, CompletionsAgree, HandshakeAgrees, NothingUndefined, TypeOK, NothingIsStale, PhaseAgrees,
       IdleHoldsNothing, TokensNameOneOperation, SoundHart, ZeroHolds, PendingToken

(* A step after which no instruction is in flight. *)
LEMMA EndKeepsInv ==
    ASSUME Inv,
           SoundHart(hart'), hart'.pending = NoPending, hart'.nextToken <= nextToken,
           pending' = NoOperation, frame' = "none", firstParcel' = FALSE, dmaLocal' = NoAddress,
           nextToken' = nextToken, spent' = spent \cup PendingToken,
           stop' \in BOOLEAN, started' \in BOOLEAN, scratchpad' \in ScratchpadContents, npu' \in Nat,
           event' \in MachineEvents, broken' = FALSE
    PROVE  Inv'
<1>1. TypeOK /\ TokensNameOneOperation
  BY DEF Inv, CompletionsAgree, NothingUndefined
<1>2. nextToken \in 1 .. MaxToken /\ spent \subseteq 1 .. MaxToken - 1 /\ \A t \in spent : t < nextToken
  BY <1>1 DEF TypeOK, TokensNameOneOperation
<1>3. PendingToken \subseteq 1 .. MaxToken - 1 /\ \A t \in PendingToken : t < nextToken
  BY <1>1 DEF TypeOK, TokensNameOneOperation, PendingToken, Operations
<1>4. TypeOK'
  BY <1>2, <1>3 DEF TypeOK, SoundHart, MachineEvents
<1>5. TokensNameOneOperation'
  BY <1>2, <1>3 DEF TokensNameOneOperation
<1>6. NothingIsStale'
  BY DEF NothingIsStale, PhaseAgrees, IdleHoldsNothing, AtBoundary
<1>7. CompletionsAgree'
  BY <1>4 DEF CompletionsAgree, HandshakeAgrees, NothingUndefined, SoundHart, ZeroHolds
<1> QED
  BY <1>5, <1>6, <1>7 DEF Inv

(* A step that issues an operation. *)
LEMMA IssueKeepsInv ==
    ASSUME Inv, CanAdvance,
           SoundHart(hart'), hart'.pc = hart.pc, ~hart'.waiting, hart'.nextToken <= nextToken,
           NEW request \in Requests, NEW why \in Purposes,
           IssueOperation(request, why),
           Servable([token |-> nextToken, pc |-> hart.pc, why |-> why, request |-> request]),
           HandshakeAgrees',
           UNCHANGED <<frame, firstParcel, storage, started, broken, spent>>,
           dmaLocal' \in {NoAddress} \cup 0 .. ScratchpadBytes,
           dmaLocal' # NoAddress <=> why \in {"dma_load", "dma_store"},
           firstParcel <=> why = "fetch_second",
           frame = CASE why \in {"fetch_first", "fetch_second"} -> "none"
                     [] why = "scalar" -> "scalar"
                     [] OTHER -> "holon"
    PROVE  Inv'
<1> DEFINE operation == [token |-> nextToken, pc |-> hart.pc, why |-> why, request |-> request]
<1>1. /\ TypeOK /\ TokensNameOneOperation /\ NothingIsStale /\ ~broken
      /\ started /\ ~stop /\ nextToken # MaxToken
  BY DEF Inv, CompletionsAgree, NothingUndefined, CanAdvance
<1>2. pending' = operation /\ nextToken' = nextToken + 1 /\ event' = "pending"
  BY <1>1 DEF IssueOperation
<1>3. nextToken \in 1 .. MaxToken - 1 /\ spent \subseteq 1 .. MaxToken - 1 /\ \A t \in spent : t < nextToken
  BY <1>1, HartAssumption DEF HartAssumption, TypeOK, TokensNameOneOperation
<1>4. hart.pc \in Addresses
  BY <1>1 DEF TypeOK, Harts
<1>5. operation \in Operations /\ operation.token = nextToken /\ operation # NoOperation
  BY <1>3, <1>4 DEF Operations, NoOperation
<1>6. TypeOK'
  <2>1. hart' \in Harts
    BY DEF SoundHart
  <2>2. nextToken' \in 1 .. MaxToken
    BY <1>2, <1>3, HartAssumption DEF HartAssumption
  <2> QED
    BY <1>1, <1>2, <1>5, <2>1, <2>2 DEF TypeOK, storage
<1>7. TokensNameOneOperation'
  <2>1. hart'.nextToken \in Nat
    BY DEF SoundHart, Harts
  <2>2. pending'.token = nextToken /\ nextToken \notin spent
    BY <1>2, <1>3
  <2> QED
    BY <1>2, <1>3, <2>1, <2>2 DEF TokensNameOneOperation
<1>8. NothingIsStale'
  <2>1. ~stop' /\ started' /\ frame' = frame /\ firstParcel' = firstParcel
    BY <1>1 DEF storage
  <2>2. pending' # NoOperation /\ pending'.why = why /\ pending'.pc = hart'.pc
    BY <1>2, <1>5
  <2>3. IdleHoldsNothing'
    BY <2>1 DEF IdleHoldsNothing
  <2>4. (frame # "none" => ~firstParcel)'
    BY <1>1, <2>1 DEF NothingIsStale, PhaseAgrees
  <2>5. PhaseAgrees'
    BY <2>1, <2>2, <2>4 DEF PhaseAgrees
  <2> QED
    BY <2>3, <2>5 DEF NothingIsStale
<1>9. CompletionsAgree'
  <2>1. NothingUndefined'
    BY <1>1, <1>6 DEF NothingUndefined, SoundHart, ZeroHolds
  <2>2. Servable(pending)'
    BY <1>2 DEF Servable, LocallyBacked
  <2> QED
    BY <2>1, <2>2 DEF CompletionsAgree
<1> QED
  BY <1>7, <1>8, <1>9 DEF Inv

-----------------------------------------------------------------------------
(* advance *)

(* The interrupt lines and the cycle counter change under any operation. *)
LEMMA InputKeepsInv ==
    ASSUME Inv, SoundHart(hart'), hart'.pending = hart.pending, hart'.nextToken = hart.nextToken,
           hart'.pc = hart.pc, hart'.waiting = hart.waiting,
           UNCHANGED <<control, storage, started, broken, spent>>, event' \in MachineEvents
    PROVE  Inv'
<1>1. /\ pending' = pending /\ frame' = frame /\ firstParcel' = firstParcel
      /\ dmaLocal' = dmaLocal /\ nextToken' = nextToken /\ stop' = stop /\ started' = started
      /\ scratchpad' = scratchpad /\ npu' = npu /\ broken' = broken /\ spent' = spent
  BY DEF control, storage
<1>2. CompletionsAgree'
  <2>1. HandshakeAgrees'
    BY <1>1 DEF Inv, CompletionsAgree, HandshakeAgrees, IsMemory
  <2>2. (pending # NoOperation => Servable(pending))'
    BY <1>1 DEF Inv, CompletionsAgree, Servable, LocallyBacked
  <2>3. NothingUndefined'
    BY <1>1 DEF Inv, CompletionsAgree, NothingUndefined, TypeOK, SoundHart, ZeroHolds, MachineEvents
  <2> QED
    BY <2>1, <2>2, <2>3 DEF CompletionsAgree
<1>3. NothingIsStale'
  BY <1>1 DEF Inv, NothingIsStale, PhaseAgrees, IdleHoldsNothing, AtBoundary
<1>4. TokensNameOneOperation'
  BY <1>1 DEF Inv, TokensNameOneOperation
<1> QED
  BY <1>2, <1>3, <1>4 DEF Inv

(* A call that only returns. *)
LEMMA UnchangedKeepsInv ==
    ASSUME Inv, UNCHANGED <<hart, control, storage, started, broken, spent>>, event' \in MachineEvents
    PROVE  Inv'
<1>1. SoundHart(hart)
  BY DEF Inv, CompletionsAgree, NothingUndefined, TypeOK, SoundHart, ZeroHolds
<1> QED
  BY <1>1, InputKeepsInv

(* The poll between instructions. *)
LEMMA PollIsSound ==
    ASSUME NEW h, SoundHart(h), h.pending = NoPending
    PROVE  LET polled == PollInterrupt(h)
           IN  /\ SoundHart(polled.hart) /\ KeepsEffect(h, polled.hart)
               /\ polled.event \in {"trap", "none"}
               /\ polled.event = "none" => polled.hart.pc = h.pc
<1> DEFINE polled == PollInterrupt(h)
<1>1. h \in Harts /\ OnBoundaries(h) /\ ZeroHolds(h)
  BY DEF SoundHart
<1>2. polled.hart \in Harts /\ OnBoundaries(polled.hart)
  BY <1>1, PollInterruptType, PollInterruptAligned
<1>3. /\ KeepsEffect(h, polled.hart)
      /\ \/ polled.event = "trap" /\ TookInterrupt(h, polled.hart)
         \/ /\ polled.event = "none"
            /\ polled.hart = [h EXCEPT !.waiting = h.waiting /\ Enabled(h) = {}]
  BY <1>1, PollShape
<1> HIDE DEF polled
<1>4. ZeroHolds(polled.hart) /\ (polled.event = "none" => polled.hart.pc = h.pc)
  BY <1>1, <1>3 DEF TookInterrupt, Trapped, ZeroHolds, Harts
<1> QED
  BY <1>2, <1>3, <1>4 DEF SoundHart, polled

LEMMA InterruptKeepsInv == ASSUME Inv, AdvanceInterrupt PROVE Inv'
<1> DEFINE polled == PollInterrupt(hart)
<1>1. pending = NoOperation /\ AtBoundary
  BY DEF AdvanceInterrupt, CanAdvance
<1>2. /\ SoundHart(hart) /\ hart.pending = NoPending /\ dmaLocal = NoAddress /\ PendingToken = {}
      /\ hart.nextToken <= nextToken
  BY <1>1, ReadyMachine
<1>3. SoundHart(polled.hart) /\ KeepsEffect(hart, polled.hart) /\ polled.event \in {"trap", "none"}
  BY <1>2, PollIsSound
<1>4. /\ hart' = polled.hart /\ event' = polled.event
      /\ UNCHANGED <<control, storage, started, broken, spent>>
  BY DEF AdvanceInterrupt
<1> HIDE DEF polled
<1>5. TypeOK /\ ~broken
  BY DEF Inv, CompletionsAgree, NothingUndefined
<1> QED
  BY <1>1, <1>2, <1>3, <1>4, <1>5, EndKeepsInv
  DEF control, storage, AtBoundary, KeepsEffect, TypeOK, MachineEvents

LEMMA SleepKeepsInv == ASSUME Inv, AdvanceSleep PROVE Inv'
<1> DEFINE polled == PollInterrupt(hart)
<1>1. pending = NoOperation /\ AtBoundary
  BY DEF AdvanceSleep, CanAdvance
<1>2. /\ SoundHart(hart) /\ hart.pending = NoPending /\ dmaLocal = NoAddress /\ PendingToken = {}
      /\ hart.nextToken <= nextToken
  BY <1>1, ReadyMachine
<1>3. SoundHart(polled.hart) /\ KeepsEffect(hart, polled.hart)
  BY <1>2, PollIsSound
<1>4. /\ hart' = polled.hart /\ event' = "sleeping"
      /\ UNCHANGED <<control, storage, started, broken, spent>>
  BY DEF AdvanceSleep
<1> HIDE DEF polled
<1>5. TypeOK /\ ~broken
  BY DEF Inv, CompletionsAgree, NothingUndefined
<1> QED
  BY <1>1, <1>2, <1>3, <1>4, <1>5, EndKeepsInv
  DEF control, storage, AtBoundary, KeepsEffect, TypeOK, MachineEvents

(* A trap ends whatever was in flight. *)
LEMMA TrapKeepsInv ==
    ASSUME Inv,
           NEW h, SoundHart(h), h.pending = NoPending, h.nextToken <= nextToken,
           NEW cause \in Nat, NEW value \in Words, Trap(h, cause, value),
           pending' = NoOperation, nextToken' = nextToken, spent' = spent \cup PendingToken,
           UNCHANGED <<storage, started>>, broken' = FALSE
    PROVE  Inv'
<1> DEFINE g == EnterTrap(h, FALSE, cause, value)
<1>1. SoundHart(g) /\ KeepsEffect(h, g)
  BY TrapIsSound
<1>2. hart' = g /\ frame' = "none" /\ firstParcel' = FALSE /\ dmaLocal' = NoAddress /\ event' = "trap"
  BY DEF Trap
<1> HIDE DEF g
<1>3. TypeOK
  BY DEF Inv, CompletionsAgree, NothingUndefined
<1> QED
  BY <1>1, <1>2, <1>3, EndKeepsInv DEF storage, KeepsEffect, TypeOK, MachineEvents

LEMMA FetchKeepsInv ==
    ASSUME Inv, CanAdvance, frame = "none",
           NEW h, SoundHart(h), KeepsEffect(hart, h), h.pc = hart.pc, ~h.waiting,
           NEW address \in Nat, NEW why \in {"fetch_first", "fetch_second"},
           firstParcel <=> why = "fetch_second",
           Fetch(h, address, why)
    PROVE  Inv'
<1> DEFINE made == MemoryOperation(address, 4, "execute", << >>)
           route == Resolve(Map, address, 4, "execute")
<1>1. /\ pending = NoOperation /\ dmaLocal = NoAddress /\ PendingToken = {}
      /\ h.pending = NoPending /\ h.nextToken <= nextToken /\ broken = FALSE /\ nextToken # MaxToken
  BY ReadyMachine DEF CanAdvance, KeepsEffect, Inv, CompletionsAgree, NothingUndefined, TypeOK
<1>2. UNCHANGED <<storage, started, broken, spent>>
  BY DEF Fetch
<1>3. address \in Int /\ 4 \in Nat /\ "execute" \in AccessKinds /\ << >> \in Seq(Bytes)
  BY DEF AccessKinds
<1>4. /\ made.ok \in BOOLEAN
      /\ made.ok =>
           /\ route.ok /\ LocallyBacked(route) /\ made.request \in MemoryRequests
           /\ made.request = [kind |-> "memory", address |-> address, size |-> 4, access |-> "execute",
                             storage |-> route.storage, payload |-> << >>]
      /\ ~made.ok => made.cause \in Nat /\ made.value = address
  <2>1. ASSUME NEW size \in Nat, NEW payload \in Seq(Bytes)
        PROVE  LET got == MemoryOperation(address, size, "execute", payload)
                   where == Resolve(Map, address, size, "execute")
               IN  /\ got.ok \in BOOLEAN
                   /\ got.ok =>
                        /\ where.ok /\ LocallyBacked(where) /\ got.request \in MemoryRequests
                        /\ got.request = [kind |-> "memory", address |-> address, size |-> size, access |-> "execute",
                                          storage |-> where.storage, payload |-> payload]
                   /\ ~got.ok => got.cause \in Nat /\ got.value = address
    BY <1>3, MemoryOperationShape
  <2> QED
    BY <1>3, <2>1
<1>5. CASE address > AddressSpace - 4
  <2>1. Trap(h, 1, address % AddressSpace) /\ UNCHANGED <<pending, nextToken>>
    BY <1>5 DEF Fetch
  <2>2. address % AddressSpace \in Words
    BY AddressWraps DEF Words, Addresses
  <2> QED
    BY <1>1, <1>2, <2>1, <2>2, TrapKeepsInv
<1>6. CASE ~(address > AddressSpace - 4) /\ ~made.ok
  <2>1. Trap(h, made.cause, made.value) /\ UNCHANGED <<pending, nextToken>>
    BY <1>6 DEF Fetch
  <2> HIDE DEF made
  <2>2. made.cause \in Nat /\ made.value \in Words
    BY <1>4, <1>6 DEF Words
  <2> QED
    BY <1>1, <1>2, <2>1, <2>2, TrapKeepsInv
<1>7. CASE ~(address > AddressSpace - 4) /\ made.ok
  <2>1. /\ IssueOperation(made.request, why) /\ hart' = h
        /\ UNCHANGED <<frame, firstParcel, dmaLocal>>
    BY <1>7 DEF Fetch
  <2>2. Servable([token |-> nextToken, pc |-> hart.pc, why |-> why,
                  request |-> [kind |-> "memory", address |-> address, size |-> 4, access |-> "execute",
                               storage |-> route.storage, payload |-> << >>]])
    BY <1>4, <1>7 DEF Servable
  <2> HIDE DEF made
  <2>3. Servable([token |-> nextToken, pc |-> hart.pc, why |-> why, request |-> made.request])
    BY <1>4, <1>7, <2>2
  <2>4. made.request \in Requests /\ why \in Purposes
    BY <1>4, <1>7 DEF Requests, Purposes
  <2>5. pending'.why = why
    BY <1>1, <2>1 DEF IssueOperation
  <2>6. HandshakeAgrees'
    BY <1>1, <2>1, <2>5 DEF HandshakeAgrees
  <2> QED
    BY <1>1, <1>2, <2>1, <2>3, <2>4, <2>6, IssueKeepsInv
<1> QED
  BY <1>4, <1>5, <1>6, <1>7

LEMMA FetchFirstKeepsInv == ASSUME Inv, AdvanceFetchFirst PROVE Inv'
<1> DEFINE polled == PollInterrupt(hart)
<1>1. /\ CanAdvance /\ pending = NoOperation /\ frame = "none" /\ ~firstParcel
      /\ polled.event = "none" /\ ~polled.hart.waiting
      /\ Fetch(polled.hart, hart.pc, "fetch_first")
  BY DEF AdvanceFetchFirst, CanAdvance, AtBoundary
<1>2. SoundHart(hart) /\ hart.pending = NoPending
  BY <1>1, ReadyMachine
<1>3. SoundHart(polled.hart) /\ KeepsEffect(hart, polled.hart) /\ polled.hart.pc = hart.pc
  BY <1>1, <1>2, PollIsSound
<1>4. hart.pc \in Nat
  BY <1>2 DEF SoundHart, Harts, Addresses
<1> HIDE DEF polled
<1> QED
  BY <1>1, <1>3, <1>4, FetchKeepsInv

LEMMA FetchSecondKeepsInv == ASSUME Inv, AdvanceFetchSecond PROVE Inv'
<1>1. /\ CanAdvance /\ pending = NoOperation /\ frame = "none" /\ firstParcel
      /\ Fetch(hart, hart.pc + 4, "fetch_second")
  BY DEF AdvanceFetchSecond, CanAdvance
<1>2. SoundHart(hart) /\ ~hart.waiting
  BY <1>1, ReadyMachine DEF AtBoundary
<1>3. hart.pc + 4 \in Nat
  BY <1>2 DEF SoundHart, Harts, Addresses
<1>4. KeepsEffect(hart, hart)
  BY DEF KeepsEffect
<1> QED
  BY <1>1, <1>2, <1>3, <1>4, FetchKeepsInv

-----------------------------------------------------------------------------
(* advance with a word in the frame *)

(* The machine's supply of tokens pays for the hart's, so issue never fails. *)
LEMMA IssuedByMachine ==
    ASSUME Inv, CanAdvance, frame = "scalar", NEW e \in Repertoire
    PROVE  LET issued == Issue(hart, e)
           IN  /\ SoundHart(issued.hart)
               /\ issued.hart.nextToken <= nextToken
               /\ \/ /\ issued.event \in {"trap", "committed"}
                     /\ issued.hart.pending = NoPending
                  \/ /\ issued.event = "pending" /\ e \in ExternalEffects
                     /\ issued.hart.pending # NoPending /\ issued.hart.pending.request = e
                     /\ ~issued.hart.waiting /\ issued.hart.pc = hart.pc
<1> DEFINE issued == Issue(hart, e)
<1>1. /\ SoundHart(hart) /\ hart.pending = NoPending /\ ~hart.waiting
      /\ hart.nextToken < nextToken
  BY ReadyMachine DEF CanAdvance, AtBoundary
<1>2. nextToken \in 1 .. MaxToken /\ hart.nextToken \in 1 .. MaxToken /\ MaxToken \in Nat
  BY <1>1, HartAssumption
  DEF HartAssumption, Inv, CompletionsAgree, NothingUndefined, TypeOK, SoundHart, Harts
<1>3. e \in Effects
  BY MachineAssumption DEF MachineAssumption
<1>4. SoundHart(issued.hart) /\ Issued(hart, e, issued)
  BY <1>1, <1>3, IssueIsSound
<1> HIDE DEF issued
<1>5. CASE issued.event = "pending" /\ e \in ExternalEffects /\ Deferred(hart, e, issued.hart)
  <2>1. /\ issued.hart.nextToken = hart.nextToken + 1
        /\ issued.hart.pending = [token |-> hart.nextToken, pc |-> hart.pc, request |-> e, next |-> NextPc(hart)]
        /\ issued.hart.waiting = hart.waiting /\ issued.hart.pc = hart.pc
    BY <1>1, <1>5 DEF Deferred, SoundHart, Harts
  <2>2. issued.hart.pending # NoPending /\ issued.hart.pending.request = e
    BY <1>2, <2>1 DEF NoPending
  <2>3. issued.hart.nextToken <= nextToken
    BY <1>1, <1>2, <2>1
  <2> QED
    BY <1>1, <1>4, <1>5, <2>1, <2>2, <2>3 DEF issued
<1>6. CASE issued.event \in {"trap", "committed"} /\ KeepsEffect(hart, issued.hart)
  BY <1>1, <1>2, <1>4, <1>6 DEF KeepsEffect, issued
<1> QED
  BY <1>1, <1>2, <1>4, <1>5, <1>6 DEF Issued

LEMMA ScalarKeepsInv == ASSUME Inv, NEW e \in Repertoire, AdvanceScalar(e) PROVE Inv'
<1> DEFINE issued == Issue(hart, e)
           made == ScalarRequest(e)
           fault == [kind |-> "fault", address |-> NoAddress]
           refused == Complete(issued.hart, issued.hart.pending.token, fault)
<1>1. /\ CanAdvance /\ frame = "scalar" /\ pending = NoOperation
      /\ UNCHANGED <<storage, started, spent>>
  BY DEF AdvanceScalar, CanAdvance
<1>2. dmaLocal = NoAddress /\ PendingToken = {} /\ firstParcel = FALSE /\ broken = FALSE /\ TypeOK
  BY <1>1, ReadyMachine DEF Inv, CompletionsAgree, NothingUndefined, TypeOK
<1>3. /\ SoundHart(issued.hart)
      /\ issued.hart.nextToken <= nextToken
      /\ \/ /\ issued.event \in {"trap", "committed"}
            /\ issued.hart.pending = NoPending
         \/ /\ issued.event = "pending" /\ e \in ExternalEffects
            /\ issued.hart.pending # NoPending /\ issued.hart.pending.request = e
            /\ ~issued.hart.waiting /\ issued.hart.pc = hart.pc
  BY <1>1, IssuedByMachine
<1>4. CASE issued.event \in {"trap", "committed"}
  <2>1. ScalarFinished(issued) /\ UNCHANGED <<pending, nextToken>>
    BY <1>4 DEF AdvanceScalar
  <2> HIDE DEF issued
  <2>2. issued.hart.pending = NoPending
    BY <1>3, <1>4
  <2> QED
    BY <1>1, <1>2, <1>3, <1>4, <2>1, <2>2, EndKeepsInv DEF ScalarFinished, storage, TypeOK, MachineEvents
<1>5. CASE issued.event = "pending"
  <2>1. /\ made.ok \in BOOLEAN
        /\ ~made.ok => e.kind # "fence"
        /\ made.ok =>
             /\ made.request \in Requests
             /\ Servable([token |-> nextToken, pc |-> hart.pc, why |-> "scalar", request |-> made.request])
             /\ IF e.kind = "fence" THEN made.request.kind = "fence"
                ELSE /\ made.request.kind = "memory"
                     /\ made.request.address = e.address /\ made.request.size = e.width
                     /\ made.request.access = IF e.kind = "load" THEN "read" ELSE "write"
    BY <1>3, <1>5, ScalarRequestShape
  <2>2. CASE ~made.ok
    <3>1. ScalarFinished(refused) /\ UNCHANGED <<pending, nextToken>>
      BY <1>5, <2>2 DEF AdvanceScalar
    <3>2. fault \in ExternalResults /\ Suits(e, fault)
      BY <2>1, <2>2 DEF ExternalResults, Suits
    <3> HIDE DEF issued, fault
    <3>3. /\ SoundHart(refused.hart)
          /\ refused.hart.pending = NoPending /\ refused.hart.nextToken = issued.hart.nextToken
          /\ refused.event \in {"trap", "committed"}
      BY <1>3, <1>5, <3>2, CompleteIsSound
    <3> HIDE DEF refused
    <3> QED
      BY <1>1, <1>2, <1>3, <3>1, <3>3, EndKeepsInv DEF ScalarFinished, storage, TypeOK, MachineEvents
  <2>3. CASE made.ok
    <3>1. /\ IssueOperation(made.request, "scalar") /\ hart' = issued.hart
          /\ UNCHANGED <<frame, firstParcel, dmaLocal, broken>>
      BY <1>5, <2>3 DEF AdvanceScalar
    <3> HIDE DEF issued, made
    <3>2. /\ pending'.why = "scalar" /\ pending'.request = made.request /\ pending' # NoOperation
      BY <1>1, <1>2, <3>1 DEF IssueOperation, CanAdvance, NoOperation, TypeOK
    <3>3. HandshakeAgrees'
      BY <1>3, <1>5, <2>1, <2>3, <3>1, <3>2 DEF HandshakeAgrees, IsMemory
    <3> QED
      BY <1>1, <1>2, <1>3, <1>5, <2>1, <2>3, <3>1, <3>3, IssueKeepsInv DEF Purposes, CanAdvance
  <2> QED
    BY <2>1, <2>2, <2>3
<1> QED
  BY <1>3, <1>4, <1>5

LEMMA RetireNpuIsSound ==
    ASSUME NEW h, SoundHart(h), RetireNpu(h)
    PROVE  SoundHart(hart') /\ KeepsEffect(h, hart') /\ frame' = "none"
<1> DEFINE next == (h.pc + 8) % AddressSpace
<1>1. h.pc + 8 \in Nat /\ (h.pc + 8) % 4 = 0
  BY AddressSpaceAssumption DEF AddressSpaceAssumption, SoundHart, OnBoundaries, Aligned, Addresses
<1>2. AddressSpace \in Nat \ {0} /\ AddressSpace % 4 = 0
  BY AddressSpaceAssumption DEF AddressSpaceAssumption
<1>3. next \in Aligned
  BY <1>1, <1>2, AlignmentSurvivesWrap, AddressWraps DEF Aligned
<1>4. hart' = Commit(h, next, TRUE) /\ frame' = "none"
  BY DEF RetireNpu
<1> HIDE DEF next
<1> QED
  BY <1>3, <1>4, CommitIsSound

(* A DMA transfer checks its local range, then its system one. *)
LEMMA DmaKeepsInv ==
    ASSUME Inv, CanAdvance, frame = "holon", NEW word \in DmaWords, IssueDma(word),
           UNCHANGED <<storage, started, broken, spent>>
    PROVE  Inv'
<1> DEFINE local == LocalBytes(word.local, word.count, word.load)
           payload == ScratchpadSlice(local.at, word.count)
           access == IF word.load THEN "read" ELSE "write"
           made == IF word.load THEN MemoryOperation(word.system, word.count, "read", << >>)
                   ELSE MemoryOperation(word.system, word.count, "write", payload)
           why == IF word.load THEN "dma_load" ELSE "dma_store"
<1>1. /\ SoundHart(hart) /\ hart.pending = NoPending /\ ~hart.waiting /\ ~firstParcel
      /\ pending = NoOperation /\ dmaLocal = NoAddress /\ PendingToken = {}
      /\ hart.nextToken <= nextToken /\ broken = FALSE /\ TypeOK /\ nextToken # MaxToken
  BY ReadyMachine DEF CanAdvance, AtBoundary, Inv, CompletionsAgree, NothingUndefined, TypeOK
<1>2. /\ word.load \in BOOLEAN /\ word.count \in Nat
      /\ word.local \in Addresses /\ word.system \in Addresses /\ word.system \in Int
      /\ word.local \in Words /\ word.system \in Words
  BY AddressSpaceAssumption DEF AddressSpaceAssumption, DmaWords, Addresses, Words
<1>3. /\ local.ok \in BOOLEAN
      /\ local.ok => local.at \in Nat /\ local.at + word.count <= ScratchpadBytes
      /\ ~local.ok => local.cause \in Nat /\ local.value = word.local
  BY <1>2, LocalBytesShape
<1>4. CASE word.count = 0
  <2>1. RetireNpu(hart) /\ event' = "committed" /\ UNCHANGED <<pending, nextToken, firstParcel, dmaLocal>>
    BY <1>4 DEF IssueDma
  <2>2. SoundHart(hart') /\ KeepsEffect(hart, hart') /\ frame' = "none"
    BY <1>1, <2>1, RetireNpuIsSound
  <2> QED
    BY <1>1, <2>1, <2>2, EndKeepsInv DEF storage, KeepsEffect, TypeOK, MachineEvents
<1>5. CASE word.count # 0 /\ ~local.ok
  <2>1. Trap(hart, local.cause, local.value) /\ UNCHANGED <<pending, nextToken>>
    BY <1>5 DEF IssueDma
  <2> HIDE DEF local
  <2> QED
    BY <1>1, <1>2, <1>3, <1>5, <2>1, TrapKeepsInv
<1>6. CASE word.count # 0 /\ local.ok
  <2>1. payload \in Seq(Bytes) /\ Len(payload) = word.count
    <3> HIDE DEF local
    <3> QED
      BY <1>1, <1>2, <1>3, <1>6, SliceType DEF TypeOK
  <2>2. ASSUME NEW data \in Seq(Bytes), NEW kind \in {"read", "write"},
               made = MemoryOperation(word.system, word.count, kind, data),
               kind = access, ~word.load => data = payload
        PROVE  /\ made.ok \in BOOLEAN
               /\ ~made.ok => made.cause \in Nat /\ made.value = word.system
               /\ made.ok => made.request \in MemoryRequests
               /\ made.ok /\ made.request.storage = "system"
                    => Servable([token |-> nextToken, pc |-> hart.pc, why |-> why, request |-> made.request])
    <3> DEFINE route == Resolve(Map, word.system, word.count, kind)
               request == [kind |-> "memory", address |-> word.system, size |-> word.count, access |-> kind,
                           storage |-> route.storage, payload |-> data]
    <3>1. kind \in AccessKinds
      BY DEF AccessKinds
    <3>2. /\ made.ok \in BOOLEAN
          /\ made.ok => /\ route.ok /\ LocallyBacked(route) /\ made.request = request
                        /\ made.request \in MemoryRequests
          /\ ~made.ok => made.cause \in Nat /\ made.value = word.system
      BY <1>2, <2>2, <3>1, MemoryOperationShape
    <3>3. route.ok /\ LocallyBacked(route) /\ route.storage = "system"
            => Servable([token |-> nextToken, pc |-> hart.pc, why |-> why, request |-> request])
      <4> HIDE DEF payload
      <4> QED
        BY <2>1, <2>2 DEF Servable
    <3>4. request.storage = route.storage
      OBVIOUS
    <3> HIDE DEF route, made, request
    <3> QED
      BY <3>2, <3>3, <3>4
  <2>3. /\ made.ok \in BOOLEAN
        /\ ~made.ok => made.cause \in Nat /\ made.value = word.system
        /\ made.ok => made.request \in MemoryRequests
        /\ made.ok /\ made.request.storage = "system"
             => Servable([token |-> nextToken, pc |-> hart.pc, why |-> why, request |-> made.request])
    <3>1. CASE word.load
      <4>1. made = MemoryOperation(word.system, word.count, "read", << >>)
        BY <3>1
      <4>2. << >> \in Seq(Bytes) /\ "read" \in {"read", "write"} /\ "read" = access
        BY <3>1
      <4> HIDE DEF made, payload
      <4> QED
        BY <2>2, <3>1, <4>1, <4>2
    <3>2. CASE ~word.load
      <4>1. made = MemoryOperation(word.system, word.count, "write", payload)
        BY <3>2
      <4>2. "write" \in {"read", "write"} /\ "write" = access
        BY <3>2
      <4> HIDE DEF made, payload
      <4> QED
        BY <2>1, <2>2, <3>2, <4>1, <4>2
    <3> QED
      BY <3>1, <3>2
  <2>4. CASE ~made.ok
    <3>1. Trap(hart, made.cause, made.value) /\ UNCHANGED <<pending, nextToken>>
      BY <1>6, <2>4 DEF IssueDma
    <3> HIDE DEF made
    <3> QED
      BY <1>1, <1>2, <2>3, <2>4, <3>1, TrapKeepsInv
  <2>5. CASE made.ok /\ made.request.storage # "system"
    <3>1. Trap(hart, IF word.load THEN 5 ELSE 7, word.system) /\ UNCHANGED <<pending, nextToken>>
      BY <1>6, <2>5 DEF IssueDma
    <3>2. (IF word.load THEN 5 ELSE 7) \in Nat
      OBVIOUS
    <3> QED
      BY <1>1, <1>2, <3>1, <3>2, TrapKeepsInv
  <2>6. CASE made.ok /\ made.request.storage = "system"
    <3>1. /\ dmaLocal' = local.at /\ IssueOperation(made.request, why)
          /\ UNCHANGED <<hart, frame, firstParcel>>
      BY <1>6, <2>6 DEF IssueDma
    <3> HIDE DEF made, local
    <3>2. /\ Servable([token |-> nextToken, pc |-> hart.pc, why |-> why, request |-> made.request])
          /\ made.request \in Requests
      BY <2>3, <2>6 DEF Requests
    <3>3. why \in Purposes /\ why \in {"dma_load", "dma_store"}
      BY DEF Purposes
    <3> HIDE DEF why
    <3>4. pending'.why = why
      BY <1>1, <3>1 DEF IssueOperation
    <3>5. HandshakeAgrees'
      BY <1>1, <3>1, <3>3, <3>4 DEF HandshakeAgrees
    <3>6. local.at \in 0 .. ScratchpadBytes /\ local.at # NoAddress
      BY <1>2, <1>3, <1>6, MachineAssumption DEF MachineAssumption, NoAddress
    <3> QED
      BY <1>1, <3>1, <3>2, <3>3, <3>5, <3>6, IssueKeepsInv
  <2> QED
    BY <2>3, <2>4, <2>5, <2>6
<1> QED
  BY <1>3, <1>4, <1>5, <1>6

LEMMA HolonKeepsInv == ASSUME Inv, NEW word \in HolonWords, AdvanceHolon(word) PROVE Inv'
<1>1. /\ CanAdvance /\ frame = "holon"
      /\ UNCHANGED <<storage, started, broken, spent>>
  BY DEF AdvanceHolon
<1>2. /\ SoundHart(hart) /\ hart.pending = NoPending /\ ~hart.waiting /\ ~firstParcel
      /\ pending = NoOperation /\ dmaLocal = NoAddress /\ PendingToken = {}
      /\ hart.nextToken <= nextToken /\ broken = FALSE /\ nextToken # MaxToken
  BY <1>1, ReadyMachine DEF CanAdvance, AtBoundary, Inv, CompletionsAgree, NothingUndefined, TypeOK
<1>3. word \in HolonForms
  BY MachineAssumption DEF MachineAssumption
<1>4. CASE word.kind = "illegal"
  <2>1. Trap(hart, 2, word.bits) /\ UNCHANGED <<pending, nextToken>>
    BY <1>4 DEF AdvanceHolon
  <2>2. word.bits \in Words
    BY <1>3, <1>4 DEF HolonForms, DmaWords, ComputeWords
  <2> QED
    BY <1>1, <1>2, <2>1, <2>2, TrapKeepsInv
<1>5. CASE word.kind = "dma"
  <2>1. IssueDma(word)
    BY <1>5 DEF AdvanceHolon
  <2>2. word \in DmaWords
    BY <1>3, <1>5 DEF HolonForms, DmaWords, ComputeWords
  <2> QED
    BY <1>1, <2>1, <2>2, DmaKeepsInv
<1>6. CASE word.kind \notin {"illegal", "dma"}
  <2> DEFINE request == [kind |-> "npu", operation |-> word]
  <2>1. IssueOperation(request, "npu") /\ UNCHANGED <<hart, frame, firstParcel, dmaLocal>>
    BY <1>6 DEF AdvanceHolon
  <2>2. word \in ComputeWords
    BY <1>3, <1>6 DEF HolonForms, DmaWords
  <2>3. request \in Requests /\ "npu" \in Purposes
    BY <2>2 DEF Requests, Purposes
  <2>4. Servable([token |-> nextToken, pc |-> hart.pc, why |-> "npu", request |-> request])
    BY DEF Servable
  <2> HIDE DEF request
  <2>5. pending'.why = "npu"
    BY <1>2, <2>1 DEF IssueOperation
  <2>6. HandshakeAgrees'
    BY <1>2, <2>1, <2>5 DEF HandshakeAgrees
  <2> QED
    BY <1>1, <1>2, <2>1, <2>3, <2>4, <2>6, IssueKeepsInv
<1> QED
  BY <1>4, <1>5, <1>6

-----------------------------------------------------------------------------
(* complete *)

(* What the invariant says of an operation that is being completed. *)
LEMMA BusyMachine ==
    ASSUME Inv, pending # NoOperation
    PROVE  /\ SoundHart(hart) /\ ~hart.waiting /\ started /\ ~stop
           /\ pending \in Operations /\ Servable(pending)
           /\ hart.pending # NoPending <=> pending.why = "scalar"
           /\ hart.nextToken < nextToken
           /\ TypeOK /\ broken = FALSE
           /\ PendingToken = {pending.token}
           /\ pending.pc = hart.pc
           /\ firstParcel <=> pending.why = "fetch_second"
           /\ dmaLocal # NoAddress <=> pending.why \in {"dma_load", "dma_store"}
           /\ frame = CASE pending.why \in {"fetch_first", "fetch_second"} -> "none"
                        [] pending.why = "scalar" -> "scalar"
                        [] OTHER -> "holon"
BY DEF Inv, CompletionsAgree, HandshakeAgrees, NothingUndefined, TypeOK, NothingIsStale, PhaseAgrees,
       IdleHoldsNothing, TokensNameOneOperation, SoundHart, ZeroHolds, PendingToken

(* Every result of the shape an environment may return, not only those a    *)
(* run offers: the direct environment answers from memory of its own.       *)
LegalResults == [kind : {"success"}] \cup [kind : {"payload"}, bytes : Seq(Bytes)]
                  \cup [kind : {"fault"}, address : Addresses \cup {NoAddress}]

LEMMA ResultsAreLegal == \A result \in Results : result \in LegalResults
BY MachineAssumption DEF MachineAssumption, Results, LegalResults

LEMMA ResultTypes ==
    ASSUME NEW result \in LegalResults
    PROVE  /\ result.kind = "payload" => result.bytes \in Seq(Bytes)
           /\ result.kind = "fault" => result.address \in Addresses \cup {NoAddress}
BY DEF LegalResults

(* The map's own check on a local transfer cannot fail: the request was     *)
(* routed when it was made, and no program region is writable.              *)
LEMMA LocalTransfersSucceed ==
    ASSUME Inv, pending # NoOperation, IsMemory
    PROVE  /\ ~LocalTransferFails
           /\ LocalRoute.storage = pending.request.storage
           /\ pending.request.size \in Nat /\ pending.request.address \in Nat
           /\ LocalRoute.at \in Nat
           /\ pending.request.storage = "scratchpad" => LocalRoute.at + pending.request.size <= ScratchpadBytes
<1> DEFINE r == pending.request
           route == Resolve(Map, r.address, r.size, r.access)
<1>1. pending.request \in MemoryRequests /\ Servable(pending)
  BY BusyMachine DEF Operations, Requests, IsMemory
<1>2. r.address \in Int /\ r.address \in Nat /\ r.size \in Nat /\ r.access \in AccessKinds
  BY <1>1, AddressSpaceAssumption DEF AddressSpaceAssumption, MemoryRequests, Addresses
<1>3. route.ok /\ route.storage = r.storage /\ LocallyBacked(route)
  BY <1>1 DEF Servable, IsMemory
<1>4. /\ route.at \in Nat /\ route.size = r.size
      /\ route.storage = "program" => r.access # "write"
  BY <1>2, <1>3, TheMapIsValid, RouteGuarantees
<1>5. LocalRoute = route
  BY DEF LocalRoute
<1>6. route.storage = "scratchpad" => LocalRange(ScratchpadBytes, route.at, route.size)
  BY <1>3 DEF LocallyBacked
<1> HIDE DEF route
<1>7. route.storage = "scratchpad" => route.at + r.size <= ScratchpadBytes
  BY <1>2, <1>4, <1>6, MachineAssumption DEF MachineAssumption, LocalRange
<1> QED
  BY <1>2, <1>3, <1>4, <1>5, <1>7 DEF LocalTransferFails

LEMMA ReadBytesType ==
    ASSUME Inv, NEW token, NEW result \in LegalResults, Accepts(token, result), NEW bytes \in ReadBytes(result)
    PROVE  /\ bytes \in Seq(Bytes)
           /\ result.kind # "fault" /\ IsMemory /\ pending.request.access # "write"
                => Len(bytes) = pending.request.size
<1>1. pending # NoOperation /\ TypeOK
  BY BusyMachine DEF Accepts
<1>2. CASE result.kind = "fault" \/ ~IsMemory \/ pending.request.access = "write"
  <2>1. bytes = << >> /\ << >> \in Seq(Bytes)
    BY <1>2 DEF ReadBytes
  <2> QED
    BY <1>2, <2>1
<1>3. CASE result.kind # "fault" /\ IsMemory /\ pending.request.access # "write"
  <2>1. CASE IsExternal
    <3>1. result.kind = "payload" /\ Len(result.bytes) = pending.request.size
      BY <1>3, <2>1 DEF Accepts, IsExternalRead
    <3> QED
      BY <1>3, <2>1, <3>1, ResultTypes DEF ReadBytes
  <2>2. CASE ~IsExternal /\ pending.request.storage = "scratchpad"
    <3>1. bytes = ScratchpadSlice(LocalRoute.at, pending.request.size)
      BY <1>1, <1>3, <2>2, LocalTransfersSucceed DEF ReadBytes
    <3>2. /\ LocalRoute.at \in Nat /\ pending.request.size \in Nat
          /\ LocalRoute.at + pending.request.size <= ScratchpadBytes
      BY <1>1, <1>3, <2>2, LocalTransfersSucceed
    <3> QED
      BY <1>1, <3>1, <3>2, SliceType DEF TypeOK
  <2>3. CASE ~IsExternal /\ pending.request.storage # "scratchpad"
    <3>1. bytes \in Payloads /\ Len(bytes) = pending.request.size
      BY <1>3, <2>3 DEF ReadBytes
    <3> QED
      BY <3>1, MachineAssumption DEF MachineAssumption
  <2> QED
    BY <2>1, <2>2, <2>3
<1> QED
  BY <1>2, <1>3

LEMMA PatchedType ==
    ASSUME scratchpad \in ScratchpadContents, NEW at \in Int, NEW bytes \in Seq(Bytes)
    PROVE  Patched(at, bytes) \in ScratchpadContents
<1>1. \A i \in DOMAIN bytes : bytes[i] \in Bytes
  OBVIOUS
<1> QED
  BY <1>1 DEF Patched, ScratchpadContents

LEMMA NpuKeepsInv ==
    ASSUME Inv, NEW token, NEW result \in LegalResults, CompleteNpu(token, result)
    PROVE  Inv'
<1> DEFINE op == pending.request.operation
           wrote == IF op.kind = "write" THEN WriteRegister(hart, op.rd, op.value) ELSE hart
<1>1. /\ pending # NoOperation /\ pending.why = "npu"
      /\ pending' = NoOperation /\ spent' = spent \cup PendingToken /\ nextToken' = nextToken
      /\ started' = started /\ broken' = (broken \/ frame # "holon")
  BY DEF CompleteNpu, Accepts, Settle
<1>2. /\ SoundHart(hart) /\ hart.pending = NoPending /\ hart.nextToken < nextToken
      /\ TypeOK /\ broken = FALSE /\ frame = "holon" /\ firstParcel = FALSE /\ dmaLocal = NoAddress
      /\ Servable(pending) /\ pending \in Operations
  BY <1>1, BusyMachine DEF TypeOK
<1>3. op \in ComputeWords
  BY <1>1, <1>2 DEF Servable, Operations, Requests, MemoryRequests
<1>4. hart.nextToken <= nextToken
  BY <1>2 DEF SoundHart, Harts, TypeOK
<1>5. CASE op.kind = "fault"
  <2>1. Trap(hart, op.cause, op.value) /\ UNCHANGED storage
    BY <1>5 DEF CompleteNpu
  <2>2. op.cause \in Nat /\ op.value \in Words
    BY <1>3, <1>5 DEF ComputeWords
  <2> HIDE DEF op
  <2> QED
    BY <1>1, <1>2, <1>4, <2>1, <2>2, TrapKeepsInv
<1>6. CASE op.kind # "fault"
  <2>1. /\ RetireNpu(wrote)
        /\ stop' = (stop \/ op.kind = "stop")
        /\ npu' = IF op.kind = "npu" THEN op.value ELSE npu
        /\ scratchpad' = IF op.kind = "store" THEN Overlaid(op.bytes) ELSE scratchpad
        /\ event' = IF stop' THEN "stopped" ELSE "committed"
        /\ UNCHANGED <<firstParcel, dmaLocal>>
    BY <1>6 DEF CompleteNpu
  <2>2. SoundHart(wrote) /\ KeepsEffect(hart, wrote)
    <3>1. CASE op.kind = "write"
      <4>1. op.rd \in Registers /\ op.value \in Words
        BY <1>3, <3>1 DEF ComputeWords
      <4> HIDE DEF op
      <4> QED
        BY <1>2, <3>1, <4>1, WriteIsSound
    <3> QED
      BY <1>2, <3>1 DEF KeepsEffect
  <2>3. npu' \in Nat
    BY <1>2, <1>3, <2>1 DEF ComputeWords, TypeOK
  <2>4. scratchpad' \in ScratchpadContents
    <3>1. CASE op.kind = "store"
      <4>1. PICK at \in SUBSET (0 .. ScratchpadBytes - 1) : op.bytes \in [at -> Bytes]
        BY <1>3, <3>1 DEF ComputeWords
      <4>2. scratchpad \in [0 .. ScratchpadBytes - 1 -> Bytes]
        BY <1>2 DEF TypeOK, ScratchpadContents
      <4>3. scratchpad' = Overlaid(op.bytes)
        BY <2>1, <3>1
      <4> HIDE DEF op
      <4> QED
        BY <4>1, <4>2, <4>3 DEF Overlaid, ScratchpadContents
    <3> QED
      BY <1>2, <2>1, <3>1 DEF TypeOK
  <2> HIDE DEF wrote, op
  <2>5. SoundHart(hart') /\ KeepsEffect(wrote, hart') /\ frame' = "none"
    BY <2>1, <2>2, RetireNpuIsSound
  <2>6. hart'.pending = NoPending /\ hart'.nextToken <= nextToken
    BY <1>2, <1>4, <2>2, <2>5 DEF KeepsEffect
  <2>7. event' \in MachineEvents /\ stop' \in BOOLEAN /\ started' \in BOOLEAN
    BY <1>1, <1>2, <2>1 DEF MachineEvents, TypeOK
  <2> QED
    BY <1>1, <1>2, <2>1, <2>3, <2>4, <2>5, <2>6, <2>7, EndKeepsInv
<1> QED
  BY <1>5, <1>6

(* The hart accepts what the machine accepted. *)
LEMMA HartAccepts ==
    ASSUME Inv, NEW token, NEW result \in LegalResults, Accepts(token, result), pending.why = "scalar",
           NEW bytes \in ReadBytes(result)
    PROVE  /\ HartResult(result, bytes) \in ExternalResults
           /\ hart.pending # NoPending /\ Suits(hart.pending.request, HartResult(result, bytes))
<1> DEFINE e == hart.pending.request
           told == HartResult(result, bytes)
<1>1. pending # NoOperation /\ pending.why = "scalar"
  BY DEF Accepts
<1>2. /\ hart.pending # NoPending
      /\ IF e.kind = "fence" THEN pending.request.kind = "fence"
         ELSE /\ IsMemory
              /\ pending.request.address = e.address /\ pending.request.size = e.width
              /\ pending.request.access = IF e.kind = "load" THEN "read" ELSE "write"
  BY <1>1 DEF Inv, CompletionsAgree, HandshakeAgrees
<1>3. e.kind \in {"load", "store", "fence"}
  BY <1>1, <1>2, BusyMachine DEF SoundHart, Harts, PendingEffects, ExternalEffects
<1> HIDE DEF e
<1>4. CASE result.kind = "fault"
  <2>1. told = result /\ result.address \in Addresses \cup {NoAddress}
    BY <1>4, ResultTypes DEF HartResult
  <2>2. /\ IsMemory
        /\ result.address # NoAddress =>
             /\ result.address >= pending.request.address
             /\ result.address < pending.request.address + pending.request.size
    BY <1>4 DEF Accepts, IsExternal
  <2>3. e.kind # "fence"
    BY <1>2, <2>2 DEF IsMemory
  <2>4. Suits(e, result)
    BY <1>2, <1>4, <2>2, <2>3 DEF Suits
  <2>5. result \in ExternalResults
    BY <1>4, <2>1 DEF LegalResults, ExternalResults
  <2> QED
    BY <1>2, <2>1, <2>4, <2>5 DEF e
<1>5. CASE result.kind # "fault" /\ e.kind = "load"
  <2>1. IsMemory /\ pending.request.access = "read" /\ pending.request.size = e.width
    BY <1>2, <1>5
  <2>2. told = [kind |-> "data", bytes |-> bytes]
    BY <1>5, <2>1 DEF HartResult
  <2>3. bytes \in Seq(Bytes) /\ Len(bytes) = e.width
    BY <1>5, <2>1, ReadBytesType
  <2> HIDE DEF told
  <2>4. Suits(e, told) /\ told \in ExternalResults
    BY <1>5, <2>2, <2>3 DEF Suits, ExternalResults
  <2> QED
    BY <1>2, <2>4 DEF e, told
<1>6. CASE result.kind # "fault" /\ e.kind # "load"
  <2>1. ~(IsMemory /\ pending.request.access = "read")
    BY <1>2, <1>6 DEF IsMemory
  <2>2. told = [kind |-> "acknowledged"]
    BY <1>6, <2>1 DEF HartResult
  <2> HIDE DEF told
  <2>3. Suits(e, told) /\ told \in ExternalResults
    BY <1>6, <2>2 DEF Suits, ExternalResults
  <2> QED
    BY <1>2, <2>3 DEF e, told
<1> QED
  BY <1>4, <1>5, <1>6

LEMMA CompleteScalarKeepsInv ==
    ASSUME Inv, NEW token, NEW result \in LegalResults, CompleteScalar(token, result)
    PROVE  Inv'
<1>1. /\ Accepts(token, result) /\ pending # NoOperation /\ pending.why = "scalar"
      /\ pending' = NoOperation /\ spent' = spent \cup PendingToken /\ nextToken' = nextToken
      /\ started' = started
      /\ UNCHANGED <<firstParcel, dmaLocal, stop, npu>>
      /\ scratchpad' = IF IsMemory /\ ~IsExternal /\ pending.request.access = "write"
                       THEN Patched(LocalRoute.at, pending.request.payload) ELSE scratchpad
  BY DEF CompleteScalar, Accepts, Settle
<1>2. /\ SoundHart(hart) /\ ~hart.waiting /\ hart.nextToken < nextToken /\ hart.pending # NoPending
      /\ TypeOK /\ broken = FALSE /\ frame = "scalar" /\ firstParcel = FALSE /\ dmaLocal = NoAddress
      /\ pending \in Operations
  BY <1>1, BusyMachine DEF TypeOK
<1>3. PICK bytes \in ReadBytes(result) :
        LET returned == Complete(hart, hart.pending.token, HartResult(result, bytes))
            absent == hart.pending = NoPending
        IN  /\ hart' = IF absent THEN hart ELSE returned.hart
            /\ event' = IF absent THEN "error" ELSE returned.event
            /\ broken' = (broken \/ LocalTransferFails \/ absent \/ returned.event = "error")
            /\ frame' = "none"
  BY DEF CompleteScalar
<1> DEFINE told == HartResult(result, bytes)
           returned == Complete(hart, hart.pending.token, told)
<1>4. told \in ExternalResults /\ Suits(hart.pending.request, told)
  BY <1>1, HartAccepts
<1> HIDE DEF told
<1>5. /\ SoundHart(returned.hart)
      /\ returned.hart.pending = NoPending /\ returned.hart.nextToken = hart.nextToken
      /\ returned.event \in {"trap", "committed"}
  BY <1>2, <1>4, CompleteIsSound
<1>6. ~LocalTransferFails
  BY <1>1, LocalTransfersSucceed DEF LocalTransferFails
<1>7. hart' = returned.hart /\ event' = returned.event /\ broken' = FALSE /\ frame' = "none"
  <2>1. told = HartResult(result, bytes)
    BY DEF told
  <2> QED
    BY <1>2, <1>3, <1>5, <1>6, <2>1
<1>8. scratchpad' \in ScratchpadContents
  <2>1. CASE IsMemory /\ ~IsExternal /\ pending.request.access = "write"
    <3>1. LocalRoute.at \in Int
      BY <1>1, <2>1, LocalTransfersSucceed
    <3>2. pending.request.payload \in Seq(Bytes)
      BY <1>2, <2>1 DEF Operations, Requests, MemoryRequests, IsMemory
    <3> QED
      BY <1>1, <1>2, <2>1, <3>1, <3>2, PatchedType DEF TypeOK
  <2> QED
    BY <1>1, <1>2, <2>1 DEF TypeOK
<1> HIDE DEF returned
<1>9. hart'.nextToken <= nextToken
  BY <1>2, <1>5, <1>7 DEF SoundHart, Harts, TypeOK
<1> QED
  BY <1>1, <1>2, <1>5, <1>7, <1>8, <1>9, EndKeepsInv DEF TypeOK, MachineEvents

LEMMA CompleteFaultKeepsInv ==
    ASSUME Inv, NEW token, NEW result \in LegalResults, CompleteFault(token, result)
    PROVE  Inv'
<1> DEFINE failing == IF result.address = NoAddress THEN pending.request.address ELSE result.address
           cause == AccessFault(pending.request.access)
<1>1. /\ Accepts(token, result) /\ pending # NoOperation /\ pending.why # "scalar" /\ result.kind = "fault"
      /\ pending' = NoOperation /\ spent' = spent \cup PendingToken /\ nextToken' = nextToken
      /\ UNCHANGED <<storage, started, broken>>
      /\ Trap(hart, cause, failing)
  BY DEF CompleteFault, Accepts, Settle
<1>2. /\ SoundHart(hart) /\ hart.nextToken < nextToken /\ hart.pending = NoPending
      /\ TypeOK /\ broken = FALSE /\ pending \in Operations
  BY <1>1, BusyMachine
<1>3. hart.nextToken <= nextToken
  BY <1>2 DEF SoundHart, Harts, TypeOK
<1>4. pending.request \in MemoryRequests
  BY <1>1, <1>2 DEF Accepts, IsExternal, IsMemory, Operations, Requests
<1>5. cause \in Nat
  BY <1>4 DEF MemoryRequests, AccessFault, AccessKinds
<1>6. failing \in Words
  BY <1>1, <1>4, ResultTypes, AddressSpaceAssumption
  DEF AddressSpaceAssumption, MemoryRequests, Addresses, Words
<1> HIDE DEF failing, cause
<1> QED
  BY <1>1, <1>2, <1>3, <1>5, <1>6, TrapKeepsInv

LEMMA CompleteDmaKeepsInv ==
    ASSUME Inv, NEW token, NEW result \in LegalResults, CompleteDma(token, result)
    PROVE  Inv'
<1>1. /\ Accepts(token, result) /\ pending # NoOperation /\ result.kind # "fault"
      /\ pending.why \in {"dma_load", "dma_store"}
      /\ pending' = NoOperation /\ spent' = spent \cup PendingToken /\ nextToken' = nextToken
      /\ started' = started
      /\ scratchpad' = IF pending.why = "dma_load" THEN Patched(dmaLocal, result.bytes) ELSE scratchpad
      /\ broken' = (broken \/ (pending.why = "dma_load" /\ dmaLocal = NoAddress))
      /\ dmaLocal' = NoAddress /\ event' = "committed" /\ RetireNpu(hart)
      /\ UNCHANGED <<firstParcel, stop, npu>>
  BY DEF CompleteDma, Accepts, Settle
<1>2. /\ SoundHart(hart) /\ hart.nextToken < nextToken /\ hart.pending = NoPending
      /\ TypeOK /\ broken = FALSE /\ firstParcel = FALSE /\ dmaLocal # NoAddress
      /\ Servable(pending)
  BY <1>1, BusyMachine DEF TypeOK
<1>3. hart.nextToken <= nextToken
  BY <1>2 DEF SoundHart, Harts, TypeOK
<1>4. SoundHart(hart') /\ KeepsEffect(hart, hart') /\ frame' = "none"
  BY <1>1, <1>2, RetireNpuIsSound
<1>5. scratchpad' \in ScratchpadContents
  <2>1. CASE pending.why = "dma_load"
    <3>1. IsExternalRead
      BY <1>2, <2>1 DEF Servable, IsExternalRead, IsExternal, IsMemory
    <3>2. result.bytes \in Seq(Bytes)
      BY <1>1, <3>1, ResultTypes DEF Accepts
    <3>3. dmaLocal \in Int
      BY <1>2, MachineAssumption DEF MachineAssumption, TypeOK, NoAddress
    <3> QED
      BY <1>1, <1>2, <2>1, <3>2, <3>3, PatchedType DEF TypeOK
  <2> QED
    BY <1>1, <1>2, <2>1 DEF TypeOK
<1> QED
  BY <1>1, <1>2, <1>3, <1>4, <1>5, EndKeepsInv DEF KeepsEffect, TypeOK, MachineEvents

LEMMA CompleteFetchKeepsInv ==
    ASSUME Inv, NEW token, NEW result \in LegalResults, CompleteFetch(token, result)
    PROVE  Inv'
<1>1. /\ Accepts(token, result) /\ pending # NoOperation /\ result.kind # "fault"
      /\ pending.why \in {"fetch_first", "fetch_second"}
      /\ pending' = NoOperation /\ spent' = spent \cup PendingToken /\ nextToken' = nextToken
      /\ started' = started
      /\ broken' = (broken \/ LocalTransferFails \/ (pending.why = "fetch_second" /\ ~firstParcel))
      /\ event' = "progress"
      /\ UNCHANGED <<hart, dmaLocal, storage>>
  BY DEF CompleteFetch, Accepts, Settle
<1>2. /\ SoundHart(hart) /\ ~hart.waiting /\ hart.nextToken < nextToken /\ hart.pending = NoPending
      /\ started /\ ~stop
      /\ TypeOK /\ broken = FALSE /\ dmaLocal = NoAddress /\ frame = "none"
      /\ firstParcel <=> pending.why = "fetch_second"
      /\ PendingToken = {pending.token} /\ pending \in Operations
  BY <1>1, BusyMachine
<1>3. /\ frame' \in {"none", "scalar", "holon"} /\ firstParcel' \in BOOLEAN
      /\ frame' # "none" => ~firstParcel'
  BY <1>1, <1>2 DEF CompleteFetch, TypeOK
<1>4. ~LocalTransferFails
  BY <1>1, LocalTransfersSucceed DEF LocalTransferFails
<1>5. TokensNameOneOperation
  BY DEF Inv
<1>6. TypeOK'
  <2>1. spent' \in SUBSET (1 .. MaxToken - 1)
    BY <1>1, <1>2 DEF TypeOK, Operations
  <2> QED
    BY <1>1, <1>2, <1>3, <1>4, <2>1 DEF TypeOK, storage
<1>7. TokensNameOneOperation'
  BY <1>1, <1>2, <1>5 DEF TokensNameOneOperation
<1>8. NothingIsStale'
  BY <1>1, <1>2, <1>3 DEF NothingIsStale, PhaseAgrees, IdleHoldsNothing, storage
<1>9. CompletionsAgree'
  BY <1>1, <1>2, <1>4, <1>6 DEF CompletionsAgree, HandshakeAgrees, NothingUndefined, SoundHart, ZeroHolds
<1> QED
  BY <1>7, <1>8, <1>9 DEF Inv

-----------------------------------------------------------------------------
(* reset, boot and the environment's inputs *)

LEMMA ClearedType == ClearedScratchpad \in ScratchpadContents
BY HartAssumption DEF HartAssumption, ClearedScratchpad, ScratchpadContents, Bytes

LEMMA MachineResetKeepsInv == ASSUME Inv, MachineReset PROVE Inv'
<1>1. /\ TypeOK /\ broken = FALSE /\ hart.nextToken \in 1 .. MaxToken /\ hart.nextToken <= nextToken
  BY DEF Inv, CompletionsAgree, NothingUndefined, TypeOK, Harts, TokensNameOneOperation
<1>2. /\ hart' = Reset(hart) /\ scratchpad' = ClearedScratchpad /\ Cleared /\ started' = FALSE
      /\ event' = "none" /\ broken' = broken
  BY DEF MachineReset
<1>3. SoundHart(hart') /\ hart'.pending = NoPending /\ hart'.nextToken = hart.nextToken
  BY <1>1, <1>2, ResetIsSound
<1> QED
  BY <1>1, <1>2, <1>3, ClearedType, EndKeepsInv DEF Cleared, MachineEvents

LEMMA BootKeepsInv == ASSUME Inv, NEW image \in Images, Boot(image) PROVE Inv'
<1> DEFINE begun == Start(Reset(hart), image.entry)
<1>1. /\ TypeOK /\ broken = FALSE /\ hart.nextToken \in 1 .. MaxToken /\ hart.nextToken <= nextToken
  BY DEF Inv, CompletionsAgree, NothingUndefined, TypeOK, Harts, TokensNameOneOperation
<1>2. /\ hart' = begun.hart /\ broken' = (broken \/ begun.event = "error")
      /\ scratchpad' = IF image.kind = "elf" THEN image.scratchpad ELSE ClearedScratchpad
      /\ Cleared /\ started' = TRUE /\ event' = "none" /\ Bootable(image)
  BY DEF Boot
<1>3. /\ SoundHart(Reset(hart)) /\ Reset(hart).pending = NoPending
      /\ Reset(hart).nextToken = hart.nextToken
  BY <1>1, ResetIsSound
<1>4. scratchpad' \in ScratchpadContents
  BY <1>2, ClearedType, MachineAssumption DEF MachineAssumption
<1>5. image.kind = "raw" => image.entry \in Addresses /\ image.entry % 4 = 0
  BY <1>2, MachineAssumption DEF MachineAssumption, Bootable
<1>6. image.entry \in Aligned
  BY <1>5, MachineAssumption DEF MachineAssumption, Aligned
<1>7. begun.event = "none" /\ SoundHart(begun.hart) /\ KeepsEffect(Reset(hart), begun.hart)
  BY <1>3, <1>6, StartIsSound
<1> HIDE DEF begun
<1> QED
  BY <1>1, <1>2, <1>3, <1>4, <1>7, EndKeepsInv DEF Cleared, KeepsEffect, MachineEvents

LEMMA InputIsSound ==
    ASSUME NEW h, SoundHart(h)
    PROVE  /\ \A lines \in SUBSET Lines :
                /\ SoundHart(SetInterrupts(h, lines)) /\ KeepsEffect(h, SetInterrupts(h, lines))
                /\ SetInterrupts(h, lines).pc = h.pc /\ SetInterrupts(h, lines).waiting = h.waiting
           /\ \A elapsed \in Nat :
                /\ SoundHart(AccountCycles(h, elapsed)) /\ KeepsEffect(h, AccountCycles(h, elapsed))
                /\ AccountCycles(h, elapsed).pc = h.pc /\ AccountCycles(h, elapsed).waiting = h.waiting
<1>1. h \in Harts /\ OnBoundaries(h) /\ ZeroHolds(h)
  BY DEF SoundHart
<1>2. ASSUME NEW lines \in SUBSET Lines
      PROVE  /\ SoundHart(SetInterrupts(h, lines)) /\ KeepsEffect(h, SetInterrupts(h, lines))
             /\ SetInterrupts(h, lines).pc = h.pc /\ SetInterrupts(h, lines).waiting = h.waiting
  <2> DEFINE g == SetInterrupts(h, lines)
  <2>1. g \in Harts
    BY <1>1, SetInterruptsType
  <2>2. /\ g.pc = h.pc /\ g.waiting = h.waiting /\ g.pending = h.pending /\ g.nextToken = h.nextToken
        /\ g.registers = h.registers /\ g.csr.mepc = h.csr.mepc /\ g.csr.base = h.csr.base
    BY <1>1 DEF SetInterrupts, Harts, Csrs
  <2> HIDE DEF g
  <2> QED
    BY <1>1, <2>1, <2>2 DEF SoundHart, OnBoundaries, ZeroHolds, KeepsEffect, g
<1>3. ASSUME NEW elapsed \in Nat
      PROVE  /\ SoundHart(AccountCycles(h, elapsed)) /\ KeepsEffect(h, AccountCycles(h, elapsed))
             /\ AccountCycles(h, elapsed).pc = h.pc /\ AccountCycles(h, elapsed).waiting = h.waiting
  <2> DEFINE g == AccountCycles(h, elapsed)
  <2>1. g \in Harts
    BY <1>1, AccountCyclesType
  <2>2. /\ g.pc = h.pc /\ g.waiting = h.waiting /\ g.pending = h.pending /\ g.nextToken = h.nextToken
        /\ g.registers = h.registers /\ g.csr = h.csr
    BY <1>1 DEF AccountCycles, Harts
  <2> HIDE DEF g
  <2> QED
    BY <1>1, <2>1, <2>2 DEF SoundHart, OnBoundaries, ZeroHolds, KeepsEffect, g
<1> QED
  BY <1>2, <1>3

-----------------------------------------------------------------------------
(* The invariant *)

LEMMA InitInv == ASSUME Init PROVE Inv
<1> DEFINE first == [nextToken |-> 1]
<1>1. 1 \in 1 .. MaxToken /\ first.nextToken = 1
  BY HartAssumption DEF HartAssumption
<1>2. /\ SoundHart(hart) /\ hart.pending = NoPending /\ hart.nextToken = 1 /\ ~hart.waiting
  BY <1>1, ResetIsSound DEF Init
<1>3. CompletionsAgree
  BY <1>1, <1>2, ClearedType
  DEF Init, CompletionsAgree, HandshakeAgrees, NothingUndefined, TypeOK, SoundHart, ZeroHolds
<1>4. NothingIsStale
  BY DEF Init, NothingIsStale, PhaseAgrees, IdleHoldsNothing, AtBoundary
<1>5. TokensNameOneOperation
  BY <1>2 DEF Init, TokensNameOneOperation
<1> QED
  BY <1>3, <1>4, <1>5 DEF Inv

LEMMA CompletionKeepsInv ==
    ASSUME Inv, NEW token, NEW result \in LegalResults,
           Completion(token, result) \/ CompleteRefused(token, result)
    PROVE  Inv'
<1>1. CASE Completion(token, result)
  BY <1>1, NpuKeepsInv, CompleteScalarKeepsInv, CompleteFaultKeepsInv, CompleteDmaKeepsInv,
     CompleteFetchKeepsInv DEF Completion
<1>2. CASE CompleteRefused(token, result)
  BY <1>2, UnchangedKeepsInv DEF CompleteRefused, MachineEvents
<1> QED
  BY <1>1, <1>2

LEMMA AdvanceKeepsInv == ASSUME Inv, Advance \/ AdvanceRefused PROVE Inv'
<1>1. CASE Advance
  BY <1>1, InterruptKeepsInv, SleepKeepsInv, FetchFirstKeepsInv, FetchSecondKeepsInv,
     ScalarKeepsInv, HolonKeepsInv DEF Advance
<1>2. CASE AdvanceRefused
  BY <1>2, UnchangedKeepsInv DEF AdvanceRefused, MachineEvents
<1> QED
  BY <1>1, <1>2

LEMMA EnvironmentKeepsInv == ASSUME Inv, Environment PROVE Inv'
<1>1. CASE MachineReset
  BY <1>1, MachineResetKeepsInv
<1>2. ASSUME NEW image \in Images, Boot(image) PROVE Inv'
  BY <1>2, BootKeepsInv
<1>3. ASSUME NEW image \in Images, BootRefused(image) PROVE Inv'
  BY <1>3, UnchangedKeepsInv DEF BootRefused, MachineEvents
<1>4. SoundHart(hart)
  BY DEF Inv, CompletionsAgree, NothingUndefined, TypeOK, SoundHart, ZeroHolds
<1>5. ASSUME NEW lines \in LineSets, DriveLines(lines) PROVE Inv'
  <2>1. lines \in SUBSET Lines
    BY MachineAssumption DEF MachineAssumption
  <2> QED
    BY <1>4, <1>5, <2>1, InputIsSound, InputKeepsInv DEF DriveLines, KeepsEffect, MachineEvents
<1>6. ASSUME NEW elapsed \in Elapsed, Account(elapsed) PROVE Inv'
  <2>1. elapsed \in Nat
    BY MachineAssumption DEF MachineAssumption
  <2> QED
    BY <1>4, <1>6, <2>1, InputIsSound, InputKeepsInv DEF Account, KeepsEffect, MachineEvents
<1> QED
  BY <1>1, <1>2, <1>3, <1>5, <1>6 DEF Environment

LEMMA NextKeepsInv == ASSUME Inv, [Next]_vars PROVE Inv'
<1>1. CASE \E token \in 1 .. nextToken, result \in Results :
              Completion(token, result) \/ CompleteRefused(token, result)
  <2>1. PICK token \in 1 .. nextToken, result \in Results :
              Completion(token, result) \/ CompleteRefused(token, result)
    BY <1>1
  <2> QED
    BY <2>1, ResultsAreLegal, CompletionKeepsInv
<1>2. CASE Environment
  BY <1>2, EnvironmentKeepsInv
<1>3. CASE UNCHANGED vars
  <2>1. event' \in MachineEvents
    BY <1>3 DEF vars, Inv, CompletionsAgree, NothingUndefined, TypeOK, MachineEvents
  <2> QED
    BY <1>3, <2>1, UnchangedKeepsInv DEF vars, control, storage
<1> QED
  BY <1>1, <1>2, <1>3, AdvanceKeepsInv DEF Next

(* The machine's inductive invariant, for every value of the constants.     *)
THEOREM InvHolds == Spec => []Inv
<1>1. Init => Inv
  BY InitInv
<1>2. Inv /\ [Next]_vars => Inv'
  BY NextKeepsInv
<1> QED
  BY <1>1, <1>2, PTL DEF Spec

(* What the environment is asked for can be served, and every completion    *)
(* the machine accepts, the hart accepts (program_machine::complete).       *)
THEOREM CompletionsAgreeHolds == Spec => []CompletionsAgree
BY InvHolds, PTL DEF Inv

(* No parcel, word, DMA address or operation outlives its instruction.      *)
THEOREM NothingIsStaleHolds == Spec => []NothingIsStale
BY InvHolds, PTL DEF Inv

(* Tokens are never issued twice, across resets and boots, and the hart's   *)
(* supply lasts as long as the machine's.                                   *)
THEOREM TokensHold == Spec => []TokensNameOneOperation
BY InvHolds, PTL DEF Inv

(* No call reaches std::unreachable or an absent optional, and every        *)
(* variable keeps its type.                                                 *)
THEOREM NothingUndefinedHolds == Spec => []NothingUndefined
<1>1. Inv => NothingUndefined
  BY DEF Inv, CompletionsAgree
<1> QED
  BY <1>1, InvHolds, PTL

-----------------------------------------------------------------------------
(* The forms of a step, to an observer of the architectural state           *)

Memory == <<scratchpad, npu>>
Running == started /\ ~stop

(* Nothing architectural happens, or the hart wakes. *)
QuietStep ==
    /\ hart'.pc = hart.pc /\ hart'.registers = hart.registers
    /\ hart'.retired = hart.retired /\ hart'.csr = hart.csr
    /\ UNCHANGED <<storage, started>>
    /\ \/ hart'.waiting = hart.waiting
       \/ Running /\ hart'.waiting = FALSE /\ Enabled(hart) # {}
    /\ event' # "trap"

TrapStep ==
    /\ Running /\ (hart.waiting => Enabled(hart) # {})
    /\ TookTrap(hart, hart')
    /\ UNCHANGED <<storage, started>>
    /\ ~InFlight'

InterruptStep ==
    /\ Running /\ pending = NoOperation /\ ~firstParcel /\ frame # "holon"
    /\ TookInterrupt(hart, hart')
    /\ UNCHANGED <<storage, started>>
    /\ ~InFlight'

(* One instruction, of which either the CSRs and registers or the memory    *)
(* and the stop flag may change.                                            *)
RetireStep ==
    /\ Running /\ ~hart.waiting
    /\ Retired(hart, hart')
    /\ started' = started
    /\ Memory' = Memory \/ (hart'.csr = hart.csr /\ hart'.registers = hart.registers)
    /\ hart'.waiting => Memory' = Memory
    /\ stop' => hart'.csr = hart.csr /\ hart'.registers = hart.registers /\ Memory' = Memory
    /\ event' # "trap"
    /\ ~InFlight'

LinesStep ==
    /\ hart'.pc = hart.pc /\ hart'.registers = hart.registers
    /\ hart'.retired = hart.retired /\ hart'.waiting = hart.waiting
    /\ hart'.csr = [hart.csr EXCEPT !.mip = hart'.csr.mip]
    /\ UNCHANGED <<storage, started>>
    /\ event' # "trap"

RestartStep ==
    /\ hart'.registers = [r \in Registers |-> 0] /\ hart'.retired = 0
    /\ hart'.csr = ResetCsrs /\ ~hart'.waiting /\ ~stop'
    /\ event' # "trap"
    /\ ~InFlight'

Execution == QuietStep \/ TrapStep \/ InterruptStep \/ RetireStep

Observed == Execution \/ LinesStep \/ RestartStep

-----------------------------------------------------------------------------
(* The forms of the machine's steps *)

(* trap() with nothing of the hart changed but its wait or pending effect. *)
LEMMA TrapIsTrapStep ==
    ASSUME Running, hart.waiting => Enabled(hart) # {},
           NEW h \in Harts, NEW cause \in Nat, NEW value \in Words, Trap(h, cause, value),
           h.pc = hart.pc, h.csr = hart.csr, h.registers = hart.registers, h.retired = hart.retired,
           UNCHANGED <<storage, started>>, pending' = NoOperation
    PROVE  TrapStep
<1> DEFINE g == EnterTrap(h, FALSE, cause, value)
<1>1. TookTrap(hart, g)
  BY EnterTrapTaken
<1>2. hart' = g /\ frame' = "none" /\ firstParcel' = FALSE
  BY DEF Trap
<1> HIDE DEF g
<1> QED
  BY <1>1, <1>2 DEF TrapStep, InFlight, AtBoundary

LEMMA RetireNpuIsRetireStep ==
    ASSUME Running, ~hart.waiting, SoundHart(hart),
           NEW h, SoundHart(h), RetireNpu(h),
           h.waiting = FALSE, h.csr = hart.csr, h.retired = hart.retired,
           \E r \in Registers : \A q \in Registers \ {r} : h.registers[q] = hart.registers[q],
           Memory' = Memory \/ h.registers = hart.registers,
           stop' => Memory' = Memory /\ h.registers = hart.registers,
           started' = started, event' # "trap", pending' = NoOperation, firstParcel' = FALSE
    PROVE  RetireStep
<1> DEFINE next == (h.pc + 8) % AddressSpace
<1>1. SoundHart(hart')
  BY RetireNpuIsSound
<1>2. h \in Harts /\ hart'.pc \in Aligned /\ ZeroHolds(hart')
  BY <1>1 DEF SoundHart, OnBoundaries
<1>3. hart' = Commit(h, next, TRUE) /\ frame' = "none"
  BY DEF RetireNpu
<1>4. /\ hart'.retired = (h.retired + 1) % (Half * Half)
      /\ hart'.registers = h.registers /\ hart'.csr = h.csr /\ hart'.waiting = h.waiting
  BY <1>2, <1>3 DEF Commit, Harts
<1>5. Retired(hart, hart')
  BY <1>2, <1>4 DEF Retired
<1> QED
  BY <1>3, <1>4, <1>5 DEF RetireStep, InFlight, AtBoundary

LEMMA PollForm ==
    ASSUME Inv, CanAdvance, AtBoundary
    PROVE  LET polled == PollInterrupt(hart)
           IN  /\ SoundHart(hart) /\ hart.pending = NoPending /\ pending = NoOperation /\ Running
               /\ SoundHart(polled.hart)
               /\ \/ polled.event = "trap" /\ TookInterrupt(hart, polled.hart)
                  \/ /\ polled.event = "none"
                     /\ polled.hart = [hart EXCEPT !.waiting = hart.waiting /\ Enabled(hart) = {}]
<1>1. pending = NoOperation /\ Running
  BY DEF CanAdvance, Running
<1>2. SoundHart(hart) /\ hart.pending = NoPending
  BY <1>1, ReadyMachine
<1>3. hart \in Harts
  BY <1>2 DEF SoundHart
<1> QED
  BY <1>1, <1>2, <1>3, PollIsSound, PollShape

(* A hart after the poll is the hart before it, perhaps awake. *)
LEMMA AwakeForm ==
    ASSUME NEW h \in Harts, NEW g, g = [h EXCEPT !.waiting = h.waiting /\ Enabled(h) = {}]
    PROVE  /\ g.pc = h.pc /\ g.registers = h.registers /\ g.retired = h.retired /\ g.csr = h.csr
           /\ g.waiting = h.waiting \/ (g.waiting = FALSE /\ Enabled(h) # {})
           /\ ~g.waiting => (h.waiting => Enabled(h) # {})
BY DEF Harts

LEMMA PollSteps ==
    ASSUME Inv, AdvanceInterrupt \/ AdvanceSleep
    PROVE  Execution
<1> DEFINE polled == PollInterrupt(hart)
<1>1. /\ CanAdvance /\ AtBoundary
      /\ hart' = polled.hart
      /\ UNCHANGED <<control, storage, started>>
      /\ \/ polled.event # "none"
         \/ polled.event = "none" /\ event' = "sleeping"
  BY DEF AdvanceInterrupt, AdvanceSleep
<1>2. /\ SoundHart(hart) /\ pending = NoOperation /\ Running
      /\ \/ polled.event = "trap" /\ TookInterrupt(hart, polled.hart)
         \/ /\ polled.event = "none"
            /\ polled.hart = [hart EXCEPT !.waiting = hart.waiting /\ Enabled(hart) = {}]
  BY <1>1, PollForm
<1> HIDE DEF polled
<1>3. CASE polled.event = "trap" /\ TookInterrupt(hart, polled.hart)
  <2>1. InterruptStep
    BY <1>1, <1>2, <1>3 DEF InterruptStep, InFlight, AtBoundary, control
  <2> QED
    BY <2>1 DEF Execution
<1>4. CASE /\ polled.event = "none"
           /\ polled.hart = [hart EXCEPT !.waiting = hart.waiting /\ Enabled(hart) = {}]
  <2>1. hart \in Harts
    BY <1>2 DEF SoundHart
  <2>2. /\ hart'.pc = hart.pc /\ hart'.registers = hart.registers
        /\ hart'.retired = hart.retired /\ hart'.csr = hart.csr
        /\ hart'.waiting = hart.waiting \/ (hart'.waiting = FALSE /\ Enabled(hart) # {})
    BY <1>1, <1>4, <2>1, AwakeForm
  <2>3. QuietStep
    BY <1>1, <1>2, <1>4, <2>2 DEF QuietStep
  <2> QED
    BY <2>3 DEF Execution
<1> QED
  BY <1>2, <1>3, <1>4

LEMMA FetchForm ==
    ASSUME Running, pending = NoOperation, nextToken # MaxToken, hart.waiting => Enabled(hart) # {},
           NEW h \in Harts, h.pc = hart.pc, h.csr = hart.csr, h.registers = hart.registers,
           h.retired = hart.retired,
           h.waiting = hart.waiting \/ (h.waiting = FALSE /\ Enabled(hart) # {}),
           NEW address \in Nat, NEW why, Fetch(h, address, why)
    PROVE  Execution
<1> DEFINE made == MemoryOperation(address, 4, "execute", << >>)
           route == Resolve(Map, address, 4, "execute")
<1>1. UNCHANGED <<storage, started>>
  BY DEF Fetch
<1>2. CASE address > AddressSpace - 4
  <2>1. Trap(h, 1, address % AddressSpace) /\ pending' = NoOperation
    BY <1>2 DEF Fetch
  <2>2. address % AddressSpace \in Words
    BY AddressWraps DEF Words, Addresses
  <2>3. TrapStep
    BY <1>1, <2>1, <2>2, TrapIsTrapStep
  <2> QED
    BY <2>3 DEF Execution
<1>3. CASE ~(address > AddressSpace - 4) /\ ~made.ok
  <2>1. Trap(h, made.cause, made.value) /\ pending' = NoOperation
    BY <1>3 DEF Fetch
  <2>2. made.cause = AccessFault("execute") /\ made.value = address
    BY <1>3 DEF MemoryOperation
  <2>3. made.cause \in Nat /\ made.value \in Words
    BY <2>2 DEF AccessFault, Words
  <2> HIDE DEF made
  <2>4. TrapStep
    BY <1>1, <2>1, <2>3, TrapIsTrapStep
  <2> QED
    BY <2>4 DEF Execution
<1>4. CASE ~(address > AddressSpace - 4) /\ made.ok
  <2>1. IssueOperation(made.request, why) /\ hart' = h
    BY <1>4 DEF Fetch
  <2> HIDE DEF made
  <2>2. event' # "trap"
    BY <2>1 DEF IssueOperation
  <2>3. QuietStep
    BY <1>1, <2>1, <2>2 DEF QuietStep
  <2> QED
    BY <2>3 DEF Execution
<1> QED
  BY <1>2, <1>3, <1>4

LEMMA FetchSteps ==
    ASSUME Inv, AdvanceFetchFirst \/ AdvanceFetchSecond
    PROVE  Execution
<1>1. CASE AdvanceFetchFirst
  <2> DEFINE polled == PollInterrupt(hart)
  <2>1. /\ CanAdvance /\ AtBoundary /\ nextToken # MaxToken
        /\ polled.event = "none" /\ ~polled.hart.waiting
        /\ Fetch(polled.hart, hart.pc, "fetch_first")
    BY <1>1 DEF AdvanceFetchFirst, CanAdvance
  <2>2. /\ hart \in Harts /\ polled.hart \in Harts /\ pending = NoOperation /\ Running
        /\ polled.hart = [hart EXCEPT !.waiting = hart.waiting /\ Enabled(hart) = {}]
    BY <2>1, PollForm DEF SoundHart
  <2> HIDE DEF polled
  <2>3. /\ polled.hart.pc = hart.pc /\ polled.hart.registers = hart.registers
        /\ polled.hart.retired = hart.retired /\ polled.hart.csr = hart.csr
        /\ polled.hart.waiting = hart.waiting \/ (polled.hart.waiting = FALSE /\ Enabled(hart) # {})
        /\ hart.waiting => Enabled(hart) # {}
    BY <2>1, <2>2, AwakeForm
  <2>4. hart.pc \in Nat
    BY <2>2 DEF Harts, Addresses
  <2> QED
    BY <2>1, <2>2, <2>3, <2>4, FetchForm
<1>2. CASE AdvanceFetchSecond
  <2>1. /\ pending = NoOperation /\ Running /\ nextToken # MaxToken /\ ~AtBoundary
        /\ Fetch(hart, hart.pc + 4, "fetch_second")
    BY <1>2 DEF AdvanceFetchSecond, CanAdvance, Running, AtBoundary
  <2>2. hart \in Harts /\ ~hart.waiting
    BY <2>1, ReadyMachine DEF SoundHart
  <2>3. hart.pc + 4 \in Nat
    BY <2>2 DEF Harts, Addresses
  <2> QED
    BY <2>1, <2>2, <2>3, FetchForm
<1> QED
  BY <1>1, <1>2

LEMMA ScalarSteps ==
    ASSUME Inv, NEW e \in Repertoire, AdvanceScalar(e)
    PROVE  Execution
<1> DEFINE issued == Issue(hart, e)
           made == ScalarRequest(e)
           fault == [kind |-> "fault", address |-> NoAddress]
           refused == Complete(issued.hart, issued.hart.pending.token, fault)
<1>1. /\ CanAdvance /\ frame = "scalar" /\ pending = NoOperation /\ Running
      /\ UNCHANGED <<storage, started>> /\ nextToken # MaxToken
  BY DEF AdvanceScalar, CanAdvance, Running
<1>2. /\ SoundHart(hart) /\ hart.pending = NoPending /\ ~hart.waiting /\ ~firstParcel
      /\ hart \in Harts
  BY <1>1, ReadyMachine DEF AtBoundary, SoundHart
<1>3. e \in Effects
  BY MachineAssumption DEF MachineAssumption
<1>4. SoundHart(issued.hart) /\ Issued(hart, e, issued)
  BY <1>2, <1>3, IssueIsSound
<1>5. issued.event # "error"
  BY <1>1, IssuedByMachine
<1>6. CASE issued.event \in {"committed", "trap"}
  <2>1. /\ hart' = issued.hart /\ frame' = "none" /\ event' = issued.event
        /\ firstParcel' = firstParcel /\ pending' = NoOperation
    BY <1>1, <1>6 DEF AdvanceScalar, ScalarFinished
  <2> HIDE DEF issued
  <2>2. ~InFlight'
    BY <1>2, <2>1 DEF InFlight, AtBoundary
  <2>3. CASE issued.event = "trap" /\ TookTrap(hart, issued.hart)
    BY <1>1, <1>2, <2>1, <2>2, <2>3 DEF TrapStep, Execution
  <2>4. CASE issued.event = "trap" /\ TookInterrupt(hart, issued.hart)
    BY <1>1, <1>2, <2>1, <2>2, <2>4 DEF InterruptStep, Execution
  <2>5. CASE issued.event = "committed" /\ Retired(hart, issued.hart)
    <3>1. stop' = stop /\ Memory' = Memory
      BY <1>1 DEF storage, Memory
    <3> QED
      BY <1>1, <1>2, <2>1, <2>2, <2>5, <3>1 DEF RetireStep, Running, Execution
  <2> QED
    BY <1>4, <1>6, <2>3, <2>4, <2>5 DEF Issued
<1>7. CASE issued.event = "pending"
  <2>1. Deferred(hart, e, issued.hart) /\ e \in ExternalEffects
    BY <1>4, <1>7 DEF Issued
  <2>2. /\ issued.hart.pc = hart.pc /\ issued.hart.registers = hart.registers
        /\ issued.hart.retired = hart.retired /\ issued.hart.csr = hart.csr
        /\ issued.hart.waiting = hart.waiting
        /\ issued.hart.pending = [token |-> hart.nextToken, pc |-> hart.pc, request |-> e, next |-> NextPc(hart)]
    BY <1>2, <2>1 DEF Deferred, Harts
  <2>3. issued.hart.pending # NoPending /\ issued.hart.pending.request = e
    BY <1>2, <2>2, HartAssumption DEF HartAssumption, Harts, NoPending
  <2>4. made.ok \in BOOLEAN /\ (~made.ok => e.kind # "fence")
    BY <2>1, ScalarRequestShape
  <2>5. CASE ~made.ok
    <3>1. /\ hart' = refused.hart /\ frame' = "none" /\ event' = refused.event
          /\ firstParcel' = firstParcel /\ pending' = NoOperation
      BY <1>1, <1>7, <2>5 DEF AdvanceScalar, ScalarFinished
    <3>2. fault \in ExternalResults /\ Suits(e, fault) /\ fault.kind = "fault"
      BY <2>4, <2>5 DEF ExternalResults, Suits
    <3> HIDE DEF issued, fault
    <3>3. TookTrap(issued.hart, refused.hart)
      BY <1>2, <1>4, <2>2, <2>3, <3>2, CompleteSettles DEF SoundHart
    <3> HIDE DEF refused
    <3>4. TookTrap(hart, hart')
      <4>1. PICK code \in Nat, value \in Words : Trapped(issued.hart, refused.hart, FALSE, code, value)
        BY <3>3 DEF TookTrap
      <4>2. Trapped(hart, hart', FALSE, code, value)
        BY <2>2, <3>1, <4>1 DEF Trapped
      <4> QED
        BY <4>2 DEF TookTrap
    <3>5. ~InFlight'
      BY <1>2, <3>1 DEF InFlight, AtBoundary
    <3> QED
      BY <1>1, <1>2, <3>4, <3>5 DEF TrapStep, Execution
  <2>6. CASE made.ok
    <3>1. IssueOperation(made.request, "scalar") /\ hart' = issued.hart
      BY <1>7, <2>6 DEF AdvanceScalar
    <3> HIDE DEF issued, made
    <3>2. event' # "trap"
      BY <3>1 DEF IssueOperation
    <3> QED
      BY <1>1, <2>2, <3>1, <3>2 DEF QuietStep, Execution
  <2> QED
    BY <2>4, <2>5, <2>6
<1> QED
  BY <1>4, <1>5, <1>6, <1>7 DEF Issued

LEMMA HolonSteps ==
    ASSUME Inv, NEW word \in HolonWords, AdvanceHolon(word)
    PROVE  Execution
<1> DEFINE local == LocalBytes(word.local, word.count, word.load)
           made == IF word.load THEN MemoryOperation(word.system, word.count, "read", << >>)
                   ELSE MemoryOperation(word.system, word.count, "write", ScratchpadSlice(local.at, word.count))
<1>1. /\ CanAdvance /\ frame = "holon" /\ pending = NoOperation /\ Running
      /\ UNCHANGED <<storage, started>>
  BY DEF AdvanceHolon, CanAdvance, Running
<1>2. /\ SoundHart(hart) /\ hart.pending = NoPending /\ hart.waiting = FALSE /\ firstParcel = FALSE
      /\ hart \in Harts
  BY <1>1, ReadyMachine
  DEF AtBoundary, SoundHart, Harts, Inv, CompletionsAgree, NothingUndefined, TypeOK
<1>3. word \in HolonForms
  BY MachineAssumption DEF MachineAssumption
(* Whatever issue_npu refuses is a trap, whatever it issues is quiet. *)
<1>4. ASSUME NEW cause \in Nat, NEW value \in Words, Trap(hart, cause, value), UNCHANGED pending
      PROVE  Execution
  <2>1. TrapStep
    BY <1>1, <1>2, <1>4, TrapIsTrapStep
  <2> QED
    BY <2>1 DEF Execution
<1>5. ASSUME NEW request, NEW why, IssueOperation(request, why), UNCHANGED hart
      PROVE  Execution
  BY <1>1, <1>5 DEF IssueOperation, QuietStep, Execution
<1>6. CASE word.kind = "illegal"
  <2>1. Trap(hart, 2, word.bits) /\ UNCHANGED pending
    BY <1>6 DEF AdvanceHolon
  <2>2. word.bits \in Words
    BY <1>3, <1>6 DEF HolonForms, DmaWords, ComputeWords
  <2> QED
    BY <1>4, <2>1, <2>2
<1>7. CASE word.kind = "dma"
  <2>1. IssueDma(word)
    BY <1>7 DEF AdvanceHolon
  <2>2. /\ word.load \in BOOLEAN /\ word.count \in Nat
        /\ word.local \in Addresses /\ word.system \in Addresses /\ word.system \in Words /\ word.local \in Words
    BY <1>3, <1>7, AddressSpaceAssumption
    DEF AddressSpaceAssumption, HolonForms, DmaWords, ComputeWords, Addresses, Words
  <2>3. CASE word.count = 0
    <3>1. RetireNpu(hart) /\ event' = "committed" /\ UNCHANGED <<pending, firstParcel>>
      BY <2>1, <2>3 DEF IssueDma
    <3>2. stop' = stop /\ Memory' = Memory
      BY <1>1 DEF storage, Memory
    <3>3. \E r \in Registers : \A q \in Registers \ {r} : hart.registers[q] = hart.registers[q]
      BY HartAssumption DEF HartAssumption
    <3>4. RetireStep
      BY <1>1, <1>2, <3>1, <3>2, <3>3, RetireNpuIsRetireStep
    <3> QED
      BY <3>4 DEF Execution
  <2>4. CASE word.count # 0 /\ ~local.ok
    <3>1. Trap(hart, local.cause, local.value) /\ UNCHANGED pending
      BY <2>1, <2>4 DEF IssueDma
    <3>2. local.cause \in Nat /\ local.value = word.local
      BY <2>2, <2>4, LocalBytesShape
    <3> HIDE DEF local
    <3> QED
      BY <1>4, <2>2, <3>1, <3>2
  <2>5. CASE word.count # 0 /\ local.ok /\ ~made.ok
    <3>1. Trap(hart, made.cause, made.value) /\ UNCHANGED pending
      BY <2>1, <2>5 DEF IssueDma
    <3>2. made.cause \in {AccessFault("read"), AccessFault("write")} /\ made.value = word.system
      <4> HIDE DEF local
      <4> QED
        BY <2>2, <2>5 DEF MemoryOperation
    <3>3. made.cause \in Nat
      BY <3>2 DEF AccessFault
    <3> HIDE DEF made
    <3> QED
      BY <1>4, <2>2, <3>1, <3>2, <3>3
  <2>6. CASE word.count # 0 /\ local.ok /\ made.ok /\ made.request.storage # "system"
    <3>1. Trap(hart, IF word.load THEN 5 ELSE 7, word.system) /\ UNCHANGED pending
      BY <2>1, <2>6 DEF IssueDma
    <3>2. (IF word.load THEN 5 ELSE 7) \in Nat
      OBVIOUS
    <3> QED
      BY <1>4, <2>2, <3>1, <3>2
  <2>7. CASE word.count # 0 /\ local.ok /\ made.ok /\ made.request.storage = "system"
    <3>1. IssueOperation(made.request, IF word.load THEN "dma_load" ELSE "dma_store") /\ UNCHANGED hart
      BY <2>1, <2>7 DEF IssueDma
    <3> HIDE DEF made
    <3> QED
      BY <1>5, <3>1
  <2> QED
    BY <2>3, <2>4, <2>5, <2>6, <2>7
<1>8. CASE word.kind \notin {"illegal", "dma"}
  <2>1. IssueOperation([kind |-> "npu", operation |-> word], "npu") /\ UNCHANGED hart
    BY <1>8 DEF AdvanceHolon
  <2> QED
    BY <1>5, <2>1
<1> QED
  BY <1>6, <1>7, <1>8

-----------------------------------------------------------------------------
(* complete *)

LEMMA NpuSteps ==
    ASSUME Inv, NEW token, NEW result \in LegalResults, CompleteNpu(token, result)
    PROVE  Execution
<1> DEFINE op == pending.request.operation
           wrote == IF op.kind = "write" THEN WriteRegister(hart, op.rd, op.value) ELSE hart
<1>1. /\ pending # NoOperation /\ pending.why = "npu"
      /\ pending' = NoOperation /\ started' = started
  BY DEF CompleteNpu, Accepts, Settle
<1>2. /\ SoundHart(hart) /\ hart.waiting = FALSE /\ Running /\ firstParcel = FALSE
      /\ Servable(pending) /\ pending \in Operations /\ hart \in Harts
      /\ stop = FALSE
  BY <1>1, BusyMachine DEF TypeOK, Running, SoundHart, Harts
<1>3. op \in ComputeWords
  BY <1>1, <1>2 DEF Servable, Operations, Requests, MemoryRequests
<1>4. CASE op.kind = "fault"
  <2>1. Trap(hart, op.cause, op.value) /\ UNCHANGED storage
    BY <1>4 DEF CompleteNpu
  <2>2. op.cause \in Nat /\ op.value \in Words
    BY <1>3, <1>4 DEF ComputeWords
  <2> HIDE DEF op
  <2>3. TrapStep
    BY <1>1, <1>2, <2>1, <2>2, TrapIsTrapStep
  <2> QED
    BY <2>3 DEF Execution
<1>5. CASE op.kind # "fault"
  <2>1. /\ RetireNpu(wrote)
        /\ stop' = (stop \/ op.kind = "stop")
        /\ npu' = IF op.kind = "npu" THEN op.value ELSE npu
        /\ scratchpad' = IF op.kind = "store" THEN Overlaid(op.bytes) ELSE scratchpad
        /\ event' = IF stop' THEN "stopped" ELSE "committed"
        /\ UNCHANGED <<firstParcel, dmaLocal>>
    BY <1>5 DEF CompleteNpu
  <2>2. event' # "trap"
    BY <2>1
  <2>3. CASE op.kind = "write"
    <3>1. op.rd \in Registers /\ op.value \in Words
      BY <1>3, <2>3 DEF ComputeWords
    <3> HIDE DEF op
    <3>2. /\ SoundHart(wrote) /\ wrote.csr = hart.csr /\ wrote.retired = hart.retired
          /\ wrote.waiting = hart.waiting
          /\ \A q \in Registers \ {op.rd} : wrote.registers[q] = hart.registers[q]
      BY <1>2, <2>3, <3>1, WriteIsSound, WriteRegisterShape
    <3>3. ~stop' /\ Memory' = Memory
      BY <1>2, <2>1, <2>3 DEF Memory
    <3> HIDE DEF wrote
    <3>4. RetireStep
      BY <1>1, <1>2, <2>1, <2>2, <3>1, <3>2, <3>3, RetireNpuIsRetireStep
    <3> QED
      BY <3>4 DEF Execution
  <2>4. CASE op.kind # "write"
    <3>1. RetireNpu(hart)
      BY <2>1, <2>4
    <3>2. \E r \in Registers : \A q \in Registers \ {r} : hart.registers[q] = hart.registers[q]
      BY HartAssumption DEF HartAssumption
    <3>3. stop' => Memory' = Memory
      BY <1>2, <2>1 DEF Memory
    <3>4. RetireStep
      BY <1>1, <1>2, <2>1, <2>2, <3>1, <3>2, <3>3, RetireNpuIsRetireStep
    <3> QED
      BY <3>4 DEF Execution
  <2> QED
    BY <2>3, <2>4
<1> QED
  BY <1>4, <1>5

(* The hart settles a scalar operation: a trap for a fault, else a          *)
(* retirement, with nothing in flight.                                      *)
LEMMA ScalarSettles ==
    ASSUME Inv, NEW token, NEW result \in LegalResults, CompleteScalar(token, result)
    PROVE  /\ ~InFlight'
           /\ \/ event' = "trap" /\ result.kind = "fault" /\ TookTrap(hart, hart')
              \/ /\ event' = "committed" /\ result.kind # "fault" /\ Retired(hart, hart')
                 /\ hart'.csr = hart.csr /\ ~hart'.waiting
                 /\ hart.pending.request.kind # "load" => hart'.registers = hart.registers
<1>1. /\ Accepts(token, result) /\ pending # NoOperation /\ pending.why = "scalar"
      /\ pending' = NoOperation /\ firstParcel' = firstParcel
  BY DEF CompleteScalar, Accepts, Settle
<1>2. /\ SoundHart(hart) /\ hart.waiting = FALSE /\ hart.pending # NoPending /\ firstParcel = FALSE
  BY <1>1, BusyMachine DEF TypeOK, SoundHart, Harts
<1>3. PICK bytes \in ReadBytes(result) :
        LET returned == Complete(hart, hart.pending.token, HartResult(result, bytes))
            absent == hart.pending = NoPending
        IN  /\ hart' = IF absent THEN hart ELSE returned.hart
            /\ event' = IF absent THEN "error" ELSE returned.event
            /\ broken' = (broken \/ LocalTransferFails \/ absent \/ returned.event = "error")
            /\ frame' = "none"
  BY DEF CompleteScalar
<1> DEFINE told == HartResult(result, bytes)
           returned == Complete(hart, hart.pending.token, told)
<1>4. told \in ExternalResults /\ Suits(hart.pending.request, told)
  BY <1>1, HartAccepts
<1>5. told.kind = "fault" <=> result.kind = "fault"
  BY DEF HartResult
<1>6. hart' = returned.hart /\ event' = returned.event /\ frame' = "none"
  BY <1>2, <1>3
<1>7. ~InFlight'
  BY <1>1, <1>2, <1>6 DEF InFlight, AtBoundary
<1> HIDE DEF told
<1>8. \/ returned.event = "trap" /\ told.kind = "fault" /\ TookTrap(hart, returned.hart)
      \/ /\ returned.event = "committed" /\ told.kind # "fault" /\ Retired(hart, returned.hart)
         /\ returned.hart.csr = hart.csr /\ ~returned.hart.waiting
         /\ hart.pending.request.kind # "load" => returned.hart.registers = hart.registers
  BY <1>2, <1>4, CompleteSettles DEF SoundHart
<1> HIDE DEF returned
<1> QED
  BY <1>5, <1>6, <1>7, <1>8

LEMMA CompleteScalarSteps ==
    ASSUME Inv, NEW token, NEW result \in LegalResults, CompleteScalar(token, result)
    PROVE  Execution
<1>1. /\ Accepts(token, result) /\ pending # NoOperation /\ pending.why = "scalar"
      /\ pending' = NoOperation /\ started' = started
      /\ UNCHANGED <<firstParcel, stop, npu>>
      /\ scratchpad' = IF IsMemory /\ ~IsExternal /\ pending.request.access = "write"
                       THEN Patched(LocalRoute.at, pending.request.payload) ELSE scratchpad
  BY DEF CompleteScalar, Accepts, Settle
<1>2. /\ hart.waiting = FALSE /\ hart.pending # NoPending /\ Running /\ stop = FALSE
  BY <1>1, BusyMachine DEF TypeOK, Running, SoundHart, Harts
<1>3. ~InFlight'
  BY ScalarSettles
<1>4. CASE result.kind = "fault" /\ TookTrap(hart, hart')
  <2>1. IsExternal
    BY <1>1, <1>4 DEF Accepts
  <2>2. UNCHANGED <<storage, started>>
    BY <1>1, <2>1 DEF storage
  <2> QED
    BY <1>2, <1>3, <1>4, <2>2 DEF TrapStep, Execution
<1>5. CASE /\ event' = "committed" /\ Retired(hart, hart')
           /\ hart'.csr = hart.csr /\ ~hart'.waiting
           /\ hart.pending.request.kind # "load" => hart'.registers = hart.registers
  <2>1. hart.pending.request.kind = "load" => pending.request.access = "read"
    BY <1>2 DEF Inv, CompletionsAgree, HandshakeAgrees
  <2>2. Memory' = Memory \/ hart'.registers = hart.registers
    BY <1>1, <1>5, <2>1 DEF Memory
  <2>3. RetireStep
    BY <1>1, <1>2, <1>3, <1>5, <2>2 DEF RetireStep
  <2> QED
    BY <2>3 DEF Execution
<1> QED
  BY <1>4, <1>5, ScalarSettles

LEMMA CompleteFaultSteps ==
    ASSUME Inv, NEW token, NEW result \in LegalResults, CompleteFault(token, result)
    PROVE  Execution
<1> DEFINE failing == IF result.address = NoAddress THEN pending.request.address ELSE result.address
           cause == AccessFault(pending.request.access)
<1>1. /\ Accepts(token, result) /\ pending # NoOperation /\ result.kind = "fault"
      /\ pending' = NoOperation
      /\ UNCHANGED <<storage, started>>
      /\ Trap(hart, cause, failing)
  BY DEF CompleteFault, Accepts, Settle
<1>2. hart \in Harts /\ hart.waiting = FALSE /\ Running /\ pending \in Operations
  BY <1>1, BusyMachine DEF SoundHart, Harts, Running
<1>3. pending.request \in MemoryRequests
  BY <1>1, <1>2 DEF Accepts, IsExternal, IsMemory, Operations, Requests
<1>4. cause \in Nat
  BY <1>3 DEF MemoryRequests, AccessFault, AccessKinds
<1>5. failing \in Words
  BY <1>1, <1>3, ResultTypes, AddressSpaceAssumption
  DEF AddressSpaceAssumption, MemoryRequests, Addresses, Words
<1> HIDE DEF failing, cause
<1>6. TrapStep
  BY <1>1, <1>2, <1>4, <1>5, TrapIsTrapStep
<1> QED
  BY <1>6 DEF Execution

LEMMA CompleteDmaSteps ==
    ASSUME Inv, NEW token, NEW result \in LegalResults, CompleteDma(token, result)
    PROVE  Execution
<1>1. /\ pending # NoOperation /\ pending.why \in {"dma_load", "dma_store"}
      /\ pending' = NoOperation /\ started' = started
      /\ event' = "committed" /\ RetireNpu(hart)
      /\ UNCHANGED <<firstParcel, stop, npu>>
  BY DEF CompleteDma, Accepts, Settle
<1>2. /\ SoundHart(hart) /\ hart.waiting = FALSE /\ Running /\ firstParcel = FALSE /\ stop = FALSE
  BY <1>1, BusyMachine DEF TypeOK, SoundHart, Harts, Running
<1>3. \E r \in Registers : \A q \in Registers \ {r} : hart.registers[q] = hart.registers[q]
  BY HartAssumption DEF HartAssumption
<1>4. RetireStep
  BY <1>1, <1>2, <1>3, RetireNpuIsRetireStep
<1> QED
  BY <1>4 DEF Execution

LEMMA CompletionSteps ==
    ASSUME Inv, NEW token, NEW result \in LegalResults,
           Completion(token, result) \/ CompleteRefused(token, result)
    PROVE  Execution
<1>1. CASE CompleteFetch(token, result)
  BY <1>1 DEF CompleteFetch, Settle, QuietStep, Execution
<1>2. CASE CompleteRefused(token, result)
  BY <1>2 DEF CompleteRefused, QuietStep, Execution
<1> QED
  BY <1>1, <1>2, NpuSteps, CompleteScalarSteps, CompleteFaultSteps, CompleteDmaSteps DEF Completion

-----------------------------------------------------------------------------
(* reset, boot and inputs *)

LEMMA EnvironmentSteps == ASSUME Inv, Environment PROVE Observed
<1>1. hart \in Harts /\ hart.nextToken \in 1 .. MaxToken
  BY DEF Inv, CompletionsAgree, NothingUndefined, TypeOK, Harts
<1>2. CASE MachineReset
  BY <1>2 DEF MachineReset, Cleared, Reset, RestartStep, InFlight, AtBoundary, Observed
<1>3. ASSUME NEW image \in Images, Boot(image) PROVE Observed
  <2> DEFINE begun == Start(Reset(hart), image.entry)
  <2>1. hart' = begun.hart /\ Cleared /\ event' = "none"
    BY <1>3 DEF Boot
  <2>2. /\ begun.hart.registers = [r \in Registers |-> 0] /\ begun.hart.retired = 0
        /\ begun.hart.csr = ResetCsrs /\ begun.hart.waiting = FALSE
    BY DEF Start, Refused, Returned, Reset
  <2> HIDE DEF begun
  <2> QED
    BY <2>1, <2>2 DEF Cleared, RestartStep, InFlight, AtBoundary, Observed
<1>4. ASSUME NEW image \in Images, BootRefused(image) PROVE Observed
  BY <1>4 DEF BootRefused, QuietStep, Execution, Observed
<1>5. ASSUME NEW lines \in LineSets, DriveLines(lines) PROVE Observed
  <2>1. hart' = SetInterrupts(hart, lines) /\ UNCHANGED <<storage, started>> /\ event' = "none"
    BY <1>5 DEF DriveLines
  <2>2. LinesStep
    BY <1>1, <2>1 DEF SetInterrupts, Harts, Csrs, LinesStep
  <2> QED
    BY <2>2 DEF Observed
<1>6. ASSUME NEW elapsed \in Elapsed, Account(elapsed) PROVE Observed
  <2>1. hart' = AccountCycles(hart, elapsed) /\ UNCHANGED <<storage, started>> /\ event' = "none"
    BY <1>6 DEF Account
  <2>2. QuietStep
    BY <1>1, <2>1 DEF AccountCycles, Harts, QuietStep
  <2> QED
    BY <2>2 DEF Execution, Observed
<1> QED
  BY <1>2, <1>3, <1>4, <1>5, <1>6 DEF Environment

LEMMA AdvanceSteps == ASSUME Inv, Advance \/ AdvanceRefused PROVE Execution
<1>1. CASE Advance
  BY <1>1, PollSteps, FetchSteps, ScalarSteps, HolonSteps DEF Advance
<1>2. CASE AdvanceRefused
  BY <1>2 DEF AdvanceRefused, QuietStep, Execution
<1> QED
  BY <1>1, <1>2

LEMMA EveryStep == ASSUME Inv, Next PROVE Observed
<1>1. CASE Environment
  BY <1>1, EnvironmentSteps
<1>2. CASE \E token \in 1 .. nextToken, result \in Results :
              Completion(token, result) \/ CompleteRefused(token, result)
  BY <1>2, ResultsAreLegal, CompletionSteps DEF Observed
<1> QED
  BY <1>1, <1>2, AdvanceSteps DEF Next, Observed

-----------------------------------------------------------------------------
(* Interrupts *)

(* pc moves only at an instruction's end, and an interrupt is taken only    *)
(* between instructions or before a fetched scalar word issues              *)
(* (advance and issue_scalar of program_machine).                           *)
THEOREM InterruptsTheorem == Spec => InterruptsBetweenInstructions
<1> DEFINE Held == /\ PcHeldInFlight
                   /\ event' = "trap" /\ hart'.csr.interrupt =>
                        pending = NoOperation /\ ~firstParcel /\ frame # "holon"
<1>1. ASSUME Inv, Next PROVE Held
  <2>1. hart \in Harts
    BY <1>1 DEF Inv, CompletionsAgree, NothingUndefined, TypeOK
  <2>2. Observed
    BY <1>1, EveryStep
  <2>3. CASE QuietStep \/ LinesStep
    BY <2>3 DEF QuietStep, LinesStep, PcHeldInFlight
  <2>4. CASE TrapStep
    <3>1. PICK code \in Nat, value \in Words : Trapped(hart, hart', FALSE, code, value)
      BY <2>4 DEF TrapStep, TookTrap
    <3>2. hart'.csr.interrupt = FALSE
      BY <2>1, <3>1 DEF Trapped, Harts, Csrs
    <3> QED
      BY <2>4, <3>2 DEF TrapStep, PcHeldInFlight
  <2>5. CASE InterruptStep
    BY <2>5 DEF InterruptStep, PcHeldInFlight
  <2>6. CASE RetireStep \/ RestartStep
    BY <2>6 DEF RetireStep, RestartStep, PcHeldInFlight
  <2> QED
    BY <2>2, <2>3, <2>4, <2>5, <2>6 DEF Execution, Observed
<1>2. Inv /\ [Next]_vars => [Held]_vars
  BY <1>1
<1> QED
  BY <1>2, InvHolds, PTL DEF Spec, InterruptsBetweenInstructions

-----------------------------------------------------------------------------
(* PreciseCore *)

Mode == IF ~started THEN "off" ELSE IF stop THEN "stopped" ELSE IF hart.waiting THEN "waiting" ELSE "running"
ObservedCsr == [hart.csr EXCEPT !.mip = {}]
ObservedMemory == [scratchpad |-> scratchpad, npu |-> npu]

LEMMA MemoryIsState ==
    ASSUME Inv
    PROVE  ObservedMemory \in [scratchpad : ScratchpadContents, npu : Nat]
BY DEF Inv, CompletionsAgree, NothingUndefined, TypeOK, ObservedMemory

LEMMA InitImplements == ASSUME Init PROVE Precise!Init
<1>1. Inv
  BY InitInv
<1>2. hart = Reset([nextToken |-> 1]) /\ started = FALSE
  BY DEF Init
<1>3. /\ hart.registers = [r \in Registers |-> 0] /\ hart.retired = 0 /\ hart.pc = 0
      /\ hart.csr = ResetCsrs
  BY <1>2 DEF Reset
<1>4. 0 \in 0 .. AddressSpace - 1 /\ 0 % 4 = 0
  BY AddressSpaceAssumption DEF AddressSpaceAssumption
<1>5. ObservedMemory \in [scratchpad : ScratchpadContents, npu : Nat]
  BY <1>1, MemoryIsState
<1> QED
  BY <1>2, <1>3, <1>4, <1>5 DEF Precise!Init, Precise!Fresh, ResetCsrs, ObservedMemory

LEMMA QuietImplements ==
    ASSUME Inv, QuietStep
    PROVE  Precise!Next \/ UNCHANGED Precise!vars
<1>1. hart \in Harts /\ started \in BOOLEAN /\ stop \in BOOLEAN
  BY DEF Inv, CompletionsAgree, NothingUndefined, TypeOK
<1>2. /\ hart'.pc = hart.pc /\ hart'.registers = hart.registers
      /\ hart'.retired = hart.retired /\ hart'.csr = hart.csr
      /\ stop' = stop /\ scratchpad' = scratchpad /\ npu' = npu /\ started' = started
  BY DEF QuietStep, storage
<1>3. CASE hart'.waiting = hart.waiting
  BY <1>2, <1>3 DEF Precise!vars
<1>4. CASE Running /\ hart'.waiting = FALSE /\ Enabled(hart) # {} /\ hart.waiting
  <2>1. Enabled(hart) = hart.csr.mip \cap ObservedCsr.mie
    BY <1>1 DEF Enabled, ObservedCsr, Harts, Csrs
  <2>2. Precise!Wake
    BY <1>2, <1>4, <2>1 DEF Precise!Wake, Precise!Enabled, Running, ObservedCsr
  <2> QED
    BY <2>2 DEF Precise!Next
<1>5. CASE hart'.waiting = FALSE /\ ~hart.waiting
  BY <1>2, <1>5 DEF Precise!vars
<1> QED
  BY <1>3, <1>4, <1>5 DEF QuietStep

(* Entry into the handler, in the terms of PreciseCore. *)
LEMMA EnterImplements ==
    ASSUME Inv, Running, UNCHANGED <<storage, started>>,
           NEW interrupt \in BOOLEAN, NEW code \in Nat, NEW value \in Words,
           Trapped(hart, hart', interrupt, code, value)
    PROVE  /\ Precise!Enter(interrupt, code, value, IF interrupt /\ hart.csr.vectored THEN 4 * code ELSE 0)
           /\ ObservedCsr'.code = code /\ ObservedCsr'.mtval = value
<1>1. hart \in Harts
  BY DEF Inv, CompletionsAgree, NothingUndefined, TypeOK
<1>2. stop' = stop /\ scratchpad' = scratchpad /\ npu' = npu /\ started' = started
  BY DEF storage
<1>3. /\ hart'.pc = (hart.csr.base + (IF interrupt /\ hart.csr.vectored THEN 4 * code ELSE 0)) % AddressSpace
      /\ hart'.csr = [hart.csr EXCEPT !.mepc = hart.pc, !.interrupt = interrupt, !.code = code,
                                      !.mtval = value, !.mpieBit = hart.csr.mieBit, !.mieBit = FALSE]
      /\ hart'.waiting = FALSE /\ hart'.registers = hart.registers /\ hart'.retired = hart.retired
  BY DEF Trapped
<1>4. /\ ObservedCsr' = [ObservedCsr EXCEPT !.mepc = hart.pc, !.interrupt = interrupt, !.code = code,
                                            !.mtval = value, !.mpieBit = ObservedCsr.mieBit, !.mieBit = FALSE]
      /\ ObservedCsr'.code = code /\ ObservedCsr'.mtval = value
      /\ ObservedCsr.base = hart.csr.base
      /\ hart'.csr.mip = hart.csr.mip
  BY <1>1, <1>3 DEF ObservedCsr, Harts, Csrs
<1>5. Precise!Enter(interrupt, code, value, IF interrupt /\ hart.csr.vectored THEN 4 * code ELSE 0)
  BY <1>2, <1>3, <1>4 DEF Precise!Enter, Running, ObservedCsr
<1> QED
  BY <1>4, <1>5

LEMMA EnabledIsObserved ==
    ASSUME Inv
    PROVE  Precise!Enabled = Enabled(hart) /\ ObservedCsr.mieBit = hart.csr.mieBit
             /\ ObservedCsr.vectored = hart.csr.vectored
BY DEF Inv, CompletionsAgree, NothingUndefined, TypeOK, Harts, Csrs, Precise!Enabled, Enabled, ObservedCsr

LEMMA TrapImplements ==
    ASSUME Inv, TrapStep
    PROVE  Precise!Next
<1>1. PICK code \in Nat, value \in Words : Trapped(hart, hart', FALSE, code, value)
  BY DEF TrapStep, TookTrap
<1>2. Running /\ (hart.waiting => Enabled(hart) # {}) /\ UNCHANGED <<storage, started>>
  BY DEF TrapStep
<1>3. Precise!Enter(FALSE, code, value, 0) /\ ObservedCsr'.code = code /\ ObservedCsr'.mtval = value
  BY <1>1, <1>2, EnterImplements
<1>4. Precise!Awake
  BY <1>2, EnabledIsObserved DEF Precise!Awake, Running
<1>5. Precise!TakeTrap
  BY <1>3, <1>4 DEF Precise!TakeTrap, ObservedCsr
<1> QED
  BY <1>5 DEF Precise!Next

LEMMA InterruptImplements ==
    ASSUME Inv, InterruptStep
    PROVE  Precise!Next
<1> DEFINE code == Highest(Enabled(hart))
<1>1. hart \in Harts
  BY DEF Inv, CompletionsAgree, NothingUndefined, TypeOK
<1>2. /\ hart.csr.mieBit /\ Enabled(hart) # {} /\ Running /\ UNCHANGED <<storage, started>>
      /\ Trapped(hart, hart', TRUE, code, 0)
  BY DEF InterruptStep, TookInterrupt
<1>3. Enabled(hart) \subseteq {11, 3, 7}
  BY <1>1 DEF Enabled, Harts, Csrs, Lines, External, Software, Timer
<1>4. /\ code \in Enabled(hart)
      /\ code = 11 \/ (code = 3 /\ 11 \notin Enabled(hart)) \/ Enabled(hart) = {7}
  BY <1>2, <1>3 DEF Highest, External, Software, Timer
<1>5. code \in Nat /\ 0 \in Words
  BY <1>3, <1>4 DEF Words
<1> HIDE DEF code
<1>6. Precise!Enter(TRUE, code, 0, IF hart.csr.vectored THEN 4 * code ELSE 0)
  BY <1>2, <1>5, EnterImplements
<1>7. Precise!TakeInterrupt
  BY <1>2, <1>4, <1>6, EnabledIsObserved DEF Precise!TakeInterrupt, Running, ObservedCsr
<1> QED
  BY <1>7 DEF Precise!Next

LEMMA RetireImplements ==
    ASSUME Inv, Inv', RetireStep
    PROVE  Precise!Next
<1>1. hart \in Harts /\ hart' \in Harts
  BY DEF Inv, CompletionsAgree, NothingUndefined, TypeOK
<1>2. /\ started /\ ~stop /\ ~hart.waiting /\ started' = started
      /\ Retired(hart, hart')
      /\ Memory' = Memory \/ (hart'.csr = hart.csr /\ hart'.registers = hart.registers)
      /\ hart'.waiting => Memory' = Memory
      /\ stop' => hart'.csr = hart.csr /\ hart'.registers = hart.registers /\ Memory' = Memory
  BY DEF RetireStep, Running
<1>3. /\ hart'.pc \in 0 .. AddressSpace - 1 /\ hart'.pc % 4 = 0
      /\ hart'.retired = (hart.retired + 1) % (Half * Half)
      /\ \E r \in Registers : \A q \in Registers \ {r} : hart'.registers[q] = hart.registers[q]
      /\ hart'.registers[0] = 0
      /\ hart'.csr.mip = hart.csr.mip
      /\ hart'.waiting => hart'.csr = hart.csr /\ hart'.registers = hart.registers
  BY <1>2 DEF Retired, ZeroHolds, Aligned, Addresses
<1>4. ObservedMemory' \in [scratchpad : ScratchpadContents, npu : Nat]
  BY MemoryIsState DEF Inv, CompletionsAgree, NothingUndefined, TypeOK, ObservedMemory
<1>5. /\ Memory' = Memory => ObservedMemory' = ObservedMemory
      /\ hart'.csr = hart.csr => ObservedCsr' = ObservedCsr
  BY DEF Memory, ObservedMemory, ObservedCsr
<1>6. /\ Mode = "running" /\ Mode' \in {"running", "waiting", "stopped"}
      /\ Mode' # "running" => stop' \/ hart'.waiting
  BY <1>2 DEF Mode
<1>7. Precise!Retire
  BY <1>2, <1>3, <1>4, <1>5, <1>6 DEF Precise!Retire, ObservedMemory, ObservedCsr, Mode
<1> QED
  BY <1>7 DEF Precise!Next

LEMMA LinesImplements ==
    ASSUME Inv, Inv', LinesStep
    PROVE  Precise!Next
<1>1. hart \in Harts /\ hart' \in Harts
  BY DEF Inv, CompletionsAgree, NothingUndefined, TypeOK
<1>2. /\ hart'.pc = hart.pc /\ hart'.registers = hart.registers
      /\ hart'.retired = hart.retired /\ hart'.waiting = hart.waiting
      /\ hart'.csr = [hart.csr EXCEPT !.mip = hart'.csr.mip]
      /\ stop' = stop /\ scratchpad' = scratchpad /\ npu' = npu /\ started' = started
  BY DEF LinesStep, storage
<1>3. ObservedCsr' = ObservedCsr /\ hart'.csr.mip \in SUBSET {3, 7, 11}
  BY <1>1, <1>2 DEF ObservedCsr, Harts, Csrs, Lines, External, Software, Timer
<1>4. Precise!DriveLines
  BY <1>2, <1>3 DEF Precise!DriveLines, ObservedCsr
<1> QED
  BY <1>4 DEF Precise!Next

LEMMA RestartImplements ==
    ASSUME Inv', RestartStep
    PROVE  Precise!Next
<1>1. /\ hart'.registers = [r \in Registers |-> 0] /\ hart'.retired = 0
      /\ hart'.csr = ResetCsrs /\ ~hart'.waiting /\ ~stop'
  BY DEF RestartStep
<1>2. ObservedMemory' \in [scratchpad : ScratchpadContents, npu : Nat]
  BY DEF Inv, CompletionsAgree, NothingUndefined, TypeOK, ObservedMemory
<1>3. hart'.pc \in 0 .. AddressSpace - 1 /\ hart'.pc % 4 = 0
  BY DEF Inv, CompletionsAgree, NothingUndefined, OnBoundaries, Aligned, Addresses
<1>4. /\ ~ObservedCsr'.mieBit /\ ObservedCsr'.mie = {} /\ ObservedCsr'.base = 0
      /\ hart'.csr.mip = {}
  BY <1>1 DEF ObservedCsr, ResetCsrs
<1>5. Precise!Restart
  BY <1>1, <1>2, <1>3, <1>4 DEF Precise!Restart, Precise!Fresh, ObservedMemory, ObservedCsr
<1> QED
  BY <1>5 DEF Precise!Next

(* Parcels, tokens, pending operations and completions in any order are     *)
(* invisible: the machine performs one whole instruction or trap at a time, *)
(* for every map, repertoire and environment (program_machine).             *)
THEOREM MachineImplementsPreciseCore == Spec => ImplementsPreciseCore
<1>1. Init => Precise!Init
  BY InitImplements
<1>2. Inv /\ Inv' /\ [Next]_vars => [Precise!Next]_(Precise!vars)
  <2> SUFFICES ASSUME Inv, Inv', [Next]_vars
               PROVE  Precise!Next \/ UNCHANGED Precise!vars
    OBVIOUS
  <2>1. CASE Next
    <3>1. Observed
      BY <2>1, EveryStep
    <3> QED
      BY <3>1, QuietImplements, TrapImplements, InterruptImplements, RetireImplements,
         LinesImplements, RestartImplements DEF Execution, Observed
  <2>2. CASE UNCHANGED vars
    BY <2>2 DEF vars, Precise!vars
  <2> QED
    BY <2>1, <2>2
<1> QED
  BY <1>1, <1>2, InvHolds, PTL DEF Spec, ImplementsPreciseCore, Precise!Spec

-----------------------------------------------------------------------------
(* What a call returns *)

LEMMA FetchReports ==
    ASSUME nextToken # MaxToken, NEW h, NEW address, NEW why, Fetch(h, address, why)
    PROVE  event' \in {"trap", "pending"}
BY DEF Fetch, Trap, IssueOperation

LEMMA HolonReports ==
    ASSUME Inv, NEW word \in HolonWords, AdvanceHolon(word)
    PROVE  event' \in {"trap", "pending", "committed"}
BY DEF AdvanceHolon, CanAdvance, IssueDma, Trap, IssueOperation

(* A wait begins only at the poll between instructions: WFI itself commits. *)
LEMMA ScalarReports ==
    ASSUME Inv, NEW e \in Repertoire, AdvanceScalar(e)
    PROVE  event' \in {"trap", "pending", "committed"}
<1> DEFINE issued == Issue(hart, e)
           refused == Complete(issued.hart, issued.hart.pending.token, [kind |-> "fault", address |-> NoAddress])
           made == ScalarRequest(e)
<1>1. CanAdvance /\ pending = NoOperation /\ nextToken # MaxToken /\ frame = "scalar"
  BY DEF AdvanceScalar, CanAdvance
<1>2. SoundHart(hart) /\ hart.pending = NoPending /\ ~hart.waiting
  BY <1>1, ReadyMachine DEF AtBoundary
<1>3. e \in Effects
  BY MachineAssumption DEF MachineAssumption
<1>4. issued.event \in {"trap", "pending", "committed"} /\ issued.hart \in Harts
  BY <1>1, <1>2, <1>3, IssueIsSound, IssuedByMachine DEF Issued, SoundHart
<1>5. broken' = FALSE
  BY ScalarKeepsInv DEF Inv, CompletionsAgree, NothingUndefined, TypeOK
<1>6. refused.event \in {"committed", "trap", "error"}
  BY <1>4, CompleteEffect DEF ExternalResults
<1>7. \/ issued.event \in {"committed", "trap"} /\ event' = issued.event
      \/ event' = refused.event /\ broken' = (broken \/ refused.event = "error")
      \/ IssueOperation(made.request, "scalar")
  BY <1>4 DEF AdvanceScalar, ScalarFinished
<1> HIDE DEF issued, refused, made
<1>8. IssueOperation(made.request, "scalar") => event' = "pending"
  BY <1>1 DEF IssueOperation
<1> QED
  BY <1>5, <1>6, <1>7, <1>8

(* An advance that may proceed never fails, and one that reports sleeping   *)
(* leaves a hart that no enabled input can wake, between instructions.      *)
LEMMA AdvanceReports ==
    ASSUME Inv, Advance
    PROVE  /\ event' # "error"
           /\ event' = "sleeping" => hart'.waiting /\ Enabled(hart') = {} /\ ~InFlight'
<1>1. CASE AdvanceInterrupt
  <2>1. event' = "trap"
    BY <1>1, PollForm DEF AdvanceInterrupt
  <2> QED
    BY <2>1
<1>2. CASE AdvanceSleep
  <2> DEFINE polled == PollInterrupt(hart)
  <2>1. /\ CanAdvance /\ AtBoundary /\ polled.event = "none" /\ polled.hart.waiting
        /\ hart' = polled.hart /\ event' = "sleeping" /\ UNCHANGED control
    BY <1>2 DEF AdvanceSleep
  <2>2. /\ pending = NoOperation /\ hart \in Harts
        /\ polled.hart = [hart EXCEPT !.waiting = hart.waiting /\ Enabled(hart) = {}]
    BY <2>1, PollForm DEF SoundHart
  <2> HIDE DEF polled
  <2>3. hart'.waiting = (hart.waiting /\ Enabled(hart) = {}) /\ hart'.csr = hart.csr
    BY <2>1, <2>2 DEF Harts
  <2>4. Enabled(hart') = {}
    BY <2>1, <2>3 DEF Enabled
  <2> QED
    BY <2>1, <2>2, <2>4 DEF InFlight, AtBoundary, control
<1>3. CASE AdvanceFetchFirst \/ AdvanceFetchSecond
  <2>1. event' \in {"trap", "pending"}
    BY <1>3, FetchReports DEF AdvanceFetchFirst, AdvanceFetchSecond, CanAdvance
  <2> QED
    BY <2>1
<1>4. ASSUME NEW e \in Repertoire, AdvanceScalar(e) PROVE event' \notin {"error", "sleeping"}
  BY <1>4, ScalarReports
<1>5. ASSUME NEW word \in HolonWords, AdvanceHolon(word) PROVE event' \notin {"error", "sleeping"}
  BY <1>5, HolonReports
<1> QED
  BY <1>1, <1>2, <1>3, <1>4, <1>5 DEF Advance

LEMMA CompletionReports ==
    ASSUME Inv, NEW token, NEW result \in LegalResults, Completion(token, result)
    PROVE  event' \notin {"error", "sleeping"}
<1>1. CASE CompleteScalar(token, result)
  BY <1>1, ScalarSettles
<1>2. CASE ~CompleteScalar(token, result)
  BY <1>2 DEF Completion, CompleteNpu, CompleteFault, CompleteDma, CompleteFetch, Trap
<1> QED
  BY <1>1, <1>2

-----------------------------------------------------------------------------
(* service_operation *)

SystemContents == [0 .. ViewBytes - 1 -> Bytes]

(* Where a viewed request lies in the view. *)
LEMMA ViewedInside ==
    ASSUME Inv, pending # NoOperation, IsExternal, Viewed
    PROVE  /\ pending.request \in MemoryRequests
           /\ pending.request.size \in Nat
           /\ \A i \in 1 .. pending.request.size : ViewIndex(i) \in 0 .. ViewBytes - 1
<1>1. pending.request \in MemoryRequests
  BY BusyMachine DEF IsExternal, IsMemory, Operations, Requests
<1>2. pending.request.size \in Nat /\ pending.request.address \in Int /\ ViewBase \in Int /\ ViewBytes \in Nat
  BY <1>1, RunnerAssumption, AddressSpaceAssumption
  DEF RunnerAssumption, AddressSpaceAssumption, MemoryRequests, Addresses
<1>3. /\ pending.request.address >= ViewBase
      /\ pending.request.size <= ViewBytes - (pending.request.address - ViewBase)
  BY DEF Viewed, ViewRange
<1> QED
  BY <1>1, <1>2, <1>3 DEF ViewIndex

(* The machine accepts whatever service_operation answers. *)
LEMMA ServiceAccepted ==
    ASSUME Inv, pending # NoOperation, system \in SystemContents
    PROVE  ServiceResult \in LegalResults /\ Accepts(pending.token, ServiceResult)
<1>1. CASE ~IsExternal
  <2>1. ServiceResult = [kind |-> "success"]
    BY <1>1 DEF ServiceResult
  <2> QED
    BY <1>1, <2>1 DEF LegalResults, Accepts, IsExternalRead
<1>2. CASE IsExternal /\ ~Viewed
  <2>1. ServiceResult = [kind |-> "fault", address |-> NoAddress]
    BY <1>2 DEF ServiceResult
  <2> QED
    BY <1>2, <2>1 DEF LegalResults, Accepts
<1>3. CASE IsExternal /\ Viewed /\ pending.request.access = "write"
  <2>1. ServiceResult = [kind |-> "success"]
    BY <1>3 DEF ServiceResult
  <2> QED
    BY <1>3, <2>1 DEF LegalResults, Accepts, IsExternalRead
<1>4. CASE IsExternal /\ Viewed /\ pending.request.access # "write"
  <2> DEFINE answer == [i \in 1 .. pending.request.size |-> system[ViewIndex(i)]]
  <2>1. ServiceResult = [kind |-> "payload", bytes |-> answer]
    BY <1>4 DEF ServiceResult
  <2>2. pending.request.size \in Nat /\ \A i \in 1 .. pending.request.size : system[ViewIndex(i)] \in Bytes
    BY <1>4, ViewedInside DEF SystemContents
  <2>3. answer \in Seq(Bytes) /\ Len(answer) = pending.request.size
    BY <2>2
  <2> HIDE DEF answer
  <2> QED
    BY <1>4, <2>1, <2>3 DEF LegalResults, Accepts, IsExternalRead
<1> QED
  BY <1>1, <1>2, <1>3, <1>4

LEMMA ServicedType ==
    ASSUME Inv, pending # NoOperation, system \in SystemContents
    PROVE  Serviced \in SystemContents
<1>1. CASE IsExternal /\ Viewed /\ pending.request.access = "write"
  <2> DEFINE r == pending.request
  <2>1. /\ r.payload \in Seq(Bytes) /\ r.size \in Nat /\ r.address \in Int /\ ViewBase \in Int
    BY <1>1, ViewedInside, RunnerAssumption, AddressSpaceAssumption
    DEF RunnerAssumption, AddressSpaceAssumption, MemoryRequests, Addresses
  <2>2. Len(r.payload) = r.size
    BY <1>1, BusyMachine DEF Servable, IsExternal, IsMemory
  <2> HIDE DEF r
  <2>3. \A j \in 1 .. r.size : r.payload[j] \in Bytes
    BY <2>1, <2>2
  <2>4. ASSUME NEW k \in 0 .. ViewBytes - 1, NEW i \in 1 .. r.size, k = ViewIndex(i)
        PROVE  r.payload[k - ViewIndex(0)] \in Bytes
    <3>1. k - ViewIndex(0) = i
      BY <2>1, <2>4 DEF ViewIndex, r
    <3> QED
      BY <2>3, <3>1
  <2>5. Serviced = [k \in DOMAIN system |->
                      IF \E i \in 1 .. r.size : k = ViewIndex(i) THEN r.payload[k - ViewIndex(0)] ELSE system[k]]
    BY <1>1 DEF Serviced, r
  <2> QED
    BY <2>4, <2>5 DEF SystemContents
<1>2. CASE ~(IsExternal /\ Viewed /\ pending.request.access = "write")
  BY <1>2 DEF Serviced
<1> QED
  BY <1>1, <1>2

(* Only the store or DMA instruction a write belongs to changes the system's *)
(* memory, and it retires.                                                  *)
LEMMA ServicedWriteRetires ==
    ASSUME Inv, pending # NoOperation, system \in SystemContents, ServiceOperation, system' # system
    PROVE  event' = "committed" /\ hart'.retired = (hart.retired + 1) % (Half * Half)
<1>1. IsExternal /\ Viewed /\ pending.request.access = "write" /\ ServiceResult.kind = "success"
  BY DEF ServiceOperation, Serviced, ServiceResult
<1>2. ServiceResult \in LegalResults /\ Completion(pending.token, ServiceResult)
  BY ServiceAccepted DEF ServiceOperation, CompleteRefused
<1>3. pending.why \in {"scalar", "dma_store"}
  BY <1>1, BusyMachine DEF Servable, Operations, Purposes, IsExternal, IsMemory
<1>4. CASE CompleteScalar(pending.token, ServiceResult)
  BY <1>1, <1>2, <1>4, ScalarSettles DEF Retired
<1>5. CASE CompleteDma(pending.token, ServiceResult)
  <2>1. event' = "committed" /\ RetireNpu(hart) /\ hart \in Harts
    BY <1>5, BusyMachine DEF CompleteDma, SoundHart
  <2> QED
    BY <2>1 DEF RetireNpu, Commit, Harts
<1> QED
  BY <1>1, <1>2, <1>3, <1>4, <1>5 DEF Completion, CompleteNpu, CompleteFault, CompleteFetch

-----------------------------------------------------------------------------
(* run_program *)

(* One retirement uses one unit of the budget, across the counter's wrap.   *)
LEMMA RetirementUsesOne ==
    ASSUME NEW r \in Counters, NEW i \in Counters
    PROVE  /\ (r - i) % (Half * Half) \in Nat
           /\ (((r + 1) % (Half * Half)) - i) % (Half * Half) <= ((r - i) % (Half * Half)) + 1
<1> DEFINE limit == Half * Half
<1>1. limit \in Nat \ {0} /\ r \in 0 .. limit - 1 /\ i \in 0 .. limit - 1
  BY CounterRange DEF Counters
<1> HIDE DEF limit
<1>2. \A a \in 0 .. limit - 1 : a % limit = a
  BY <1>1
<1>3. \A a \in - limit .. -1 : a % limit = a + limit
  <2> TAKE a \in - limit .. -1
  <2>1. (a + limit) \in 0 .. limit - 1
    BY <1>1
  <2> QED
    BY <1>1, <2>1
<1>4. limit % limit = 0
  BY <1>1
<1>5. (r + 1) % limit = IF r + 1 = limit THEN 0 ELSE r + 1
  BY <1>1, <1>2, <1>4
<1>6. (r - i) % limit = IF r >= i THEN r - i ELSE r - i + limit
  BY <1>1, <1>2, <1>3
<1>7. /\ (r - i) % limit \in Nat
      /\ (((r + 1) % limit) - i) % limit <= ((r - i) % limit) + 1
  <2>1. CASE r + 1 = limit
    <3>1. (0 - i) % limit = IF i = 0 THEN 0 ELSE limit - i
      BY <1>1, <1>2, <1>3
    <3>2. (r - i) % limit = limit - 1 - i
      BY <1>1, <1>6, <2>1
    <3> QED
      BY <1>1, <1>5, <2>1, <3>1, <3>2
  <2>2. CASE r + 1 # limit
    <3>1. ((r + 1) - i) % limit = IF r + 1 >= i THEN r + 1 - i ELSE r + 1 - i + limit
      BY <1>1, <1>2, <1>3, <2>2
    <3> QED
      BY <1>1, <1>5, <1>6, <2>2, <3>1
  <2> QED
    BY <2>1, <2>2
<1> QED
  BY <1>7 DEF limit

(* The inductive invariant: a machine whose run has ended, or is about to,  *)
(* is between instructions, unless its tokens have run out.                 *)
RunnerInv ==
    /\ Inv /\ RunnerTypeOK /\ BudgetIsKept
    /\ run.phase = "running" => run.reason = "none"
    /\ run.phase = "idle" \/ stop \/ Exhausted => nextToken = MaxToken \/ ~InFlight

LEMMA RunTypes ==
    ASSUME RunnerTypeOK
    PROVE  /\ hart.retired \in Counters /\ run.initial \in Counters
           /\ run.traps \in Nat /\ run.budget \in Nat /\ system \in SystemContents
           /\ Used \in Nat
<1>1. hart.retired \in Counters
  BY DEF RunnerTypeOK, TypeOK, Harts
<1>2. run.initial \in Counters /\ run.traps \in Nat /\ run.budget \in Budgets \cup {0}
  BY DEF RunnerTypeOK
<1>3. Budgets \subseteq Nat
  BY RunnerAssumption DEF RunnerAssumption
<1>4. system \in SystemContents
  BY DEF RunnerTypeOK, SystemContents
<1>5. run.budget \in Nat
  <2>1. CASE run.budget \in Budgets
    BY <1>3, <2>1, Zenon
  <2>2. CASE run.budget = 0
    BY <2>2
  <2> QED
    BY <1>2, <2>1, <2>2, Zenon
<1>6. (hart.retired - run.initial) % (Half * Half) \in Nat
  BY <1>1, <1>2, RetirementUsesOne
<1> QED
  BY <1>1, <1>2, <1>4, <1>5, <1>6 DEF Used

(* An iteration is a step of the machine whose answer, if it needed one,    *)
(* was accepted; it fails only for want of a program or of tokens.          *)
LEMMA IterateActs ==
    ASSUME RunnerInv, Iterate
    PROVE  /\ Inv' /\ Execution /\ system' \in SystemContents
           /\ event' = "error" => /\ ~started \/ nextToken = MaxToken
                                  /\ nextToken' = MaxToken \/ ~InFlight'
           /\ event' = "sleeping" => hart'.waiting /\ Enabled(hart') = {} /\ ~InFlight'
<1>1. Inv /\ system \in SystemContents /\ ~stop
  BY RunTypes DEF RunnerInv, Iterate
<1>2. CASE pending # NoOperation
  <2>1. system' = Serviced /\ Completion(pending.token, ServiceResult) /\ ServiceResult \in LegalResults
    BY <1>1, <1>2, ServiceAccepted DEF Iterate, ServiceOperation, CompleteRefused
  <2>2. Inv' /\ Execution
    BY <1>1, <2>1, CompletionKeepsInv, CompletionSteps
  <2>3. event' \notin {"error", "sleeping"}
    BY <1>1, <2>1, CompletionReports
  <2> QED
    BY <1>1, <1>2, <2>1, <2>2, <2>3, ServicedType
<1>3. CASE pending = NoOperation
  <2>1. (Advance \/ AdvanceRefused) /\ system' = system
    BY <1>3 DEF Iterate
  <2>2. Inv' /\ Execution
    BY <1>1, <2>1, AdvanceKeepsInv, AdvanceSteps
  <2>3. CASE Advance
    BY <1>1, <2>1, <2>2, <2>3, AdvanceReports
  <2>4. CASE AdvanceRefused
    <3>1. /\ event' = "error" /\ (~started \/ nextToken = MaxToken)
          /\ UNCHANGED <<pending, frame, firstParcel, nextToken, started>>
      BY <1>1, <1>3, <2>4 DEF AdvanceRefused, CanAdvance, control
    <3>2. ~started => ~InFlight'
      BY <1>1, <3>1 DEF Inv, NothingIsStale, IdleHoldsNothing, InFlight, AtBoundary
    <3> QED
      BY <1>1, <2>1, <2>2, <3>1, <3>2
  <2> QED
    BY <2>1, <2>3, <2>4
<1> QED
  BY <1>2, <1>3

(* It uses at most one unit of the budget, and that only at an              *)
(* instruction's end.                                                       *)
LEMMA IterateUses ==
    ASSUME RunnerInv, Iterate
    PROVE  /\ run'.initial = run.initial /\ run'.budget = run.budget /\ run'.traps \in Nat
           /\ Used' \in Nat /\ Used' <= Used + 1
           /\ Used' # Used => ~InFlight'
<1>1. RunnerTypeOK /\ Execution
  BY IterateActs DEF RunnerInv
<1>2. /\ hart.retired \in Counters /\ run.initial \in Counters /\ run.traps \in Nat /\ Used \in Nat
      /\ hart \in Harts
  BY <1>1, RunTypes DEF RunnerTypeOK, TypeOK
<1>3. /\ run'.initial = run.initial /\ run'.budget = run.budget
      /\ run'.traps = IF event' = "trap" THEN run.traps + 1 ELSE run.traps
  BY <1>1 DEF Iterate, Conclude, Report, RunnerTypeOK
<1> DEFINE before == (hart.retired - run.initial) % (Half * Half)
           after == (hart'.retired - run.initial) % (Half * Half)
<1>4. Used = before + run.traps /\ Used' = after + run'.traps
  BY <1>3 DEF Used
<1>5. CASE hart'.retired = hart.retired
  <2>1. after = before /\ before \in Nat
    BY <1>2, <1>5, RetirementUsesOne
  <2>2. event' = "trap" => ~InFlight'
    BY <1>1 DEF Execution, QuietStep, TrapStep, InterruptStep, RetireStep
  <2> HIDE DEF before, after
  <2> QED
    BY <1>2, <1>3, <1>4, <2>1, <2>2
<1>6. CASE RetireStep
  <2>1. event' # "trap" /\ ~InFlight' /\ hart'.retired = (hart.retired + 1) % (Half * Half)
    BY <1>6 DEF RetireStep, Retired
  <2>2. hart'.retired \in Counters
    BY <1>2, <2>1, CountersAreNaturals, CounterWraps
  <2>3. before \in Nat /\ after \in Nat /\ after <= before + 1
    BY <1>2, <2>1, <2>2, RetirementUsesOne
  <2> HIDE DEF before, after
  <2> QED
    BY <1>2, <1>3, <1>4, <2>1, <2>3
<1>7. QuietStep \/ TrapStep \/ InterruptStep => hart'.retired = hart.retired
  BY DEF QuietStep, TrapStep, InterruptStep, TookTrap, TookInterrupt, Trapped
<1> QED
  BY <1>1, <1>5, <1>6, <1>7 DEF Execution

LEMMA IterateKeepsInv == ASSUME RunnerInv, Iterate PROVE RunnerInv'
<1>1. /\ Inv' /\ system' \in SystemContents
      /\ event' \in {"error", "sleeping"} => nextToken' = MaxToken \/ ~InFlight'
  BY IterateActs
<1>2. /\ run'.initial = run.initial /\ run'.budget = run.budget /\ run'.traps \in Nat
      /\ Used' \in Nat /\ Used' <= Used + 1
      /\ Used' # Used => ~InFlight'
  BY IterateUses
<1>3. /\ Used \in Nat /\ run.budget \in Nat /\ Used < run.budget /\ run.phase = "running" /\ run.reason = "none"
      /\ RunnerTypeOK
  BY RunTypes DEF RunnerInv, Iterate, Exhausted
<1>4. /\ run' \in [phase : {"idle", "running"}, initial : Counters, traps : Nat,
                   budget : Budgets \cup {0}, reason : Reasons]
      /\ run'.phase = "idle" => event' \in {"error", "sleeping"}
      /\ run'.phase = "running" => run'.reason = "none"
  <2>1. run \in [phase : {"idle", "running"}, initial : Counters, traps : Nat,
                 budget : Budgets \cup {0}, reason : Reasons]
    BY <1>3 DEF RunnerTypeOK
  <2>2. CASE event' \in {"error", "sleeping"}
    <3>1. PICK reason \in Reasons : run' = [run EXCEPT !.phase = "idle", !.reason = reason]
      BY <2>2 DEF Iterate, Conclude, Report, Reasons
    <3> QED
      BY <2>1, <2>2, <3>1
  <2>3. CASE event' \notin {"error", "sleeping"}
    <3>1. run' = run \/ run' = [run EXCEPT !.traps = @ + 1]
      BY <2>3 DEF Iterate, Conclude
    <3> QED
      BY <1>3, <2>1, <2>3, <3>1
  <2> QED
    BY <2>2, <2>3
<1>5. RunnerTypeOK'
  BY <1>1, <1>4 DEF RunnerTypeOK, SystemContents, Inv, CompletionsAgree, NothingUndefined
<1>6. BudgetIsKept'
  BY <1>2, <1>3 DEF BudgetIsKept
<1>7. stop' => ~InFlight'
  BY <1>1 DEF Inv, NothingIsStale, IdleHoldsNothing, InFlight
<1>8. Exhausted' => ~InFlight'
  BY <1>2, <1>3 DEF Exhausted
<1> QED
  BY <1>1, <1>4, <1>5, <1>6, <1>7, <1>8 DEF RunnerInv

(* The counter that wraps still moves. *)
LEMMA RetirementShows ==
    ASSUME NEW r \in Counters
    PROVE  (r + 1) % (Half * Half) # r
<1> DEFINE limit == Half * Half
<1>1. Half \in Nat /\ Half > 1
  BY RunnerAssumption, HartAssumption DEF RunnerAssumption, HartAssumption
<1>2. limit > 1
  BY <1>1
<1>3. limit \in Nat /\ r \in 0 .. limit - 1
  BY CounterRange DEF Counters
<1> HIDE DEF limit
<1>4. \A a \in 0 .. limit - 1 : a % limit = a
  BY <1>2, <1>3
<1>5. limit % limit = 0
  BY <1>2, <1>3
<1>6. (r + 1) % limit # r
  BY <1>2, <1>3, <1>4, <1>5
<1> QED
  BY <1>6 DEF limit

(* The caller's inputs between runs leave a machine that is between         *)
(* instructions there.                                                      *)
LEMMA BetweenRunsKeepsInv == ASSUME RunnerInv, BetweenRuns PROVE RunnerInv'
<1>1. /\ Inv /\ RunnerTypeOK /\ run.phase = "idle" /\ Environment /\ UNCHANGED <<system, run>>
      /\ nextToken = MaxToken \/ ~InFlight
  BY DEF RunnerInv, BetweenRuns
<1>2. Inv'
  BY <1>1, EnvironmentKeepsInv
<1>3. \/ UNCHANGED <<pending, frame, firstParcel, nextToken>>
      \/ pending' = NoOperation /\ frame' = "none" /\ firstParcel' = FALSE
  BY <1>1 DEF Environment, MachineReset, Boot, BootRefused, DriveLines, Account, Cleared, control
<1>4. nextToken' = MaxToken \/ ~InFlight'
  BY <1>1, <1>3 DEF InFlight, AtBoundary
<1>5. RunnerTypeOK'
  BY <1>1, <1>2 DEF RunnerTypeOK, Inv, CompletionsAgree, NothingUndefined
<1>6. BudgetIsKept' /\ (run'.phase = "running" => run'.reason = "none")
  BY <1>1 DEF BudgetIsKept
<1> QED
  BY <1>2, <1>4, <1>5, <1>6 DEF RunnerInv

LEMMA RunProgramKeepsInv ==
    ASSUME RunnerInv, NEW budget \in Budgets, RunProgram(budget)
    PROVE  RunnerInv'
<1>1. /\ Inv /\ RunnerTypeOK /\ run.phase = "idle"
      /\ nextToken = MaxToken \/ ~InFlight
      /\ UNCHANGED <<vars, system>>
      /\ run' = [phase |-> "running", initial |-> hart.retired, traps |-> 0, budget |-> budget, reason |-> "none"]
  BY DEF RunnerInv, RunProgram
<1>2. /\ Inv' /\ (nextToken' = MaxToken \/ ~InFlight') /\ hart' = hart
  BY <1>1, UnchangedKeepsInv DEF vars, control, storage, MachineEvents, InFlight, AtBoundary,
     RunnerTypeOK, TypeOK
<1>3. hart.retired \in Counters
  BY <1>1, RunTypes
<1>4. RunnerTypeOK'
  BY <1>1, <1>2, <1>3 DEF RunnerTypeOK, Inv, CompletionsAgree, NothingUndefined, Reasons
<1>5. Used' = 0
  <2>1. Half * Half \in Nat \ {0} /\ hart.retired \in Int
    BY <1>3, CounterRange, CountersAreNaturals
  <2>2. \A n \in Nat \ {0} : 0 % n = 0
    OBVIOUS
  <2>3. (hart.retired - hart.retired) % (Half * Half) = 0
    BY <2>1, <2>2
  <2> QED
    BY <1>1, <1>2, <2>3 DEF Used
<1>6. budget \in Nat
  BY RunnerAssumption, Zenon DEF RunnerAssumption
<1>7. BudgetIsKept' /\ run'.reason = "none"
  BY <1>1, <1>5, <1>6 DEF BudgetIsKept
<1> QED
  BY <1>2, <1>4, <1>7 DEF RunnerInv

LEMMA ReturnKeepsInv == ASSUME RunnerInv, ReturnStopped \/ ReturnBudget PROVE RunnerInv'
<1>1. /\ Inv /\ RunnerTypeOK
      /\ nextToken = MaxToken \/ ~InFlight
      /\ UNCHANGED <<vars, system>>
  BY DEF RunnerInv, ReturnStopped, ReturnBudget
<1>2. PICK reason \in Reasons : run' = [run EXCEPT !.phase = "idle", !.reason = reason]
  BY DEF ReturnStopped, ReturnBudget, Report, Reasons
<1>3. /\ Inv' /\ (nextToken' = MaxToken \/ ~InFlight')
  BY <1>1, UnchangedKeepsInv DEF vars, control, storage, MachineEvents, InFlight, AtBoundary,
     RunnerTypeOK, TypeOK
<1>4. run \in [phase : {"idle", "running"}, initial : Counters, traps : Nat,
               budget : Budgets \cup {0}, reason : Reasons]
  BY <1>1 DEF RunnerTypeOK
<1>5. RunnerTypeOK' /\ run'.phase = "idle"
  BY <1>1, <1>2, <1>3, <1>4 DEF RunnerTypeOK, Inv, CompletionsAgree, NothingUndefined
<1> QED
  BY <1>3, <1>5 DEF RunnerInv, BudgetIsKept

LEMMA RunnerInvariance ==
    /\ RunnerInit => RunnerInv
    /\ RunnerInv /\ [RunnerNext]_runnerVars => RunnerInv'
<1>1. ASSUME RunnerInit PROVE RunnerInv
  <2>1. Inv /\ ~InFlight
    BY <1>1, InitInv DEF RunnerInit, Init, InFlight, AtBoundary
  <2>2. RunnerTypeOK
    BY <1>1, <2>1, RunnerAssumption, CounterRange
    DEF RunnerAssumption, RunnerInit, RunnerTypeOK, Reasons, Inv, CompletionsAgree, NothingUndefined
  <2> QED
    BY <1>1, <2>1, <2>2 DEF RunnerInit, RunnerInv, BudgetIsKept
<1>2. ASSUME RunnerInv, RunnerNext PROVE RunnerInv'
  BY <1>2, RunProgramKeepsInv, ReturnKeepsInv, IterateKeepsInv, BetweenRunsKeepsInv DEF RunnerNext
<1>3. ASSUME RunnerInv, UNCHANGED runnerVars PROVE RunnerInv'
  <2>1. Inv'
    BY <1>3, UnchangedKeepsInv DEF RunnerInv, runnerVars, vars, control, storage, MachineEvents,
       RunnerTypeOK, TypeOK
  <2>2. UNCHANGED <<Used, RunnerTypeOK, InFlight>>
    BY <1>3 DEF runnerVars, vars, Used, RunnerTypeOK, TypeOK, InFlight, AtBoundary
  <2> QED
    BY <1>3, <2>1, <2>2 DEF RunnerInv, runnerVars, vars, BudgetIsKept, Exhausted
<1> QED
  BY <1>1, <1>2, <1>3

LEMMA RunnerInvHolds == RunnerSpec => []RunnerInv
BY RunnerInvariance, PTL DEF RunnerSpec

(* The other steps of a run report neither an error nor a wait. *)
LEMMA OtherReports ==
    ASSUME RunnerTypeOK, RunnerNext, ~Iterate
    PROVE  run' = run \/ run'.reason \in {"none", "stopped", "budget"}
<1>1. run \in [phase : {"idle", "running"}, initial : Counters, traps : Nat,
               budget : Budgets \cup {0}, reason : Reasons]
  BY DEF RunnerTypeOK
<1>2. CASE ReturnStopped \/ ReturnBudget
  <2>1. PICK reason \in {"stopped", "budget"} : run' = [run EXCEPT !.phase = "idle", !.reason = reason]
    BY <1>2 DEF ReturnStopped, ReturnBudget, Report
  <2> QED
    BY <1>1, <2>1
<1>3. CASE BetweenRuns \/ \E budget \in Budgets : RunProgram(budget)
  BY <1>3 DEF BetweenRuns, RunProgram
<1> QED
  BY <1>2, <1>3 DEF RunnerNext

(* The report of every run is true: the budget was kept, the machine is     *)
(* between instructions, and a wait is one no input ends (run_program).     *)
THEOREM ReportsAreTrueHolds == RunnerSpec => ReportsAreTrue
<1> DEFINE True == RunnerTypeOK' /\ BudgetIsKept' /\ RunsEndBetweenInstructions' /\ WaitingIsGenuine
<1>1. ASSUME RunnerInv, RunnerInv', RunnerNext PROVE True
  <2>1. RunsEndBetweenInstructions'
    BY <1>1 DEF RunnerInv, RunsEndBetweenInstructions
  <2>2. CASE Iterate
    <3>1. run'.reason = "waiting" => event' = "sleeping"
      BY <1>1, <2>2 DEF RunnerInv, RunnerTypeOK, Iterate, Conclude, Report
    <3> QED
      BY <1>1, <2>1, <2>2, <3>1, IterateActs DEF RunnerInv, WaitingIsGenuine
  <2>3. CASE ~Iterate
    <3>1. run.phase = "running" => run'.reason # "waiting"
      BY <1>1, <2>3, OtherReports DEF RunnerInv
    <3> QED
      BY <1>1, <2>1, <3>1 DEF RunnerInv, WaitingIsGenuine
  <2> QED
    BY <2>2, <2>3
<1>2. RunnerInv /\ RunnerInv' /\ [RunnerNext]_runnerVars => [True]_runnerVars
  BY <1>1
<1> QED
  BY <1>2, RunnerInvHolds, PTL DEF RunnerSpec, ReportsAreTrue

(* service_operation's answer is always accepted, and what it moved belongs *)
(* to an instruction that retires in that step (service_operation over      *)
(* program_machine::complete).                                              *)
THEOREM ServiceIsAcceptedHolds == RunnerSpec => ServiceIsAccepted
<1> DEFINE Accepted == ErrorsAreTheCallers /\ SystemWritesRetire
<1>1. ASSUME RunnerInv, RunnerNext PROVE Accepted
  <2>1. CASE Iterate
    <3>1. run.reason # "error" /\ run'.reason = "error" => event' = "error"
      BY <1>1, <2>1 DEF RunnerInv, RunnerTypeOK, Iterate, Conclude, Report
    <3>2. ErrorsAreTheCallers
      BY <1>1, <2>1, <3>1, IterateActs DEF ErrorsAreTheCallers
    <3>3. ASSUME system' # system PROVE event' = "committed" /\ hart'.retired # hart.retired
      <4>1. pending # NoOperation /\ ServiceOperation
        BY <2>1, <3>3 DEF Iterate
      <4>2. hart'.retired = (hart.retired + 1) % (Half * Half) /\ event' = "committed"
        BY <1>1, <3>3, <4>1, RunTypes, ServicedWriteRetires DEF RunnerInv
      <4>3. hart.retired \in Counters
        BY <1>1, RunTypes DEF RunnerInv
      <4> QED
        BY <4>2, <4>3, RetirementShows
    <3> QED
      BY <3>2, <3>3 DEF SystemWritesRetire
  <2>2. CASE ~Iterate
    <3>1. system' = system
      BY <1>1, <2>2 DEF RunnerNext, RunProgram, ReturnStopped, ReturnBudget, BetweenRuns
    <3> QED
      BY <1>1, <2>2, <3>1, OtherReports DEF RunnerInv, ErrorsAreTheCallers, SystemWritesRetire
  <2> QED
    BY <2>1, <2>2
<1>2. RunnerInv /\ [RunnerNext]_runnerVars => [Accepted]_runnerVars
  BY <1>1
<1> QED
  BY <1>2, RunnerInvHolds, PTL DEF RunnerSpec, ServiceIsAccepted
=============================================================================
