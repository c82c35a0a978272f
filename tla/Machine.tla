------------------------------ MODULE Machine ------------------------------
(***************************************************************************)
(* program_machine: the only program executor.  It fetches parcels, issues *)
(* scalar and Holon instructions, hands every memory access and NPU        *)
(* operation to the execution environment as one tokenized pending         *)
(* operation, and commits or traps when that operation is completed        *)
(* (src/sim/semantic/holon_npu_semantic.hpp and .cpp).                     *)
(*                                                                         *)
(* A fetched word is arbitrary, so what it decodes to is chosen when it    *)
(* issues: a scalar effect of Repertoire or a Holon instruction.  What     *)
(* execute_npu computes is abstracted to its kinds of outcome.             *)
(***************************************************************************)
EXTENDS Hart

CONSTANTS
    RegionTable,      \* The table physical_map::create accepted.
    ProgramBytes,     \* machine_config::program_bytes
    ScratchpadBytes,  \* machine_config::scratchpad_bytes
    Repertoire,       \* Effects a scalar word may evaluate to.
    HolonWords,       \* What a Holon word may decode to.
    Payloads,         \* Byte sequences the system and the program store may return.
    FaultAddresses,   \* Addresses a bus fault may report, NoAddress for none.
    Images,           \* Boot requests offered, see Boot.
    LineSets,         \* Interrupt inputs the environment may drive.
    Elapsed           \* Cycle counts it may account.

ScratchpadContents == [0 .. ScratchpadBytes - 1 -> Bytes]

(* A Holon word: illegal, a DMA transfer with its captured operands, or a   *)
(* vector, matrix or control operation with the outcome it executes to: a   *)
(* fault before any effect, STOP, a scalar result, new vector, predicate,   *)
(* view or tile state, or bytes stored to the scratchpad.                   *)
DmaWords     == [kind : {"dma"}, load : BOOLEAN, count : Nat, local : Addresses, system : Addresses]
ComputeWords == [kind : {"fault"}, cause : Nat, value : Words]
                  \cup [kind : {"stop"}]
                  \cup [kind : {"write"}, rd : Registers, value : Words]
                  \cup [kind : {"npu"}, value : Nat]
                  \cup [kind : {"store"}, bytes : UNION {[at -> Bytes] : at \in SUBSET (0 .. ScratchpadBytes - 1)}]
HolonForms   == [kind : {"illegal"}, bits : Words] \cup DmaWords \cup ComputeWords

ASSUME MachineAssumption ==
    /\ ByteValues % 4 = 0
    /\ RegionTable \in Seq(Regions) /\ Create(RegionTable).ok
    /\ ProgramBytes \in Nat /\ ScratchpadBytes \in Nat
    /\ Repertoire \subseteq Effects
    /\ \A e \in Repertoire : e.kind = "store" => e.payload \in [1 .. e.width -> Bytes]
    /\ HolonWords \subseteq HolonForms
    /\ Payloads \subseteq Seq(Bytes)
    /\ \A image \in Images :
        /\ image.kind \in {"raw", "elf"}
        /\ image.kind = "elf" => image.entry \in Aligned /\ image.scratchpad \in ScratchpadContents
        /\ image.kind = "raw" => image.base \in Addresses /\ image.size \in Nat /\ image.entry \in Addresses
    /\ FaultAddresses \subseteq Addresses \cup {NoAddress}
    /\ LineSets \subseteq SUBSET Lines
    /\ Elapsed \subseteq Nat

Map == Create(RegionTable).map

VARIABLES
    hart,         \* hart_
    pending,      \* pending_: NoOperation or [token, pc, why, request]
    frame,        \* frame_: "none", or the kind of word it holds
    firstParcel,  \* first_parcel_ holds a value
    dmaLocal,     \* dma_local_, NoAddress if empty
    stop,         \* stop_ holds a value
    nextToken,    \* next_token_
    started,      \* started_
    scratchpad,   \* scratchpad_
    npu,          \* vectors_, predicates_, views_ and tiles_, as one value
    event,        \* What the last call returned.
    broken,       \* History: std::unreachable or an absent value was reached.
    spent         \* History: tokens whose operation completed or was reset away.

control == <<pending, frame, firstParcel, dmaLocal, nextToken>>
storage == <<stop, scratchpad, npu>>
vars == <<hart, pending, frame, firstParcel, dmaLocal, stop, nextToken, started,
          scratchpad, npu, event, broken, spent>>

Purposes == {"fetch_first", "fetch_second", "scalar", "dma_load", "dma_store", "npu"}

NoOperation == [token |-> 0]
MemoryRequests == [kind : {"memory"}, address : Addresses, size : Nat, access : AccessKinds,
                   storage : Storages, payload : Seq(Bytes)]
Requests == MemoryRequests \cup [kind : {"fence"}] \cup [kind : {"npu"}, operation : ComputeWords]
Operations == [token : 1 .. MaxToken - 1, pc : Addresses, why : Purposes, request : Requests]

TypeOK ==
    /\ hart \in Harts
    /\ pending \in {NoOperation} \cup Operations
    /\ frame \in {"none", "scalar", "holon"}
    /\ dmaLocal \in {NoAddress} \cup 0 .. ScratchpadBytes
    /\ nextToken \in 1 .. MaxToken
    /\ {firstParcel, stop, started, broken} \subseteq BOOLEAN
    /\ scratchpad \in ScratchpadContents
    /\ npu \in Nat
    /\ event \in {"none", "progress", "committed", "trap", "pending", "sleeping", "stopped", "error"}
    /\ spent \in SUBSET (1 .. MaxToken - 1)

-----------------------------------------------------------------------------
(* Private methods *)

AccessFault(access) == CASE access = "execute" -> 1 [] access = "write" -> 7 [] access = "read" -> 5

LocallyBacked(route) ==
    CASE route.storage = "program"    -> LocalRange(ProgramBytes, route.at, route.size)
      [] route.storage = "scratchpad" -> LocalRange(ScratchpadBytes, route.at, route.size)
      [] OTHER                        -> TRUE

(* Wrong variant: the backing store's size is not checked. *)
OperationByMapAlone(address, size, access, payload) ==
    LET route == Resolve(Map, address, size, access)
    IN  IF ~route.ok THEN [ok |-> FALSE, cause |-> AccessFault(access), value |-> address]
        ELSE [ok |-> TRUE,
              request |-> [kind |-> "memory", address |-> address, size |-> size, access |-> access,
                           storage |-> route.storage, payload |-> payload]]

(* memory_operation: a request, or the fault to raise at its address.       *)
MemoryOperation(address, size, access, payload) ==
    LET route == Resolve(Map, address, size, access)
    IN  IF ~route.ok \/ ~LocallyBacked(route)
        THEN [ok |-> FALSE, cause |-> AccessFault(access), value |-> address]
        ELSE [ok |-> TRUE,
              request |-> [kind |-> "memory", address |-> address, size |-> size, access |-> access,
                           storage |-> route.storage, payload |-> payload]]

(* local_range with alignment 1, the only one DMA asks for.                 *)
LocalBytes(address, size, write) ==
    LET route == Resolve(Map, address, size, IF write THEN "write" ELSE "read")
    IN  IF ~route.ok \/ route.storage # "scratchpad" \/ ~LocallyBacked(route)
        THEN [ok |-> FALSE, cause |-> IF write THEN 7 ELSE 5, value |-> address]
        ELSE [ok |-> TRUE, at |-> route.at]

PendingToken == IF pending = NoOperation THEN {} ELSE {pending.token}

(* Wrong variant: parcel and DMA state outlive the trap. *)
TrapKeepingParts(h, cause, value) ==
    /\ hart' = EnterTrap(h, FALSE, cause, value)
    /\ frame' = "none" /\ UNCHANGED <<firstParcel, dmaLocal>>
    /\ event' = "trap"

(* trap(): the instruction in flight is forgotten; h is the hart at entry.  *)
Trap(h, cause, value) ==
    /\ hart' = EnterTrap(h, FALSE, cause, value)
    /\ frame' = "none" /\ firstParcel' = FALSE /\ dmaLocal' = NoAddress
    /\ event' = "trap"

(* issue(): the one pending operation and its token.                        *)
IssueOperation(request, why) ==
    IF nextToken = MaxToken
    THEN event' = "error" /\ UNCHANGED <<pending, nextToken>>
    ELSE /\ pending' = [token |-> nextToken, pc |-> hart.pc, why |-> why, request |-> request]
         /\ nextToken' = nextToken + 1
         /\ event' = "pending"

(* retire_npu(): h is the hart the instruction's write is applied to.       *)
RetireNpu(h) ==
    /\ hart' = Commit(h, (h.pc + 8) % AddressSpace, TRUE)
    /\ frame' = "none"

-----------------------------------------------------------------------------
(* advance *)

CanAdvance == pending = NoOperation /\ started /\ ~stop /\ nextToken # MaxToken

(* Wrong variant: a first parcel is not seen as an instruction in flight. *)
NoFrame == frame = "none"

AtBoundary == frame = "none" /\ ~firstParcel

AdvanceRefused ==
    /\ ~CanAdvance
    /\ event' = IF pending = NoOperation /\ started /\ stop THEN "stopped" ELSE "error"
    /\ UNCHANGED <<hart, control, storage, started, broken, spent>>

(* An interrupt is taken, or (never, if the hart is idle) the poll fails.   *)
AdvanceInterrupt ==
    LET polled == PollInterrupt(hart)
    IN  /\ CanAdvance /\ AtBoundary
        /\ polled.event # "none"
        /\ hart' = polled.hart /\ event' = polled.event
        /\ UNCHANGED <<control, storage, started, broken, spent>>

AdvanceSleep ==
    LET polled == PollInterrupt(hart)
    IN  /\ CanAdvance /\ AtBoundary
        /\ polled.event = "none" /\ polled.hart.waiting
        /\ hart' = polled.hart /\ event' = "sleeping"
        /\ UNCHANGED <<control, storage, started, broken, spent>>

(* The fetch at address, h being the hart after the poll.                   *)
Fetch(h, address, why) ==
    LET made == MemoryOperation(address, 4, "execute", << >>)
    IN  /\ IF address > AddressSpace - 4
           THEN Trap(h, 1, address % AddressSpace) /\ UNCHANGED <<pending, nextToken>>
           ELSE IF ~made.ok
           THEN Trap(h, made.cause, made.value) /\ UNCHANGED <<pending, nextToken>>
           ELSE IssueOperation(made.request, why) /\ hart' = h /\ UNCHANGED <<frame, firstParcel, dmaLocal>>
        /\ UNCHANGED <<storage, started, broken, spent>>

AdvanceFetchFirst ==
    LET polled == PollInterrupt(hart)
    IN  /\ CanAdvance /\ AtBoundary
        /\ polled.event = "none" /\ ~polled.hart.waiting
        /\ Fetch(polled.hart, hart.pc, "fetch_first")

AdvanceFetchSecond ==
    /\ CanAdvance /\ frame = "none" /\ firstParcel
    /\ Fetch(hart, hart.pc + 4, "fetch_second")

-----------------------------------------------------------------------------
(* advance with a scalar word in the frame: issue_scalar and scalar_event *)

(* Wrong variant: the word stays in the frame. *)
ScalarFinishedKeepingFrame(returned) ==
    /\ hart' = returned.hart
    /\ event' = returned.event
    /\ broken' = (broken \/ returned.event = "error")
    /\ UNCHANGED <<frame, firstParcel, dmaLocal>>

(* scalar_event of an event the hart finished the instruction with, and of  *)
(* an absent event, which the code would dereference.                       *)
ScalarFinished(returned) ==
    /\ hart' = returned.hart
    /\ frame' = "none"
    /\ event' = returned.event
    /\ broken' = (broken \/ returned.event = "error")
    /\ UNCHANGED <<firstParcel, dmaLocal>>

ScalarRequest(e) ==
    IF e.kind = "fence" THEN [ok |-> TRUE, request |-> [kind |-> "fence"]]
    ELSE IF e.kind = "load" THEN MemoryOperation(e.address, e.width, "read", << >>)
    ELSE MemoryOperation(e.address, e.width, "write", e.payload)

AdvanceScalar(e) ==
    LET issued == Issue(hart, e)
        made == ScalarRequest(e)
    IN  /\ CanAdvance /\ frame = "scalar"
        /\ CASE issued.event = "error" ->
                    /\ event' = "error" /\ hart' = issued.hart
                    /\ UNCHANGED <<control, broken>>
             [] issued.event \in {"committed", "trap", "sleeping"} ->
                    /\ ScalarFinished(issued)
                    /\ UNCHANGED <<pending, nextToken>>
             [] issued.event = "pending" /\ ~made.ok ->
                    /\ ScalarFinished(Complete(issued.hart, issued.hart.pending.token,
                                               [kind |-> "fault", address |-> NoAddress]))
                    /\ UNCHANGED <<pending, nextToken>>
             [] issued.event = "pending" /\ made.ok ->
                    /\ IssueOperation(made.request, "scalar")
                    /\ hart' = issued.hart
                    /\ UNCHANGED <<frame, firstParcel, dmaLocal, broken>>
        /\ UNCHANGED <<storage, started, spent>>

-----------------------------------------------------------------------------
(* advance with a Holon word in the frame: issue_npu *)

ScratchpadSlice(at, size) == [i \in 1 .. size |-> scratchpad[at + i - 1]]

(* DLOAD moves system bytes to the scratchpad, DSTORE the other way; the    *)
(* local range is checked before the system one.                            *)
IssueDma(word) ==
    LET local == LocalBytes(word.local, word.count, word.load)
        made == IF word.load THEN MemoryOperation(word.system, word.count, "read", << >>)
                ELSE MemoryOperation(word.system, word.count, "write", ScratchpadSlice(local.at, word.count))
    IN  IF word.count = 0
        THEN RetireNpu(hart) /\ event' = "committed" /\ UNCHANGED <<pending, nextToken, firstParcel, dmaLocal>>
        ELSE IF ~local.ok
        THEN Trap(hart, local.cause, local.value) /\ UNCHANGED <<pending, nextToken>>
        ELSE IF ~made.ok
        THEN Trap(hart, made.cause, made.value) /\ UNCHANGED <<pending, nextToken>>
        ELSE IF made.request.storage # "system"
        THEN Trap(hart, IF word.load THEN 5 ELSE 7, word.system) /\ UNCHANGED <<pending, nextToken>>
        ELSE /\ dmaLocal' = local.at
             /\ IssueOperation(made.request, IF word.load THEN "dma_load" ELSE "dma_store")
             /\ UNCHANGED <<hart, frame, firstParcel>>

AdvanceHolon(word) ==
    /\ CanAdvance /\ frame = "holon"
    /\ CASE word.kind = "illegal" -> Trap(hart, 2, word.bits) /\ UNCHANGED <<pending, nextToken>>
         [] word.kind = "dma"     -> IssueDma(word)
         [] OTHER                 -> /\ IssueOperation([kind |-> "npu", operation |-> word], "npu")
                                     /\ UNCHANGED <<hart, frame, firstParcel, dmaLocal>>
    /\ UNCHANGED <<storage, started, broken, spent>>

-----------------------------------------------------------------------------
(* complete.  A result is [kind |-> "success"], [kind |-> "payload", bytes] *)
(* or [kind |-> "fault", address].                                          *)

IsMemory == pending.request.kind = "memory"
IsExternal == IsMemory /\ pending.request.storage = "system"

IsExternalRead == IsExternal /\ pending.request.access # "write"

Accepts(token, result) ==
    /\ pending # NoOperation
    /\ token = pending.token
    /\ IF result.kind = "fault"
       THEN /\ IsExternal
            /\ result.address # NoAddress =>
                 /\ result.address >= pending.request.address
                 /\ result.address < pending.request.address + pending.request.size
       ELSE IF IsExternalRead
       THEN result.kind = "payload" /\ Len(result.bytes) = pending.request.size
       ELSE result.kind = "success"

CompleteRefused(token, result) ==
    /\ ~Accepts(token, result)
    /\ event' = "error"
    /\ UNCHANGED <<hart, control, storage, started, broken, spent>>

Settle == pending' = NoOperation /\ spent' = spent \cup PendingToken /\ UNCHANGED <<nextToken, started>>

(* The map's own bounds check on a local transfer, std::unreachable on failure. *)
LocalRoute == Resolve(Map, pending.request.address, pending.request.size, pending.request.access)
LocalTransferFails ==
    /\ IsMemory /\ ~IsExternal
    /\ \/ ~LocalRoute.ok
       \/ ~LocallyBacked(LocalRoute)
       \/ LocalRoute.storage = "program" /\ pending.request.access = "write"

(* The bytes a read returns: the environment's for system storage, the      *)
(* scratchpad's, or any for the program store, whose image is arbitrary.    *)
ReadBytes(result) ==
    IF result.kind = "fault" \/ ~IsMemory \/ pending.request.access = "write" THEN {<< >>}
    ELSE IF IsExternal THEN {result.bytes}
    ELSE IF pending.request.storage = "scratchpad" /\ ~LocalTransferFails
    THEN {ScratchpadSlice(LocalRoute.at, pending.request.size)}
    ELSE {bytes \in Payloads : Len(bytes) = pending.request.size}

Patched(at, bytes) ==
    [i \in DOMAIN scratchpad |-> IF i - at + 1 \in DOMAIN bytes THEN bytes[i - at + 1] ELSE scratchpad[i]]

(* What a vector or tile store leaves: bytes maps the offsets it writes.    *)
Overlaid(bytes) == [i \in DOMAIN scratchpad |-> IF i \in DOMAIN bytes THEN bytes[i] ELSE scratchpad[i]]

(* The outcome of execute_npu, of which the frame's Holon word is a premise. *)
CompleteNpu(token, result) ==
    LET op == pending.request.operation
        wrote == IF op.kind = "write" THEN WriteRegister(hart, op.rd, op.value) ELSE hart
    IN  /\ Accepts(token, result) /\ pending.why = "npu"
        /\ broken' = (broken \/ frame # "holon")
        /\ IF op.kind = "fault"
           THEN Trap(hart, op.cause, op.value) /\ UNCHANGED storage
           ELSE /\ RetireNpu(wrote)
                /\ stop' = (stop \/ op.kind = "stop")
                /\ npu' = IF op.kind = "npu" THEN op.value ELSE npu
                /\ scratchpad' = IF op.kind = "store" THEN Overlaid(op.bytes) ELSE scratchpad
                /\ event' = IF stop' THEN "stopped" ELSE "committed"
                /\ UNCHANGED <<firstParcel, dmaLocal>>
        /\ Settle

(* Wrong variant: a completed load is only acknowledged. *)
FaultOrAcknowledged(result, bytes) ==
    IF result.kind = "fault" THEN result ELSE [kind |-> "acknowledged"]

(* What the machine tells the hart; a store to the scratchpad lands first.  *)
HartResult(result, bytes) ==
    IF result.kind = "fault" THEN result
    ELSE IF IsMemory /\ pending.request.access = "read" THEN [kind |-> "data", bytes |-> bytes]
    ELSE [kind |-> "acknowledged"]

CompleteScalar(token, result) ==
    /\ Accepts(token, result) /\ pending.why = "scalar"
    /\ \E bytes \in ReadBytes(result) :
        LET returned == Complete(hart, hart.pending.token, HartResult(result, bytes))
            absent == hart.pending = NoPending
        IN  /\ hart' = IF absent THEN hart ELSE returned.hart
            /\ event' = IF absent THEN "error" ELSE returned.event
            /\ broken' = (broken \/ LocalTransferFails \/ absent \/ returned.event = "error")
            /\ frame' = "none"
    /\ scratchpad' = IF IsMemory /\ ~IsExternal /\ pending.request.access = "write"
                     THEN Patched(LocalRoute.at, pending.request.payload) ELSE scratchpad
    /\ UNCHANGED <<firstParcel, dmaLocal, stop, npu>>
    /\ Settle

(* Wrong variant: a failing DMA load has delivered its first byte. *)
CompleteFaultPartly(token, result) ==
    /\ Accepts(token, result) /\ result.kind = "fault" /\ pending.why # "scalar"
    /\ Trap(hart, AccessFault(pending.request.access), pending.request.address)
    /\ scratchpad' = IF pending.why = "dma_load" THEN Patched(dmaLocal, <<1>>) ELSE scratchpad
    /\ UNCHANGED <<stop, npu, broken>>
    /\ Settle

(* A bus fault of a fetch or a DMA transfer.                                 *)
CompleteFault(token, result) ==
    /\ Accepts(token, result) /\ result.kind = "fault" /\ pending.why # "scalar"
    /\ Trap(hart, AccessFault(pending.request.access),
            IF result.address = NoAddress THEN pending.request.address ELSE result.address)
    /\ UNCHANGED <<storage, broken>>
    /\ Settle

CompleteDma(token, result) ==
    /\ Accepts(token, result) /\ result.kind # "fault" /\ pending.why \in {"dma_load", "dma_store"}
    /\ scratchpad' = IF pending.why = "dma_load" THEN Patched(dmaLocal, result.bytes) ELSE scratchpad
    /\ broken' = (broken \/ (pending.why = "dma_load" /\ dmaLocal = NoAddress))
    /\ dmaLocal' = NoAddress
    /\ RetireNpu(hart)
    /\ event' = "committed"
    /\ UNCHANGED <<firstParcel, stop, npu>>
    /\ Settle

(* The low two bits of a parcel, 11 for a scalar word.                       *)
IsScalarParcel(bytes) == bytes[1] % 4 = 3

CompleteFetch(token, result) ==
    /\ Accepts(token, result) /\ result.kind # "fault" /\ pending.why \in {"fetch_first", "fetch_second"}
    /\ \E bytes \in ReadBytes(result) :
        IF pending.why = "fetch_second" THEN frame' = "holon" /\ firstParcel' = FALSE
        ELSE IF IsScalarParcel(bytes) THEN frame' = "scalar" /\ UNCHANGED firstParcel
        ELSE firstParcel' = TRUE /\ UNCHANGED frame
    /\ broken' = (broken \/ LocalTransferFails \/ (pending.why = "fetch_second" /\ ~firstParcel))
    /\ event' = "progress"
    /\ UNCHANGED <<hart, dmaLocal, storage>>
    /\ Settle

-----------------------------------------------------------------------------
(* reset and boot *)

ClearedScratchpad == [i \in 0 .. ScratchpadBytes - 1 |-> 0]

(* Wrong variant: reset starts the tokens over. *)
ClearedWithTokens ==
    /\ pending' = NoOperation /\ spent' = spent \cup PendingToken
    /\ frame' = "none" /\ firstParcel' = FALSE /\ dmaLocal' = NoAddress /\ stop' = FALSE
    /\ npu' = 0 /\ nextToken' = 1

Cleared ==
    /\ pending' = NoOperation /\ spent' = spent \cup PendingToken
    /\ frame' = "none" /\ firstParcel' = FALSE /\ dmaLocal' = NoAddress /\ stop' = FALSE
    /\ npu' = 0
    /\ UNCHANGED nextToken

MachineReset ==
    /\ hart' = Reset(hart)
    /\ scratchpad' = ClearedScratchpad
    /\ Cleared
    /\ started' = FALSE
    /\ event' = "none"
    /\ UNCHANGED broken

(* A boot request: a raw program [kind |-> "raw", base, size, entry], or an *)
(* ELF image parse accepted [kind |-> "elf", entry, scratchpad, loads],     *)
(* loads saying whether its segments all find a destination.                *)
RawFits(image) ==
    LET route == Resolve(Map, image.base, image.size, "execute")
    IN  route.ok /\ route.storage = "program" /\ LocallyBacked(route)

Bootable(image) ==
    /\ pending = NoOperation
    /\ IF image.kind = "raw"
       THEN /\ image.size # 0 /\ image.size % 4 = 0 /\ image.entry % 4 = 0
            /\ image.entry >= image.base /\ image.entry + 4 <= image.base + image.size
            /\ RawFits(image)
       ELSE image.loads

BootRefused(image) ==
    /\ ~Bootable(image)
    /\ event' = "error"
    /\ UNCHANGED <<hart, control, storage, started, broken, spent>>

Boot(image) ==
    LET begun == Start(Reset(hart), image.entry)
    IN  /\ Bootable(image)
        /\ hart' = begun.hart
        /\ broken' = (broken \/ begun.event = "error")
        /\ scratchpad' = IF image.kind = "elf" THEN image.scratchpad ELSE ClearedScratchpad
        /\ Cleared
        /\ started' = TRUE
        /\ event' = "none"

DriveLines(lines) ==
    /\ hart' = SetInterrupts(hart, lines)
    /\ event' = "none"
    /\ UNCHANGED <<control, storage, started, broken, spent>>

Account(elapsed) ==
    /\ hart' = AccountCycles(hart, elapsed)
    /\ event' = "none"
    /\ UNCHANGED <<control, storage, started, broken, spent>>

-----------------------------------------------------------------------------
Init ==
    /\ hart = Reset([nextToken |-> 1])
    /\ pending = NoOperation /\ frame = "none" /\ firstParcel = FALSE
    /\ dmaLocal = NoAddress /\ stop = FALSE
    /\ nextToken = 1 /\ started = FALSE
    /\ scratchpad = ClearedScratchpad /\ npu = 0
    /\ event = "none" /\ broken = FALSE /\ spent = {}

Advance ==
    \/ AdvanceInterrupt
    \/ AdvanceSleep
    \/ AdvanceFetchFirst
    \/ AdvanceFetchSecond
    \/ \E e \in Repertoire : AdvanceScalar(e)
    \/ \E word \in HolonWords : AdvanceHolon(word)

Results == {[kind |-> "success"]}
             \cup {[kind |-> "payload", bytes |-> b] : b \in Payloads}
             \cup {[kind |-> "fault", address |-> a] : a \in FaultAddresses}

Completion(token, result) ==
    \/ CompleteNpu(token, result)
    \/ CompleteScalar(token, result)
    \/ CompleteFault(token, result)
    \/ CompleteDma(token, result)
    \/ CompleteFetch(token, result)

Environment ==
    \/ MachineReset
    \/ \E image \in Images : Boot(image) \/ BootRefused(image)
    \/ \E lines \in LineSets : DriveLines(lines)
    \/ \E elapsed \in Elapsed : Account(elapsed)

Next ==
    \/ Advance
    \/ AdvanceRefused
    \/ \E token \in 1 .. nextToken, result \in Results :
          Completion(token, result) \/ CompleteRefused(token, result)
    \/ Environment

Spec == Init /\ [][Next]_vars

-----------------------------------------------------------------------------
(* Safety *)

(* The hart defers an effect exactly while the machine holds the scalar     *)
(* operation that stands for it, of the same place and direction: every     *)
(* result the machine accepts is one the hart accepts.                      *)
HandshakeAgrees ==
    /\ hart.pending # NoPending <=> pending # NoOperation /\ pending.why = "scalar"
    /\ hart.pending # NoPending =>
        LET e == hart.pending.request
        IN  IF e.kind = "fence" THEN pending.request.kind = "fence"
            ELSE /\ IsMemory
                 /\ pending.request.address = e.address /\ pending.request.size = e.width
                 /\ pending.request.access = IF e.kind = "load" THEN "read" ELSE "write"

(* The fetch and DMA scratch state is exactly what the purpose of the       *)
(* pending operation needs, and empty between instructions; the operation   *)
(* belongs to the instruction at pc.                                        *)
PhaseAgrees ==
    /\ frame # "none" => ~firstParcel
    /\ dmaLocal # NoAddress <=> pending # NoOperation /\ pending.why \in {"dma_load", "dma_store"}
    /\ pending # NoOperation =>
        /\ started /\ ~stop
        /\ pending.pc = hart.pc
        /\ firstParcel <=> pending.why = "fetch_second"
        /\ frame = CASE pending.why \in {"fetch_first", "fetch_second"} -> "none"
                     [] pending.why = "scalar" -> "scalar"
                     [] OTHER -> "holon"

(* A machine waiting after WFI, stopped or not booted holds no instruction: *)
(* nothing fetched earlier can execute when it resumes.                     *)
IdleHoldsNothing ==
    hart.waiting \/ stop \/ ~started => pending = NoOperation /\ AtBoundary

(* A token names one operation for ever, across resets and boots, so a late *)
(* completion never finishes newer work; and the hart cannot run out of     *)
(* tokens before the machine reports that it has: a fetched scalar word     *)
(* finds one more in the machine's supply, the one its fetch took.          *)
TokensNameOneOperation ==
    /\ pending # NoOperation => pending.token < nextToken /\ pending.token \notin spent
    /\ \A t \in spent : t < nextToken
    /\ hart.nextToken <= nextToken
    /\ pending # NoOperation \/ frame = "scalar" => hart.nextToken < nextToken

(* What the environment is asked for can be served: a memory request still  *)
(* routes to the storage it was issued for, within what backs it, and a     *)
(* write carries exactly its bytes.  The purpose decides the kind of        *)
(* request, and for fetches and DMA also its direction and storage.         *)
Servable(operation) ==
    LET r == operation.request
        why == operation.why
        route == Resolve(Map, r.address, r.size, r.access)
    IN  /\ r.kind = CASE why = "npu" -> "npu"
                       [] why = "scalar" /\ r.kind = "fence" -> "fence"
                       [] OTHER -> "memory"
        /\ r.kind = "memory" =>
            /\ route.ok /\ route.storage = r.storage /\ LocallyBacked(route)
            /\ r.access = "write" => Len(r.payload) = r.size
            /\ why \in {"fetch_first", "fetch_second"} => r.access = "execute" /\ r.size = 4
            /\ why = "dma_load" => r.access = "read" /\ r.storage = "system"
            /\ why = "dma_store" => r.access = "write" /\ r.storage = "system"
            /\ why = "scalar" => r.access # "execute"

(* No call reaches std::unreachable, reads an absent optional, executes an  *)
(* NPU operation without its word, or drops a result the hart refused;      *)
(* every register, store and token keeps its range, x0 its zero, and every  *)
(* address execution may continue at its alignment.                         *)
NothingUndefined == ~broken /\ TypeOK /\ OnBoundaries(hart) /\ hart.registers[0] = 0

(* While an instruction is in flight pc stays where it was fetched, so a    *)
(* word executes at its own address or not at all.                          *)
InFlight == pending # NoOperation \/ ~AtBoundary

PcHeldInFlight == InFlight /\ InFlight' => hart'.pc = hart.pc

(* An interrupt is taken between instructions or before a fetched scalar    *)
(* word issues, never inside a Holon instruction or under an operation; and *)
(* pc moves at no other time than an instruction's end.                     *)
InterruptsBetweenInstructions ==
    [][/\ PcHeldInFlight
       /\ event' = "trap" /\ hart'.csr.interrupt =>
             pending = NoOperation /\ ~firstParcel /\ frame # "holon"]_vars

(* What complete accepts, the hart accepts and the stores can serve: two     *)
(* layers validate one completion and neither has to trust the other        *)
(* (program_machine::complete over hart_state::complete).                   *)
CompletionsAgree ==
    /\ HandshakeAgrees
    /\ pending # NoOperation => Servable(pending)
    /\ NothingUndefined

(* No scratch state outlives its purpose: neither inside an instruction nor  *)
(* past its end, where a wait, a stop or a boot follows (frame_, first_,     *)
(* dma_ and pending_ of program_machine).                                   *)
NothingIsStale == PhaseAgrees /\ IdleHoldsNothing

(* The machine implements the processor that takes one instruction or trap  *)
(* at a time: parcels, tokens and completions in any order are invisible.   *)
Precise == INSTANCE PreciseCore WITH
    RetireLimit <- Half * Half,
    MemoryStates <- [scratchpad : ScratchpadContents, npu : Nat],
    mode <- IF ~started THEN "off" ELSE IF stop THEN "stopped"
            ELSE IF hart.waiting THEN "waiting" ELSE "running",
    pc <- hart.pc,
    registers <- hart.registers,
    retired <- hart.retired,
    csr <- [hart.csr EXCEPT !.mip = {}],
    lines <- hart.csr.mip,
    memory <- [scratchpad |-> scratchpad, npu |-> npu]

ImplementsPreciseCore == Precise!Spec

-----------------------------------------------------------------------------
(* Liveness *)

(* An instruction that was started retires, traps or is reset away, unless  *)
(* the last token was issued in the middle of it.                           *)
InstructionsFinish == InFlight ~> (~InFlight \/ nextToken = MaxToken)
=============================================================================
