# A verification model of the HolonNPU simulator

HolonNPU is an instruction-set simulator: an RV32IM machine-mode hart with an NPU
instruction extension, and the execution environment that runs guest programs on it.
The core is deterministic sequential C++ (`sim/semantic`), but it is driven from outside
one call at a time: every memory access and NPU operation is handed to the environment
as a *pending operation* with a token, and committed when the environment completes it.
Between any two calls the environment may raise interrupts, reset, boot, or complete with
a stale token or an unsuitable result. The order of those calls, and what each instruction
does inside one, is what these models explore; paths below are relative to `sim/semantic/`
unless they say otherwise.

## 1. The system

| component | state | operations | interaction |
|---|---|---|---|
| physical memory map (`holon_npu_memory`) | a validated region table | `create`, `resolve`, `read`, `write` | used by machine and loader for every access; bindings name the bytes |
| hart (`holon_npu_hart`) | 32 registers, pc, machine CSRs, `retired`/`cycle`/`instret`, WFI flag, at most one pending effect, `next_token_` | `reset`, `start`, `issue`, `complete`, `poll_interrupt`, `fetch_fault`, `set_interrupts`, `account_cycles` | embedded in the machine, which also calls its private `commit`, `write_register`, `enter_trap` |
| scalar evaluation (`holon_npu_scalar`) | none | `evaluate`, `complete_load` | a word and two operands to one typed effect, or a trap |
| program machine (`holon_npu_semantic`) | hart, map, program and scratchpad stores, vector/predicate/view/tile state, `pending_`, `frame_`, `first_parcel_`, `dma_local_`, `stop_`, `started_`, `next_token_` | `reset`, `boot` (ELF and raw), `advance`, `complete`, `set_interrupts`, `account_cycles` | the only program executor; the environment calls `advance` and `complete` |
| NPU execution (`holon_npu_npu`) | the machine's vectors, predicates, views, tiles and scratchpad | `execute_npu`, `describe_npu` | inside `complete` of an NPU operation; the footprint when it is issued |
| execution environment (`holon_npu_execution`) | a budget, a trap count | `run_program`, `service_operation`, `service_scalar`, `fetch_instruction` | completes every pending operation at once from a view of system memory |
| ELF loader (`holon_npu_elf`) | a parsed image | `parse`, `load` | `boot` |
| instruction codec (`holon_npu_instruction`, generated metadata) | none | `fetch`, `decode_*`, `encode_holon`, `disassemble` | parcels to words to operands |
| program builder (`include`, `sw`) | a byte vector | `emit`, `npu`, `li`, `addi` | builds guests for tests |
| tools (`tools/*.py`, `spec/`) | files | generation and repository checks | build time |

What is hard here: an instruction takes several calls (one or two fetches, the issue, a
completion), so a trap, an interrupt, a reset or a refusal can fall between its parts; two
state machines (machine and hart) each keep a token counter and a pending effect and must
stay in step, since the machine dereferences what the hart returns and treats disagreement
as unreachable; completions may be late, repeated or of the wrong kind; faults may arrive
after bytes have moved, or at a late lane of a vector; destinations alias sources; counters,
addresses, lengths and types have widths that meet at boundaries. `PROJECT.json` lists these
hazards at their lines.

What makes each part correct: the map accepts exactly the disjoint, in-range tables and moves
exactly the bytes named; the hart traps precisely, freezes while an effect is pending, and
never reuses a token; the machine behaves as a processor that executes one instruction or
trap at a time, whatever the calls in between; every scalar, vector and matrix instruction
computes what its definition says, whole or not at all; encoder and decoder are inverse; a
run ends, within its budget, between instructions.

## 2. Modules

    PhysicalMap ── MemoryTransfers                       map alone, and its transfers
        ├── ElfLoader                                    files, images, loads and boots
        ├── NpuData ┬─ VectorUnit                        execute_npu: vectors and predicates
        │           └─ MatrixUnit                        execute_npu: views and tiles
        │                 both implement NpuContract     what the machine relies on
        └── Hart ┬─ HartCalls                            hart alone
                 ├─ ScalarUnit ── DirectScalar           evaluate, and a hart with its memory
                 └─ Machine ── Runner                    the executor, and its environment
                       both (Machine, DirectScalar) implement PreciseCore

    MapProofs   (sorting, create, resolve)               over PhysicalMap
        ├── MemoryProofs                                 over MemoryTransfers
        ├── ElfProofs                                    over ElfLoader
        ├── VectorProofs                                 over VectorUnit
        ├── MatrixProofs                                 over MatrixUnit
        └── MachineProofs                                over Machine, and Runner
    HartProofs  (each hart_state method) ┴─ HartCallsProofs   over Hart, HartCalls

    InstructionTables ── Instruction ── Builder          the codec and the program builder

`PhysicalMap`, `Hart` and `NpuData` hold operators from state to state, as the C++ methods
are, so that `HartCalls` (arbitrary calls), `Machine`, `Runner` and the rest compose the same
definitions in the order the code calls them. `MC*` modules only name constants for the
`.cfg` files. An operator marked *wrong variant* stands beside a definition and differs from
it as a plausible mistake in that code would; no specification uses one. They show that a
property can fail (`PROJECT.json`, "mutants").

**PhysicalMap** translates `physical_map::create` (sort, then the checks of the loop in their
order), `resolve` (first region containing the address, then size, then permission) and
`system_memory_view::range`. **MemoryTransfers** adds the bindings: `Read` and `Write` are
`physical_map::read`/`write` with the bounds checks against bindings shorter than their
regions, and `Bind` the view a caller passes with the next transfer. The system space is the
square of the physical one, as 2^64 is of 2^32, so a view can sit at its very end.

**ElfLoader** translates `image::parse` (each check in its order, with its error), `attributes`
and `supported_arch` over the fields of a profile, and `image::load` (a destination for every
segment first, then the copies and zero fills in order). A file is the fields of its headers;
a byte is named by its offset in the file, since no copy depends on its value. `BootImage` is
what `program_machine::boot` does with memory: new zeroed local stores, the caller's system
memory in place, adopted together if the load succeeds. `Machine` takes an image by its entry,
scratchpad and outcome; `BootsAreClean` shows the entry it may assume. `WellFormed` is the
reference: files as sets of offsets and addresses, fields as a set, nothing sorted.

**Hart** keeps `hart_state` as one record. `registers`, `pc`, `retired`, `cycle`, `instret`,
`nextToken`, `waiting`, `pending` are the members; `csr` is the CSR file by its meaningful
fields (`mstatus` is `mieBit`/`mpieBit`, `mtvec` is `base`/`vectored`, `mcause` is
`interrupt`/`code`), with `ReadCsr` and `WriteCsr` converting to and from words as
`read_csr`/`write_csr` do. A word is represented by the effect `evaluate` makes of it; a CSR
effect carries the value its action computed. Each method is an operator of the same name
returning `[event, hart]`; `"error"` stands for any `hart_error`. Counters have two
halves of `Half` values, bytes `ByteValues` values, and tokens end at `MaxToken`, so that
wrapping, sign extension and exhaustion happen in small instances. **HartCalls** offers every
public call in every state; `spent` records the tokens whose effect is gone.

**ScalarUnit** is `scalar::evaluate`: every opcode from its decoded fields and the values of
its sources, on words of four bytes of any size, and `EffectOf`, what `hart_state::issue`
commits of it. **DirectScalar** drives a hart without a machine, over the map's three
bindings: `Run` fetches (`fetch_instruction`) and issues or reports the fetch fault, `Service`
is `service_scalar`. Any word of the running program may be found at any address; `executed`
remembers it, so that the properties can relate a completed load to its sources. Only tests
call these functions, so the driver's loop (issue, service, poll while waiting, report fetch
faults) is taken from them. At the last word of the address space the two fetch paths differ:
`fetch_instruction` reports a Holon word there at its own pc (`holon_npu_execution.cpp:21`),
`program_machine::advance` at address zero, where the second parcel would be
(`holon_npu_semantic.cpp:115`); both are modelled as they are.

**Machine** keeps `program_machine`'s members under their names. The disjuncts of `Advance`
are the exits of `advance` (an interrupt, a wait, a first or second fetch, a scalar
word, a Holon word); those of `Completion` are the exits of `complete`; refusals are steps
of their own that only report. `broken` records that `std::unreachable`, an absent optional
or an unchecked `std::expected` error was reached. A parcel is arbitrary but for the two bits
that frame it, and the word in `frame` is chosen when it issues: the program store's
contents are arbitrary, so every program over the repertoire is explored at once, including
ones whose words differ each time they are fetched. `execute_npu` is one outcome: a fault
before any effect, STOP, a scalar result, new register/tile state (`npu`), or stored bytes.

**NpuContract** states that assumption as a specification of one instruction (`Step`): a
fault changes nothing and names a listed cause, and otherwise memory or registers change,
never both. **VectorUnit** and **MatrixUnit** are `execute_npu` itself, in the order of the
code: the preflight of every active address (`Checks`), the result from captured sources, the
effect; `ExecuteNpu` performs one instruction of a repertoire. A vector is its bytes, a type
is its width and sign in **NpuData** (`LocalAddress` is `program_machine::local_range`; `Held`,
which the properties judge it by, says that one region of the table has every byte of the
access, backed, and allows its kind), and a tile is its elements. `Footprint` is `describe_npu`. What binary32 arithmetic computes is
the constant `Float`; the instances pass a function that tells its operands and their order
apart, which is all the properties about it ask.

**PreciseCore** is the abstract processor: `Retire`, `TakeTrap`, `TakeInterrupt`, `Wake`,
`DriveLines`, `Restart`. It has no parcels, tokens or pending operations. `Machine` is
checked to implement it under the mapping at `Precise` (mode from `started`, `stop` and
WFI; the rest are the machine's own values), `DirectScalar` to take only its steps.

**Runner** adds the system memory view and the `run_program` call in progress; `Iterate` is
one turn of its loop, `Conclude` the tests on the event that follow in the same turn.

**InstructionTables** holds both opcode tables of the generated metadata as rows, a word
being the set of its one bits. **Instruction** is `fetch`, `decode_scalar`, `decode_holon` and
`encode_holon` over them, at the code's own widths. **Builder** is `program_builder`: calls
append words or throw, `log` remembers what was accepted, and `Read` walks the image frame by
frame while it grows.

## 3. What is checked

| run | question | bounds |
|---|---|---|
| `memory` | does `create` accept exactly the valid tables, does an access get exactly what one region and the view cover, do transfers move exactly the bytes they name | one- and two-region tables at 4 bases and 7 sizes, 3 storages, 3 permission sets, 12-byte space; transfers of 0-3 bytes through one unsorted 4-region table, bindings shorter than regions, 4 views of which two at the end of the 144 system addresses |
| `elf_parse` | does `parse` accept exactly the well-formed files | 46,537 files in six families, 8-byte space, 12-byte files, headers of one byte each, reserved counts at 3 sections and 4 program headers |
| `elf_load` | do load and boot place all of an image or nothing, with no residue and a fetchable entry | two segments, the second at 16 addresses, with and without zero tails; two maps (regions larger than stores, read-only, executable and system code), a full and a short view, any sequence |
| `hart` | is the hart precise, frozen while pending, aligned and fresh under any calls | 16-byte space, 2 registers, tokens 1-2 of `MaxToken` 3, three input patterns, results of right and wrong kind |
| `scalar` | does every scalar instruction compute, access and write what it should, and is it whole | words of 8 bits (four 2-bit bytes), 14 edge values for each operand, all opcodes; accesses from 9 bases by 5 displacements, two in a row; control programs of three words; a 6-byte scratchpad binding in an 8-byte region, system memory up to the last address |
| `machine_scalar` | scalar programs: handshake, precision, interrupts, waits | 32-byte map with a hole and short bindings, 11 effects, bus faults at first/inner/no address, `MaxToken` 7 |
| `machine_holon` | Holon programs: DMA, NPU outcomes, stop, reset, boots | same map, 12 Holon words and 3 effects, 6 boot requests, `MaxToken` 9 |
| `runner` | does a run return in budget, between instructions, with acceptable answers, and do instructions finish | budgets 1 and 3, 3x3-valued counter, `MaxToken` 7 |
| `vector` | is every vector and predicate instruction whole, exact, masked and in order | one instruction from each of the offered states; 8-byte vectors (eight u8, four 16-bit or two 32-bit lanes, scaled), 2 vector and 2 predicate registers, 8 bytes behind a 12-byte scratchpad region |
| `matrix` | do tiles fit, move in place and multiply exactly | one instruction; shapes up to 3x3 and 16 bytes, strides -2..4, three tile registers, every aliasing |
| `codec` | do encoder and decoder accept exactly each other's words | full 32- and 64-bit words, one call; every opcode, each operand through its boundaries on three backgrounds; every pattern's least and greatest word with each bit flipped |
| `program_stream` | is what was built what is read, at any address, whatever calls were refused | up to 3 calls from a menu of both widths, 4 placements in a 32-byte space |

What the properties say is stated above each of them. Those that name several obligations
are conjunctions of definitions that can be read one by one: `CompletionsAgree` (machine and
hart hold the same request, it still routes to backed bytes of the storage it was issued for,
and nothing undefined is reached), `NothingUndefined` (no `std::unreachable`, absent optional
or unchecked refusal; every register, store and token in range, x0 zero, addresses aligned),
`NothingIsStale` (the parts of an instruction held agree with the phase, and an idle machine
holds none), `TokensNameOneOperation` (no token twice, and the hart's supply never behind the
machine's), `ReportsAreTrue`
(budget kept, runs end between instructions, `waiting` only when nothing enabled is raised),
`AccessesAreExact` (in `VectorUnit`: accesses inside the scratchpad, the first bad lane named;
in `DirectScalar`: fetches, loads and stores), `LanesAreExact` (loop masks, high products,
conversions, packed predicates), `LengthsAgree` (granted lengths, announced traffic),
`ProductsAreExact` (value, order, announced work), `CallsEncodeExactly` and
`WordsDecodeExactly` (accepted exactly when in domain; read back; one pattern), and
`ImagesReadWhole` (frames whole, in the order of the log, refused calls invisible).

Why the bounds are enough to mean something: token bounds let several instructions run one
after another, exhaust the counter in the middle of one, and leave stale tokens behind; the
address spaces are the least in which a region is larger than its backing, an access
straddles two regions, an instruction ends the space and vectored handlers differ from the
base; two registers distinguish x0; counters of two-valued halves wrap and carry within
three instructions. Two-bit bytes keep what matters of a width: a sign bit, types of one, two
and four bytes, shifts modulo the word, an overflowing quotient, addresses that wrap where an
index or a displacement crosses the end. One NPU instruction at a time is enough because the
initial states vary over what an earlier one could leave, and the properties are about one
step. Every property has a mutant of a mapped definition (`PROJECT.json`) that violates it.
Deadlock is checked but where a specification ends by itself: `memory` (nothing follows a
table that is only validated), `elf_parse` (one call), `scalar` (the end of its program),
`vector` and `matrix` (one instruction), `codec` and `program_stream` (the bounded number of
calls).

Fairness. Only `runner` assumes any. `run_program` is a sequential loop: it calls
`service_operation` when an operation is pending and `advance` otherwise
(`holon_npu_execution.cpp:74`), hence weak fairness of the loop's next turn and of nothing
else. Interrupt lines, reset, boot and another call of `run_program` are never promised, and
`InstructionsFinish` is about the turns of a run: it excepts the moment the last token is
issued, where the code reports `token_exhausted` and can do nothing more.

No run refutes a statement of the repository's documents or comments so far.

## 4. What is proved

Every theorem holds for every value of its module's constants that meets the module's named
assumptions, and TLC evaluates each assumption in the runs of that module. The code's own
values (2^32 addresses, 32 registers, 256 byte values, counters of two 32-bit halves,
2^64 - 1 tokens) satisfy them.

| module | theorem | statement |
|---|---|---|
| `HartCallsProofs` | `TypeCorrect`, `AlignmentHolds`, `TokensHold` | `Spec => []TypeOK`, `[]AlwaysAligned`, `[]TokensNameOneEffect` |
| | `TrapPrecision`, `PendingFreezes` | `Spec => TrapsArePrecise`, `PendingFreezesArchitecture` |
| | `TrapReturn` | `Spec => []ReturnUndoesTrap` |
| `MachineProofs` | `CompletionsAgreeHolds`, `NothingIsStaleHolds`, `TokensHold`, `NothingUndefinedHolds` | `Spec => []` of each |
| | `InterruptsTheorem` | `Spec => InterruptsBetweenInstructions` |
| | `MachineImplementsPreciseCore` | `Spec => ImplementsPreciseCore` |
| | `ReportsAreTrueHolds`, `ServiceIsAcceptedHolds` | `RunnerSpec => ReportsAreTrue`, `RunnerSpec => ServiceIsAccepted` |
| `MemoryProofs` | `CreateAcceptsHolds`, `RoutesAreExactHolds` | `Spec => []CreateAcceptsExactlyValidTables`, `[]RoutesAreExact` |
| | `TransfersAreExactHolds` | `Spec => TransfersAreExact` |
| `ElfProofs` | `ParseAcceptsHolds` | `Spec => []ParseAcceptsExactlyWellFormedFiles` |
| | `BootsAreCleanHolds` | `Spec => []BootsAreClean` |
| | `LoadIsExactOrNothingHolds` | `Spec => LoadIsExactOrNothing` |
| `VectorProofs` | `TypesHold` | `Spec => []TypeOK` |
| | `VectorImplementsContract` | `Spec => ImplementsContract` |
| | `SourcesBeforeWrites` | `Spec => SourcesAreCaptured` |
| | `AccessesJudgedExactly` | `Spec => AccessesAreExact` |
| | `LanesTakeTurns` | `Spec => LanesGoInOrder` |
| | `MaskedLanesAreSilent` | `Spec => InactiveLanesAreSilent` |
| | `AnnouncedAndGranted` | `Spec => LengthsAgree` |
| | `LanesExact` | `Spec => LanesAreExact` |
| `MatrixProofs` | `TilesAlwaysFit` | `Spec => []TilesFit` |
| | `MatrixImplementsContract` | `Spec => ImplementsContract` |
| | `TilesMoveInPlace` | `Spec => TransfersFollowTheView` |
| | `ProductsAreAlwaysExact` | `Spec => ProductsAreExact` |

`HartCallsProofs` and `MachineProofs` also list their inductive invariants (`Invariance`,
`InvHolds`).

The assumptions: `AddressSpaceAssumption` (a multiple of four) everywhere; `HartAssumption`
(register file, bytes, halves) with a hart; `RepertoireAssumption` and
`EnvironmentAssumption` type what `HartCalls` is offered. `MachineAssumption` says that the
region table is one `create` accepts (the constructor takes nothing else), that the words,
effects, payloads and line sets offered are of their types, and that an ELF image has an
aligned entry, which is what `BootsAreClean` shows of the loader. `RunnerAssumption` types the
view and the budgets and says that a counter half has more than one value, without which a
retirement would not show in the counter `run_program` compares. `ViewsAssumption` and
`TransfersAssumption` type views and payloads. `LoaderAssumption` says what the fields of a
file can hold (`IsFile`: sequences of headers with numbers in them), not that a file is well
formed, and `FamiliesAreFiles` has TLC evaluate it on every file of the parse families.
`NpuDataAssumption` has bytes of at least one bit and words of four of them;
`VectorAssumption` and `MatrixAssumption` give the capacities and say that the instructions
offered have operands of their encodings (registers, types of the opcode, words) and that the
first state is typed. Two kinds say what the provers have no definition for.
`PowersAssumption` gives the powers of two by their recurrence as far as a word goes, since
the provers know no exponents. `FusedAssumption` and `FloatAssumption` say that a binary32
result is a word, and nothing else of what it is.

**The hart alone.** The invariant is `TypeOK /\ AlwaysAligned /\ TokensNameOneEffect`.
Neither of the last two is inductive without types; alignment must cover `mepc`, the vector
base and the successor saved with a pending effect, because pc is loaded from each of them;
and token freshness rests on "every spent token is below `nextToken`", which is why that
conjunct is part of the property. `HartProofs` proves about each operator, in isolation, what
it preserves: its type (`...Type`), the boundaries (`...Aligned`), what becomes of the
pending effect (`EffectStep`), and the form the call has to an observer (`TookTrap`,
`Retired`, `Deferred`, ...). `HartCallsProofs` gathers those for a call (`Sound`), and the
action properties follow from `Exact`, what a call may not change.

**The map.** `create` sorts, and its loop compares each region with the one before it.
`SortingOrderExists` shows that some order sorts any keys, so the `CHOOSE` that stands for
`ranges::sort` denotes one; `CreatedMapIsValid` that what passes the loop is a valid map; and
`RegionsDisjoint` that a check of neighbours in sorted order separates every two regions.
`ResolvedIn` then says of any access that starts in region *i* exactly when `resolve` grants
it and what the route is. The converse, that `create` refuses only invalid tables, is
`CreateIsExact` in `MemoryProofs`: a failed check in the sorted table names two regions, or
one, of the table as given. The transfer theorem needs one more fact, that two addresses of
a map never share a stored byte: locals have one region each (`LocalsAreUnique`), and system
bytes keep their address.

**The machine.** The invariant is
`CompletionsAgree /\ NothingIsStale /\ TokensNameOneOperation`, and none of the three is
inductive alone: what `complete` may accept depends on the phase (`PhaseAgrees`), the phase on
the operation held, and issuing on the hart's supply of tokens. That last dependence is worth
stating. `advance` checks its own counter for exhaustion, never the hart's; were the hart to
run out first, `issue_scalar` would report `invalid_state` and the fetched word could never
execute. That cannot happen, because the hart has always taken no more tokens than the
machine, and *strictly* fewer while a fetched scalar word waits. The last two conjuncts of
`TokensNameOneOperation` say so, and without them the invariant is not inductive. Likewise
`Servable`: the completion of a read dereferences the bytes of its route, so the request must
still be one the stores can serve.

**The refinement.** The proof first classifies: with the invariant, every step of the machine has one of six forms to an observer of the architectural state (`Observed`:
nothing, trap, interrupt, retire, input lines, restart). Each form is then shown to be a step
of `PreciseCore` or a stutter, and `InterruptsBetweenInstructions` follows from the same
forms. The classification is where the whole handshake is used: that a trap or a retirement
leaves nothing in flight, and that a Holon instruction that stops, stores or computes retires
exactly once. The forms of one call (`Execution`) are kept apart from the environment's
steps, because `Runner` executes the same calls.

**The direct environment.** `Runner` performs `advance` and `complete` as functions, with the
answers `service_operation` makes from the view, which are not among the `Results` that
`Machine` offers. The machine's lemmas are therefore stated for every result of the right
types (`LegalResults`), and serve both specifications. The invariant is `RunnerInv`: the
machine's own; the types of the view and the run; the budget kept by the retirements counted
so far, which are a difference of counters that may wrap; a run under way has no reason to
end yet; and between runs, after a stop or at the end of the budget nothing is in flight,
unless the tokens ran out in the middle of an instruction. The
argument has three parts. `ServiceAccepted`: the answer to a pending operation is one
`complete` accepts, because `Servable` keeps the request within bytes that exist.
`RetirementUsesOne` and `IterateUses`: a turn uses at most one unit of the budget, on either
side of the wrap, and only at an instruction's end, by `Execution`. `ServicedWriteRetires`: a write into
the view and the retirement of the store or DMA that made it are one step.

**The loader.** Of `parse`, first: it returns the error of the first check that fails, so it
accepts exactly when none does, and each check is shown to be the clause of `WellFormed` it
stands for. A comparison written to avoid overflow is the containment of a range
(`TablesPass`, `HeadersMatch`); the congruence of address and offset is one of quotients
(`QuotientIsUnique`). The profile is read in order, each field against those before it, and
`ProfilePasses` shows this to be a condition on the set of its fields; that the code finds one
profile where the reference counts one is `ProfileFound`. The plan is a sorted copy of the
loadable headers whose neighbours must not overlap; the reference sorts nothing. `PlacesExist`
gives each header its place in the plan, and ascending neighbours make every two segments
disjoint and conversely (`PlanPasses`). This proof showed that the model had left out the
reserved counts of sections and program headers, which `parse` refuses; they are now in it.

Of `load`: `ParsedImageIsGood` shows that an accepted file's segments are non-empty,
inside the file and the address space, and ascend without overlap. `DestinationExact` shows
that a destination exists exactly when one region hosts the segment, and is that region's
bytes (`Hosts`: all the segment's addresses, all the kinds it asks for, every byte backed).
`CoversOnce`, from the disjointness of segments and of regions, says no two segments write
one cell; so the copies and zero fills of the plan, carried out one after another, leave in
each cell what its one segment says (`FilledAllCells`). The invariant of `ElfProofs` keeps
what the last load placed (`LastLoad`), from which residue and the fetchable entry follow.

**Bytes and elements.** Both NPU proofs rest on the same lemmas about `NpuData`. The numbers
of a byte, an element and a word are powers of two, each dividing the next (`ModulusFacts`); a
read is determined by its bytes and is of its width (`ReadBytesFacts`), and the bytes of a
word are its digits (`LittleDigits`). `LocalAddressExact` says that the check passes exactly
for elements that are `Held`, and `FirstFaultIsFirst` that the failure reported is that of the
lowest lane. Proving the first of these showed
that `Held` has to ask the region's permission, as `resolve` does, and that the packed-mask
property has to ask for a scratchpad region that can be read.

**Vector instructions.** Types are the invariant, and all else is about one step.
`ExecuteIsResult` gives every instruction one of the four outcomes of the contract.
`OutputIs` says which byte of the destination comes from which lane, and `StoringResolves`
which lane a byte of the scratchpad has after a store: the last active one to write there, by
induction over the lanes. Five of the properties compare two executions: with the destination
apart (`SourcesAreCaptured`), cut off after a lane (`AccessesAreExact`, `LanesGoInOrder`),
with what only inactive lanes hold cleared (`InactiveLanesAreSilent`), on packed predicates
(`LanesAreExact`). `SameVector`, `SameMask` and `AgreeingStores` say when two units and
instructions must come to the same; each theorem then shows that its pair meets the
condition. The rest of `LanesAreExact` is
arithmetic at the edge of a width: an element is its number up to a multiple of its modulus
(`IntegerInRange`, `IntegerReadBack`), the two halves of a product make the whole one
(`WholeProduct`), a narrowed number is the nearest of the range (`ClampedIsNearest`), and a
bit of a packed byte is the one division names (`LaneBit`).

**Matrix instructions.** `TilesFit` is inductive once every element is also said to be of its
width (`Good`). A transfer succeeds exactly when every element of the view is held and
otherwise names the *first* that is not (`FirstCheck`, `OutsideFaults`); what a store leaves
is resolved over its elements as over lanes. A product's sum is the end of a recursive
function over the inner dimension: `SumFollows` gives its steps, `ReducingEarly` says
that wrapping before an addition does not show after it, and with them the code's sum is the
exact one modulo the word. `AccumulationsChain` splits the inner dimension in two and multiplies
the parts one after the other: `PartFollows` carries the sum from where the first part has
come. Announced footprints are bounded by counting the bytes of elements (`BytesOfElements`),
so overlapping elements of a small stride are covered too.

**Induction.** The library's induction theorems take an operator parameter that the provers
cannot instantiate. Where an argument is inductive (a first failing check exists, any keys can
be sorted, sorted neighbours imply sorted pairs, the state after *k* actions of a load plan)
the proof takes the least counterexample instead, by `LeastExists`, which comes from the
well-founded order of the naturals; `RangeInduction` packages it for a set of numbers, and
`RecursionExists` shows from it that a function given by its step exists, after which the
`CHOOSE` behind a recursive definition can be opened. Both are stated for sets and functions, not
operators, so they can be cited.

**Model-checked only.** The three properties of the codec and the builder
(`CallsEncodeExactly`, `WordsDecodeExactly`, `ImagesReadWhole`): the tables' rows are concrete
data, at the code's own widths, over which TLC runs each operand through its boundaries;
`ScalarUnit` and `DirectScalar`, which compute with `Bitwise`, a module the prover cannot use;
and all liveness (`RunsReturn`, `InstructionsFinish`), which is out of the prover's reach.

## 5. What is left out

- Binary32 arithmetic: `Float` stands for it; `numeric_scope`, which sets and restores the
  host's floating-point environment, has no counterpart.
- Decoding inside `DirectScalar` and the NPU modules: they take decoded instructions, which
  the codec's runs cover. Bits of an instruction a fault carries in its value are one value.
- What a scalar destination of an NPU instruction holds before: results are returned, and
  `Machine` writes them.
- Reading integers, LEB128 numbers and strings from ELF bytes; host spans that alias.
- The system side of an ELF boot: `Runner` boots raw programs, which do not touch system memory.
- `complete_load`'s checks of a request the hart never makes; constructors' argument checks.
- Disassembly, which formats text, and the Python tools, which transform files at build time.

## 6. Plan

What remains, in this order. The codec: state encoder and decoder over an abstract table (rows
with disjoint patterns and operand fields), prove them inverse for any such table, and leave to
TLC that the generated tables are of that kind. Scalar arithmetic: the logical instructions as
functions of sets of bits, as `VectorUnit` has them, so that `ScalarUnit` needs no `Bitwise` and
`DirectScalar`'s implementation of `PreciseCore` can be proved from the lemmas of `HartProofs`.
The lemmas on bytes and elements, which `VectorProofs` and `MatrixProofs` each hold, belong in a
module of their own over `NpuData`.
