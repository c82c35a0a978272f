----------------------------- MODULE ElfLoader -----------------------------
(***************************************************************************)
(* The ELF loader: image::parse, its attribute profile, image::load, and   *)
(* what program_machine::boot does with an image                           *)
(* (src/sim/semantic/holon_npu_elf.cpp, holon_npu_semantic.cpp).           *)
(*                                                                         *)
(* A file is a record of the fields its headers hold.  The loader looks at *)
(* no byte it copies, so a byte is named by its offset in the file.        *)
(***************************************************************************)
EXTENDS PhysicalMap

CONSTANTS
    Files,               \* The files offered to parse.
    Tables,              \* The region tables of the maps a load may go through.
    Views,               \* The system views a load may go through, [base, length].
    ProgramBytes,        \* Size of the program store.
    ScratchpadBytes,     \* Size of the scratchpad store.
    HeaderBytes,         \* Size of the ELF header, 52 in the code.
    ProgramHeaderBytes,  \* Size of a program header, 32.
    SectionHeaderBytes,  \* Size of a section header, 40.
    ReservedSections,    \* The first section count that is reserved, 0xff00.
    ReservedHeaders,     \* The program header count that is reserved, 0xffff.
    StackAlignment,      \* The profile's stack alignment, 16.
    ArchBase,            \* The profile's base ISA.
    ArchExtensions       \* The profile's extensions.

(* What the fields of a file can hold, well formed or not.                 *)
IsList(s) == s \in Seq({s[i] : i \in DOMAIN s})

IsHeader(h) ==
    /\ {h.offset, h.file_size} \subseteq Nat
    /\ h.type = "load" => h.address \in Addresses /\ {h.memory_size, h.align} \subseteq Nat

IsSection(s) == s.attributes \in BOOLEAN /\ {s.offset, s.size} \subseteq Nat

IsProfile(profile) ==
    /\ profile.form \in {"riscv", "foreign", "malformed"}
    /\ IsList(profile.fields)
    /\ \A i \in DOMAIN profile.fields :
        LET f == profile.fields[i]
        IN  /\ f.id \in Nat /\ f.whole \in BOOLEAN
            /\ f.id = 5 => IsList(f.names)
            /\ f.id \in {4, 6, 14, 16} => f.number \in Nat

IsFile(file) ==
    /\ {file.length, file.phoff, file.shoff, file.shstr} \subseteq Nat /\ file.entry \in Addresses
    /\ {file.identified, file.flagged} \subseteq BOOLEAN
    /\ IsList(file.headers) /\ \A i \in DOMAIN file.headers : IsHeader(file.headers[i])
    /\ IsList(file.sections) /\ \A i \in DOMAIN file.sections : IsSection(file.sections[i])
    /\ \A range \in DOMAIN file.profiles : IsProfile(file.profiles[range])

ASSUME LoaderAssumption ==
    /\ {HeaderBytes, ProgramHeaderBytes, SectionHeaderBytes} \subseteq Nat \ {0}
    /\ {ProgramBytes, ScratchpadBytes, ReservedSections, ReservedHeaders} \subseteq Nat
    /\ ArchBase \notin ArchExtensions
    /\ \A table \in Tables : table \in Seq(Regions) /\ Create(table).ok
    /\ Views \subseteq [base : Nat, length : Nat]
    /\ \A file \in Files : IsFile(file)

(* What a power is, as far as parse asks: provers know no exponents.       *)
ASSUME PowersAssumption == 2 ^ 0 = 1

VARIABLES
    image,   \* The parsed image, NoImage before one is accepted.
    memory,  \* The bytes of the stores; a system byte is known by its address.
    call     \* The last call and what it returned.

Maps == {Create(table).map : table \in Tables}

vars == <<image, memory, call>>

NoImage  == [segments |-> << >>]
Zero     == -1   \* A byte load or boot has cleared.
Old      == -2   \* A byte from before the first call.

Cells == [program    |-> 0 .. ProgramBytes - 1,
          scratchpad |-> 0 .. ScratchpadBytes - 1,
          system     |-> Addresses]

Fits(capacity, offset, size) == offset <= capacity /\ size <= capacity - offset

-----------------------------------------------------------------------------
(* attributes: a profile is [form, fields].  A field is [id, whole] with    *)
(* names, its string split at "_", when id is odd, and number otherwise;    *)
(* whole is FALSE when its value runs past the end.                         *)
SupportedArch(names) ==
    /\ names # << >> /\ names[1] = ArchBase
    /\ \A i \in 2 .. Len(names) :
        /\ names[i] \in ArchExtensions
        /\ \A j \in 2 .. i - 1 : names[j] # names[i]

(* An optional field, one a reader may ignore. *)
Ignorable(id) == id % 128 >= 64

FieldSupported(f) ==
    CASE f.id = 5            -> SupportedArch(f.names)
      [] f.id = 4            -> f.number = StackAlignment
      [] f.id \in {6, 14}    -> f.number = 0
      [] f.id = 16           -> f.number <= 1
      [] f.id \in {8, 10, 12} -> TRUE
      [] OTHER               -> Ignorable(f.id)

FieldError(fields, i) ==
    LET f == fields[i]
    IN  CASE f.id < 17 /\ \E j \in 1 .. i - 1 : fields[j].id = f.id -> "attributes"
          [] ~f.whole -> "attributes"
          [] ~FieldSupported(f) -> "unsupported_profile"
          [] OTHER -> "none"

(* The first error of a list of checks, "none" if all pass.                *)
FirstError(Error(_), n) ==
    LET bad == {i \in 1 .. n : Error(i) # "none"}
    IN  IF bad = {} THEN "none" ELSE Error(CHOOSE i \in bad : \A j \in bad : i <= j)

AttributesError(profile) ==
    LET fields == profile.fields
        error == FirstError(LAMBDA i : FieldError(fields, i), Len(fields))
    IN  CASE profile.form = "malformed" -> "attributes"
          [] profile.form = "foreign" -> "unsupported_profile"
          [] error # "none" -> error
          [] \A i \in DOMAIN fields : fields[i].id # 5 -> "attributes"
          [] OTHER -> "none"

-----------------------------------------------------------------------------
(* image::parse *)

HeaderError(file) ==
    CASE file.length < HeaderBytes -> "truncated"
      [] ~file.identified -> "header"
      [] file.flagged -> "unsupported_profile"
      [] (file.shoff # 0) # (file.sections # << >>) -> "header"
      [] Len(file.sections) >= ReservedSections -> "header"
      [] file.shstr # 0 /\ file.shstr >= Len(file.sections) -> "header"
      [] /\ file.sections # << >>
         /\ \/ file.shoff < HeaderBytes
            \/ ~Fits(file.length, file.shoff, Len(file.sections) * SectionHeaderBytes) -> "header"
      [] file.headers = << >> \/ Len(file.headers) = ReservedHeaders \/ file.phoff < HeaderBytes -> "header"
      [] ~Fits(file.length, file.phoff, Len(file.headers) * ProgramHeaderBytes) -> "truncated"
      [] OTHER -> "none"

PowerOfTwo(n) == \E k \in 0 .. n : 2 ^ k = n

LoadError(h) ==
    CASE \/ h.file_size > h.memory_size
         \/ h.memory_size > AddressSpace - h.address
         \/ h.physical # h.address
         \/ h.flags = {} \/ ~(h.flags \subseteq AccessKinds) -> "segment"
      [] /\ h.align > 1
         /\ ~PowerOfTwo(h.align) \/ h.address % h.align # h.offset % h.align -> "alignment"
      [] OTHER -> "none"

ProgramHeaderError(file, i) ==
    LET h == file.headers[i]
    IN  IF h.type = "null" THEN "none"
        ELSE IF ~Fits(file.length, h.offset, h.file_size) THEN "truncated"
        ELSE CASE h.type = "attributes" ->
                IF \E j \in 1 .. i - 1 : file.headers[j].type = "attributes" THEN "attributes" ELSE "none"
               [] h.type = "load" -> LoadError(h)
               [] h.type = "stack" -> IF "execute" \in h.flags THEN "unsupported_profile" ELSE "none"
               [] h.type \in {"note", "phdr"} -> "none"
               [] OTHER -> "unsupported_segment"

(* Where the profile is: the attributes header, else the one attributes     *)
(* section.  A file's profiles field tells what ranges hold one.            *)
Located(file) ==
    LET headers  == {i \in DOMAIN file.headers : file.headers[i].type = "attributes"}
        sections == {i \in DOMAIN file.sections : file.sections[i].attributes}
    IN  IF headers # {} THEN LET h == file.headers[CHOOSE i \in headers : TRUE]
                             IN  {<<h.offset, h.file_size>>}
        ELSE {<<file.sections[i].offset, file.sections[i].size>> : i \in sections}

ProfileError(file) ==
    LET sections == {i \in DOMAIN file.sections : file.sections[i].attributes}
        inHeaders == \E i \in DOMAIN file.headers : file.headers[i].type = "attributes"
    IN  CASE ~inHeaders /\ Cardinality(sections) # 1 -> "attributes"
          [] \E range \in Located(file) : ~Fits(file.length, range[1], range[2]) -> "attributes"
          [] \E range \in Located(file) : range \notin DOMAIN file.profiles -> "attributes"
          [] OTHER -> AttributesError(file.profiles[CHOOSE range \in Located(file) : TRUE])

(* Wrong variant: segments checked in file order. *)
FileOrder(segments) == segments

SortByAddress(segments) ==
    LET order == SortingOrder([i \in DOMAIN segments |-> segments[i].address])
    IN  [i \in DOMAIN segments |-> segments[order[i]]]

(* A set of positions in ascending order. *)
InOrder(positions) ==
    CHOOSE f \in [1 .. Cardinality(positions) -> positions] :
        /\ \A p \in positions : \E i \in DOMAIN f : f[i] = p
        /\ \A i, j \in DOMAIN f : i < j => f[i] < f[j]

(* The loaded segments, an empty one giving none.                          *)
Segments(file) ==
    LET loads == InOrder({i \in DOMAIN file.headers :
                            file.headers[i].type = "load" /\ file.headers[i].memory_size # 0})
        segment(h) == [address |-> h.address, offset |-> h.offset, file_size |-> h.file_size,
                       memory_size |-> h.memory_size, allowed |-> h.flags]
    IN  SortByAddress([i \in DOMAIN loads |-> segment(file.headers[loads[i]])])

HoldsEntry(s, entry) ==
    /\ "execute" \in s.allowed
    /\ entry >= s.address /\ entry - s.address <= s.file_size
    /\ 4 <= s.file_size - (entry - s.address)

PlanError(segments, entry) ==
    LET Overlaps(i) == i > 1 /\ segments[i].address < segments[i - 1].address + segments[i - 1].memory_size
    IN  CASE \E i \in DOMAIN segments : Overlaps(i) -> "overlap"
          [] \A i \in DOMAIN segments : ~HoldsEntry(segments[i], entry) -> "entry"
          [] entry % 4 # 0 -> "entry"
          [] OTHER -> "none"

Parse(file) ==
    LET inHeader  == HeaderError(file)
        inHeaders == FirstError(LAMBDA i : ProgramHeaderError(file, i), Len(file.headers))
        inProfile == ProfileError(file)
        inPlan    == PlanError(Segments(file), file.entry)
    IN  CASE inHeader # "none"  -> Failed(inHeader)
          [] inHeaders # "none" -> Failed(inHeaders)
          [] inProfile # "none" -> Failed(inProfile)
          [] inPlan # "none"    -> Failed(inPlan)
          [] OTHER -> [ok |-> TRUE, image |-> [entry |-> file.entry, segments |-> Segments(file),
                                               length |-> file.length]]

-----------------------------------------------------------------------------
(* image::load *)

(* Every kind the segment asks for must be granted.  The routes granted are *)
(* one route: resolve finds the region before it looks at the kind.         *)
Destination(map, view, s) ==
    LET route == Resolve(map, s.address, s.memory_size, CHOOSE kind \in s.allowed : TRUE)
        backed == CASE route.storage = "program"    -> LocalRange(ProgramBytes, route.at, route.size)
                    [] route.storage = "scratchpad" -> LocalRange(ScratchpadBytes, route.at, route.size)
                    [] route.storage = "system"     -> ViewRange(view.base, view.length, route.at, route.size)
    IN  IF \E kind \in s.allowed : ~Resolve(map, s.address, s.memory_size, kind).ok THEN Failed("mapping")
        ELSE IF ~backed THEN Failed("backing")
        ELSE route

(* One action of the plan: the segment's file bytes, then zeros.           *)
Filled(bytes, route, s) ==
    [bytes EXCEPT ![route.storage] =
        [i \in DOMAIN @ |->
            IF i \notin route.at .. route.at + s.memory_size - 1 THEN @[i]
            ELSE IF i - route.at < s.file_size THEN s.offset + (i - route.at)
            ELSE Zero]]

(* The bytes after every planned action, for a map and view that place all. *)
FilledAll(bytes, map, view, segments) ==
    LET after[k \in 0 .. Len(segments)] ==
            IF k = 0 THEN bytes ELSE Filled(after[k - 1], Destination(map, view, segments[k]), segments[k])
    IN  after[Len(segments)]

(* Wrong variant: each segment is written as soon as it is placed. *)
LoadEagerly(bytes, map, view) ==
    LET Error(i) == LET d == Destination(map, view, image.segments[i]) IN IF d.ok THEN "none" ELSE d.error
        n == Len(image.segments)
        placed == {k \in 0 .. n : \A i \in 1 .. k : Error(i) = "none"}
        last == CHOOSE k \in placed : \A j \in placed : j <= k
    IN  [ok |-> last = n, error |-> FirstError(Error, n),
         bytes |-> FilledAll(bytes, map, view, SubSeq(image.segments, 1, last))]

Load(bytes, map, view) ==
    LET Error(i) == LET d == Destination(map, view, image.segments[i]) IN IF d.ok THEN "none" ELSE d.error
        error == FirstError(Error, Len(image.segments))
    IN  [ok |-> error = "none", error |-> error,
         bytes |-> IF error = "none" THEN FilledAll(bytes, map, view, image.segments) ELSE bytes]

(* Wrong variant: the machine's own stores. *)
Reused(bytes) == bytes

(* The stores boot loads into: new local ones, and the caller's system memory. *)
Fresh(bytes) == [s \in Storages |-> IF s = "system" THEN bytes[s] ELSE [i \in Cells[s] |-> Zero]]

-----------------------------------------------------------------------------
Init ==
    /\ image = NoImage
    /\ memory = [s \in Storages |-> [i \in Cells[s] |-> Old]]
    /\ call = [op |-> "none", ok |-> TRUE]

(* A factory: a failed call constructs nothing, and another may follow.     *)
ParseFile(file) ==
    LET parsed == Parse(file)
    IN  /\ image = NoImage
        /\ image' = IF parsed.ok THEN parsed.image ELSE image
        /\ call' = [op |-> "parse", ok |-> parsed.ok, file |-> file]
        /\ UNCHANGED memory

LoadImage(map, view) ==
    LET loaded == Load(memory, map, view)
    IN  /\ image # NoImage
        /\ memory' = loaded.bytes
        /\ call' = [op |-> "load", ok |-> loaded.ok, map |-> map, view |-> view]
        /\ UNCHANGED image

(* program_machine::boot: local stores are replaced if the load succeeds.  *)
BootImage(map, view) ==
    LET loaded == Load(Fresh(memory), map, view)
    IN  /\ image # NoImage
        /\ memory' = IF loaded.ok THEN loaded.bytes ELSE [memory EXCEPT !.system = loaded.bytes.system]
        /\ call' = [op |-> "boot", ok |-> loaded.ok, map |-> map, view |-> view]
        /\ UNCHANGED image

Next ==
    \/ \E file \in Files : ParseFile(file)
    \/ \E map \in Maps, view \in Views : LoadImage(map, view) \/ BootImage(map, view)

Spec == Init /\ [][Next]_vars

-----------------------------------------------------------------------------
(* The reference: files as sets of offsets and addresses.  Nothing is       *)
(* sorted, compared with a neighbour, or checked in an order.               *)
InFile(file, offset, size) == offset .. offset + size \subseteq 0 .. file.length

HeadersOf(file, type) == {h \in {file.headers[i] : i \in DOMAIN file.headers} : h.type = type}

Span(s) == s.address .. s.address + s.memory_size - 1
FileSpan(s) == s.address .. s.address + s.file_size - 1

WellFormedTables(file) ==
    /\ file.identified /\ ~file.flagged /\ file.length >= HeaderBytes
    /\ Len(file.headers) \notin {0, ReservedHeaders} /\ Len(file.sections) < ReservedSections
    /\ file.phoff >= HeaderBytes
    /\ InFile(file, file.phoff, Len(file.headers) * ProgramHeaderBytes)
    /\ IF file.sections = << >> THEN file.shoff = 0 /\ file.shstr = 0
       ELSE /\ file.shoff >= HeaderBytes /\ file.shstr \in 0 .. Len(file.sections) - 1
            /\ InFile(file, file.shoff, Len(file.sections) * SectionHeaderBytes)

WellFormedHeaders(file) ==
    \A i \in DOMAIN file.headers :
        LET h == file.headers[i]
        IN  h.type # "null" =>
                /\ InFile(file, h.offset, h.file_size)
                /\ h.type \in {"load", "attributes", "stack", "note", "phdr"}
                /\ h.type = "stack" => "execute" \notin h.flags
                /\ h.type = "load" =>
                    /\ FileSpan(h) \subseteq Span(h) /\ Span(h) \subseteq Addresses
                    /\ h.physical = h.address /\ h.flags \subseteq AccessKinds /\ h.flags # {}
                    /\ h.align > 1 => \E k \in 1 .. h.align :
                                        h.align = 2 ^ k /\ (h.address - h.offset) % h.align = 0

(* The fields as a set: their order says nothing.                          *)
WellFormedProfile(profile) ==
    LET fields == profile.fields
        Having(ids) == {i \in DOMAIN fields : fields[i].id \in ids}
        arch == {fields[i].names : i \in Having({5})}
    IN  /\ profile.form = "riscv"
        /\ \A i \in DOMAIN fields : fields[i].whole
        /\ \A id \in 0 .. 16 : Cardinality(Having({id})) <= 1
        /\ Cardinality(Having({5})) = 1
        /\ \A names \in arch :
            /\ names # << >> /\ Head(names) = ArchBase
            /\ {names[i] : i \in 2 .. Len(names)} \subseteq ArchExtensions
            /\ Cardinality({names[i] : i \in DOMAIN names}) = Len(names)
        /\ \A i \in Having({4}) : fields[i].number = StackAlignment
        /\ \A i \in Having({6, 14}) : fields[i].number = 0
        /\ \A i \in Having({16}) : fields[i].number \in {0, 1}
        /\ \A i \in DOMAIN fields \ Having({4, 5, 6, 8, 10, 12, 14, 16}) : Ignorable(fields[i].id)

ProfileRanges(file) ==
    IF HeadersOf(file, "attributes") # {}
    THEN {<<file.headers[i].offset, file.headers[i].file_size, i>> :
              i \in {j \in DOMAIN file.headers : file.headers[j].type = "attributes"}}
    ELSE {<<file.sections[i].offset, file.sections[i].size, i>> :
              i \in {j \in DOMAIN file.sections : file.sections[j].attributes}}

WellFormed(file) ==
    /\ WellFormedTables(file) /\ WellFormedHeaders(file)
    /\ Cardinality(ProfileRanges(file)) = 1
    /\ \A r \in ProfileRanges(file) :
        /\ InFile(file, r[1], r[2]) /\ <<r[1], r[2]>> \in DOMAIN file.profiles
        /\ WellFormedProfile(file.profiles[<<r[1], r[2]>>])
    /\ \A i, j \in DOMAIN file.headers :
        i # j /\ file.headers[i].type = "load" /\ file.headers[j].type = "load"
            => Span(file.headers[i]) \cap Span(file.headers[j]) = {}
    /\ file.entry % 4 = 0
    /\ \E h \in HeadersOf(file, "load") :
        "execute" \in h.flags /\ file.entry .. file.entry + 3 \subseteq FileSpan(h)

-----------------------------------------------------------------------------
(* A byte is old, zero or a byte the file has: no copy reads past the file. *)
TypeOK ==
    /\ image = NoImage \/ image.entry \in Addresses
    /\ \A s \in Storages : memory[s] \in [Cells[s] -> {Old, Zero} \cup
                                (IF image = NoImage THEN {} ELSE 0 .. image.length - 1)]

(* parse accepts exactly the well-formed files, whatever the order of their *)
(* program headers and attribute fields, and plans their non-empty segments.*)
ParseAcceptsExactlyWellFormedFiles ==
    call.op = "parse" =>
        /\ call.ok <=> WellFormed(call.file)
        /\ call.ok => {Span(image.segments[i]) : i \in DOMAIN image.segments}
                        = {Span(h) : h \in HeadersOf(call.file, "load")} \ {{}}

(* What address a holds once an image is loaded, by the image alone; the    *)
(* address must be in a segment.                                            *)
ImageByte(a) ==
    LET s == image.segments[CHOOSE i \in DOMAIN image.segments : a \in Span(image.segments[i])]
    IN  IF a \in FileSpan(s) THEN s.offset + (a - s.address) ELSE Zero

RegionOf(map, a) == map[CHOOSE i \in DOMAIN map : a \in map[i].base .. map[i].base + map[i].size - 1]

CellOf(map, a) == IF RegionOf(map, a).target = "system" THEN a ELSE a - RegionOf(map, a).base

Image == UNION {Span(image.segments[i]) : i \in DOMAIN image.segments}

Backs(view, r, a) ==
    IF r.target = "system"
    THEN view.base + view.length <= SystemSpace /\ a \in view.base .. view.base + view.length - 1
    ELSE a - r.base \in Cells[r.target]

Placeable(map, view) ==
    \A i \in DOMAIN image.segments : \E r \in {map[j] : j \in DOMAIN map} :
        /\ Span(image.segments[i]) \subseteq r.base .. r.base + r.size - 1
        /\ image.segments[i].allowed \subseteq r.allowed
        /\ \A a \in Span(image.segments[i]) : Backs(view, r, a)

(* The cells outside the image hold what they held in before.              *)
Holds(bytes, before, map) ==
    /\ \A a \in Image : bytes[RegionOf(map, a).target][CellOf(map, a)] = ImageByte(a)
    /\ \A s \in Storages : \A i \in Cells[s] :
        (\A a \in Image : RegionOf(map, a).target # s \/ CellOf(map, a) # i) => bytes[s][i] = before[s][i]

(* load and boot succeed exactly when every segment lies in one region that *)
(* grants what it asks for and whose bytes are all there; then every        *)
(* address of the image holds its file byte or zero and nothing else has    *)
(* changed, and otherwise nothing has changed at all, late as the segment   *)
(* that could not be placed may be.                                         *)
LoadIsExactOrNothing ==
    [][call'.op \in {"load", "boot"} =>
        /\ call'.ok <=> Placeable(call'.map, call'.view)
        /\ IF call'.ok
           THEN Holds(memory', IF call'.op = "boot" THEN Fresh(memory) ELSE memory, call'.map)
           ELSE memory' = memory]_vars

(* A boot leaves no byte of an earlier program or image in a local store:   *)
(* what the new image does not place is zero.                               *)
BootLeavesNoResidue ==
    call.op = "boot" /\ call.ok =>
        \A s \in {"program", "scratchpad"} : \A i \in Cells[s] :
            memory[s][i] # Zero => \E a \in Image : RegionOf(call.map, a).target = s /\ CellOf(call.map, a) = i

(* After a load the first instruction can be fetched: its four bytes are    *)
(* granted for execution and come from the file, never from a zero-filled   *)
(* tail.  Machine boots images under this fact.                             *)
EntryIsFetchable ==
    call.op \in {"load", "boot"} /\ call.ok =>
        /\ image.entry % 4 = 0
        /\ Resolve(call.map, image.entry, 4, "execute").ok
        /\ \A a \in image.entry .. image.entry + 3 :
            memory[RegionOf(call.map, a).target][CellOf(call.map, a)] \in 0 .. image.length - 1

(* What a boot leaves is a program and nothing else: bytes of its own file,  *)
(* zero elsewhere, and a first instruction that can be fetched              *)
(* (program_machine::boot over image::load).                                *)
BootsAreClean == TypeOK /\ BootLeavesNoResidue /\ EntryIsFetchable
=============================================================================
