------------------------------- MODULE MCElf -------------------------------
(* Instances of ElfLoader for TLC. *)
EXTENDS ElfLoader

Arch(names)       == [id |-> 5, whole |-> TRUE, names |-> names]
Word(id, names)   == [id |-> id, whole |-> TRUE, names |-> names]
Number(id, n)     == [id |-> id, whole |-> TRUE, number |-> n]

PlainProfile == [form |-> "riscv", fields |-> <<Number(4, StackAlignment), Arch(<<ArchBase>>)>>]

LoadHeader(offset, address, file_size, memory_size, flags, align) ==
    [type |-> "load", offset |-> offset, address |-> address, physical |-> address,
     file_size |-> file_size, memory_size |-> memory_size, flags |-> flags, align |-> align]

(* A header of which parse looks at the place in the file and the flags.   *)
Header(type, offset, size, flags) ==
    [type |-> type, offset |-> offset, file_size |-> size, flags |-> flags]

(* Twelve bytes, the last two of them a profile.                           *)
File(headers, entry) ==
    [length |-> 12, identified |-> TRUE, flagged |-> FALSE, entry |-> entry, phoff |-> 1, headers |-> headers,
     shoff |-> 0, shstr |-> 0, sections |-> << >>, profiles |-> (<<10, 2>> :> PlainProfile)]

ProfileHeader == Header("attributes", 10, 2, {"read"})
Code          == LoadHeader(0, 0, 4, 4, {"read", "execute"}, 4)

rx == {"read", "execute"}
rw == {"read", "write"}

-----------------------------------------------------------------------------
(* parse: one segment with every field at its boundaries ... *)
OneSegment ==
    {File(<<[h EXCEPT !.physical = IF moved THEN 4 ELSE @], ProfileHeader>>, entry) :
        h \in {LoadHeader(o, a, f, m, flags, align) :
                 o \in {0, 1, 6, 9}, a \in {0, 1, 4, 7}, f \in {0, 3, 4, 7}, m \in {0, 4, 5, 8},
                 flags \in {{}, rx, {"execute", "other"}}, align \in {0, 2, 3, 4}},
        moved \in BOOLEAN, entry \in {0, 2, 4}}

(* ... two segments at every pair of places, in either order ... *)
TwoSegments ==
    {File(<<h, ProfileHeader, k>>, entry) :
        h \in {LoadHeader(0, a, 4, m, flags, 1) : a \in 0 .. 4, m \in {4, 5}, flags \in {rx, rw}},
        k \in {LoadHeader(4, a, f, m, flags, 1) : a \in 0 .. 7, f \in {0, 4}, m \in {0, 1, 4}, flags \in {rx, rw}},
        entry \in {0, 1, 4}}

(* ... every profile of up to three fields ... *)
Fields ==
    {Arch(<<ArchBase>>), Arch(<<ArchBase, "m", "zmmul">>), Arch(<<ArchBase, "m", "m">>), Arch(<<"m">>),
     Arch(<< >>), Arch(<<ArchBase, "c">>), Word(7, << >>), Word(67, << >>),
     [Number(64, 0) EXCEPT !.whole = FALSE], Number(64, 0), Number(18, 0), Number(4, 16), Number(4, 8),
     Number(6, 0), Number(6, 1), Number(8, 3), Number(16, 1), Number(16, 2)}

ProfileFiles ==
    {[File(<<Code, ProfileHeader>>, 0) EXCEPT !.profiles = (<<10, 2>> :> [form |-> "riscv", fields |-> fields])] :
        fields \in UNION {[1 .. n -> Fields] : n \in 0 .. 3}}

(* ... and the tables themselves, the profile in a header, a section, both, *)
(* twice or nowhere.                                                        *)
OtherHeaders ==
    {ProfileHeader, Header("attributes", 8, 2, {}), Header("null", 99, 99, {}), Header("note", 9, 4, {}),
     Header("note", 4, 4, {}), Header("stack", 0, 0, rw), Header("stack", 0, 0, rx), Header("other", 0, 0, {})}

Section(attributes, offset, size) == [attributes |-> attributes, offset |-> offset, size |-> size]

TooMany == <<Section(TRUE, 10, 2), Section(FALSE, 0, 99), Section(FALSE, 0, 99)>>

SomeSections == {Section(TRUE, 10, 2), Section(TRUE, 10, 9), Section(FALSE, 0, 99)}

TableFiles ==
    {[File(<<Code>> \o headers, 0) EXCEPT !.sections = sections, !.phoff = phoff, !.shoff = shoff, !.shstr = shstr] :
        headers \in UNION {[1 .. n -> OtherHeaders] : n \in 0 .. 2},
        sections \in UNION {[1 .. n -> SomeSections] : n \in 0 .. 2} \cup {TooMany},
        phoff \in {0, 1, 10}, shoff \in {0, 1, 11}, shstr \in {0, 1}}

OddProfileFiles ==
    {[File(<<Code, ProfileHeader>>, 0) EXCEPT !.profiles = (<<10, 2>> :> [PlainProfile EXCEPT !.form = form])] :
        form \in {"foreign", "malformed"}}

Null == Header("null", 99, 99, {})

HeaderFiles ==
    {[File(headers, 0) EXCEPT !.length = length, !.identified = identified, !.flagged = flagged] :
        headers \in {<< >>, <<Code, ProfileHeader>>, <<Code, ProfileHeader, Null>>, <<Code, ProfileHeader, Null, Null>>},
        length \in {0, 1, 2, 11, 12},
        identified \in BOOLEAN, flagged \in BOOLEAN}

(* The files are ones there can be: what the theorems assume of Files.     *)
ASSUME FamiliesAreFiles ==
    /\ \A file \in OneSegment   : IsFile(file)
    /\ \A file \in TwoSegments  : IsFile(file)
    /\ \A file \in ProfileFiles : IsFile(file)
    /\ \A file \in OddProfileFiles : IsFile(file)
    /\ \A file \in TableFiles   : IsFile(file)
    /\ \A file \in HeaderFiles  : IsFile(file)

(* Only the parse; its guard spares TLC the enumeration where it fails.    *)
ParseStep ==
    /\ call.op = "none"
    /\ \/ \E file \in OneSegment   : ParseFile(file)
       \/ \E file \in TwoSegments  : ParseFile(file)
       \/ \E file \in ProfileFiles : ParseFile(file)
       \/ \E file \in OddProfileFiles : ParseFile(file)
       \/ \E file \in TableFiles   : ParseFile(file)
       \/ \E file \in HeaderFiles  : ParseFile(file)

ParseSpec == Init /\ [][ParseStep]_vars

-----------------------------------------------------------------------------
(* load: code and a data segment at every address, through every map.      *)
LoadFiles ==
    {File(<<LoadHeader(o, a, f, m, flags, 1), [Code EXCEPT !.file_size = c], ProfileHeader>>, 0) :
        o \in {5, 11}, a \in 4 .. 19, f \in {0, 2}, m \in {2, 5}, flags \in {{"read"}, rw, rx}, c \in {2, 4}}

Region(base, size, target, allowed) == [base |-> base, size |-> size, target |-> target, allowed |-> allowed]

(* Local regions larger than their stores; read-only, adjacent and moved ones. *)
LoadTables ==
    {<<Region(12, 8, "system", rw), Region(0, 8, "program", rx), Region(8, 4, "scratchpad", rw)>>,
     <<Region(0, 8, "system", rx), Region(8, 4, "program", rx), Region(12, 4, "system", {"read"}),
       Region(16, 4, "scratchpad", {"read"})>>}

LoadViews == {[base |-> 0, length |-> 20], [base |-> 12, length |-> 4]}
=============================================================================
