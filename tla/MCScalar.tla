------------------------------ MODULE MCScalar ------------------------------
(* An instance of DirectScalar for TLC: words of four 2-bit bytes.          *)
EXTENDS DirectScalar

Table == <<[base |-> 0,   size |-> 16, target |-> "program",    allowed |-> {"read", "execute"}],
           [base |-> 64,  size |-> 8,  target |-> "scratchpad", allowed |-> {"read", "write"}],
           [base |-> 240, size |-> 16, target |-> "system",     allowed |-> {"read", "write", "execute"}]>>

View == [base |-> 240, length |-> 16]

Patterned == [program    |-> [k \in 0 .. 15 |-> (k + 1) % 4],
              scratchpad |-> [k \in 0 .. 5 |-> (3 * k + 2) % 4],
              system     |-> [k \in 0 .. 15 |-> (k \div 2) % 4]]

Word3(op, rd, rs1, rs2, immediate) ==
    [op |-> op, rd |-> rd, rs1 |-> rs1, rs2 |-> rs2, immediate |-> immediate, csr |-> "zero", bits |-> 99]

Plain(op) == Word3(op, 0, 0, 0, 0)

CsrWord(op, rd, rs1, csr) == [Word3(op, rd, rs1, 0, 0) EXCEPT !.csr = csr]

(* Operands at the edges of the signed and unsigned ranges.                 *)
Edges == {0, 1, 2, 3, 7, 100, 126, 127, 128, 129, 170, 253, 254, 255}

Calculations ==
    {Word3(op, rd, 1, 2, 0) : op \in RegisterOps, rd \in {0, 3}}
        \cup {Word3(op, 3, 1, 0, n) : op \in {"ADDI", "SLTI", "SLTIU", "XORI", "ORI", "ANDI"}, n \in {-128, -1, 5}}
        \cup {Word3(op, 3, 1, 0, n) : op \in {"SLLI", "SRLI", "SRAI"}, n \in {0, 1, 7}}
        \cup {Word3("LUI", 3, 0, 0, 192), Word3("AUIPC", 3, 0, 0, 192)}
        \cup {Word3(op, 0, 1, 2, n) : op \in BranchOps, n \in {-4, 6}}
        \cup {Word3("JAL", rd, 0, 0, n) : rd \in {0, 3}, n \in {-4, 6}}
        \cup {Word3("JALR", rd, 1, 0, n) : rd \in {0, 1, 3}, n \in {0, 1, -2}}

(* Accesses around the ends of the regions and of the address space.        *)
Accesses == {Word3(op, rd, 1, 0, n) : op \in DOMAIN LoadOps, rd \in {0, 1}, n \in {-1, 0, 1, 2, 4}}
                \cup {Word3(op, 0, 1, 2, n) : op \in DOMAIN StoreOps, n \in {-1, 0, 1, 2, 4}}

(* CSRs, traps, waits, and control that leaves the program's region. *)
Controls ==
    {CsrWord(op, 1, 2, csr) : op \in {"CSRRW", "CSRRS", "CSRRC"}, csr \in {"mscratch", "minstret", "minstreth"}}
        \cup {CsrWord("CSRRWI", 0, n, csr) : n \in {0, 3}, csr \in {"mscratch", "minstret"}}
        \cup {CsrWord("CSRRSI", 0, 1, "mcountinhibit"), CsrWord("CSRRSI", 0, 5, "mcountinhibit"),
              CsrWord("CSRRSI", 0, 8, "mstatus"), CsrWord("CSRRSI", 0, 8, "mie"),
              CsrWord("CSRRCI", 1, 4, "mscratch"), CsrWord("CSRRW", 3, 2, "mepc"), CsrWord("CSRRW", 0, 2, "mtvec"),
              CsrWord("CSRRS", 1, 0, "mcycle"), CsrWord("CSRRS", 1, 0, "mip"),
              CsrWord("CSRRS", 1, 0, "identity"), CsrWord("CSRRS", 1, 3, "identity"), CsrWord("CSRRW", 0, 0, "identity"),
              CsrWord("CSRRS", 1, 0, "unknown"), CsrWord("CSRRW", 1, 2, "zero")}
        \cup {Plain(op) : op \in {"FENCE", "ECALL", "EBREAK", "MRET", "WFI", "ILLEGAL", "HOLON"}}
        \cup {Word3("JAL", 1, 0, 0, -16), Word3("JALR", 1, 2, 0, 1)}

MCRepertoire == [calculation |-> Calculations, access |-> Accesses, control |-> Controls]
MCLength == [calculation |-> 1, access |-> 2, control |-> 3]
MCLines  == [calculation |-> {}, access |-> {{Software}}, control |-> {{}, {Software}}]

MCStarts ==
    LET registers(a, b) == [r \in Registers |-> CASE r = 1 -> a [] r = 2 -> b [] OTHER -> 0]
    IN  {[program |-> "calculation", registers |-> registers(a, b), entry |-> 8] : a, b \in Edges}
          \cup {[program |-> "access", registers |-> registers(a, 201), entry |-> e] :
                   a \in {0, 14, 62, 64, 68, 70, 240, 252, 254}, e \in {0}}
          \cup {[program |-> "control", registers |-> registers(0, b), entry |-> e] : b \in {5, 12}, e \in {8, 12, 252}}
=============================================================================
