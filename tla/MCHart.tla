------------------------------- MODULE MCHart -------------------------------
(* Instances of HartCalls for TLC. *)
EXTENDS HartCalls

Load(rd, address, width, sign) ==
    [kind |-> "load", rd |-> rd, address |-> address, width |-> width, sign |-> sign]

Csr(name, rd, read, write, value) ==
    [kind |-> "csr", csr |-> name, rd |-> rd, read |-> read, write |-> write, value |-> value, bits |-> 99]

(* Interrupts, traps, waits and pending effects; counters collapsed. *)
TrapRepertoire ==
    {[kind |-> "trap", cause |-> 11, value |-> 0],
     [kind |-> "result", rd |-> 1, value |-> 5, target |-> Fallthrough],
     [kind |-> "result", rd |-> 0, value |-> 7, target |-> 12],
     [kind |-> "mret"], [kind |-> "wfi"], [kind |-> "fence"],
     Load(1, 8, 2, TRUE),
     [kind |-> "store", address |-> 10, width |-> 1, payload |-> <<1>>],
     Csr("mstatus", 0, FALSE, TRUE, 8),
     Csr("mie", 0, FALSE, TRUE, 2^3 + 2^11),
     Csr("mtvec", 0, FALSE, TRUE, 9)}

TrapResults ==
    {[kind |-> "acknowledged"],
     [kind |-> "data", bytes |-> <<1, 1>>], [kind |-> "data", bytes |-> <<1>>],
     [kind |-> "fault", address |-> NoAddress], [kind |-> "fault", address |-> 9],
     [kind |-> "fault", address |-> 11]}

TrapLines == {{}, {Timer}, {Software, External}}
=============================================================================
