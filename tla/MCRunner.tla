------------------------------ MODULE MCRunner ------------------------------
(* Instances of Runner for TLC: Machine's 32-byte map, with a view that     *)
(* covers the upper system region and half of the lower one.                *)
EXTENDS Runner

Table == <<[base |-> 0, size |-> 12, target |-> "program", allowed |-> {"read", "execute"}],
           [base |-> 16, size |-> 4, target |-> "scratchpad", allowed |-> {"read", "write"}],
           [base |-> 20, size |-> 4, target |-> "system", allowed |-> {"read", "write"}],
           [base |-> 28, size |-> 4, target |-> "system", allowed |-> {"read", "write", "execute"}]>>

Dma(load, count, local, at) ==
    [kind |-> "dma", load |-> load, count |-> count, local |-> local, system |-> at]

RunnerWords == {Dma(TRUE, 2, 16, 28), Dma(FALSE, 2, 16, 28), Dma(FALSE, 2, 16, 20),
           [kind |-> "stop"], [kind |-> "store", bytes |-> (0 :> 1)]}

RunnerEffects ==
    {[kind |-> "result", rd |-> 0, value |-> 0, target |-> 28],
     [kind |-> "csr", csr |-> "mstatus", rd |-> 0, read |-> FALSE, write |-> TRUE, value |-> 8, bits |-> 1],
     [kind |-> "csr", csr |-> "mie", rd |-> 0, read |-> FALSE, write |-> TRUE, value |-> 8, bits |-> 1],
     [kind |-> "csr", csr |-> "mtvec", rd |-> 0, read |-> FALSE, write |-> TRUE, value |-> 24, bits |-> 1],
     [kind |-> "wfi"],
     [kind |-> "load", rd |-> 1, address |-> 28, width |-> 1, sign |-> FALSE],
     [kind |-> "store", address |-> 29, width |-> 1, payload |-> <<1>>],
     [kind |-> "store", address |-> 20, width |-> 1, payload |-> <<1>>]}

Parcels == {<<3, 0, 0, 0>>, <<0, 0, 0, 0>>}
Boots == {[kind |-> "raw", base |-> 0, size |-> 8, entry |-> 0]}
\* Scalar code at 28 and data at 22 and 23.
ViewImages == {[i \in 0 .. 9 |-> IF i = 6 THEN 3 ELSE 0]}
=============================================================================
