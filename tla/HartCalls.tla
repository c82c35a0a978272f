----------------------------- MODULE HartCalls -----------------------------
(***************************************************************************)
(* The hart under every sequence of its public calls: an environment that  *)
(* issues arbitrary words, completes effects with any token and any result,*)
(* drives the interrupt lines, reports fetch faults and resets at will.    *)
(***************************************************************************)
EXTENDS Hart

CONSTANTS
    Repertoire,  \* The effects a word may evaluate to.
    Results,     \* The completions the environment may offer.
    Entries,     \* The entry points passed to start.
    LineSets,    \* The interrupt inputs the environment may drive.
    Elapsed      \* The cycle counts it may account.

ASSUME RepertoireAssumption == Repertoire \subseteq Effects
ASSUME EnvironmentAssumption ==
    /\ Entries \subseteq Addresses /\ LineSets \subseteq SUBSET Lines /\ Elapsed \subseteq Nat
    /\ Results \subseteq ExternalResults

VARIABLES
    hart,   \* hart_state
    event,  \* What the last call returned.
    spent   \* History: tokens whose effect was completed or dropped by reset.

vars == <<hart, event, spent>>

TypeOK ==
    /\ hart \in Harts
    /\ event \in Events
    /\ spent \in SUBSET (1 .. MaxToken - 1)

PendingToken == IF hart.pending = NoPending THEN {} ELSE {hart.pending.token}

(* Adopt what a call returned; a pending effect that is gone is spent.     *)
Adopt(returned) ==
    /\ hart' = returned.hart
    /\ event' = returned.event
    /\ spent' = IF returned.hart.pending = hart.pending THEN spent ELSE spent \cup PendingToken

-----------------------------------------------------------------------------
Init ==
    /\ hart = Reset([nextToken |-> 1])
    /\ event = "none"
    /\ spent = {}

CallReset             == Adopt(Returned("none", Reset(hart)))
CallStart(entry)      == Adopt(Start(hart, entry))
CallPoll              == Adopt(PollInterrupt(hart))
CallIssue(e)          == Adopt(Issue(hart, e))
CallComplete(t, r)    == Adopt(Complete(hart, t, r))
CallFetchFault(a)     == Adopt(FetchFault(hart, a))
CallSetInterrupts(ls) == Adopt(Returned("none", SetInterrupts(hart, ls)))
CallAccountCycles(n)  == Adopt(Returned("none", AccountCycles(hart, n)))

Next ==
    \/ CallReset
    \/ \E entry \in Entries : CallStart(entry)
    \/ CallPoll
    \/ \E e \in Repertoire : CallIssue(e)
    \/ \E t \in 1 .. hart.nextToken, r \in Results : CallComplete(t, r)
    \/ \E a \in {hart.pc, (hart.pc + 4) % AddressSpace} : CallFetchFault(a)
    \/ \E ls \in LineSets : CallSetInterrupts(ls)
    \/ \E n \in Elapsed : CallAccountCycles(n)

Spec == Init /\ [][Next]_vars

-----------------------------------------------------------------------------
(* Safety *)

(* A pending effect belongs to the instruction at pc, carries an issued    *)
(* token, and no token ever names a second effect: a completion delayed    *)
(* past a reset cannot finish later work.                                  *)
TokensNameOneEffect ==
    /\ hart.pending # NoPending =>
        /\ hart.pending.pc = hart.pc
        /\ hart.pending.token < hart.nextToken
        /\ hart.pending.token \notin spent
    /\ \A t \in spent : t < hart.nextToken

(* pc, mepc, the vector base and the successor of a pending effect stay    *)
(* four-byte aligned through jumps, CSR writes, traps and returns.         *)
AlwaysAligned == OnBoundaries(hart)

(* The state an instruction may change, the input lines and the cycle      *)
(* counter aside.                                                          *)
Architecture(h) == <<h.registers, h.pc, h.retired, h.instret, [h.csr EXCEPT !.mip = {}], h.waiting>>

(* While an effect is pending nothing architectural moves: no interrupt is *)
(* taken, no other word issues, and a call that is refused, a completion   *)
(* of the wrong kind or length included, changes nothing at all.           *)
PendingFreezesArchitecture ==
    [][hart.pending # NoPending =>
          /\ hart'.pending = hart.pending => Architecture(hart') = Architecture(hart)
          /\ event' = "error" => hart' = hart]_vars

(* A trap retires nothing and writes no register: it leaves the trapping   *)
(* instruction's pc in mepc, interrupts masked, and nothing pending.       *)
TrapsArePrecise ==
    [][event' = "trap" =>
          /\ hart'.registers = hart.registers
          /\ hart'.retired = hart.retired /\ hart'.instret = hart.instret
          /\ hart'.csr.mepc = hart.pc
          /\ ~hart'.csr.mieBit /\ ~hart'.waiting
          /\ hart'.pending = NoPending]_vars

(* MRET undoes trap entry: from any state that can issue, taking a trap    *)
(* and returning from it resumes at the same pc with the same MIE.         *)
ReturnUndoesTrap ==
    \A interrupt \in BOOLEAN, code \in Lines :
        LET back == ReturnFromTrap(EnterTrap(hart, interrupt, code, 0))
        IN  back.pc = hart.pc /\ back.csr.mieBit = hart.csr.mieBit
=============================================================================
