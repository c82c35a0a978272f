------------------------------- MODULE Runner -------------------------------
(***************************************************************************)
(* The direct execution environment: run_program drives one machine with a *)
(* budget, and service_operation answers each pending operation at once    *)
(* from a view of system memory                                            *)
(* (src/sim/semantic/holon_npu_execution.cpp).                             *)
(***************************************************************************)
EXTENDS Machine

CONSTANTS
    ViewBase,     \* system_memory_view::base
    ViewBytes,    \* Its length.
    SystemImages, \* What system memory may hold initially.
    Budgets       \* The budgets run_program is called with.

ASSUME RunnerAssumption ==
    /\ ViewBase \in Addresses /\ ViewBytes \in Nat
    /\ SystemImages \subseteq [0 .. ViewBytes - 1 -> Bytes]
    /\ Budgets \subseteq Nat
    /\ Half > 1  \* One retirement shows in a counter.

VARIABLES
    system,   \* The bytes of the view.
    run       \* The run_program call: [phase, initial, traps, budget, reason].

runnerVars == <<vars, system, run>>

Reasons == {"none", "stopped", "waiting", "budget", "error"}

RunnerTypeOK ==
    /\ TypeOK
    /\ system \in [0 .. ViewBytes - 1 -> Bytes]
    /\ run \in [phase : {"idle", "running"}, initial : Counters, traps : Nat,
                budget : Budgets \cup {0}, reason : Reasons]

-----------------------------------------------------------------------------
(* service_operation *)

Viewed == ViewRange(ViewBase, ViewBytes, pending.request.address, pending.request.size)
ViewIndex(i) == pending.request.address - ViewBase + i - 1

(* Wrong variant: every bound request is answered with bytes. *)
ServiceWithBytes ==
    IF ~IsExternal THEN [kind |-> "success"]
    ELSE IF ~Viewed THEN [kind |-> "fault", address |-> NoAddress]
    ELSE [kind |-> "payload", bytes |-> [i \in 1 .. pending.request.size |-> system[ViewIndex(i)]]]

ServiceResult ==
    IF ~IsExternal THEN [kind |-> "success"]
    ELSE IF ~Viewed THEN [kind |-> "fault", address |-> NoAddress]
    ELSE IF pending.request.access = "write" THEN [kind |-> "success"]
    ELSE [kind |-> "payload", bytes |-> [i \in 1 .. pending.request.size |-> system[ViewIndex(i)]]]

(* The write is copied into the view before complete is called. *)
Serviced ==
    IF IsExternal /\ Viewed /\ pending.request.access = "write"
    THEN [k \in DOMAIN system |->
            IF \E i \in 1 .. pending.request.size : k = ViewIndex(i)
            THEN pending.request.payload[k - ViewIndex(0)]
            ELSE system[k]]
    ELSE system

ServiceOperation ==
    /\ pending # NoOperation
    /\ system' = Serviced
    /\ Completion(pending.token, ServiceResult) \/ CompleteRefused(pending.token, ServiceResult)

-----------------------------------------------------------------------------
(* run_program *)

(* What the budget counts; the subtraction is modulo the counter's width.   *)
Used == ((hart.retired - run.initial) % (Half * Half)) + run.traps

(* Wrong variant: one more instruction than the budget. *)
BeyondBudget == Used > run.budget

Exhausted == Used >= run.budget

RunProgram(budget) ==
    /\ run.phase = "idle"
    /\ run' = [phase |-> "running", initial |-> hart.retired, traps |-> 0, budget |-> budget, reason |-> "none"]
    /\ UNCHANGED <<vars, system>>

Report(reason) == run' = [run EXCEPT !.phase = "idle", !.reason = reason]

ReturnStopped ==
    /\ run.phase = "running" /\ stop
    /\ Report("stopped")
    /\ UNCHANGED <<vars, system>>

ReturnBudget ==
    /\ run.phase = "running" /\ ~stop /\ Exhausted
    /\ Report("budget")
    /\ UNCHANGED <<vars, system>>

(* Wrong variant: traps are not counted. *)
ConcludeUncounted ==
    CASE event' = "error"    -> Report("error")
      [] event' = "sleeping" -> Report("waiting")
      [] OTHER               -> UNCHANGED run

(* The rest of an iteration, from the event its call returned.              *)
Conclude ==
    CASE event' = "error"    -> Report("error")
      [] event' = "sleeping" -> Report("waiting")
      [] event' = "trap"     -> run' = [run EXCEPT !.traps = @ + 1]
      [] OTHER               -> UNCHANGED run

Iterate ==
    /\ run.phase = "running" /\ ~stop /\ ~Exhausted
    /\ IF pending # NoOperation THEN ServiceOperation
       ELSE (Advance \/ AdvanceRefused) /\ UNCHANGED system
    /\ Conclude

(* Between runs the caller boots, resets and drives the lines.              *)
BetweenRuns == run.phase = "idle" /\ Environment /\ UNCHANGED <<system, run>>

-----------------------------------------------------------------------------
RunnerInit ==
    /\ Init
    /\ system \in SystemImages
    /\ run = [phase |-> "idle", initial |-> 0, traps |-> 0, budget |-> 0, reason |-> "none"]

RunnerNext ==
    \/ \E budget \in Budgets : RunProgram(budget)
    \/ ReturnStopped
    \/ ReturnBudget
    \/ Iterate
    \/ BetweenRuns

(* The loop is sequential code: it takes its next iteration.                *)
RunnerSpec ==
    /\ RunnerInit /\ [][RunnerNext]_runnerVars
    /\ WF_runnerVars(ReturnStopped \/ ReturnBudget \/ Iterate)

-----------------------------------------------------------------------------
(* A run never does more than its budget of retirements and traps.          *)
BudgetIsKept == run.phase = "running" => Used <= run.budget

(* A run that reports leaves no instruction half done, so the caller may    *)
(* change lines or stop there; only a run out of tokens may break off.      *)
RunsEndBetweenInstructions ==
    run.phase = "idle" /\ nextToken # MaxToken => ~InFlight

(* What service_operation answers is always acceptable: a run fails only    *)
(* because the machine was never booted or the tokens have run out.         *)
ErrorsAreTheCallers ==
    run.reason # "error" /\ run'.reason = "error" => ~started \/ nextToken = MaxToken

(* A run reports waiting only of a hart that an enabled input cannot wake.  *)
WaitingIsGenuine ==
    run'.reason = "waiting" /\ run.phase = "running" =>
        hart'.waiting /\ Enabled(hart') = {} /\ ~InFlight'

(* System memory changes only in the step that retires the store or DMA     *)
(* instruction, never under a trap or a refused completion.                 *)
SystemWritesRetire ==
    system' # system => event' = "committed" /\ hart'.retired # hart.retired

(* A run's report is true: its budget was kept, the machine it leaves is    *)
(* between instructions, and a wait is one that no input ends (run_program).*)
ReportsAreTrue == [][RunnerTypeOK' /\ BudgetIsKept' /\ RunsEndBetweenInstructions' /\ WaitingIsGenuine]_runnerVars

(* service_operation moves bytes before the machine has judged its answer:  *)
(* the answer is accepted, and what it moved belongs to an instruction that *)
(* retires.                                                                 *)
ServiceIsAccepted == [][ErrorsAreTheCallers /\ SystemWritesRetire]_runnerVars

(* Every run returns: handlers that trap for ever use up the budget too.    *)
RunsReturn == run.phase = "running" ~> run.phase = "idle"
=============================================================================
