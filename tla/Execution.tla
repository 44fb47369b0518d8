----------------------------- MODULE Execution ------------------------------
(***************************************************************************)
(* How a script runs (src/execute.rs) on the machine's budgets             *)
(* (rune/crates/rune/src/runtime/budget.rs, Vm::run and poll_resume).      *)
(*                                                                         *)
(* An input that cannot await is resumed in slices: each installs the hard *)
(* total that is left and a soft threshold at which the outer machine, and *)
(* only it, yields between two instructions.  Everything else runs whole,  *)
(* as a future whose budget is installed for each poll, raced against the  *)
(* interrupt flag while it waits.  Native loops and nested machines draw   *)
(* from the same budget.                                                   *)
(*                                                                         *)
(* A program is the steps its outer machine will take.  A step is an       *)
(* instruction, and some do more: a native loop or a nested machine takes  *)
(* cost further permits, an await waits for a host future, an error ends.  *)
(***************************************************************************)
EXTENDS Naturals, Sequences, FiniteSets, Functions

CONSTANTS
    Slice,      \* SLICE
    MaxBudget,  \* budgets tried
    MaxCost,    \* permits of one native call
    MaxLen      \* steps of a program

ASSUME ExecutionAssumption ==
    /\ {MaxBudget, MaxCost, MaxLen} \subseteq Nat
    /\ Slice \in Nat \ {0}

Unlimited == MaxBudget + 1     \* usize::MAX: no budget is in effect

Mode == {"sliced", "input", "file"}   \* slice_sync, drive_async with Abandon and Finish
Plain == {[kind |-> k, cost |-> 0] : k \in {"inst", "await", "error"}}
ExecStep == Plain \cup [kind : {"native", "nested"}, cost : 1..MaxCost]
Program == UNION {[1..n -> ExecStep] : n \in 1..MaxLen}
Ending == [how : {"complete", "budget", "failed", "interrupted"}, exhausted : BOOLEAN]
NotYet == [how |-> "none", exhausted |-> FALSE]

VARIABLES
    execMode, program, total,  \* what runs, with which budget
    execAt,                        \* "start", "between", "running", "pending", "done"
    saved,                     \* remaining of slice_sync, Budget.budget of the future
    budget,                    \* BUDGET, of the thread
    yieldAt,                   \* YIELD_AT, of the thread
    threshold,                 \* the yield point the outer machine took
    ip,                        \* the next step
    work,                      \* permits the native call in hand will still take
    flag,                      \* the interrupt flag
    execOutcome,
    spent,                     \* history: permits taken
    since                      \* history: outer instructions since the flag was raised in this run

execVars == <<execMode, program, total, execAt, saved, budget, yieldAt, threshold, ip, work, flag,
          execOutcome, spent, since>>

NotRaised == MaxBudget + 1

ExecInit ==
    /\ execMode \in Mode
    /\ program \in Program
    /\ execMode = "sliced" => \A i \in DOMAIN program : program[i].kind # "await"
    /\ total \in 0..MaxBudget
    /\ execAt = "start"
    /\ saved = 0 /\ budget = Unlimited /\ yieldAt = 0 /\ threshold = 0
    /\ ip = 1 /\ work = 0
    /\ flag \in BOOLEAN
    /\ execOutcome = NotYet
    /\ spent = 0 /\ since = NotRaised

-----------------------------------------------------------------------------

\* The guards of the slice, of the future and of the machine give back what they took.
Restore == budget' = Unlimited /\ yieldAt' = 0

End(how, exhausted) ==
    /\ Restore
    /\ execAt' = "done"
    /\ execOutcome' = [how |-> how, exhausted |-> exhausted]

\* A session clears the flag when it admits the input.  A file does not: what was raised
\* since the handler was installed is still there.
Admit ==
    /\ execAt = "start"
    /\ flag' = (execMode = "file" /\ flag)
    /\ saved' = total
    /\ execAt' = "between"
    /\ UNCHANGED <<execMode, program, total, budget, yieldAt, threshold, ip, work, execOutcome,
                   spent,
                   since>>

\* Ctrl-C.
ExecInterrupt ==
    /\ execAt # "done" /\ ~flag
    /\ flag' = TRUE
    /\ since' = IF execAt = "start" THEN NotRaised ELSE 0
    /\ UNCHANGED <<execMode, program, total, execAt, saved, budget, yieldAt, threshold, ip, work,
                   execOutcome, spent>>

\* Where the outer machine yields: nowhere when what is left is no more than a slice.
Threshold(left) ==
    IF execMode = "sliced" /\ left > Slice THEN left - Slice ELSE 0

\* Mutant: every slice has the whole total.
ResumeAfresh ==
    /\ execAt \in {"between", "pending"}
    /\ budget' = total
    /\ threshold' = Threshold(total)
    /\ yieldAt' = 0
    /\ execAt' = "running"
    /\ UNCHANGED <<execMode, program, total, saved, ip, work, flag, execOutcome, spent, since>>

\* The next slice, or the next poll: the machine takes the yield point for itself, so
\* that what it calls has none.
Resume ==
    /\ \/ execAt = "between"
       \/ execAt = "pending"             \* the host future is ready
    /\ budget' = saved
    /\ threshold' = Threshold(saved)
    /\ yieldAt' = 0
    /\ execAt' = "running"
    /\ UNCHANGED <<execMode, program, total, saved, ip, work, flag, execOutcome, spent, since>>

AtBoundary == execAt = "running" /\ work = 0 /\ ip <= Len(program)
Yields == threshold # 0 /\ budget <= threshold

\* One instruction of the outer machine.
Instruction ==
    /\ AtBoundary /\ ~Yields
    /\ budget > 0
    /\ spent' = spent + 1
    /\ since' = IF since = NotRaised THEN since ELSE since + 1
    /\ LET step == program[ip]
       IN  CASE step.kind = "inst" ->
                  /\ ip' = ip + 1 /\ budget' = budget - 1
                  /\ UNCHANGED <<execAt, saved, work, execOutcome, yieldAt>>
             [] step.kind \in {"native", "nested"} ->
                  /\ work' = step.cost /\ budget' = budget - 1
                  /\ UNCHANGED <<execAt, saved, ip, execOutcome, yieldAt>>
             [] step.kind = "await" ->
                  /\ ip' = ip + 1 /\ saved' = budget - 1
                  /\ execAt' = "pending"
                  /\ Restore
                  /\ UNCHANGED <<work, execOutcome>>
             [] step.kind = "error" ->
                  /\ saved' = budget - 1
                  /\ End("failed", budget = 1)
                  /\ UNCHANGED <<ip, work>>
    /\ UNCHANGED <<execMode, program, total, threshold, flag>>

\* A nested machine takes the yield point it finds.
NestedYields == program[ip].kind = "nested" /\ yieldAt # 0 /\ budget <= yieldAt

\* One permit of a native loop, or one instruction of a nested machine.
Inner ==
    /\ execAt = "running" /\ work > 0
    /\ ~NestedYields
    /\ budget > 0
    /\ budget' = budget - 1
    /\ spent' = spent + 1
    /\ work' = work - 1
    /\ ip' = IF work = 1 THEN ip + 1 ELSE ip
    /\ UNCHANGED <<execMode, program, total, execAt, saved, yieldAt, threshold, flag,
                   execOutcome, since>>

\* A native loop that has no permit, or a nested machine that halts, is an error of the
\* outer machine.  A future's halt may come without a place, and is then one for want of
\* budget.
InnerHalts ==
    /\ execAt = "running" /\ work > 0
    /\ NestedYields \/ budget = 0
    /\ saved' = budget
    /\ \/ End("failed", budget = 0)
       \/ execMode # "sliced" /\ budget = 0 /\ End("budget", FALSE)
    /\ UNCHANGED <<execMode, program, total, threshold, ip, work, flag, spent, since>>

\* The outer machine stops between two instructions.  slice_sync looks at the flag, then
\* at what is left.
Limited ==
    /\ AtBoundary
    /\ Yields \/ budget = 0
    /\ saved' = budget
    /\ \/ /\ execMode = "sliced" /\ flag
          /\ End("interrupted", FALSE)
       \/ /\ execMode = "sliced" /\ ~flag /\ budget = 0
          /\ End("budget", FALSE)
       \/ /\ execMode = "sliced" /\ ~flag /\ budget # 0
          /\ Restore
          /\ execAt' = "between"
          /\ UNCHANGED execOutcome
       \/ /\ execMode # "sliced"
          /\ End("budget", FALSE)
    /\ UNCHANGED <<execMode, program, total, threshold, ip, work, flag, spent, since>>

\* The program returns.  A file's ending stands; an input's is given up.
ExecExit ==
    /\ execAt = "running" /\ work = 0 /\ ip > Len(program)
    /\ saved' = budget
    /\ IF flag /\ execMode # "file" THEN End("interrupted", FALSE) ELSE End("complete", FALSE)
    /\ UNCHANGED <<execMode, program, total, threshold, ip, work, flag, spent, since>>

\* The cadence of Watched finds the flag while the future is pending.
Tick ==
    /\ execAt = "pending" /\ flag
    /\ End("interrupted", FALSE)
    /\ UNCHANGED <<execMode, program, total, saved, threshold, ip, work, flag, spent, since>>

ExecNext ==
    \/ Admit \/ ExecInterrupt \/ Resume \/ Instruction \/ Inner \/ InnerHalts \/ Limited \/ ExecExit
    \/ Tick

\* The thread runs; the cadence is a timer of the runtime.  A host future need not settle.
ExecFairness ==
    /\ WF_execVars(Admit \/ Instruction \/ Inner \/ InnerHalts \/ Limited \/ ExecExit)
    /\ WF_execVars(execAt = "between" /\ Resume)
    /\ WF_execVars(Tick)

ExecSpec == ExecInit /\ [][ExecNext]_execVars
ExecFairSpec == ExecSpec /\ ExecFairness

-----------------------------------------------------------------------------

ExecTypeOK ==
    /\ execMode \in Mode /\ program \in Program
    /\ {total, saved, spent} \subseteq 0..MaxBudget
    /\ execAt \in {"start", "between", "running", "pending", "done"}
    /\ budget \in 0..Unlimited
    /\ {yieldAt, threshold} \subseteq 0..MaxBudget
    /\ ip \in 1..(Len(program) + 1) /\ work \in 0..MaxCost
    /\ flag \in BOOLEAN
    /\ execOutcome \in Ending \cup {NotYet}
    /\ since \in 0..NotRaised

\* Permits of the first n steps.
CostOf(n) == SumFunctionOnSet([i \in DOMAIN program |-> 1 + program[i].cost], 1..n)

\* How the program ends when nothing slices or interrupts it: by its error or its return
\* if the total covers what leads there, and else where the total runs out, which is an
\* error inside a native call and the budget's end between instructions.
Whole ==
    LET errors == {i \in DOMAIN program : program[i].kind = "error"}
        last == IF errors = {} THEN Len(program) ELSE CHOOSE i \in errors : \A j \in errors : i <= j
        short == CHOOSE i \in 1..last : CostOf(i - 1) <= total /\ total < CostOf(i)
    IN  IF total >= CostOf(last)
        THEN IF errors = {} THEN [how |-> "complete", exhausted |-> FALSE]
             ELSE [how |-> "failed", exhausted |-> total = CostOf(last)]
        ELSE IF total = CostOf(short - 1) THEN [how |-> "budget", exhausted |-> FALSE]
             ELSE [how |-> "failed", exhausted |-> TRUE]

\* Slices, polls, thresholds and nested machines change nothing of how a program ends:
\* exactly the given total is spent, to the last permit, wherever it runs out.
SameAsWhole ==
    execAt = "done" /\ execOutcome.how # "interrupted" =>
        \/ execOutcome = Whole
        \/ execMode # "sliced" /\ execOutcome.how = "budget" /\ Whole.exhausted

\* No permit is lost or taken twice between slices, polls and native calls.
PermitsExact ==
    /\ execAt = "running" => spent + budget = total
    /\ execAt \in {"between", "pending", "done"} => spent + saved = total

\* An interrupt ends a sliced input within one slice of its own instructions, whatever
\* native calls cost, and what ends a session's input was raised during that input.  A file
\* may be ended by one that is older, but only while it waits for a host future.
InterruptPrompt ==
    /\ execMode = "sliced" /\ since # NotRaised => since <= Slice
    /\ execOutcome.how = "interrupted" =>
          IF execMode = "file" THEN ip > 1 /\ program[ip - 1].kind = "await"
                               ELSE since # NotRaised

\* Outside the machine the thread has no budget and no yield point: what the host runs
\* between slices and polls is not charged to a script.
AmbientRestored ==
    execAt # "running" => budget = Unlimited /\ yieldAt = 0

\* Every sliced input ends, whatever it calls.
SlicedEnds == execMode = "sliced" ~> execAt = "done"

\* Ctrl-C ends an execution even when the host future it waits for never settles.
InterruptEnds == (flag /\ execAt # "start") ~> execAt = "done"

\* execute and its slices: a program ends as it would in one piece, every permit is counted
\* once, Ctrl-C is seen within a slice, never discards the ending of a file, and the thread
\* is left as it was.
ExecutionSound ==
    /\ ExecTypeOK /\ SameAsWhole /\ PermitsExact
    /\ InterruptPrompt /\ AmbientRestored

=============================================================================
