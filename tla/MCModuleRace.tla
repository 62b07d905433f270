--------------------------- MODULE MCModuleRace ----------------------------
(* Jobs over two modules, m and n, beside the one that init loads. *)
EXTENDS ModuleRace, TLC

CONSTANTS account, m, n

Execution(loads, looks_up, publishes, invalidates) ==
    [kind |-> "execute", loads |-> loads, looks_up |-> looks_up, publishes |-> publishes,
     invalidates |-> invalidates]

\* A prologue that needs a module.
Prologue ==
    [kind |-> "prologue", loads |-> {account, m}, looks_up |-> {}, publishes |-> {},
     invalidates |-> FALSE]

\* Executions that use modules and publish them without a look.
AnyJobs ==
    {Execution(loads, {}, publishes, FALSE) :
        loads \in {{}, {account, m}, {m, n}}, publishes \in {{}, {m}, {m, n}}}
    \cup {Prologue}

\* The executions of the Aptos VM, with one whose publishing fails.
AptosJobs ==
    {Execution(loads, publishes, publishes, FALSE) :
        loads \in {{}, {account, m}, {m, n}}, publishes \in {{}, {m}, {n}}}
    \cup {Execution({n}, {m}, {}, TRUE), Prologue}

BothExecutors == {AnyJobs, AptosJobs}

Workers == Permutations(Threads)

=============================================================================
