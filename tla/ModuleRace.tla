----------------------------- MODULE ModuleRace ----------------------------
(***************************************************************************)
(* How the block executor notices that a module is both read and published *)
(* in one block (txn_last_input_output.rs: record, append_and_check).      *)
(*                                                                         *)
(* A worker keeps one VM, and so one loader cache, for all the jobs it     *)
(* runs.  An execution records what it read through its view and what it   *)
(* wrote; a prologue task (executor.rs: execute_prologue) records nothing. *)
(* A module that is in the cache is not asked of the view again to be run, *)
(* but the VM looks up in the view what it is about to publish.            *)
(***************************************************************************)
EXTENDS Integers

CONSTANTS
    Threads,
    Paths,           \* access paths of modules
    NoPath,
    Preloaded,       \* what init loads: 0x1::account and what it needs
    Executors,       \* sets of jobs, one for each executor E of BlockExecutor
    MaxJobs          \* how many jobs the block comes to

\* A job runs the modules it loads, looks up others in the view, and publishes; the
\* loader cache may be invalid after it.
Job ==
    [kind : {"execute", "prologue"}, loads : SUBSET Paths, looks_up : SUBSET Paths,
     publishes : SUBSET Paths, invalidates : BOOLEAN]

ASSUME JobsAssumption ==
    /\ \A jobs \in Executors : jobs \subseteq Job
    /\ NoPath \notin Paths
    /\ Preloaded \subseteq Paths
    /\ MaxJobs \in Nat

VARIABLES
    module_reads, module_writes,
    module_read_write_intersection,
    executor,        \* the jobs of this block's executor
    loader_cache,    \* per thread, what its VM has loaded in this block
    read_modules,    \* per thread, what is left of the two lists that its record
    written_modules, \* appends; their order is the VM's, any order here
    path,            \* per thread, the path it has shown
    pc,              \* per thread, the next step of its job
    left,            \* jobs still to be run
    has_read,        \* what executions have read through their views,
    has_published    \* and what they have written: history

vars == <<module_reads, module_writes, module_read_write_intersection, executor,
          loader_cache, read_modules, written_modules, path, pc, left, has_read,
          has_published>>

Init ==
    /\ module_reads = {}
    /\ module_writes = {}
    /\ module_read_write_intersection = FALSE
    /\ executor \in Executors
    /\ loader_cache = [th \in Threads |-> Preloaded]
    /\ read_modules = [th \in Threads |-> {}]
    /\ written_modules = [th \in Threads |-> {}]
    /\ path = [th \in Threads |-> NoPath]
    /\ pc = [th \in Threads |-> "idle"]
    /\ left = MaxJobs
    /\ has_read = {}
    /\ has_published = {}

Goto(th, label) == pc' = [pc EXCEPT ![th] = label]

\* Faulty: what is published is not looked up before.
CapturedLoads(th, j) == j.loads \ loader_cache[th]

\* What the VM asks of the view: the modules that its loader has not cached, and
\* those that it looks up to publish them.
Captured(th, j) == (j.loads \ loader_cache[th]) \cup j.looks_up

\* The loader keeps what it loads, unless a publishing that failed after its modules
\* were loaded marks the cache: the next session then starts with an empty one.
LoaderCache(th, j) ==
    IF j.invalidates THEN {} ELSE loader_cache[th] \cup j.loads

\* An idle worker runs the VM on a transaction, or on the prologue of one.
RunVM(th) ==
    /\ pc[th] = "idle"
    /\ left > 0
    /\ left' = left - 1
    /\ \E j \in executor :
          /\ loader_cache' = [loader_cache EXCEPT ![th] = LoaderCache(th, j)]
          /\ \/ /\ j.kind = "execute"
                /\ read_modules' = [read_modules EXCEPT ![th] = Captured(th, j)]
                /\ written_modules' = [written_modules EXCEPT ![th] = j.publishes]
                /\ has_read' = has_read \cup Captured(th, j)
                /\ has_published' = has_published \cup j.publishes
                /\ Goto(th, "record")
             \/ /\ j.kind = "prologue"
                /\ UNCHANGED <<read_modules, written_modules, has_read, has_published, pc>>
    /\ UNCHANGED <<module_reads, module_writes, module_read_write_intersection, executor,
                   path>>

\* record looks at the flag first.
RecordModules(th) ==
    /\ pc[th] = "record"
    /\ Goto(th, IF module_read_write_intersection THEN "idle" ELSE "show_read")
    /\ UNCHANGED <<module_reads, module_writes, module_read_write_intersection, executor,
                   loader_cache, read_modules, written_modules, path, left, has_read,
                   has_published>>

\* Faulty: looks at a path before it is inserted.
ShowReadLate(th) ==
    /\ pc[th] = "show_read"
    /\ module_reads' = IF path[th] = NoPath THEN module_reads
                       ELSE module_reads \cup {path[th]}
    /\ \/ \E p \in read_modules[th] :
             /\ read_modules' = [read_modules EXCEPT ![th] = @ \ {p}]
             /\ path' = [path EXCEPT ![th] = p]
             /\ Goto(th, "look_read")
       \/ /\ read_modules[th] = {}
          /\ path' = [path EXCEPT ![th] = NoPath]
          /\ Goto(th, "show_write")
          /\ UNCHANGED read_modules
    /\ UNCHANGED <<module_writes, module_read_write_intersection, executor, loader_cache,
                   written_modules, left, has_read, has_published>>

\* append_and_check of the reads: insert a path, or go on to the writes.
ShowRead(th) ==
    /\ pc[th] = "show_read"
    /\ \/ \E p \in read_modules[th] :
             /\ module_reads' = module_reads \cup {p}
             /\ read_modules' = [read_modules EXCEPT ![th] = @ \ {p}]
             /\ path' = [path EXCEPT ![th] = p]
             /\ Goto(th, "look_read")
       \/ /\ read_modules[th] = {}
          /\ Goto(th, "show_write")
          /\ UNCHANGED <<module_reads, read_modules, path>>
    /\ UNCHANGED <<module_writes, module_read_write_intersection, executor, loader_cache,
                   written_modules, left, has_read, has_published>>

\* append_and_check of the writes: insert a path, or leave record.
ShowWrite(th) ==
    /\ pc[th] = "show_write"
    /\ \/ \E p \in written_modules[th] :
             /\ module_writes' = module_writes \cup {p}
             /\ written_modules' = [written_modules EXCEPT ![th] = @ \ {p}]
             /\ path' = [path EXCEPT ![th] = p]
             /\ Goto(th, "look_write")
       \/ /\ written_modules[th] = {}
          /\ Goto(th, "idle")
          /\ UNCHANGED <<module_writes, written_modules, path>>
    /\ UNCHANGED <<module_reads, module_read_write_intersection, executor, loader_cache,
                   read_modules, left, has_read, has_published>>

\* set_to_check.contains: a path that is found ends both loops.
Look(th) ==
    /\ \/ /\ pc[th] = "look_read"
          /\ Goto(th, IF path[th] \in module_writes THEN "flag" ELSE "show_read")
       \/ /\ pc[th] = "look_write"
          /\ Goto(th, IF path[th] \in module_reads THEN "flag" ELSE "show_write")
    /\ UNCHANGED <<module_reads, module_writes, module_read_write_intersection, executor,
                   loader_cache, read_modules, written_modules, path, left, has_read,
                   has_published>>

\* module_read_write_intersection.store(true).
SetFlag(th) ==
    /\ pc[th] = "flag"
    /\ module_read_write_intersection' = TRUE
    /\ Goto(th, "idle")
    /\ UNCHANGED <<module_reads, module_writes, executor, loader_cache, read_modules,
                   written_modules, path, left, has_read, has_published>>

AllIdle == \A th \in Threads : pc[th] = "idle"

Next ==
    \/ \E th \in Threads :
          \/ RunVM(th) \/ RecordModules(th) \/ ShowRead(th) \/ ShowWrite(th) \/ Look(th)
          \/ SetFlag(th)
    \/ AllIdle /\ left = 0 /\ UNCHANGED vars

Spec == Init /\ [][Next]_vars

-----------------------------------------------------------------------------
(* Properties *)

\* "The intersection is guaranteed to be found": when no record is under way, a
\* module that executions both read through their views and published has raised
\* the flag, however the insertions and the look-ups of the workers interleave.
IntersectionFound ==
    AllIdle /\ has_read \cap has_published # {} => module_read_write_intersection

\* The flag is raised only by a module that is read and published.
FlagIsReal ==
    module_read_write_intersection => has_read \cap has_published # {}

\* The VM looks up what it publishes: "All Move executions satisfy the
\* read-before-write property" (aptos_vm.rs:898).
ReadsBeforeWrites ==
    \A j \in executor : j.publishes \subseteq j.looks_up

\* "When the sets do not have an intersection, it is impossible for the race to
\* occur as any module in the loader cache may not be published by a transaction in
\* the ongoing block" (record): with an executor that reads before it writes, when no
\* record is under way and the flag is down, no worker has a published module in the
\* loader cache, not even one that a prologue left there for later executions
\* without any record of having read it.
CacheIsClean ==
    ReadsBeforeWrites /\ AllIdle /\ ~module_read_write_intersection =>
        \A th \in Threads : loader_cache[th] \cap has_published = {}

=============================================================================
