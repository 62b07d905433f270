------------------------- MODULE ModuleRaceProofs --------------------------
(***************************************************************************)
(* The flags principle of append_and_check, for any number of workers, any *)
(* modules and any executor: what is recorded, and who is about to notice. *)
(***************************************************************************)
EXTENDS ModuleRace, TLAPS

Labels == {"idle", "record", "show_read", "look_read", "show_write", "look_write", "flag"}

TypeOK ==
    /\ module_read_write_intersection \in BOOLEAN
    /\ executor \in Executors
    /\ pc \in [Threads -> Labels]
    /\ path \in [Threads -> Paths \cup {NoPath}]
    /\ loader_cache \in [Threads -> SUBSET Paths]
    /\ read_modules \in [Threads -> SUBSET Paths]
    /\ written_modules \in [Threads -> SUBSET Paths]

\* The flag is up, or a worker goes on to raise it.
Flagged == module_read_write_intersection \/ \E th \in Threads : pc[th] = "flag"

\* A path that was read, or written, is in its set or still to be shown; an early
\* return leaves paths out, but only once the flag is up.
ReadsCovered ==
    \A p \in has_read :
        \/ p \in module_reads
        \/ Flagged
        \/ \E th \in Threads : /\ pc[th] \in {"record", "show_read", "look_read"}
                               /\ p \in read_modules[th]

WritesCovered ==
    \A p \in has_published :
        \/ p \in module_writes
        \/ Flagged
        \/ \E th \in Threads : /\ pc[th] \notin {"idle", "flag"}
                               /\ p \in written_modules[th]

\* A path in both sets has raised the flag, or a worker is still to look at it.
Noticed ==
    \A p \in module_reads \cap module_writes :
        \/ Flagged
        \/ \E th \in Threads : pc[th] \in {"look_read", "look_write"} /\ path[th] = p

\* The sets, and what is about to enter them, hold what executions read and
\* published, and nothing else.
Honest ==
    /\ module_reads \subseteq has_read
    /\ module_writes \subseteq has_published
    /\ \A th \in Threads :
          /\ pc[th] # "idle" =>
                read_modules[th] \subseteq has_read /\ written_modules[th] \subseteq has_published
          /\ pc[th] = "look_read" => path[th] \in has_read
          /\ pc[th] = "look_write" => path[th] \in has_published
    /\ Flagged => has_read \cap has_published # {}

\* What an executor that reads before it writes has published it has read.
PublishedIsRead == ReadsBeforeWrites => has_published \subseteq has_read

Inv == TypeOK /\ ReadsCovered /\ WritesCovered /\ Noticed /\ Honest /\ PublishedIsRead

-----------------------------------------------------------------------------

\* The invariant holds in a new TxnLastInputOutput, before any record.
THEOREM InitInv == Init => Inv
  <1> SUFFICES ASSUME Init PROVE Inv
    BY Zenon
  <1>1. TypeOK
    BY JobsAssumption, Zenon DEF Init, TypeOK, Labels
  <1>2. ReadsCovered /\ WritesCovered /\ Noticed /\ Honest /\ PublishedIsRead
    BY Zenon DEF Init, ReadsCovered, WritesCovered, Noticed, Honest, Flagged, PublishedIsRead
  <1> QED
    BY <1>1, <1>2, Zenon DEF Inv

\* The lists of a job are sets of paths.
LEMMA JobFields ==
    ASSUME TypeOK, NEW j \in executor
    PROVE  /\ j.loads \subseteq Paths
           /\ j.looks_up \subseteq Paths
           /\ j.publishes \subseteq Paths
  BY JobsAssumption DEF TypeOK, Job

\* Running the VM preserves the invariant: what it captures is still to be shown.
LEMMA RunVMInv ==
    ASSUME Inv, NEW th \in Threads, RunVM(th)
    PROVE  Inv'
  <1> PICK j \in executor :
          /\ loader_cache' = [loader_cache EXCEPT ![th] = LoaderCache(th, j)]
          /\ \/ /\ j.kind = "execute"
                /\ read_modules' = [read_modules EXCEPT ![th] = Captured(th, j)]
                /\ written_modules' = [written_modules EXCEPT ![th] = j.publishes]
                /\ has_read' = has_read \cup Captured(th, j)
                /\ has_published' = has_published \cup j.publishes
                /\ Goto(th, "record")
             \/ /\ j.kind = "prologue"
                /\ UNCHANGED <<read_modules, written_modules, has_read, has_published, pc>>
    BY Zenon DEF RunVM
  <1>0. /\ pc[th] = "idle"
        /\ UNCHANGED <<module_reads, module_writes, module_read_write_intersection, executor,
                       path>>
    BY Zenon DEF RunVM
  <1>1. LoaderCache(th, j) \subseteq Paths /\ Captured(th, j) \subseteq Paths
    BY JobFields, Zenon DEF Inv, TypeOK, LoaderCache, Captured
  <1>2. TypeOK'
    BY <1>0, <1>1, JobFields, Zenon DEF Inv, TypeOK, Labels, Goto
  <1>3. CASE j.kind = "prologue" /\ UNCHANGED <<read_modules, written_modules, has_read,
                                                has_published, pc>>
    BY <1>0, <1>2, <1>3, Zenon DEF Inv, ReadsCovered, WritesCovered, Noticed, Honest, Flagged,
       PublishedIsRead, ReadsBeforeWrites
  <1>4. CASE /\ read_modules' = [read_modules EXCEPT ![th] = Captured(th, j)]
             /\ written_modules' = [written_modules EXCEPT ![th] = j.publishes]
             /\ has_read' = has_read \cup Captured(th, j)
             /\ has_published' = has_published \cup j.publishes
             /\ Goto(th, "record")
    <2>0. /\ \A w \in Threads : w # th => /\ pc'[w] = pc[w]
                                          /\ read_modules'[w] = read_modules[w]
                                          /\ written_modules'[w] = written_modules[w]
          /\ pc'[th] = "record"
          /\ read_modules'[th] = Captured(th, j)
          /\ written_modules'[th] = j.publishes
      BY <1>4, Zenon DEF Inv, TypeOK, Goto
    <2>1. Flagged' <=> Flagged
      BY <1>0, <2>0, Zenon DEF Flagged
    <2>2. ReadsCovered'
      BY <1>0, <1>4, <2>0, <2>1, SMT DEF Inv, ReadsCovered
    <2>5. WritesCovered'
      BY <1>0, <1>4, <2>0, <2>1, SMT DEF Inv, WritesCovered
    <2>6. Noticed'
      BY <1>0, <1>4, <2>0, <2>1, SMT DEF Inv, Noticed
    <2>3. Honest'
      BY <1>0, <1>4, <2>0, <2>1, Zenon DEF Inv, Honest
    <2>4. PublishedIsRead'
      BY <1>0, <1>4, Zenon DEF Inv, PublishedIsRead, ReadsBeforeWrites, Captured
    <2> QED
      BY <1>2, <2>2, <2>3, <2>4, <2>5, <2>6, Zenon DEF Inv
  <1> QED
    BY <1>3, <1>4, Zenon

\* record's look at the flag preserves the invariant: it leaves early only when
\* the flag is up.
LEMMA RecordInv ==
    ASSUME Inv, NEW th \in Threads, RecordModules(th)
    PROVE  Inv'
  <1>0. \A w \in Threads : w # th => pc'[w] = pc[w]
    BY Zenon DEF Inv, TypeOK, RecordModules, Goto
  <1>1. /\ pc[th] = "record"
        /\ pc'[th] = IF module_read_write_intersection THEN "idle" ELSE "show_read"
    BY Zenon DEF Inv, TypeOK, RecordModules, Goto
  <1>2. TypeOK'
    BY Zenon DEF Inv, TypeOK, Labels, RecordModules, Goto
  <1>3. Flagged' <=> Flagged
    BY <1>0, <1>1, Zenon DEF RecordModules, Flagged
  <1>4. module_read_write_intersection => Flagged
    BY Zenon DEF Flagged
  <1>5. ReadsCovered' /\ WritesCovered' /\ Noticed'
    BY <1>0, <1>1, <1>3, <1>4, Zenon DEF Inv, ReadsCovered, WritesCovered, Noticed,
       RecordModules
  <1>6. Honest' /\ PublishedIsRead'
    BY <1>0, <1>1, <1>3, Zenon DEF Inv, Honest, PublishedIsRead, ReadsBeforeWrites, RecordModules
  <1> QED
    BY <1>2, <1>5, <1>6, Zenon DEF Inv

\* Showing a read preserves the invariant: the worker looks at the path next.
LEMMA ShowReadInv ==
    ASSUME Inv, NEW th \in Threads, ShowRead(th)
    PROVE  Inv'
  <1>0. \A w \in Threads : w # th => /\ pc'[w] = pc[w]
                                     /\ read_modules'[w] = read_modules[w]
                                     /\ path'[w] = path[w]
    BY Zenon DEF Inv, TypeOK, ShowRead, Goto
  <1>1. /\ pc[th] = "show_read"
        /\ pc'[th] # "flag"
    BY Zenon DEF Inv, TypeOK, ShowRead, Goto
  <1>2. Flagged' <=> Flagged
    BY <1>0, <1>1, Zenon DEF ShowRead, Flagged
  <1>3. CASE read_modules[th] = {} /\ Goto(th, "show_write")
             /\ UNCHANGED <<module_reads, read_modules, path>>
    <2>1. TypeOK'
      BY <1>3, Zenon DEF Inv, TypeOK, Labels, ShowRead, Goto
    <2>2. pc'[th] = "show_write"
      BY <1>3, Zenon DEF Inv, TypeOK, Goto
    <2>3. ReadsCovered' /\ WritesCovered' /\ Noticed'
      BY <1>0, <1>1, <1>2, <1>3, <2>2, Zenon DEF Inv, ReadsCovered, WritesCovered, Noticed, ShowRead
    <2>4. Honest' /\ PublishedIsRead'
      BY <1>0, <1>1, <1>2, <1>3, <2>2, Zenon DEF Inv, Honest, PublishedIsRead, ReadsBeforeWrites,
         ShowRead
    <2> QED
      BY <2>1, <2>3, <2>4, Zenon DEF Inv
  <1>4. ASSUME NEW p \in read_modules[th],
               module_reads' = module_reads \cup {p},
               read_modules' = [read_modules EXCEPT ![th] = @ \ {p}],
               path' = [path EXCEPT ![th] = p],
               Goto(th, "look_read")
        PROVE  Inv'
    <2>1. TypeOK'
      BY <1>4, Zenon DEF Inv, TypeOK, Labels, ShowRead, Goto
    <2>2. pc'[th] = "look_read" /\ path'[th] = p /\ read_modules'[th] = read_modules[th] \ {p}
      BY <1>4, Zenon DEF Inv, TypeOK, Goto
    <2>3. ReadsCovered'
      BY <1>0, <1>1, <1>2, <1>4, <2>2, Zenon DEF Inv, ReadsCovered, ShowRead
    <2>4. WritesCovered'
      BY <1>0, <1>1, <1>2, <1>4, <2>2, Zenon DEF Inv, WritesCovered, ShowRead
    <2>5. Noticed'
      BY <1>0, <1>1, <1>2, <1>4, <2>2, SMT DEF Inv, Noticed, ShowRead
    <2>6. Honest' /\ PublishedIsRead'
      BY <1>0, <1>1, <1>2, <1>4, <2>2, SMT DEF Inv, Honest, PublishedIsRead, ReadsBeforeWrites,
         ShowRead
    <2> QED
      BY <2>1, <2>3, <2>4, <2>5, <2>6, Zenon DEF Inv
  <1> QED
    BY <1>3, <1>4, Zenon DEF ShowRead

\* Showing a write preserves the invariant: the worker looks at the path next.
LEMMA ShowWriteInv ==
    ASSUME Inv, NEW th \in Threads, ShowWrite(th)
    PROVE  Inv'
  <1>0. \A w \in Threads : w # th => /\ pc'[w] = pc[w]
                                     /\ written_modules'[w] = written_modules[w]
                                     /\ path'[w] = path[w]
    BY Zenon DEF Inv, TypeOK, ShowWrite, Goto
  <1>1. /\ pc[th] = "show_write"
        /\ pc'[th] # "flag"
    BY Zenon DEF Inv, TypeOK, ShowWrite, Goto
  <1>2. Flagged' <=> Flagged
    BY <1>0, <1>1, Zenon DEF ShowWrite, Flagged
  <1>3. CASE written_modules[th] = {} /\ Goto(th, "idle")
             /\ UNCHANGED <<module_writes, written_modules, path>>
    <2>1. TypeOK'
      BY <1>3, Zenon DEF Inv, TypeOK, Labels, ShowWrite, Goto
    <2>2. pc'[th] = "idle"
      BY <1>3, Zenon DEF Inv, TypeOK, Goto
    <2>3. ReadsCovered' /\ WritesCovered' /\ Noticed'
      BY <1>0, <1>1, <1>2, <1>3, <2>2, Zenon DEF Inv, ReadsCovered, WritesCovered, Noticed, ShowWrite
    <2>4. Honest' /\ PublishedIsRead'
      BY <1>0, <1>1, <1>2, <1>3, <2>2, Zenon DEF Inv, Honest, PublishedIsRead, ReadsBeforeWrites,
         ShowWrite
    <2> QED
      BY <2>1, <2>3, <2>4, Zenon DEF Inv
  <1>4. ASSUME NEW p \in written_modules[th],
               module_writes' = module_writes \cup {p},
               written_modules' = [written_modules EXCEPT ![th] = @ \ {p}],
               path' = [path EXCEPT ![th] = p],
               Goto(th, "look_write")
        PROVE  Inv'
    <2>1. TypeOK'
      BY <1>4, Zenon DEF Inv, TypeOK, Labels, ShowWrite, Goto
    <2>2. /\ pc'[th] = "look_write" /\ path'[th] = p
          /\ written_modules'[th] = written_modules[th] \ {p}
      BY <1>4, Zenon DEF Inv, TypeOK, Goto
    <2>3. ReadsCovered'
      BY <1>0, <1>1, <1>2, <1>4, <2>2, Zenon DEF Inv, ReadsCovered, ShowWrite
    <2>4. WritesCovered'
      BY <1>0, <1>1, <1>2, <1>4, <2>2, Zenon DEF Inv, WritesCovered, ShowWrite
    <2>5. Noticed'
      BY <1>0, <1>1, <1>2, <1>4, <2>2, SMT DEF Inv, Noticed, ShowWrite
    <2>6. Honest' /\ PublishedIsRead'
      BY <1>0, <1>1, <1>2, <1>4, <2>2, SMT DEF Inv, Honest, PublishedIsRead, ReadsBeforeWrites,
         ShowWrite
    <2> QED
      BY <2>1, <2>3, <2>4, <2>5, <2>6, Zenon DEF Inv
  <1> QED
    BY <1>3, <1>4, Zenon DEF ShowWrite

\* Looking preserves the invariant: a path that is in both sets sends the worker
\* on to raise the flag.
LEMMA LookInv ==
    ASSUME Inv, NEW th \in Threads, Look(th)
    PROVE  Inv'
  <1>0. \A w \in Threads : w # th => pc'[w] = pc[w]
    BY Zenon DEF Inv, TypeOK, Look, Goto
  <1>1. \/ /\ pc[th] = "look_read"
           /\ pc'[th] = IF path[th] \in module_writes THEN "flag" ELSE "show_read"
        \/ /\ pc[th] = "look_write"
           /\ pc'[th] = IF path[th] \in module_reads THEN "flag" ELSE "show_write"
    BY Zenon DEF Inv, TypeOK, Look, Goto
  <1>2. TypeOK'
    BY Zenon DEF Inv, TypeOK, Labels, Look, Goto
  <1>3. CASE pc'[th] = "flag"
    <2>1. Flagged'
      BY <1>3, Zenon DEF Flagged
    <2>2. has_read \cap has_published # {}
      BY <1>1, <1>3, Zenon DEF Inv, Honest
    <2>3. ReadsCovered' /\ WritesCovered' /\ Noticed'
      BY <2>1, Zenon DEF ReadsCovered, WritesCovered, Noticed
    <2>4. Honest' /\ PublishedIsRead'
      BY <1>0, <1>1, <1>3, <2>2, Zenon DEF Inv, Honest, PublishedIsRead, ReadsBeforeWrites, Look
    <2> QED
      BY <1>2, <2>3, <2>4, Zenon DEF Inv
  <1>4. CASE pc'[th] # "flag"
    <2>1. Flagged' <=> Flagged
      BY <1>0, <1>1, <1>4, Zenon DEF Flagged, Look
    <2>2. path[th] \notin module_reads \cap module_writes
      BY <1>1, <1>4, Zenon
    <2>3. ReadsCovered'
      BY <1>0, <1>1, <1>4, <2>1, Zenon DEF Inv, ReadsCovered, Look
    <2>4. WritesCovered'
      BY <1>0, <1>1, <1>4, <2>1, Zenon DEF Inv, WritesCovered, Look
    <2>5. Noticed'
      BY <1>0, <2>1, <2>2, SMT DEF Inv, Noticed, Look
    <2>6. Honest' /\ PublishedIsRead'
      BY <1>0, <1>1, <1>4, <2>1, Zenon DEF Inv, Honest, PublishedIsRead, ReadsBeforeWrites, Look
    <2> QED
      BY <1>2, <2>3, <2>4, <2>5, <2>6, Zenon DEF Inv
  <1> QED
    BY <1>3, <1>4, Zenon

\* Raising the flag preserves the invariant.
LEMMA SetFlagInv ==
    ASSUME Inv, NEW th \in Threads, SetFlag(th)
    PROVE  Inv'
  <1>1. TypeOK'
    BY Zenon DEF Inv, TypeOK, Labels, SetFlag, Goto
  <1>2. Flagged /\ Flagged'
    BY Zenon DEF Flagged, SetFlag
  <1>3. ReadsCovered' /\ WritesCovered' /\ Noticed'
    BY <1>2, Zenon DEF ReadsCovered, WritesCovered, Noticed
  <1>4. /\ \A w \in Threads : w # th => pc'[w] = pc[w]
        /\ pc'[th] = "idle"
    BY Zenon DEF Inv, TypeOK, SetFlag, Goto
  <1>5. Honest' /\ PublishedIsRead'
    BY <1>2, <1>4, Zenon DEF Inv, Honest, PublishedIsRead, ReadsBeforeWrites, SetFlag
  <1> QED
    BY <1>1, <1>3, <1>5, Zenon DEF Inv

\* The invariant holds in every reachable state of concurrent records.
THEOREM Invariance == Spec => []Inv
  <1>1. ASSUME Inv, UNCHANGED vars PROVE Inv'
    BY <1>1, Zenon DEF vars, Inv, TypeOK, ReadsCovered, WritesCovered, Noticed, Honest, Flagged,
       PublishedIsRead, ReadsBeforeWrites
  <1>2. Inv /\ [Next]_vars => Inv'
    BY <1>1, RunVMInv, RecordInv, ShowReadInv, ShowWriteInv, LookInv, SetFlagInv, Zenon DEF Next
  <1> QED
    BY InitInv, <1>2, PTL DEF Spec

-----------------------------------------------------------------------------

\* When no record is under way, what was read and published is in the sets, or
\* the flag is up; and what is in both sets has raised it.
LEMMA Found == Inv => IntersectionFound
  BY Zenon DEF Inv, ReadsCovered, WritesCovered, Noticed, Flagged, AllIdle, IntersectionFound

\* "The intersection is guaranteed to be found" (record): for any number of
\* workers, any modules and any executor, a module that executions read through
\* their views and published raises module_read_write_intersection.
THEOREM RaceIsFound == Spec => []IntersectionFound
  BY Invariance, Found, PTL

\* module_read_write_intersection is never set for modules that are only read or
\* only published.
THEOREM RaceIsReal == Spec => []FlagIsReal
  <1>1. Inv => FlagIsReal
    BY Zenon DEF Inv, Honest, Flagged, FlagIsReal
  <1> QED
    BY Invariance, <1>1, PTL

\* With an executor that reads before it writes, the flag protects every loader
\* cache, also those that hold what unrecorded prologues and init have loaded: a
\* published module has been read by the very execution that published it.
THEOREM CachesAreClean == Spec => []CacheIsClean
  <1>1. Inv => CacheIsClean
    BY Found, Zenon DEF Inv, PublishedIsRead, IntersectionFound, CacheIsClean
  <1> QED
    BY Invariance, <1>1, PTL

=============================================================================
