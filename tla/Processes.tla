----------------------------- MODULE Processes ------------------------------
(***************************************************************************)
(* The processes of TOS and the files they hold open: ProcessHandler and   *)
(* ProcessExecutor (proc-handler.cpp, proc-executor.cpp), open and close   *)
(* of TOS (tos.cpp) and of the Lua library io (lib-io.cpp).                *)
(*                                                                         *)
(* There is one thread.  execute runs a whole program before it returns,   *)
(* so the programs in progress are nested, the running processes form a    *)
(* stack, and its top, current(), is taken for the process that calls.     *)
(* A process that was spawned waits in m_ready until somebody executes it. *)
(*                                                                         *)
(* A handle is the index of the inode, and an inode is open once at a      *)
(* time.  Permissions may refuse any call and are left out; a call that    *)
(* throws without an effect is a step not taken.                           *)
(***************************************************************************)
EXTENDS Integers, Sequences, FiniteSets

CONSTANTS File,         \* the files, by inode; each may be a program
          Mode,         \* the modes they are opened in
          Pid,          \* what new_pid may return
          Limit         \* the size at which suspawn says "too many processes"

ASSUME LimitAssumption == Limit \in Nat \ {0}
ASSUME PidAssumption == IsFiniteSet(Pid) /\ Pid # {}

VARIABLES
  running,      \* m_running, the bottom first: the m_handle of each process,
                \* with, as history, the mode each handle was asked in
  ready,        \* m_ready: pid to program
  files,        \* TOS::m_files: handle to mode
  open,         \* the inodes in m_icache
  present,      \* the files some catalog lists
  depth,        \* calls of execute in progress
  stranded      \* history: a process was left on the stack (ExecuteBusy)

vars == <<running, ready, files, open, present, depth, stranded>>

HandleTable == UNION { [D -> Mode] : D \in SUBSET File }
WaitTable   == UNION { [D -> File] : D \in SUBSET Pid }
NoHandles   == [f \in {} |-> {}]
Current     == running[Len(running)]
\* std::map::emplace keeps a value that is there.
Emplaced(f, x, v) ==
  [y \in DOMAIN f \cup {x} |-> IF y \in DOMAIN f THEN f[y] ELSE v]
Without(f, S) == [x \in DOMAIN f \ S |-> f[x]]

\* The stack as h leaves the handles of the calling process.
Holding(h) == [running EXCEPT ![Len(running)] = h]
Pushed     == Append(running, NoHandles)
Popped     == SubSeq(running, 1, Len(running) - 1)

\* The constructor runs the system process; main() then spawns and executes.
Init ==
  /\ running = <<NoHandles>>
  /\ ready = NoHandles
  /\ files = NoHandles
  /\ open = {}
  /\ present = File
  /\ depth = 0
  /\ stranded = FALSE

-----------------------------------------------------------------------------
\* Files.

\* io.open and TOS::open.
IoOpen(f, m) ==
  /\ depth > 0
  /\ m \in {"r", "r+"} => f \in present
  /\ f \notin open
  /\ running' = Holding(Emplaced(Current, f, m))
  /\ files' = Emplaced(files, f, m)
  /\ open' = open \cup {f}
  /\ present' = present \cup {f}
  /\ UNCHANGED <<ready, depth, stranded>>

\* Slip: TOS::close without m_files.erase.
IoCloseKeepsMode(f) ==
  /\ depth > 0
  /\ f \in DOMAIN Current
  /\ running' = Holding(Without(Current, {f}))
  /\ open' = open \ {f}
  /\ UNCHANGED <<ready, files, present, depth, stranded>>

\* io.close and TOS::close.
IoClose(f) ==
  /\ depth > 0
  /\ f \in DOMAIN Current
  /\ running' = Holding(Without(Current, {f}))
  /\ files' = Without(files, {f})
  /\ open' = open \ {f}
  /\ UNCHANGED <<ready, present, depth, stranded>>

\* os.rm of the only name of a file; an open one cannot be removed.
Rm(f) ==
  /\ depth > 0
  /\ f \in present \ open
  /\ present' = present \ {f}
  /\ UNCHANGED <<running, ready, files, open, depth, stranded>>

-----------------------------------------------------------------------------
\* Processes.

\* Slip: the stack is not looked at.
SpawnUnlimited(p, f) ==
  /\ f \in present \ open
  /\ ready' = Emplaced(ready, p, f)
  /\ UNCHANGED <<running, files, open, present, depth, stranded>>

\* proc.spawn, proc.suspawn and ProcessExecutor::suspawn.  The check of the
\* permission opens the program.  The pid is drawn at random, and
\* m_ready.emplace keeps a process that has it already.
Spawn(p, f) ==
  /\ f \in present \ open
  /\ Len(running) < Limit
  /\ ready' = Emplaced(ready, p, f)
  /\ UNCHANGED <<running, files, open, present, depth, stranded>>

\* ProcessHandler::execute takes a process off m_ready, whoever spawned it.
Taken(p) ==
  /\ p \in DOMAIN ready
  /\ ready' = Without(ready, {p})
  /\ UNCHANGED <<files, open, present>>

\* The program is read, its file closed again, and it begins.
Execute(p) ==
  /\ Taken(p)
  /\ ready[p] \in present \ open
  /\ running' = Pushed
  /\ depth' = depth + 1
  /\ UNCHANGED stranded

\* "File not found": the process just pushed is killed again.
ExecuteMissing(p) ==
  /\ depth > 0
  /\ Taken(p)
  /\ ready[p] \notin present
  /\ UNCHANGED <<running, depth, stranded>>

\* The file of the program is open: fs.open throws out of execute, and the
\* process stays on the stack, above the one that goes on running.
ExecuteBusy(p) ==
  /\ depth > 0
  /\ Taken(p)
  /\ ready[p] \in open
  /\ running' = Pushed
  /\ stranded' = TRUE
  /\ UNCHANGED depth

\* Slip: ProcessHandler::kill in place of ProcessExecutor::kill.
ExitUnclosed ==
  /\ depth > 0
  /\ running' = Popped
  /\ depth' = depth - 1
  /\ UNCHANGED <<ready, files, open, present, stranded>>

\* The program ends or fails: kill closes the handles of the top of the
\* stack and takes it off.
Exit ==
  /\ depth > 0
  /\ files' = Without(files, DOMAIN Current)
  /\ open' = open \ DOMAIN Current
  /\ running' = Popped
  /\ depth' = depth - 1
  /\ UNCHANGED <<ready, present, stranded>>

Next ==
  \/ \E f \in File, m \in Mode : IoOpen(f, m)
  \/ \E f \in File : IoClose(f)
  \/ \E f \in File : Rm(f)
  \/ \E p \in Pid, f \in File : Spawn(p, f)
  \/ \E p \in Pid : Execute(p)
  \/ \E p \in Pid : ExecuteMissing(p)
  \/ \E p \in Pid : ExecuteBusy(p)
  \/ Exit

Spec == Init /\ [][Next]_vars

-----------------------------------------------------------------------------

\* Every variable has its type, and a file that is open has a name: nobody
\* removed it from under the process that holds it.
TypeOK ==
  /\ running \in Seq(HandleTable) \ {<<>>}
  /\ ready \in WaitTable
  /\ files \in HandleTable
  /\ open \subseteq present
  /\ present \subseteq File
  /\ depth \in Nat
  /\ stranded \in BOOLEAN

\* Every open file is held by exactly one process of the stack and by the
\* table of TOS, also when a process was left on the stack and programs go on
\* under another's name: a file is never open for nobody.
HandlesOwned ==
  /\ open = DOMAIN files
  /\ open = UNION { DOMAIN running[k] : k \in 1 .. Len(running) }
  /\ \A j, k \in 1 .. Len(running) :
       j # k => DOMAIN running[j] \cap DOMAIN running[k] = {}

\* The mode TOS::read and TOS::write go by is the one the file was opened in
\* this time, not one an earlier open of the same inode left in m_files.
ModeIsAsked ==
  \A k \in 1 .. Len(running) : \A f \in DOMAIN running[k] :
    f \in DOMAIN files => files[f] = running[k][f]

\* suspawn looks at the size of the stack and execute does not, so that
\* processes spawned early may pile up past the 256 of suspawn; together with
\* those that wait they never exceed 255 and one for every pid.
StackBounded ==
  Len(running) + Cardinality(DOMAIN ready) < Limit + Cardinality(Pid)

\* kill never takes off the system process: there is a process above it for
\* every program in progress, so that current() is always defined.
SystemStays == Len(running) > depth

\* When no program is in progress every file is closed again, unless a
\* process was left on the stack.
AllClosedAtEnd == depth = 0 /\ ~stranded => open = {}

=============================================================================
