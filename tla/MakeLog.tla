------------------------------ MODULE MakeLog ------------------------------
(***************************************************************************)
(* The log writer (src/src/make_log.c).  Every program of the system calls *)
(* dumpmsg_to_file, which makes the directories of the month              *)
(*                                                                         *)
(*     ./logs/<module>/<year>/<month>                                      *)
(*                                                                         *)
(* with make_path and appends one line to the file of the day in them with *)
(* out_put_file.  The processes share the working directory; the mutex of  *)
(* dumpmsg_to_file is private to each of them and orders nothing here.     *)
(*                                                                         *)
(* One action is one system call.  The directory "." is there, and the     *)
(* disk takes what is made in it.                                          *)
(***************************************************************************)
EXTENDS Naturals, FiniteSets

CONSTANTS
  Procs,    \* the processes that log
  Modules,  \* module names
  ModulesOf,\* ModulesOf[p]: the module_names that process p logs under
  LastDay,  \* days are 1..LastDay
  Year,     \* Year[t], Month[t]: the year and the month of day t
  Month,
  Nobody    \* the maker of a directory that is not there

Days == 1..LastDay
Levels == 1..4

ASSUME ModuleAssumption == ModulesOf \in [Procs -> (SUBSET Modules) \ {{}}]
ASSUME FiniteAssumption == \A p \in Procs : IsFiniteSet(ModulesOf[p])
ASSUME DayAssumption == LastDay \in Nat \ {0}
ASSUME NobodyAssumption == Nobody \notin Procs

VARIABLES
  today,   \* what time() says
  pc,      \* where the process is in dumpmsg_to_file
  module,  \* module_name of the line that the process logs
  day,     \* the day that make_path makes its strings from
  level,   \* the directory of the path it is at
  made,    \* directory -> the process that made it, or Nobody
  lost     \* history: how many lines of the process were not written

vars == <<today, pc, module, day, level, made, lost>>

\* second_dir, third_dir, y_dir and m_dir of a line of module m on day t
DirAt(k, m, t) ==
  CASE k = 1 -> << >>
    [] k = 2 -> <<m>>
    [] k = 3 -> <<m, Year[t]>>
    [] OTHER -> <<m, Year[t], Month[t]>>

Dirs == {DirAt(k, m, t) : k \in Levels, m \in Modules, t \in Days}

Dir(p, k) == DirAt(k, module[p], day[p])

\* An idle process has no path; the model gives it this one.
NoPath(p) == [module |-> CHOOSE m \in ModulesOf[p] : TRUE, day |-> 1]

Exists(d) == made[d] # Nobody

Goto(p, l) == pc' = [pc EXCEPT ![p] = l]

-----------------------------------------------------------------------------

Init ==
  /\ today = 1
  /\ pc = [p \in Procs |-> "idle"]
  /\ module = [p \in Procs |-> NoPath(p).module]
  /\ day = [p \in Procs |-> NoPath(p).day]
  /\ level = [p \in Procs |-> 1]
  /\ made = [d \in Dirs |-> Nobody]
  /\ lost = [p \in Procs |-> 0]

\* dumpmsg_to_file is called, by the program or by what it is linked with, and
\* make_path makes its strings.
Call(p) ==
  /\ pc[p] = "idle"
  /\ \E m \in ModulesOf[p] : module' = [module EXCEPT ![p] = m]
  /\ day' = [day EXCEPT ![p] = today]
  /\ Goto(p, "access")
  /\ UNCHANGED <<today, level, made, lost>>

\* Mutants: a path that is not finished at the month; the directory of the
\* year left out.
MutantDownFar(p, l) ==
  Goto(p, l) /\ level' = [level EXCEPT ![p] = @ + 1]
MutantDown(p, l) ==
  IF level[p] = 4
  THEN Goto(p, "write") /\ level' = [level EXCEPT ![p] = 1]
  ELSE Goto(p, l) /\ level' = [level EXCEPT ![p] = IF @ = 2 THEN 4 ELSE @ + 1]

\* The next directory of the path, or the file
Down(p, l) ==
  IF level[p] = 4
  THEN Goto(p, "write") /\ level' = [level EXCEPT ![p] = 1]
  ELSE Goto(p, l) /\ level' = [level EXCEPT ![p] = @ + 1]

\* Mutant: mkdir without asking first.
MutantAccess(p) ==
  /\ pc[p] = "access"
  /\ Goto(p, "mkdir")
  /\ UNCHANGED <<today, module, day, level, made, lost>>

\* access: the first directory that is missing decides where mkdir starts.
Access(p) ==
  /\ pc[p] = "access"
  /\ IF Exists(Dir(p, level[p]))
     THEN Down(p, "access")
     ELSE Goto(p, "mkdir") /\ level' = level
  /\ UNCHANGED <<today, module, day, made, lost>>

\* mkdir of it, and from then on of every directory below it.
Mkdir(p) ==
  /\ pc[p] = "mkdir"
  /\ ~ Exists(Dir(p, level[p]))
  /\ made' = [made EXCEPT ![Dir(p, level[p])] = p]
  /\ Down(p, "mkdir")
  /\ UNCHANGED <<today, module, day, lost>>

\* Another process has made it since: EEXIST, a message, and the rest of the
\* path is not made.
MkdirExists(p) ==
  /\ pc[p] = "mkdir"
  /\ Exists(Dir(p, level[p]))
  /\ level' = [level EXCEPT ![p] = 1]
  /\ Goto(p, "write")
  /\ UNCHANGED <<today, module, day, made, lost>>

\* out_put_file: without the directory of the month open fails, and so does
\* write(-1); the caller is not told.
Write(p) ==
  /\ pc[p] = "write"
  /\ lost' = [lost EXCEPT ![p] = IF Exists(Dir(p, 4)) THEN @ ELSE @ + 1]
  /\ Goto(p, "idle")
  /\ module' = [module EXCEPT ![p] = NoPath(p).module]
  /\ day' = [day EXCEPT ![p] = NoPath(p).day]
  /\ UNCHANGED <<today, level, made>>

\* Midnight
Tick ==
  /\ today < LastDay
  /\ today' = today + 1
  /\ UNCHANGED <<pc, module, day, level, made, lost>>

Log(p) == Access(p) \/ Mkdir(p) \/ MkdirExists(p) \/ Write(p)

Next == Tick \/ \E p \in Procs : Call(p) \/ Log(p)

Spec == Init /\ [][Next]_vars

-----------------------------------------------------------------------------
(* Properties *)

TypeOK ==
  /\ today \in Days
  /\ pc \in [Procs -> {"idle", "access", "mkdir", "write"}]
  /\ module \in [Procs -> Modules] /\ \A p \in Procs : module[p] \in ModulesOf[p]
  /\ day \in [Procs -> Days]
  /\ level \in [Procs -> Levels]
  /\ made \in [Dirs -> Procs \cup {Nobody}]
  /\ lost \in [Procs -> Nat]

\* The directories that process p's lines need, and those of them that another
\* process has made
Tree(p) == {DirAt(k, m, t) : k \in Levels, m \in ModulesOf[p], t \in Days}
MadeByOthers(p) == {d \in Tree(p) : made[d] \notin {Nobody, p}}

\* Each directory costs a process at most one line, and only if another
\* process made it: a process that logs alone loses nothing, and no process
\* loses line after line.
LossBounded ==
  \A p \in Procs : lost[p] <= Cardinality(MadeByOthers(p))

\* make_path starts at the first directory that is missing, so those above
\* are there: mkdir never fails for want of a parent.
ParentsFirst ==
  \A p \in Procs : pc[p] = "mkdir" =>
    \A k \in Levels : k < level[p] => Exists(Dir(p, k))
=============================================================================
