---------------------------- MODULE MakeLogProof ----------------------------
(***************************************************************************)
(* Proofs about MakeLog, for any number of processes that log under any    *)
(* names over any number of days.                                          *)
(***************************************************************************)
EXTENDS MakeLog, Sequences, FiniteSetTheorems, TLAPS

-----------------------------------------------------------------------------
(* The tree of directories *)

\* A directory knows its level and its parent.
LEMMA DirShape ==
  ASSUME NEW k \in Levels, NEW m, NEW t, NEW j \in Levels, NEW n, NEW u,
         DirAt(k, m, t) = DirAt(j, n, u)
  PROVE  k = j /\ (k > 1 => DirAt(k - 1, m, t) = DirAt(k - 1, n, u))
<1>1. /\ k \in {1, 2, 3, 4} /\ j \in {1, 2, 3, 4}
  BY DEF Levels
<1>2. ASSUME NEW i \in Levels, NEW x, NEW y PROVE Len(DirAt(i, x, y)) = i - 1
  <2>1. i \in {1, 2, 3, 4}
    BY DEF Levels
  <2>2. /\ Len(<< >>) = 0 /\ Len(<<x>>) = 1
        /\ Len(<<x, Year[y]>>) = 2 /\ Len(<<x, Year[y], Month[y]>>) = 3
    OBVIOUS
  <2> QED BY <2>1, <2>2 DEF DirAt
<1>3. k = j
  <2>1. k - 1 = j - 1
    BY <1>2
  <2> QED BY <1>1, <2>1
<1>4. CASE k = 1
  BY <1>3, <1>4
<1>5. CASE k = 2
  BY <1>3, <1>5 DEF DirAt
<1>6. CASE k = 3
  BY <1>3, <1>6 DEF DirAt
<1>7. CASE k = 4
  BY <1>3, <1>7 DEF DirAt
<1> QED BY <1>1, <1>4, <1>5, <1>6, <1>7

\* A process needs finitely many directories.
LEMMA TreeFinite ==
  ASSUME NEW p \in Procs
  PROVE  IsFiniteSet(Tree(p)) /\ Tree(p) \subseteq Dirs
<1> DEFINE S == Levels \X (ModulesOf[p] \X Days)
           f == [x \in S |-> DirAt(x[1], x[2][1], x[2][2])]
<1>1. IsFiniteSet(S)
  <2>1. IsFiniteSet(Levels) /\ IsFiniteSet(Days)
    <3>1. 1 \in Int /\ 4 \in Int /\ LastDay \in Int
      BY DayAssumption
    <3> QED BY <3>1, FS_Interval DEF Levels, Days
  <2>2. IsFiniteSet(ModulesOf[p])
    BY FiniteAssumption
  <2>3. IsFiniteSet(ModulesOf[p] \X Days)
    BY <2>1, <2>2, FS_Product
  <2> QED BY <2>1, <2>3, FS_Product
<1>2. f \in Surjection(S, Tree(p))
  <2>1. \A x \in S : x[1] \in Levels /\ x[2][1] \in ModulesOf[p] /\ x[2][2] \in Days
    OBVIOUS
  <2>2. f \in [S -> Tree(p)]
    BY <2>1 DEF Tree
  <2>3. \A d \in Tree(p) : \E x \in S : f[x] = d
    <3> SUFFICES ASSUME NEW d \in Tree(p) PROVE \E x \in S : f[x] = d
      OBVIOUS
    <3>1. PICK k \in Levels, m \in ModulesOf[p], t \in Days : d = DirAt(k, m, t)
      BY DEF Tree
    <3>2. <<k, <<m, t>>>> \in S
      OBVIOUS
    <3>3. f[<<k, <<m, t>>>>] = DirAt(k, m, t)
      BY <3>2
    <3> QED BY <3>1, <3>2, <3>3
  <2> QED BY <2>2, <2>3 DEF Surjection
<1>3. IsFiniteSet(Tree(p))
  <2> HIDE DEF f, S
  <2> QED BY <1>1, <1>2, FS_Surjection
<1>4. Tree(p) \subseteq Dirs
  BY ModuleAssumption DEF Tree, Dirs
<1> QED BY <1>3, <1>4

\* The path of an idle process is one of its own.
LEMMA NoPathModule ==
  ASSUME NEW p \in Procs
  PROVE  NoPath(p).module \in ModulesOf[p] /\ NoPath(p).module \in Modules
<1>1. ModulesOf[p] # {} /\ ModulesOf[p] \subseteq Modules
  BY ModuleAssumption
<1>2. \E m : m \in ModulesOf[p] /\ TRUE
  BY <1>1
<1>3. (CHOOSE m \in ModulesOf[p] : TRUE) \in ModulesOf[p]
  BY <1>2, Zenon
<1> QED BY <1>1, <1>3 DEF NoPath

-----------------------------------------------------------------------------
(* The inductive invariant *)

\* The directories that the process is still to make
Rest(p) == {Dir(p, k) : k \in {i \in Levels : i >= level[p]}}

\* No directory is there without its parent.
Closed ==
  \A k \in Levels, m \in Modules, t \in Days :
    k > 1 /\ Exists(DirAt(k, m, t)) => Exists(DirAt(k - 1, m, t))

\* make_path starts at the top.
Idle(p) == pc[p] \in {"idle", "write"} => level[p] = 1

\* Directories above the present one are there.
Above(p) ==
  pc[p] \in {"access", "mkdir"} =>
    \A k \in Levels : k < level[p] => Exists(Dir(p, k))

\* A line that will be lost is covered by a directory that others made; while
\* directories are made, those to come were missing and cover no earlier loss.
Covered(p) ==
  /\ lost[p] <= Cardinality(MadeByOthers(p))
  /\ pc[p] = "mkdir" =>
       /\ \A k \in Levels : k >= level[p] => made[Dir(p, k)] # p
       /\ lost[p] <= Cardinality(MadeByOthers(p) \ Rest(p))
  /\ pc[p] = "write" /\ ~ Exists(Dir(p, 4)) =>
       lost[p] + 1 <= Cardinality(MadeByOthers(p))

LogInv ==
  /\ TypeOK
  /\ Closed
  /\ \A p \in Procs : Idle(p)
  /\ \A p \in Procs : Above(p) /\ Covered(p)

\* The initial state satisfies the invariant: nothing is made, nothing lost.
LEMMA LogInit == Init => LogInv
<1> SUFFICES ASSUME Init PROVE LogInv
  OBVIOUS
<1>1. TypeOK
  <2>1. module \in [Procs -> Modules] /\ \A p \in Procs : module[p] \in ModulesOf[p]
    BY NoPathModule DEF Init
  <2>2. day = [p \in Procs |-> 1]
    BY DEF Init, NoPath
  <2> QED BY <2>1, <2>2, DayAssumption DEF Init, TypeOK, Days, Levels
<1>2. ASSUME NEW k \in Levels, NEW m \in Modules, NEW t \in Days
      PROVE  ~ Exists(DirAt(k, m, t))
  BY DEF Init, Exists, Dirs
<1>3. Closed
  BY <1>2 DEF Closed
<1>4. ASSUME NEW p \in Procs PROVE Above(p) /\ Covered(p)
  <2>1. pc[p] = "idle" /\ lost[p] = 0
    BY DEF Init
  <2>2. MadeByOthers(p) \subseteq Tree(p)
    BY DEF MadeByOthers
  <2>3. Cardinality(MadeByOthers(p)) \in Nat
    BY <2>2, TreeFinite, FS_Subset, FS_CardinalityType
  <2> QED BY <2>1, <2>3 DEF Above, Covered
<1>5. \A p \in Procs : Idle(p)
  BY DEF Init, Idle
<1> QED BY <1>1, <1>3, <1>4, <1>5 DEF LogInv

\* Where directories are only added, and none of them by p, nothing that
\* covers p is taken away.
LEMMA OthersKeep ==
  ASSUME LogInv, TypeOK', NEW p \in Procs,
         pc'[p] = pc[p], level'[p] = level[p], lost'[p] = lost[p],
         module'[p] = module[p], day'[p] = day[p],
         \A d \in Dirs : made'[d] = made[d] \/ (made[d] = Nobody /\ made'[d] # p)
  PROVE  Above(p)' /\ Covered(p)'
<1>1. /\ \A k : Dir(p, k)' = Dir(p, k)
      /\ Rest(p)' = Rest(p)
  BY DEF Dir, Rest
<1>2. \A k \in Levels : Dir(p, k) \in Dirs
  BY DEF LogInv, TypeOK, Dir, Dirs
<1>3. \A d \in Dirs : Exists(d) => Exists(d)'
  BY DEF Exists
<1>4. MadeByOthers(p) \subseteq MadeByOthers(p)'
  <2> SUFFICES ASSUME NEW d \in MadeByOthers(p) PROVE d \in MadeByOthers(p)'
    OBVIOUS
  <2>1. d \in Tree(p) /\ made[d] \notin {Nobody, p} /\ d \in Dirs
    BY TreeFinite DEF MadeByOthers
  <2>2. made'[d] = made[d]
    BY <2>1
  <2> QED BY <2>1, <2>2 DEF MadeByOthers, Tree
<1>5. IsFiniteSet(MadeByOthers(p)') /\ IsFiniteSet(MadeByOthers(p)' \ Rest(p))
  <2>1. MadeByOthers(p)' \subseteq Tree(p)
    BY DEF MadeByOthers, Tree
  <2> QED BY <2>1, TreeFinite, FS_Subset
<1>6. /\ Cardinality(MadeByOthers(p)) <= Cardinality(MadeByOthers(p)')
      /\ Cardinality(MadeByOthers(p) \ Rest(p)) <= Cardinality(MadeByOthers(p)' \ Rest(p))
      /\ Cardinality(MadeByOthers(p)') \in Nat
      /\ Cardinality(MadeByOthers(p)' \ Rest(p)) \in Nat
      /\ Cardinality(MadeByOthers(p)) \in Nat
      /\ Cardinality(MadeByOthers(p) \ Rest(p)) \in Nat
  <2>1. /\ MadeByOthers(p) \in SUBSET (MadeByOthers(p)')
        /\ MadeByOthers(p) \ Rest(p) \in SUBSET (MadeByOthers(p)' \ Rest(p))
    BY <1>4
  <2> QED BY <1>5, <2>1, FS_Subset, FS_CardinalityType
<1>7. lost[p] \in Nat
  BY DEF LogInv, TypeOK
<1>8. Above(p)'
  BY <1>1, <1>2, <1>3 DEF LogInv, Above
<1>9. Covered(p)'
  <2> DEFINE o == Cardinality(MadeByOthers(p))
             r == Cardinality(MadeByOthers(p) \ Rest(p))
             oo == Cardinality(MadeByOthers(p)')
             rr == Cardinality(MadeByOthers(p)' \ Rest(p))
  <2>0. /\ lost[p] <= o
        /\ pc[p] = "mkdir" => /\ \A k \in Levels : k >= level[p] => made[Dir(p, k)] # p
                              /\ lost[p] <= r
        /\ pc[p] = "write" /\ ~ Exists(Dir(p, 4)) => lost[p] + 1 <= o
    BY DEF LogInv, Covered
  <2>1. o <= oo /\ r <= rr /\ o \in Nat /\ r \in Nat /\ oo \in Nat /\ rr \in Nat
    BY <1>6
  <2> HIDE DEF o, r, oo, rr
  <2>2. lost'[p] <= oo
    BY <1>7, <2>0, <2>1
  <2>3. ASSUME pc'[p] = "mkdir"
        PROVE  /\ \A k \in Levels : k >= level'[p] => made'[Dir(p, k)'] # p
               /\ lost'[p] <= rr
    <3>1. \A k \in Levels : k >= level[p] => made'[Dir(p, k)] # p
      BY <1>2, <2>0, <2>3
    <3> QED BY <1>1, <1>7, <2>0, <2>1, <2>3, <3>1
  <2>4. ASSUME pc'[p] = "write", ~ Exists(Dir(p, 4))'
        PROVE  lost'[p] + 1 <= oo
    <3>1. 4 \in Levels
      BY DEF Levels
    <3>2. Exists(Dir(p, 4))' = (made'[Dir(p, 4)] # Nobody)
      BY <1>1 DEF Exists
    <3>3. ~ Exists(Dir(p, 4))
      BY <1>2, <2>4, <3>1, <3>2 DEF Exists
    <3> QED BY <1>7, <2>0, <2>1, <2>4, <3>3
  <2> QED BY <1>1, <2>2, <2>3, <2>4 DEF Covered, oo, rr
<1> QED BY <1>8, <1>9

\* Facts about one process: where it is in the tree, and that its sets are
\* finite.
LEMMA ProcFacts ==
  ASSUME LogInv, NEW p \in Procs
  PROVE  /\ pc[p] \in {"idle", "access", "mkdir", "write"}
         /\ level[p] \in Levels /\ day[p] \in Days /\ lost[p] \in Nat
         /\ module[p] \in ModulesOf[p] /\ module[p] \in Modules
         /\ \A k \in Levels : Dir(p, k) \in Dirs /\ Dir(p, k) \in Tree(p)
         /\ MadeByOthers(p) \subseteq Tree(p)
         /\ IsFiniteSet(MadeByOthers(p)) /\ Cardinality(MadeByOthers(p)) \in Nat
         /\ IsFiniteSet(MadeByOthers(p) \ Rest(p))
         /\ Cardinality(MadeByOthers(p) \ Rest(p)) \in Nat
         /\ Above(p) /\ Covered(p)
<1>1. /\ pc[p] \in {"idle", "access", "mkdir", "write"}
      /\ level[p] \in Levels /\ day[p] \in Days /\ lost[p] \in Nat
      /\ module[p] \in ModulesOf[p] /\ module[p] \in Modules
  BY DEF LogInv, TypeOK
<1>2. \A k \in Levels : Dir(p, k) \in Tree(p)
  BY <1>1 DEF Dir, Tree
<1>3. MadeByOthers(p) \subseteq Tree(p)
  BY DEF MadeByOthers
<1>4. MadeByOthers(p) \ Rest(p) \in SUBSET Tree(p) /\ MadeByOthers(p) \in SUBSET Tree(p)
  BY <1>3
<1>5. /\ IsFiniteSet(MadeByOthers(p)) /\ IsFiniteSet(MadeByOthers(p) \ Rest(p))
      /\ Cardinality(MadeByOthers(p)) \in Nat
      /\ Cardinality(MadeByOthers(p) \ Rest(p)) \in Nat
  BY <1>4, TreeFinite, FS_Subset, FS_CardinalityType
<1>6. Above(p) /\ Covered(p)
  BY DEF LogInv
<1> QED BY <1>1, <1>2, <1>3, <1>5, <1>6, TreeFinite

\* dumpmsg_to_file is called.
LEMMA CallKeeps ==
  ASSUME LogInv, NEW p \in Procs, Call(p)
  PROVE  LogInv'
<1>1. /\ pc[p] = "idle" /\ pc' = [pc EXCEPT ![p] = "access"]
      /\ day' = [day EXCEPT ![p] = today]
      /\ UNCHANGED <<today, level, made, lost>>
  BY DEF Call, Goto
<1>6. PICK m \in ModulesOf[p] : module' = [module EXCEPT ![p] = m]
  BY DEF Call
<1>7. module' \in [Procs -> Modules] /\ \A q \in Procs : module'[q] \in ModulesOf[q]
  BY <1>6, ModuleAssumption DEF LogInv, TypeOK
<1>2. TypeOK'
  BY <1>1, <1>7 DEF LogInv, TypeOK
<1>3. Closed'
  BY <1>1 DEF LogInv, Closed, Exists
<1>4. ASSUME NEW q \in Procs PROVE Above(q)' /\ Covered(q)'
  <2>1. CASE q # p
    <3>1. /\ pc'[q] = pc[q] /\ level'[q] = level[q] /\ lost'[q] = lost[q]
          /\ module'[q] = module[q] /\ day'[q] = day[q]
          /\ \A d \in Dirs : made'[d] = made[d]
      BY <1>1, <1>6, <2>1 DEF LogInv, TypeOK
    <3> QED BY <1>2, <3>1, OthersKeep
  <2>2. CASE q = p
    <3>1. /\ pc'[p] = "access" /\ lost'[p] = lost[p] /\ level'[p] = level[p]
      BY <1>1 DEF LogInv, TypeOK
    <3>2. lost[p] <= Cardinality(MadeByOthers(p))
      BY DEF LogInv, Covered
    <3>3. MadeByOthers(p)' = MadeByOthers(p)
      BY <1>1 DEF MadeByOthers, Tree
    <3>4. Covered(p)'
      BY <3>1, <3>2, <3>3 DEF Covered
    <3>5. level[p] = 1
      BY <1>1 DEF LogInv, Idle
    <3>6. Above(p)'
      BY <3>1, <3>5 DEF Above, Levels
    <3> QED BY <2>2, <3>4, <3>6
  <2> QED BY <2>1, <2>2
<1>5. \A q \in Procs : Idle(q)'
  BY <1>1 DEF LogInv, TypeOK, Idle
<1> QED BY <1>2, <1>3, <1>4, <1>5 DEF LogInv

\* access: a directory that is missing has none below it, so nothing of the
\* rest of the path covers an earlier loss.
LEMMA AccessKeeps ==
  ASSUME LogInv, NEW p \in Procs, Access(p)
  PROVE  LogInv'
<1> DEFINE l == level[p]
           gone == ~ Exists(Dir(p, l))
<1>1. /\ pc[p] = "access" /\ l \in {1, 2, 3, 4} /\ l \in Levels
      /\ UNCHANGED <<today, module, day, made, lost>>
  <2>1. l \in Levels
    BY ProcFacts
  <2>2. l \in {1, 2, 3, 4}
    BY <2>1 DEF Levels
  <2> QED BY <2>1, <2>2 DEF Access
<1>2. \/ /\ gone
         /\ pc' = [pc EXCEPT ![p] = "mkdir"] /\ level' = level
      \/ /\ ~ gone /\ l = 4
         /\ pc' = [pc EXCEPT ![p] = "write"] /\ level' = [level EXCEPT ![p] = 1]
      \/ /\ ~ gone /\ l # 4
         /\ pc' = [pc EXCEPT ![p] = "access"] /\ level' = [level EXCEPT ![p] = l + 1]
  BY DEF Access, Down, Goto
<1>3. TypeOK'
  BY <1>1, <1>2 DEF LogInv, TypeOK, Levels
<1>4. Closed'
  BY <1>1 DEF LogInv, Closed, Exists
<1>5. \A q \in Procs : Idle(q)'
  BY <1>2 DEF LogInv, TypeOK, Idle
<1>6. ASSUME NEW q \in Procs, q # p PROVE Above(q)' /\ Covered(q)'
  <2>1. /\ pc'[q] = pc[q] /\ level'[q] = level[q] /\ lost'[q] = lost[q]
        /\ module'[q] = module[q] /\ day'[q] = day[q] /\ \A d \in Dirs : made'[d] = made[d]
    BY <1>1, <1>2, <1>6 DEF LogInv, TypeOK
  <2> QED BY <1>3, <2>1, OthersKeep
<1>7. /\ \A k \in Levels : Dir(p, k)' = Dir(p, k) /\ (Exists(Dir(p, k))' = Exists(Dir(p, k)))
      /\ MadeByOthers(p)' = MadeByOthers(p)
      /\ lost'[p] = lost[p]
  BY <1>1 DEF Dir, Exists, MadeByOthers, Tree
<1>8. lost[p] <= Cardinality(MadeByOthers(p)) /\ \A k \in Levels : k < l => Exists(Dir(p, k))
  BY <1>1, ProcFacts DEF Covered, Above
<1>9. CASE gone
  <2>1. pc'[p] = "mkdir" /\ level'[p] = l
    BY <1>1, <1>2, <1>9 DEF LogInv, TypeOK
  <2>2. ASSUME NEW k \in Levels, k > 1, ~ Exists(Dir(p, k - 1)) PROVE ~ Exists(Dir(p, k))
    BY <2>2, ProcFacts DEF LogInv, Closed, Dir
  <2>3. ASSUME NEW k \in Levels, k >= l PROVE made[Dir(p, k)] = Nobody
    <3>1. /\ 1 \in Levels /\ 2 \in Levels /\ 3 \in Levels /\ 4 \in Levels
          /\ k \in {1, 2, 3, 4}
      BY DEF Levels
    <3>2. /\ ~ Exists(Dir(p, 1)) => ~ Exists(Dir(p, 2))
          /\ ~ Exists(Dir(p, 2)) => ~ Exists(Dir(p, 3))
          /\ ~ Exists(Dir(p, 3)) => ~ Exists(Dir(p, 4))
      BY <2>2, <3>1
    <3>3. ~ Exists(Dir(p, k))
      BY <1>1, <1>9, <2>3, <3>1, <3>2
    <3> QED BY <3>3 DEF Exists
  <2>4. MadeByOthers(p) \ Rest(p)' = MadeByOthers(p)
    <3>1. Rest(p)' = {Dir(p, k) : k \in {i \in Levels : i >= l}}
      BY <1>7, <2>1 DEF Rest
    <3> QED BY <2>3, <3>1 DEF MadeByOthers
  <2>5. \A k \in Levels : k >= l => made'[Dir(p, k)'] # p
    BY <1>1, <1>7, <2>3, NobodyAssumption
  <2>6. Covered(p)'
    BY <1>7, <1>8, <2>1, <2>4, <2>5 DEF Covered
  <2>7. Above(p)'
    BY <1>7, <1>8, <2>1 DEF Above
  <2> QED BY <1>3, <1>4, <1>5, <1>6, <2>6, <2>7 DEF LogInv
<1>10. CASE ~ gone /\ l = 4
  <2>1. pc'[p] = "write" /\ Exists(Dir(p, 4))
    BY <1>1, <1>2, <1>10 DEF LogInv, TypeOK
  <2>2. Exists(Dir(p, 4))'
    BY <1>1, <1>7, <1>10, <2>1
  <2>3. Covered(p)' /\ Above(p)'
    BY <1>7, <1>8, <2>1, <2>2 DEF Covered, Above
  <2> QED BY <1>3, <1>4, <1>5, <1>6, <2>3 DEF LogInv
<1>11. CASE ~ gone /\ l # 4
  <2>1. pc'[p] = "access" /\ level'[p] = l + 1
    BY <1>1, <1>2, <1>11 DEF LogInv, TypeOK
  <2>2. \A k \in Levels : k < l + 1 => Exists(Dir(p, k))
    <3>1. \A k \in Levels : k < l + 1 => k < l \/ k = l
      BY <1>1 DEF Levels
    <3> QED BY <1>8, <1>11, <3>1
  <2>3. Covered(p)' /\ Above(p)'
    BY <1>7, <1>8, <2>1, <2>2 DEF Covered, Above
  <2> QED BY <1>3, <1>4, <1>5, <1>6, <2>3 DEF LogInv
<1> QED BY <1>9, <1>10, <1>11

\* mkdir: what p makes covers no loss of its own, and may cover the others'.
LEMMA MkdirKeeps ==
  ASSUME LogInv, NEW p \in Procs, Mkdir(p)
  PROVE  LogInv'
<1> DEFINE l == level[p]
           d == Dir(p, l)
<1>1. l \in Levels /\ l \in {1, 2, 3, 4} /\ d \in Dirs /\ p \in Procs \cup {Nobody}
  <2>1. l \in Levels /\ d \in Dirs
    BY ProcFacts
  <2> QED BY <2>1 DEF Levels
<1>2. /\ pc[p] = "mkdir" /\ made[d] = Nobody
      /\ made' = [made EXCEPT ![d] = p]
      /\ UNCHANGED <<today, module, day, lost>>
  BY DEF Mkdir, Exists
<1>3. \/ /\ l = 4
         /\ pc' = [pc EXCEPT ![p] = "write"] /\ level' = [level EXCEPT ![p] = 1]
      \/ /\ l # 4
         /\ pc' = [pc EXCEPT ![p] = "mkdir"] /\ level' = [level EXCEPT ![p] = l + 1]
  BY DEF Mkdir, Down, Goto
<1>4. made'[d] = p /\ \A e \in Dirs : e # d => made'[e] = made[e]
  BY <1>1, <1>2 DEF LogInv, TypeOK
<1>5. TypeOK'
  <2>1. made' \in [Dirs -> Procs \cup {Nobody}]
    BY <1>1, <1>2 DEF LogInv, TypeOK
  <2>2. pc' \in [Procs -> {"idle", "access", "mkdir", "write"}] /\ level' \in [Procs -> Levels]
    BY <1>1, <1>3 DEF LogInv, TypeOK, Levels
  <2> QED BY <1>2, <2>1, <2>2 DEF LogInv, TypeOK
<1>6. \A e \in Dirs : Exists(e) => Exists(e)'
  BY <1>2, <1>4, NobodyAssumption DEF Exists
<1>7. Closed'
  <2> SUFFICES ASSUME NEW k \in Levels, NEW m \in Modules, NEW t \in Days,
                      k > 1, Exists(DirAt(k, m, t))'
               PROVE  Exists(DirAt(k - 1, m, t))'
    BY DEF Closed
  <2>1. DirAt(k, m, t) \in Dirs /\ k - 1 \in Levels /\ DirAt(k - 1, m, t) \in Dirs
    BY DEF Dirs, Levels
  <2>2. CASE DirAt(k, m, t) = d
    <3>1. k = l /\ DirAt(k - 1, m, t) = Dir(p, l - 1)
      BY <1>1, <2>2, DirShape DEF Dir
    <3>2. k - 1 < l
      BY <3>1 DEF Levels
    <3>3. Exists(Dir(p, l - 1))
      BY <1>2, <2>1, <3>1, <3>2, ProcFacts DEF Above
    <3> QED BY <1>6, <2>1, <3>1, <3>3
  <2>3. CASE DirAt(k, m, t) # d
    <3>1. Exists(DirAt(k, m, t))
      BY <1>4, <2>1, <2>3 DEF Exists
    <3>2. Exists(DirAt(k - 1, m, t))
      BY <3>1 DEF LogInv, Closed
    <3> QED BY <1>6, <2>1, <3>2
  <2> QED BY <2>2, <2>3
<1>8. \A q \in Procs : Idle(q)'
  BY <1>3 DEF LogInv, TypeOK, Idle
<1>9. ASSUME NEW q \in Procs, q # p PROVE Above(q)' /\ Covered(q)'
  <2>1. /\ pc'[q] = pc[q] /\ level'[q] = level[q] /\ lost'[q] = lost[q]
        /\ module'[q] = module[q] /\ day'[q] = day[q]
    BY <1>2, <1>3, <1>9 DEF LogInv, TypeOK
  <2>2. \A e \in Dirs : made'[e] = made[e] \/ (made[e] = Nobody /\ made'[e] # q)
    BY <1>2, <1>4, <1>9
  <2> QED BY <1>5, <2>1, <2>2, OthersKeep
<1>10. /\ \A k \in Levels : Dir(p, k)' = Dir(p, k) /\ Dir(p, k) \in Dirs
       /\ lost'[p] = lost[p]
  BY <1>2, ProcFacts DEF Dir
<1>11. MadeByOthers(p)' = MadeByOthers(p)
  <2>1. ASSUME NEW e \in Tree(p)
        PROVE  made'[e] \notin {Nobody, p} <=> made[e] \notin {Nobody, p}
    <3>1. e \in Dirs
      BY TreeFinite
    <3> QED BY <1>2, <1>4, <3>1
  <2> QED BY <2>1 DEF MadeByOthers, Tree
<1>12. /\ lost[p] <= Cardinality(MadeByOthers(p))
       /\ lost[p] <= Cardinality(MadeByOthers(p) \ Rest(p))
       /\ \A k \in Levels : k >= l => made[Dir(p, k)] # p
       /\ \A k \in Levels : k < l => Exists(Dir(p, k))
  BY <1>2, ProcFacts DEF Covered, Above
<1>13. CASE l = 4
  <2>1. pc'[p] = "write"
    BY <1>1, <1>3, <1>13 DEF LogInv, TypeOK
  <2>2. Exists(Dir(p, 4))'
    BY <1>1, <1>4, <1>10, <1>13, NobodyAssumption DEF Exists
  <2>3. Above(p)' /\ Covered(p)'
    BY <1>10, <1>11, <1>12, <2>1, <2>2 DEF Above, Covered
  <2> QED BY <1>5, <1>7, <1>8, <1>9, <2>3 DEF LogInv
<1>14. CASE l # 4
  <2>1. pc'[p] = "mkdir" /\ level'[p] = l + 1
    BY <1>1, <1>3, <1>14 DEF LogInv, TypeOK
  <2>2. ASSUME NEW k \in Levels, k < l + 1 PROVE Exists(Dir(p, k))'
    <3>1. k < l \/ k = l
      BY <1>1, <2>2 DEF Levels
    <3>2. CASE k < l
      BY <1>6, <1>10, <1>12, <3>2 DEF Exists
    <3>3. CASE k = l
      BY <1>4, <1>10, <3>3, NobodyAssumption DEF Exists
    <3> QED BY <3>1, <3>2, <3>3
  <2>3. ASSUME NEW k \in Levels, k >= l + 1 PROVE made'[Dir(p, k)] # p
    <3>1. k # l /\ k >= l
      BY <1>1, <2>3 DEF Levels
    <3>2. Dir(p, k) # d
      BY <1>1, <3>1, DirShape DEF Dir
    <3> QED BY <1>4, <1>10, <1>12, <3>1, <3>2
  <2>4. Rest(p)' \subseteq Rest(p)
    <3>1. \A k \in Levels : k >= l + 1 => k >= l
      BY <1>1 DEF Levels
    <3> QED BY <1>10, <2>1, <3>1 DEF Rest
  <2>5. lost[p] <= Cardinality(MadeByOthers(p) \ Rest(p)')
    <3>1. MadeByOthers(p) \ Rest(p) \in SUBSET (MadeByOthers(p) \ Rest(p)')
      BY <2>4
    <3>2. IsFiniteSet(MadeByOthers(p) \ Rest(p)')
      <4>1. MadeByOthers(p) \ Rest(p)' \in SUBSET MadeByOthers(p)
        OBVIOUS
      <4> QED BY <4>1, ProcFacts, FS_Subset
    <3>3. /\ Cardinality(MadeByOthers(p) \ Rest(p)) <= Cardinality(MadeByOthers(p) \ Rest(p)')
          /\ Cardinality(MadeByOthers(p) \ Rest(p)') \in Nat
      BY <3>1, <3>2, FS_Subset, FS_CardinalityType
    <3>4. lost[p] \in Nat /\ Cardinality(MadeByOthers(p) \ Rest(p)) \in Nat
      BY ProcFacts
    <3> QED BY <1>12, <3>3, <3>4
  <2>6. Above(p)' /\ Covered(p)'
    BY <1>10, <1>11, <1>12, <2>1, <2>2, <2>3, <2>5 DEF Above, Covered
  <2> QED BY <1>5, <1>7, <1>8, <1>9, <2>6 DEF LogInv
<1> QED BY <1>13, <1>14

\* EEXIST: the directory was made by another process since p found it
\* missing, and covers the line that p may lose.
LEMMA MkdirExistsKeeps ==
  ASSUME LogInv, NEW p \in Procs, MkdirExists(p)
  PROVE  LogInv'
<1> DEFINE l == level[p]
           d == Dir(p, l)
           o == MadeByOthers(p)
           r == MadeByOthers(p) \ Rest(p)
<1>1. /\ pc[p] = "mkdir" /\ made[d] # Nobody
      /\ pc' = [pc EXCEPT ![p] = "write"] /\ level' = [level EXCEPT ![p] = 1]
      /\ UNCHANGED <<today, module, day, made, lost>>
  BY DEF MkdirExists, Exists, Goto
<1>2. TypeOK'
  BY <1>1 DEF LogInv, TypeOK, Levels
<1>3. Closed'
  BY <1>1 DEF LogInv, Closed, Exists
<1>4. \A q \in Procs : Idle(q)'
  BY <1>1 DEF LogInv, TypeOK, Idle
<1>5. ASSUME NEW q \in Procs, q # p PROVE Above(q)' /\ Covered(q)'
  <2>1. /\ pc'[q] = pc[q] /\ level'[q] = level[q] /\ lost'[q] = lost[q]
        /\ module'[q] = module[q] /\ day'[q] = day[q] /\ \A e \in Dirs : made'[e] = made[e]
    BY <1>1, <1>5 DEF LogInv, TypeOK
  <2> QED BY <1>2, <2>1, OthersKeep
<1>6. /\ l \in Levels /\ d \in Tree(p) /\ IsFiniteSet(o) /\ IsFiniteSet(r)
      /\ Cardinality(o) \in Nat /\ Cardinality(r) \in Nat /\ lost[p] \in Nat
  BY ProcFacts
<1>7. lost[p] <= Cardinality(r) /\ made[d] # p
  <2>1. l >= l
    BY <1>6 DEF Levels
  <2> QED BY <1>1, <1>6, <2>1, ProcFacts DEF Covered
<1>8. d \in o /\ d \in Rest(p)
  <2>1. l >= l
    BY <1>6 DEF Levels
  <2> QED BY <1>1, <1>6, <1>7, <2>1 DEF MadeByOthers, Rest
<1>9. Cardinality(r) + 1 <= Cardinality(o)
  <2>1. d \notin r /\ r \cup {d} \in SUBSET o
    BY <1>8
  <2> HIDE DEF r, o, d
  <2>2. Cardinality(r \cup {d}) = Cardinality(r) + 1
    BY <1>6, <2>1, FS_AddElement
  <2>3. Cardinality(r \cup {d}) <= Cardinality(o)
    BY <1>6, <2>1, FS_Subset
  <2> QED BY <2>2, <2>3
<1>10. MadeByOthers(p)' = o /\ lost'[p] = lost[p] /\ pc'[p] = "write"
  BY <1>1 DEF MadeByOthers, Tree, LogInv, TypeOK
<1>11. lost[p] + 1 <= Cardinality(o) /\ lost[p] <= Cardinality(o)
  <2> HIDE DEF o, r
  <2> QED BY <1>6, <1>7, <1>9
<1>12. Above(p)' /\ Covered(p)'
  BY <1>10, <1>11 DEF Above, Covered
<1> QED BY <1>2, <1>3, <1>4, <1>5, <1>12 DEF LogInv

\* out_put_file writes the line or loses it.
LEMMA WriteKeeps ==
  ASSUME LogInv, NEW p \in Procs, Write(p)
  PROVE  LogInv'
<1>1. /\ pc[p] = "write" /\ pc' = [pc EXCEPT ![p] = "idle"]
      /\ lost' = [lost EXCEPT ![p] = IF Exists(Dir(p, 4)) THEN lost[p] ELSE lost[p] + 1]
      /\ module' = [module EXCEPT ![p] = NoPath(p).module]
      /\ day' = [day EXCEPT ![p] = 1]
      /\ UNCHANGED <<today, level, made>>
  BY DEF Write, Goto, NoPath
<1>9. NoPath(p).module \in ModulesOf[p] /\ NoPath(p).module \in Modules
  BY NoPathModule
<1>2. TypeOK'
  <2>1. module' \in [Procs -> Modules] /\ \A q \in Procs : module'[q] \in ModulesOf[q]
    BY <1>1, <1>9 DEF LogInv, TypeOK
  <2>2. day' \in [Procs -> Days] /\ pc' \in [Procs -> {"idle", "access", "mkdir", "write"}]
    BY <1>1, DayAssumption DEF LogInv, TypeOK, Days
  <2>3. lost' \in [Procs -> Nat]
    BY <1>1 DEF LogInv, TypeOK
  <2> QED BY <1>1, <2>1, <2>2, <2>3 DEF LogInv, TypeOK
<1>3. Closed'
  BY <1>1 DEF LogInv, Closed, Exists
<1>4. \A q \in Procs : Idle(q)'
  BY <1>1 DEF LogInv, TypeOK, Idle
<1>5. ASSUME NEW q \in Procs, q # p PROVE Above(q)' /\ Covered(q)'
  <2>1. /\ pc'[q] = pc[q] /\ level'[q] = level[q] /\ lost'[q] = lost[q]
        /\ module'[q] = module[q] /\ day'[q] = day[q] /\ \A e \in Dirs : made'[e] = made[e]
    BY <1>1, <1>5 DEF LogInv, TypeOK
  <2> QED BY <1>2, <2>1, OthersKeep
<1>6. MadeByOthers(p)' = MadeByOthers(p) /\ pc'[p] = "idle"
  BY <1>1 DEF MadeByOthers, Tree, LogInv, TypeOK
<1>7. lost'[p] <= Cardinality(MadeByOthers(p))
  <2>1. lost'[p] = IF Exists(Dir(p, 4)) THEN lost[p] ELSE lost[p] + 1
    BY <1>1 DEF LogInv, TypeOK
  <2> QED BY <1>1, <2>1, ProcFacts DEF Covered
<1>8. Above(p)' /\ Covered(p)'
  BY <1>6, <1>7 DEF Above, Covered
<1> QED BY <1>2, <1>3, <1>4, <1>5, <1>8 DEF LogInv

\* Midnight changes no directory.
LEMMA TickKeeps ==
  ASSUME LogInv, Tick \/ UNCHANGED vars
  PROVE  LogInv'
<1>1. UNCHANGED <<pc, module, day, level, made, lost>> /\ today' \in Days
  BY DayAssumption DEF Tick, vars, LogInv, TypeOK, Days
<1>2. TypeOK'
  BY <1>1 DEF LogInv, TypeOK
<1>3. Closed' /\ \A q \in Procs : Idle(q)'
  BY <1>1 DEF LogInv, Closed, Exists, Idle
<1>4. ASSUME NEW q \in Procs PROVE Above(q)' /\ Covered(q)'
  <2>1. /\ pc'[q] = pc[q] /\ level'[q] = level[q] /\ lost'[q] = lost[q]
        /\ module'[q] = module[q] /\ day'[q] = day[q] /\ \A e \in Dirs : made'[e] = made[e]
    BY <1>1
  <2> QED BY <1>2, <2>1, OthersKeep
<1> QED BY <1>2, <1>3, <1>4 DEF LogInv

\* The invariant holds in every reachable state.
LEMMA LogInvariant == Spec => []LogInv
<1>1. ASSUME LogInv, [Next]_vars PROVE LogInv'
  <2>1. CASE Tick \/ UNCHANGED vars
    BY <1>1, <2>1, TickKeeps
  <2>2. ASSUME NEW p \in Procs, Call(p) \/ Log(p) PROVE LogInv'
    BY <1>1, <2>2, CallKeeps, AccessKeeps, MkdirKeeps, MkdirExistsKeeps, WriteKeeps DEF Log
  <2> QED BY <1>1, <2>1, <2>2 DEF Next
<1> QED BY <1>1, LogInit, PTL DEF Spec

-----------------------------------------------------------------------------
(* The theorems *)

\* Types hold whatever processes log, under any names and over any days: no
\* process goes on below the directory of the month.
THEOREM TypeCorrect == Spec => []TypeOK
<1>1. LogInv => TypeOK
  BY DEF LogInv
<1> QED BY <1>1, LogInvariant, PTL

\* A process loses at most one line for each directory of its own that
\* another process made, however the calls of dumpmsg_to_file interleave: one
\* that logs alone loses none, and a race is never met twice.
THEOREM LossesBounded == Spec => []LossBounded
<1>1. LogInv => LossBounded
  BY DEF LogInv, Covered, LossBounded
<1> QED BY <1>1, LogInvariant, PTL

\* Whenever make_path calls mkdir, the parent directory is there.
THEOREM ParentsThere == Spec => []ParentsFirst
<1>1. LogInv => ParentsFirst
  BY DEF LogInv, Above, ParentsFirst
<1> QED BY <1>1, LogInvariant, PTL

=============================================================================
