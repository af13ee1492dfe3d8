--------------------------- MODULE GameCacheProofs ----------------------------
(***************************************************************************)
(* What holds of GameCache for any agents, builds, floors and failures: the *)
(* files of a running instance stay, whatever the loop, the syncs and the   *)
(* administrator do on what they read a moment ago.                         *)
(***************************************************************************)
EXTENDS GameCache, FiniteSetTheorems, WellFoundedInduction, TLAPS

-----------------------------------------------------------------------------
(* The highest build there is.                                             *)

LEMMA Least ==
  ASSUME NEW T \in SUBSET Nat, T # {}
  PROVE  \E x \in T : \A y \in T : x <= y
<1> DEFINE R == OpToRel(<, Nat)
<1>1. IsWellFoundedOn(R, Nat)
  BY NatLessThanWellFounded
<1>2. PICK x \in T : \A y \in T : ~(<<y, x>> \in R)
  <2> HIDE DEF R
  <2> QED BY <1>1, WFMin
<1>3. \A y \in T : ~(y < x)
  BY <1>2 DEF OpToRel
<1> QED BY <1>3

LEMMA MaxIn ==
  ASSUME NEW T \in SUBSET Builds, T # {}
  PROVE  Max(T) \in T
<1> DEFINE U == {k \in Nat : \E t \in T : k = MaxBuild - t}
<1>0. MaxBuild \in Nat /\ \A t \in T : t \in Nat /\ t <= MaxBuild
  BY CacheAssumption DEF Builds
<1>1. \A y \in T : MaxBuild - y \in U
  BY <1>0
<1>2. PICK k \in U : \A y \in U : k <= y
  BY <1>1, Least
<1>3. PICK t \in T : k = MaxBuild - t
  OBVIOUS
<1>4. \A y \in T : t >= y
  BY <1>0, <1>1, <1>2, <1>3
<1> QED BY <1>4 DEF Max

\* What an agent answers for the branch, spelled out.
LEMMA CurrentIs ==
  ASSUME NEW a \in Agents
  PROVE  /\ Current(a).status = "available" => /\ Current(a).build \in Builds
                                               /\ copies[a][Current(a).build] = "available"
         /\ Current(a).status \in CopyStatus
         /\ Current(a).status \in {"none", "available", "downloading", "unavailable"}
<1> DEFINE pick == IF BuildsIn(a, "available") # {} THEN BuildsIn(a, "available")
                   ELSE IF BuildsIn(a, "downloading") # {} THEN BuildsIn(a, "downloading")
                   ELSE BuildsIn(a, "unavailable")
<1>1. Current(a) = IF pick = {} THEN [status |-> "none", build |-> 0]
                   ELSE [status |-> copies[a][Max(pick)], build |-> Max(pick)]
  BY DEF Current
<1>2. pick \in SUBSET Builds /\ \A k \in pick : copies[a][k] \in {"available", "downloading", "unavailable"}
  BY DEF BuildsIn
<1>3. pick # {} => Max(pick) \in pick
  <2> HIDE DEF pick
  <2> QED BY <1>2, MaxIn
<1> HIDE DEF pick
<1>4. CASE pick = {}
  BY <1>1, <1>4 DEF CopyStatus
<1>5. CASE pick # {}
  <2>1. Current(a).status = copies[a][Max(pick)] /\ Current(a).build = Max(pick)
    BY <1>1, <1>5
  <2> QED BY <1>2, <1>3, <1>5, <2>1 DEF CopyStatus
<1> QED BY <1>4, <1>5

-----------------------------------------------------------------------------
(* The inductive invariant.                                                *)

Mgr == [pc : {"idle", "sync", "list", "drop", "probe", "delete", "update", "warm"},
        row : Row \cup {None}, serving : SUBSET Agents, states : [Agents -> NodeStates] \cup {<<>>},
        todo : SUBSET Agents, count : 0 .. Cardinality(Agents), deleted : SUBSET Agents]
Inst == [stage : {"none", "placed", "warming", "building", "running"}, want : Nat, used : Nat]

\* Nobody knows of a build before Steam has published it.
Known == 0 .. remote.build
KnownRow(r) == r \in Row \cup {None} /\ (r # None => r.build \in Known)

RowsInv == /\ remote \in [build : Builds, listed : BOOLEAN]
           /\ KnownRow(row) /\ KnownRow(setter)
           /\ sync \in [Callers -> Row \cup {None}] /\ \A p \in Callers : KnownRow(sync[p])

FilesInv == /\ copies \in [Agents -> [Builds -> CopyStatus]]
            /\ inst \in [Agents -> Inst]
            /\ \A a \in Agents : /\ inst[a].want \in Known /\ inst[a].used \in Known
                                 /\ inst[a].stage # "none" => inst[a].want \in Builds
                                 /\ inst[a].stage = "running" => inst[a].used \in Builds
            /\ \A a \in Agents, k \in Builds : copies[a][k] # "none" => k \in Known
            /\ RunningHasFiles

\* The loop counts no agent twice: those it has counted and those it may
\* still tell to download are different ones.
MgrInv == /\ mgr \in Mgr /\ cooling \in BOOLEAN
          /\ mgr.pc \in {"probe", "delete", "update", "warm"} => mgr.row \in Row /\ mgr.row.build \in Known
          /\ mgr.pc \in {"delete", "update", "warm"} => mgr.states \in [Agents -> NodeStates]
          /\ mgr.pc = "warm" => mgr.count + Cardinality(mgr.todo) <= Cardinality(Agents)

RestInv == /\ snapshot \in [Agents -> {"downloading", "available", "unavailable", "missing"}]
           /\ placements \in 0 .. MaxPlacements /\ upsets \in 0 .. MaxUpsets

Inv == RowsInv /\ FilesInv /\ MgrInv /\ RestInv

LEMMA Sizes == {MaxBuild, MaxMin, MaxPlacements, MaxUpsets} \subseteq Nat /\ Cardinality(Agents) \in Nat
BY CacheAssumption, FS_CardinalityType

LEMMA InvIsFiles == Inv => FilesInPlace
<1> SUFFICES ASSUME Inv PROVE FilesInPlace
  OBVIOUS
<1>1. /\ remote \in [build: Builds, listed: BOOLEAN]
      /\ row \in Row \union {None} /\ setter \in Row \union {None}
      /\ sync \in [Callers -> Row \union {None}]
  BY DEF Inv, RowsInv, KnownRow
<1>2. inst \in [Agents -> [stage: {"none", "placed", "warming", "building", "running"},
                           want: 0 .. remote.build, used: 0 .. remote.build]]
  BY DEF Inv, FilesInv, Inst, Known
<1>3. /\ mgr.pc \in {"idle", "sync", "list", "drop", "probe", "delete", "update", "warm"}
      /\ mgr.row \in Row \union {None}
      /\ mgr.serving \subseteq Agents /\ mgr.todo \subseteq Agents
      /\ mgr.deleted \subseteq Agents /\ mgr.count \in 0 .. Cardinality(Agents)
      /\ mgr.states \in [Agents -> NodeStates] \cup {<<>>}
  BY DEF Inv, MgrInv, Mgr
<1>4. \A a \in DOMAIN mgr.states : mgr.states[a] \in NodeStates
  BY <1>3
<1>5. snapshot \in [Agents -> (CopyStatus \ {"none"}) \union {"missing"}]
  BY DEF Inv, RestInv, CopyStatus
<1>6. TypeOK
  BY <1>1, <1>2, <1>3, <1>4, <1>5 DEF Inv, FilesInv, MgrInv, RestInv, TypeOK
<1> QED BY <1>6 DEF Inv, FilesInv, FilesInPlace

LEMMA IdleType == Idle \in Mgr /\ Idle.pc = "idle"
BY Sizes DEF Idle, Mgr

LEMMA InitInv == Init => Inv
<1> SUFFICES ASSUME Init PROVE Inv
  OBVIOUS
<1>1. remote.build = 1 /\ remote \in [build : Builds, listed : BOOLEAN] /\ Known = 0 .. 1
  BY CacheAssumption DEF Init, Builds, Known
<1>2. RowsInv
  BY <1>1, CacheAssumption DEF Init, RowsInv, KnownRow, Row, Builds
<1>3. FilesInv
  BY <1>1 DEF Init, FilesInv, NoInstance, Inst, CopyStatus, RunningHasFiles
<1>4. MgrInv
  BY IdleType DEF Init, MgrInv
<1>5. RestInv
  BY Sizes DEF Init, RestInv
<1> QED BY <1>2, <1>3, <1>4, <1>5 DEF Inv

-----------------------------------------------------------------------------
(* The branch row and those who are about to save it.                      *)

LEMMA SyncedKnown == RowsInv => KnownRow(Synced(row))
BY Sizes DEF RowsInv, KnownRow, Synced, Row, Known, Builds

LEMMA RowsStep ==
  ASSUME Inv, [Next]_vars
  PROVE  RowsInv' /\ Known \subseteq Known'
<1>0. RowsInv
  BY DEF Inv
<1>1. ASSUME UNCHANGED remote, KnownRow(row'), KnownRow(setter'), sync' \in [Callers -> Row \cup {None}],
             \A p \in Callers : KnownRow(sync'[p])
      PROVE  RowsInv' /\ Known \subseteq Known'
  BY <1>0, <1>1 DEF RowsInv, KnownRow, Known
<1>2. ASSUME NEW p \in Callers, SyncRead(p) PROVE RowsInv' /\ Known \subseteq Known'
  <2>1. UNCHANGED <<remote, row, setter>> /\ sync' = [sync EXCEPT ![p] = Synced(row)] /\ KnownRow(Synced(row))
    BY <1>0, <1>2, SyncedKnown DEF SyncRead
  <2> QED BY <1>0, <1>1, <2>1 DEF RowsInv, KnownRow
<1>3. ASSUME NEW p \in Callers, SyncSave(p) PROVE RowsInv' /\ Known \subseteq Known'
  <2>1. UNCHANGED <<remote, setter>> /\ sync' = [sync EXCEPT ![p] = None] /\ row' = sync[p]
    BY <1>3 DEF SyncSave
  <2> QED BY <1>0, <1>1, <2>1 DEF RowsInv, KnownRow
<1>4. ASSUME NEW m \in 0 .. MaxMin, SetBranchMinReplicas(m) PROVE RowsInv' /\ Known \subseteq Known'
  <2>1. UNCHANGED <<remote, row, sync>> /\ setter' = [row EXCEPT !.min = m] /\ row \in Row /\ row.build \in Known
    BY <1>0, <1>4 DEF SetBranchMinReplicas, RowsInv, KnownRow
  <2>2. setter' \in Row /\ setter'.build = row.build
    BY <2>1 DEF Row
  <2> QED BY <1>0, <1>1, <2>1, <2>2 DEF RowsInv, KnownRow
<1>5. CASE SetterSave
  <2>1. UNCHANGED <<remote, sync>> /\ row' = setter /\ setter' = None
    BY <1>5 DEF SetterSave
  <2> QED BY <1>0, <1>1, <2>1 DEF RowsInv, KnownRow
<1>6. CASE SteamChanges
  <2>0. remote \in [build : Builds, listed : BOOLEAN] /\ remote.build \in Builds
    BY <1>0 DEF RowsInv
  <2>1. /\ remote' \in [build : Builds, listed : BOOLEAN] /\ remote'.build \in Nat /\ remote.build \in Nat
        /\ remote'.build >= remote.build
    <3>1. CASE remote.build < MaxBuild /\ remote' = [remote EXCEPT !.build = @ + 1]
      BY <2>0, <3>1, Sizes DEF Builds
    <3>2. ASSUME NEW b \in BOOLEAN, remote' = [remote EXCEPT !.listed = b]
          PROVE  remote' \in [build : Builds, listed : BOOLEAN] /\ remote'.build = remote.build
      BY <2>0, <3>2
    <3>3. CASE remote' = [remote EXCEPT !.listed = ~@]
      <4>1. remote' = [remote EXCEPT !.listed = ~remote.listed] /\ (~remote.listed) \in BOOLEAN
        BY <3>3
      <4>2. remote' \in [build : Builds, listed : BOOLEAN] /\ remote'.build = remote.build
        BY <3>2, <4>1
      <4> QED BY <2>0, <4>2, Sizes DEF Builds
    <3> QED BY <1>6, <3>1, <3>3 DEF SteamChanges
  <2>2. Known \subseteq Known'
    BY <2>1 DEF Known
  <2>4. UNCHANGED <<row, sync, setter>>
    BY <1>6 DEF SteamChanges
  <2>5. KnownRow(row)' /\ KnownRow(setter)' /\ \A p \in Callers : KnownRow(sync[p])'
    BY <1>0, <2>2, <2>4 DEF RowsInv, KnownRow
  <2> QED BY <1>0, <2>1, <2>2, <2>4, <2>5 DEF RowsInv
<1>7. CASE UNCHANGED <<remote, row, sync, setter>>
  BY <1>0, <1>1, <1>7 DEF RowsInv
<1>8. ASSUME NEW a \in Agents, NEW ok, DropCopy(a, ok) \/ DeleteSurplus(a, ok) \/ UpdateCopy(a, ok) \/ WarmCopy(a, ok)
      PROVE  UNCHANGED <<remote, row, sync, setter>>
  BY <1>8 DEF DropCopy, DeleteSurplus, UpdateCopy, WarmCopy, LoopFrame
<1>9. ASSUME NEW fails, ProbeCopies(fails) \/ refreshOnce(fails) PROVE UNCHANGED <<remote, row, sync, setter>>
  BY <1>9 DEF ProbeCopies, refreshOnce, LoopFrame, ViewFrame
<1>10. CASE Loop
  BY <1>2, <1>3, <1>7, <1>8, <1>9, <1>10 DEF Loop, SyncNothing, ListBranch, DeleteEnds, UpdateEnds, WarmEnds, LoopFrame, Callers
<1>11. CASE View \/ CallFails \/ CooledDown
  BY <1>7, <1>8, <1>9, <1>11 DEF View, CallFails, CooledDown, LoopFrame
<1>12. CASE Administrator \/ AdminSaves
  BY <1>2, <1>3, <1>4, <1>5, <1>7, <1>12 DEF Administrator, AdminSaves, AdminCache, LoopFrame, Callers
<1>13. ASSUME NEW a \in Agents, \/ Place(a) \/ Instance(a) \/ WarmTimeout(a) \/ StopOnCopy(a)
                                \/ \E k \in Builds, ok \in BOOLEAN : DownloadEnds(a, k, ok)
       PROVE  UNCHANGED <<remote, row, sync, setter>>
  BY <1>13 DEF Place, Instance, WarmStart, pollCacheReady, StartOnCopy, WarmTimeout, StopOnCopy, DownloadEnds, InstFrame
<1>14. CASE UNCHANGED vars
  BY <1>7, <1>14 DEF vars
<1> QED BY <1>6, <1>7, <1>10, <1>11, <1>12, <1>13, <1>14 DEF Next

-----------------------------------------------------------------------------
(* The files.                                                              *)

\* What a step may do to the copies while the instances stay.
Safe(c) ==
  /\ c \in [Agents -> [Builds -> CopyStatus]]
  /\ \A a \in Agents, k \in Builds :
       \/ c[a][k] = copies[a][k]
       \/ k \in Known /\ copies[a][k] # "available"
       \/ c[a][k] = "none" /\ inst[a].stage # "running"

LEMMA CacheGameSafe ==
  ASSUME FilesInv, NEW a \in Agents, NEW k \in Builds, k \in Known
  PROVE  Safe(CacheGame(a, k))
BY DEF FilesInv, Safe, CacheGame, CopyStatus

LEMMA RemoveCacheSafe ==
  ASSUME FilesInv, NEW a \in Agents
  PROVE  Safe(RemoveCache(a)) /\ Safe(copies)
BY DEF FilesInv, Safe, RemoveCache, MayRemove, CopyStatus

LEMMA CheckAndUpdateSafe ==
  ASSUME FilesInv, NEW a \in Agents, NEW k \in Builds, k \in Known
  PROVE  Safe(CheckAndUpdate(a, k))
BY CacheGameSafe, RemoveCacheSafe DEF CheckAndUpdate

\* What the instances may do while the copies stay safe.
LEMMA FilesKept ==
  ASSUME FilesInv, Known \subseteq Known', Safe(copies'), inst' \in [Agents -> Inst],
         \A a \in Agents :
           \/ inst'[a] = inst[a]
           \/ /\ inst'[a].want \in Known /\ inst'[a].used \in Known
              /\ inst'[a].stage # "none" => inst'[a].want \in Builds
              /\ \/ inst'[a].stage # "running"
                 \/ inst'[a].used \in Builds /\ copies'[a][inst'[a].used] = "available"
  PROVE  FilesInv'
<1>1. ASSUME NEW a \in Agents
      PROVE  /\ inst'[a].want \in Known' /\ inst'[a].used \in Known'
             /\ inst'[a].stage # "none" => inst'[a].want \in Builds
             /\ inst'[a].stage = "running" => /\ inst'[a].used \in Builds
                                              /\ copies'[a][inst'[a].used] = "available"
  <2>1. CASE inst'[a] = inst[a]
    <3>1. /\ inst[a].want \in Known /\ inst[a].used \in Known
          /\ inst[a].stage # "none" => inst[a].want \in Builds
          /\ inst[a].stage = "running" => inst[a].used \in Builds /\ copies[a][inst[a].used] = "available"
      BY DEF FilesInv, RunningHasFiles
    <3>2. inst[a].stage = "running" => copies'[a][inst[a].used] = "available"
      BY <3>1 DEF Safe
    <3> QED BY <2>1, <3>1, <3>2
  <2>2. CASE inst'[a] # inst[a]
    BY <2>2
  <2> QED BY <2>1, <2>2
<1>2. \A a \in Agents, k \in Builds : copies'[a][k] # "none" => k \in Known'
  BY DEF FilesInv, Safe
<1>3. RunningHasFiles'
  BY <1>1 DEF RunningHasFiles
<1> QED BY <1>1, <1>2, <1>3 DEF FilesInv, Safe

LEMMA NoInstanceType == NoInstance \in Inst /\ NoInstance.stage = "none" /\ NoInstance.want = 0 /\ NoInstance.used = 0
BY DEF NoInstance, Inst

LEMMA CopiesStep ==
  ASSUME Inv, NEW a \in Agents,
         \/ \E ok \in BOOLEAN : DropCopy(a, ok) \/ DeleteSurplus(a, ok) \/ UpdateCopy(a, ok) \/ WarmCopy(a, ok)
         \/ AdminCache(a)
         \/ \E k \in Builds, ok \in BOOLEAN : DownloadEnds(a, k, ok)
  PROVE  Safe(copies') /\ UNCHANGED inst
<1>0. FilesInv /\ Safe(copies) /\ Safe(RemoveCache(a))
  BY RemoveCacheSafe DEF Inv
<1>1. UNCHANGED inst
  BY DEF DropCopy, DeleteSurplus, UpdateCopy, WarmCopy, AdminCache, DownloadEnds, LoopFrame
<1>2. ASSUME NEW ok \in BOOLEAN, DropCopy(a, ok) \/ DeleteSurplus(a, ok) PROVE Safe(copies')
  <2>1. copies' = copies \/ copies' = RemoveCache(a)
    BY <1>2 DEF DropCopy, DeleteSurplus
  <2> QED BY <1>0, <2>1
<1>3. ASSUME NEW ok \in BOOLEAN, UpdateCopy(a, ok) \/ WarmCopy(a, ok) PROVE Safe(copies')
  <2>1. mgr.row.build \in Builds /\ mgr.row.build \in Known
    BY <1>3 DEF UpdateCopy, WarmCopy, Inv, MgrInv, Row
  <2>2. copies' = copies \/ copies' = CheckAndUpdate(a, mgr.row.build) \/ copies' = CacheGame(a, mgr.row.build)
    BY <1>3 DEF UpdateCopy, WarmCopy
  <2> QED BY <1>0, <2>1, <2>2, CheckAndUpdateSafe, CacheGameSafe
<1>4. CASE AdminCache(a)
  <2>1. row.build \in Builds /\ row.build \in Known
    BY <1>4 DEF AdminCache, Inv, RowsInv, KnownRow, Row
  <2>2. copies' = CheckAndUpdate(a, row.build) \/ copies' = RemoveCache(a)
    BY <1>4 DEF AdminCache
  <2>3. Safe(CheckAndUpdate(a, row.build))
    BY <1>0, <2>1, CheckAndUpdateSafe
  <2> QED BY <1>0, <1>1, <2>2, <2>3
<1>5. ASSUME NEW k \in Builds, NEW ok \in BOOLEAN, DownloadEnds(a, k, ok) PROVE Safe(copies')
  <2>1. PICK st \in {"available", "unavailable"} : copies' = [copies EXCEPT ![a][k] = st] /\ copies[a][k] = "downloading"
    BY <1>5 DEF DownloadEnds
  <2>2. k \in Known
    BY <1>0, <2>1 DEF FilesInv
  <2> QED BY <1>0, <2>1, <2>2 DEF FilesInv, Safe, CopyStatus
<1> QED BY <1>1, <1>2, <1>3, <1>4, <1>5

LEMMA PlacedStep ==
  ASSUME Inv, NEW a \in Agents, Place(a) \/ Instance(a) \/ WarmTimeout(a)
  PROVE  /\ Safe(copies') /\ inst' \in [Agents -> Inst]
         /\ \A b \in Agents :
              \/ inst'[b] = inst[b]
              \/ /\ inst'[b].want \in Known /\ inst'[b].used \in Known
                 /\ inst'[b].stage # "none" => inst'[b].want \in Builds
                 /\ \/ inst'[b].stage # "running"
                    \/ inst'[b].used \in Builds /\ copies'[b][inst'[b].used] = "available"
<1> DEFINE Goal == /\ Safe(copies') /\ inst' \in [Agents -> Inst]
                   /\ \A b \in Agents :
                        \/ inst'[b] = inst[b]
                        \/ /\ inst'[b].want \in Known /\ inst'[b].used \in Known
                           /\ inst'[b].stage # "none" => inst'[b].want \in Builds
                           /\ \/ inst'[b].stage # "running"
                              \/ inst'[b].used \in Builds /\ copies'[b][inst'[b].used] = "available"
<1>0. /\ FilesInv /\ Safe(copies) /\ inst \in [Agents -> Inst] /\ inst[a] \in Inst
      /\ inst[a].want \in Known /\ inst[a].used \in Known
      /\ inst[a].stage # "none" => inst[a].want \in Builds
      /\ 0 \in Known /\ remote.build \in Nat
  BY RemoveCacheSafe, Sizes DEF Inv, FilesInv, RowsInv, Builds, Known
<1>1. ASSUME NEW x \in Inst, inst' = [inst EXCEPT ![a] = x], Safe(copies'), x.want \in Known, x.used \in Known,
             x.stage # "none" => x.want \in Builds,
             \/ x.stage # "running"
             \/ x.used \in Builds /\ copies'[a][x.used] = "available"
      PROVE  Goal
  BY <1>0, <1>1
<1>2. ASSUME inst' = inst, Safe(copies') PROVE Goal
  BY <1>0, <1>2
<1> SUFFICES Goal
  OBVIOUS
<1> HIDE DEF Goal
<1>3. CASE Place(a)
  <2>1. row.build \in Known /\ row.build \in Nat /\ row.build \in Builds
    BY <1>0, <1>3 DEF Place, Enabled, Inv, RowsInv, KnownRow, Known, Row
  <2>2. PICK st \in {"building", "placed"} : /\ inst' = [inst EXCEPT ![a] = [stage |-> st, want |-> row.build, used |-> 0]]
                                             /\ UNCHANGED copies
    BY <1>3 DEF Place
  <2>3. [stage |-> st, want |-> row.build, used |-> 0] \in Inst
    BY <2>1 DEF Inst
  <2> QED BY <1>0, <1>1, <2>1, <2>2, <2>3
<1>4. CASE WarmTimeout(a)
  BY <1>0, <1>1, <1>4, NoInstanceType DEF WarmTimeout
<1>5. CASE WarmStart(a)
  <2>1. inst' = [inst EXCEPT ![a] = [inst[a] EXCEPT !.stage = "warming"]] /\ copies' = CacheGame(a, inst[a].want)
    BY <1>0, <1>5 DEF WarmStart
  <2>0. inst[a].want \in Builds /\ Safe(copies')
    BY <1>0, <1>5, <2>1, CacheGameSafe DEF WarmStart
  <2>2. /\ [inst[a] EXCEPT !.stage = "warming"] \in Inst
        /\ [inst[a] EXCEPT !.stage = "warming"].want = inst[a].want /\ [inst[a] EXCEPT !.stage = "warming"].used = inst[a].used
        /\ [inst[a] EXCEPT !.stage = "warming"].stage = "warming"
    BY <1>0 DEF Inst
  <2> QED BY <1>0, <1>1, <2>0, <2>1, <2>2
<1>6. CASE pollCacheReady(a)
  <2>0. inst[a].want \in Builds /\ Safe(CacheGame(a, inst[a].want))
    BY <1>0, <1>6, CacheGameSafe DEF pollCacheReady
  <2>1. CASE copies' = CacheGame(a, inst[a].want) /\ UNCHANGED inst
    BY <1>2, <2>0, <2>1
  <2>2. CASE /\ UNCHANGED copies
             /\ inst' = [inst EXCEPT ![a] = [@ EXCEPT !.stage = "building"]] \/ inst' = [inst EXCEPT ![a] = NoInstance]
    <3>1. /\ [inst[a] EXCEPT !.stage = "building"] \in Inst
          /\ [inst[a] EXCEPT !.stage = "building"].want = inst[a].want /\ [inst[a] EXCEPT !.stage = "building"].used = inst[a].used
          /\ [inst[a] EXCEPT !.stage = "building"].stage = "building"
      BY <1>0 DEF Inst
    <3> QED BY <1>0, <1>1, <2>0, <2>2, <3>1, NoInstanceType
  <2> QED BY <1>6, <2>1, <2>2 DEF pollCacheReady
<1>7. CASE StartOnCopy(a)
  <2>1. CASE inst' = [inst EXCEPT ![a] = NoInstance] /\ UNCHANGED copies
    BY <1>0, <1>1, <2>1, NoInstanceType
  <2>2. CASE /\ Current(a).status = "available" /\ UNCHANGED copies
             /\ inst' = [inst EXCEPT ![a] = [inst[a] EXCEPT !.stage = "running", !.used = Current(a).build]]
    <3> DEFINE x == [inst[a] EXCEPT !.stage = "running", !.used = Current(a).build]
    <3>0. inst[a].want \in Builds
      BY <1>0, <1>7 DEF StartOnCopy
    <3>1. Current(a).build \in Builds /\ copies[a][Current(a).build] = "available"
      BY <2>2, CurrentIs
    <3>2. Current(a).build \in Known /\ Current(a).build \in Nat
      BY <1>0, <3>1 DEF FilesInv, Known
    <3>3. x \in Inst /\ x.want = inst[a].want /\ x.used = Current(a).build
      BY <1>0, <3>2 DEF Inst
    <3> HIDE DEF x
    <3>4. inst' = [inst EXCEPT ![a] = x]
      BY <2>2 DEF x
    <3> QED BY <1>0, <1>1, <2>2, <3>0, <3>1, <3>2, <3>3, <3>4
  <2> QED BY <1>7, <2>1, <2>2 DEF StartOnCopy
<1> QED BY <1>3, <1>4, <1>5, <1>6, <1>7 DEF Instance

\* A running instance lets go of its copy; the others keep theirs.
LEMMA StopStep ==
  ASSUME Inv, Known \subseteq Known', NEW a \in Agents, StopOnCopy(a)
  PROVE  FilesInv'
<1>1. inst' = [inst EXCEPT ![a] = NoInstance] /\ copies' = CollectOrphans(a)
  BY DEF StopOnCopy
<1>2. /\ FilesInv /\ 0 \in Known /\ copies \in [Agents -> [Builds -> CopyStatus]] /\ inst \in [Agents -> Inst]
  BY Sizes DEF Inv, FilesInv, RowsInv, Builds, Known
<1>3. copies'[a] = [k \in Builds |-> IF copies[a][k] = "downloading" \/ (k = Current(a).build /\ copies[a][k] = "available")
                                       THEN copies[a][k] ELSE "none"]
  BY <1>1, <1>2 DEF CollectOrphans
<1>4. copies' \in [Agents -> [Builds -> CopyStatus]] /\ \A b \in Agents : b # a => copies'[b] = copies[b]
  BY <1>1, <1>2 DEF CollectOrphans, CopyStatus
<1>5. \A b \in Agents, k \in Builds : copies'[b][k] # "none" => copies[b][k] # "none"
  BY <1>3, <1>4
<1>6. inst' \in [Agents -> Inst] /\ inst'[a] = NoInstance /\ \A b \in Agents : b # a => inst'[b] = inst[b]
  BY <1>1, <1>2, NoInstanceType
<1>7. \A b \in Agents : /\ inst'[b].want \in Known' /\ inst'[b].used \in Known'
                        /\ inst'[b].stage # "none" => inst'[b].want \in Builds
                        /\ inst'[b].stage = "running" => inst'[b].used \in Builds
  BY <1>2, <1>6, NoInstanceType DEF FilesInv
<1>8. \A b \in Agents : inst'[b].stage = "running" => copies'[b][inst'[b].used] = "available"
  BY <1>2, <1>4, <1>6, NoInstanceType DEF FilesInv, RunningHasFiles
<1>9. \A b \in Agents, k \in Builds : copies'[b][k] # "none" => k \in Known'
  BY <1>2, <1>5 DEF FilesInv
<1> QED BY <1>4, <1>6, <1>7, <1>8, <1>9 DEF FilesInv, RunningHasFiles

LEMMA FilesStep ==
  ASSUME Inv, [Next]_vars
  PROVE  FilesInv'
<1>0. Known \subseteq Known' /\ FilesInv /\ Safe(copies)
  BY RowsStep DEF Inv, FilesInv, Safe
<1>1. ASSUME Safe(copies'), UNCHANGED inst PROVE FilesInv'
  BY <1>0, <1>1, FilesKept DEF FilesInv
<1>2. CASE UNCHANGED <<copies, inst>>
  <2>1. Safe(copies')
    BY <1>0, <1>2 DEF Safe
  <2> QED BY <1>1, <1>2, <2>1
<1>3. ASSUME NEW a \in Agents, NEW ok \in BOOLEAN, DropCopy(a, ok) \/ DeleteSurplus(a, ok) \/ UpdateCopy(a, ok) \/ WarmCopy(a, ok)
      PROVE  FilesInv'
  BY <1>1, <1>3, CopiesStep
<1>4. ASSUME NEW p, SyncRead(p) \/ SyncSave(p) PROVE UNCHANGED <<copies, inst>>
  BY <1>4 DEF SyncRead, SyncSave
<1>5. ASSUME NEW fails, ProbeCopies(fails) \/ refreshOnce(fails) PROVE UNCHANGED <<copies, inst>>
  BY <1>5 DEF ProbeCopies, refreshOnce, LoopFrame, ViewFrame
<1>6. CASE Loop
  <2>1. ASSUME NEW a \in Agents, DropCopy(a, TRUE) \/ DeleteSurplus(a, TRUE) \/ UpdateCopy(a, TRUE) \/ WarmCopy(a, TRUE)
        PROVE  FilesInv'
    BY <1>3, <2>1
  <2> QED BY <1>2, <1>4, <1>5, <1>6, <2>1 DEF Loop, SyncNothing, ListBranch, DeleteEnds, UpdateEnds, WarmEnds, LoopFrame
<1>7. CASE View \/ CallFails \/ CooledDown
  <2>1. ASSUME NEW a \in Agents, DropCopy(a, FALSE) \/ DeleteSurplus(a, FALSE) \/ UpdateCopy(a, FALSE) \/ WarmCopy(a, FALSE)
        PROVE  FilesInv'
    BY <1>3, <2>1
  <2> QED BY <1>2, <1>5, <1>7, <2>1 DEF View, CallFails, CooledDown, LoopFrame
<1>8. CASE Administrator \/ AdminSaves \/ SteamChanges
  <2>1. ASSUME NEW a \in Agents, AdminCache(a) PROVE FilesInv'
    BY <1>1, <2>1, CopiesStep
  <2> QED BY <1>2, <1>4, <1>8, <2>1 DEF Administrator, AdminSaves, SetBranchMinReplicas, SetterSave, SteamChanges
<1>9. ASSUME NEW a \in Agents, Place(a) \/ Instance(a) \/ WarmTimeout(a) PROVE FilesInv'
  BY <1>0, <1>9, PlacedStep, FilesKept
<1>10. ASSUME NEW a \in Agents, StopOnCopy(a) PROVE FilesInv'
  BY <1>0, <1>10, StopStep
<1>11. ASSUME NEW a \in Agents, \E k \in Builds, ok \in BOOLEAN : DownloadEnds(a, k, ok) PROVE FilesInv'
  BY <1>1, <1>11, CopiesStep
<1>12. CASE UNCHANGED vars
  BY <1>2, <1>12 DEF vars
<1> QED BY <1>6, <1>7, <1>8, <1>9, <1>10, <1>11, <1>12 DEF Next

-----------------------------------------------------------------------------
(* The loop and its count.                                                 *)

LEMMA Subsets ==
  ASSUME NEW T \in SUBSET Agents
  PROVE  IsFiniteSet(T) /\ Cardinality(T) \in Nat /\ Cardinality(T) <= Cardinality(Agents)
BY CacheAssumption, FS_Subset, FS_CardinalityType

\* The agents counted and the agents left to warm are together agents.
LEMMA Apart ==
  ASSUME NEW S \in SUBSET Agents, NEW T \in SUBSET Agents, S \cap T = {}
  PROVE  Cardinality(S) + Cardinality(T) <= Cardinality(Agents)
<1>1. Cardinality(S \cup T) = Cardinality(S) + Cardinality(T) - Cardinality(S \cap T)
  BY Subsets, FS_Union
<1>2. Cardinality(S \cap T) = 0
  BY FS_EmptySet
<1> QED BY <1>1, <1>2, Subsets

LEMMA NodeStateType == ASSUME NEW a \in Agents PROVE NodeState(a) \in NodeStates
BY CurrentIs DEF NodeState, NodeStates

\* A step of the loop that works down the agents of its current phase.
LEMMA MgrWorks ==
  ASSUME MgrInv, Known \subseteq Known', NEW a \in mgr.todo, cooling' \in BOOLEAN, NEW n \in 0 .. Cardinality(Agents),
         NEW d \in SUBSET Agents, mgr' = [mgr EXCEPT !.todo = @ \ {a}, !.count = n, !.deleted = d],
         n <= mgr.count + (IF mgr.pc = "warm" THEN 1 ELSE 0)
  PROVE  MgrInv'
<1>0. mgr \in Mgr /\ mgr.todo \in SUBSET Agents /\ Cardinality(Agents) \in Nat /\ mgr.count \in Nat
  BY Sizes DEF MgrInv, Mgr
<1>1. /\ mgr' \in Mgr /\ mgr'.pc = mgr.pc /\ mgr'.row = mgr.row /\ mgr'.states = mgr.states
      /\ mgr'.count = n /\ mgr'.todo = mgr.todo \ {a}
  BY <1>0 DEF Mgr
<1>2. Cardinality(mgr.todo \ {a}) = Cardinality(mgr.todo) - 1 /\ Cardinality(mgr.todo) \in Nat
  BY <1>0, Subsets, FS_RemoveElement
<1>3. mgr'.pc = "warm" => mgr'.count + Cardinality(mgr'.todo) <= Cardinality(Agents)
  BY <1>0, <1>1, <1>2 DEF MgrInv
<1> QED BY <1>1, <1>3 DEF MgrInv

LEMMA MgrLoops ==
  ASSUME Inv, Known \subseteq Known', NEW a \in Agents, NEW ok \in BOOLEAN,
         DropCopy(a, ok) \/ DeleteSurplus(a, ok) \/ UpdateCopy(a, ok) \/ WarmCopy(a, ok)
  PROVE  MgrInv'
<1>0. /\ MgrInv /\ mgr \in Mgr /\ mgr.count \in 0 .. Cardinality(Agents) /\ mgr.deleted \in SUBSET Agents /\ cooling \in BOOLEAN
      /\ mgr.count \in Nat /\ Cardinality(Agents) \in Nat
      /\ Cardinality(mgr.todo) \in Nat /\ mgr.todo \in SUBSET Agents
  BY Sizes, Subsets DEF Inv, MgrInv, Mgr
<1>1. [mgr EXCEPT !.todo = @ \ {a}] = [mgr EXCEPT !.todo = @ \ {a}, !.count = mgr.count, !.deleted = mgr.deleted]
  BY <1>0 DEF Mgr
<1>2. ASSUME a \in mgr.todo, mgr' = [mgr EXCEPT !.todo = @ \ {a}], cooling' \in BOOLEAN PROVE MgrInv'
  <2>1. mgr' = [mgr EXCEPT !.todo = @ \ {a}, !.count = mgr.count, !.deleted = mgr.deleted]
    BY <1>1, <1>2
  <2>2. mgr.count <= mgr.count + (IF mgr.pc = "warm" THEN 1 ELSE 0)
    BY <1>0
  <2> QED BY <1>0, <1>2, <2>1, <2>2, MgrWorks
<1>3. CASE DropCopy(a, ok)
  <2>1. CASE mgr' = Idle /\ UNCHANGED cooling
    BY <1>0, <2>1, IdleType DEF MgrInv
  <2> QED BY <1>0, <1>2, <1>3, <2>1 DEF DropCopy
<1>4. CASE DeleteSurplus(a, ok)
  <2>1. CASE ok /\ MayRemove(a)
    <3>1. /\ mgr' = [mgr EXCEPT !.todo = @ \ {a}, !.count = @ - 1, !.deleted = @ \union {a}]
          /\ cooling' = TRUE /\ a \in mgr.todo /\ mgr.count > KeepTarget /\ mgr.pc = "delete"
      BY <1>4, <2>1 DEF DeleteSurplus
    <3>2. KeepTarget \in Nat
      <4>1. mgr.row.min \in Nat /\ Cardinality(mgr.serving) \in Nat
        BY <1>0, <3>1, Subsets, Sizes DEF MgrInv, Mgr, Row
      <4> QED BY <4>1 DEF KeepTarget
    <3>3. mgr.count - 1 \in 0 .. Cardinality(Agents) /\ mgr.count - 1 <= mgr.count + (IF mgr.pc = "warm" THEN 1 ELSE 0)
      BY <1>0, <3>1, <3>2
    <3>4. mgr' = [mgr EXCEPT !.todo = @ \ {a}, !.count = mgr.count - 1, !.deleted = mgr.deleted \cup {a}]
      BY <3>1
    <3>5. a \in Agents /\ mgr.deleted \cup {a} \in SUBSET Agents /\ cooling' \in BOOLEAN
      BY <1>0, <3>1
    <3> QED BY <1>0, <3>1, <3>3, <3>4, <3>5, MgrWorks
  <2>2. CASE ~(ok /\ MayRemove(a))
    BY <1>0, <1>2, <1>4, <2>2 DEF DeleteSurplus
  <2> QED BY <2>1, <2>2
<1>5. CASE UpdateCopy(a, ok)
  BY <1>0, <1>2, <1>5 DEF UpdateCopy
<1>6. CASE WarmCopy(a, ok)
  <2>1. mgr.pc = "warm" /\ a \in mgr.todo /\ UNCHANGED cooling
    BY <1>6 DEF WarmCopy
  <2>2. mgr.count + Cardinality(mgr.todo) <= Cardinality(Agents) /\ Cardinality(mgr.todo) >= 1
    <3>1. Cardinality(mgr.todo \ {a}) = Cardinality(mgr.todo) - 1 /\ Cardinality(mgr.todo \ {a}) \in Nat
      BY <1>0, <2>1, Subsets, FS_RemoveElement
    <3> QED BY <1>0, <2>1, <3>1 DEF MgrInv
  <2>3. /\ mgr.count + 1 \in 0 .. Cardinality(Agents) /\ cooling' \in BOOLEAN
        /\ mgr.count + 1 <= mgr.count + (IF mgr.pc = "warm" THEN 1 ELSE 0)
    BY <1>0, <2>1, <2>2
  <2>4. CASE ok
    <3>1. mgr' = [mgr EXCEPT !.todo = @ \ {a}, !.count = mgr.count + 1]
      BY <1>6, <2>4 DEF WarmCopy
    <3>2. mgr' = [mgr EXCEPT !.todo = @ \ {a}, !.count = mgr.count + 1, !.deleted = mgr.deleted]
      BY <1>0, <3>1 DEF Mgr
    <3> QED BY <1>0, <2>1, <2>3, <3>2, MgrWorks
  <2>5. CASE ~ok
    <3>1. mgr' = [mgr EXCEPT !.todo = @ \ {a}, !.count = mgr.count]
      BY <1>6, <2>5 DEF WarmCopy
    <3>2. mgr' = [mgr EXCEPT !.todo = @ \ {a}]
      BY <1>0, <3>1 DEF Mgr
    <3> QED BY <1>0, <1>2, <2>1, <3>2
  <2> QED BY <2>4, <2>5
<1> QED BY <1>3, <1>4, <1>5, <1>6

\* The steps of the loop from one phase to the next.
LEMMA MgrPhases ==
  ASSUME Inv, Known \subseteq Known',
         \/ ListBranch \/ DeleteEnds \/ UpdateEnds \/ WarmEnds \/ SyncNothing
         \/ \E fails \in SUBSET Agents : ProbeCopies(fails)
  PROVE  MgrInv'
<1>0. /\ MgrInv /\ mgr \in Mgr /\ cooling \in BOOLEAN /\ cooling' = cooling /\ Cardinality(Agents) \in Nat
      /\ mgr.states \in [Agents -> NodeStates] \cup {<<>>} /\ mgr.row \in Row \cup {None}
      /\ mgr.todo \in SUBSET Agents /\ mgr.count \in 0 .. Cardinality(Agents)
  BY Sizes DEF Inv, MgrInv, Mgr, ListBranch, DeleteEnds, UpdateEnds, WarmEnds, SyncNothing, ProbeCopies
<1>1. CASE mgr' = Idle
  BY <1>0, <1>1, IdleType DEF MgrInv
<1>2. CASE ListBranch
  <2>1. PICK c \in {"probe", "drop"}, T \in {{}, Agents} :
           /\ mgr' = [Idle EXCEPT !.pc = c, !.row = row, !.serving = Serving, !.todo = T]
           /\ c = "probe" => Enabled(row)
    BY <1>2 DEF ListBranch
  <2>2. row \in Row \cup {None} /\ (Enabled(row) => row \in Row /\ row.build \in Known) /\ Serving \in SUBSET Agents
    BY DEF Inv, RowsInv, KnownRow, Enabled, Serving
  <2>3. mgr' \in Mgr /\ mgr'.pc = c /\ mgr'.row = row
    BY <2>1, <2>2, IdleType DEF Mgr
  <2> QED BY <1>0, <2>1, <2>2, <2>3 DEF MgrInv
<1>3. CASE DeleteEnds
  <2>1. PICK T \in SUBSET Agents : mgr' = [mgr EXCEPT !.pc = "update", !.todo = T]
    BY <1>3 DEF DeleteEnds
  <2>2. mgr' \in Mgr /\ mgr'.pc = "update" /\ mgr'.row = mgr.row /\ mgr'.states = mgr.states
    BY <1>0, <2>1 DEF Mgr
  <2> QED BY <1>0, <1>3, <2>2 DEF MgrInv, DeleteEnds
<1>4. CASE UpdateEnds
  <2> DEFINE T == {a \in Agents \ mgr.deleted : mgr.states[a] = "missing"}
             S == {a \in Agents \ mgr.deleted : mgr.states[a] \in {"avail", "downloading"}}
  <2>1. mgr.pc = "update" /\ mgr' = [mgr EXCEPT !.pc = "warm", !.todo = T, !.count = Cardinality(S)]
    BY <1>4 DEF UpdateEnds
  <2>2. S \in SUBSET Agents /\ T \in SUBSET Agents /\ S \cap T = {}
    OBVIOUS
  <2> HIDE DEF S, T
  <2>3. Cardinality(S) \in 0 .. Cardinality(Agents) /\ Cardinality(S) + Cardinality(T) <= Cardinality(Agents)
    BY <1>0, <2>2, Subsets, Apart
  <2>4. /\ mgr' \in Mgr /\ mgr'.pc = "warm" /\ mgr'.row = mgr.row /\ mgr'.states = mgr.states
        /\ mgr'.count = Cardinality(S) /\ mgr'.todo = T
    BY <1>0, <2>1, <2>2, <2>3 DEF Mgr
  <2> QED BY <1>0, <2>1, <2>3, <2>4 DEF MgrInv
<1>5. ASSUME NEW fails \in SUBSET Agents, ProbeCopies(fails) PROVE MgrInv'
  <2> DEFINE st == [a \in Agents |-> IF a \in fails THEN "missing" ELSE NodeState(a)]
             S == {a \in Agents : st[a] \in {"avail", "downloading"}}
             T == IF cooling THEN {} ELSE Agents
  <2>1. mgr.pc = "probe" /\ mgr' = [mgr EXCEPT !.pc = "delete", !.states = st, !.todo = T, !.count = Cardinality(S)]
    BY <1>5 DEF ProbeCopies
  <2>2. S \in SUBSET Agents /\ T \in SUBSET Agents /\ st \in [Agents -> NodeStates]
    BY NodeStateType DEF NodeStates
  <2> HIDE DEF S, T, st
  <2>3. Cardinality(S) \in 0 .. Cardinality(Agents)
    BY <1>0, <2>2, Subsets
  <2>4. mgr' \in Mgr /\ mgr'.pc = "delete" /\ mgr'.row = mgr.row /\ mgr'.states = st
    BY <1>0, <2>1, <2>2, <2>3 DEF Mgr
  <2> QED BY <1>0, <2>1, <2>2, <2>4 DEF MgrInv
<1>6. CASE WarmEnds \/ SyncNothing
  <2>1. CASE mgr' = [Idle EXCEPT !.pc = "idle"]
    <3>1. mgr' \in Mgr /\ mgr'.pc = "idle"
      BY <2>1, IdleType DEF Mgr
    <3> QED BY <1>0, <3>1 DEF MgrInv
  <2> QED BY <1>1, <1>6, <2>1 DEF WarmEnds, SyncNothing
<1> QED BY <1>2, <1>3, <1>4, <1>5, <1>6

LEMMA MgrStep ==
  ASSUME Inv, [Next]_vars
  PROVE  MgrInv'
<1>0. Known \subseteq Known' /\ MgrInv /\ mgr \in Mgr /\ cooling \in BOOLEAN
  BY RowsStep DEF Inv, MgrInv
<1>1. CASE UNCHANGED mgr /\ cooling' \in BOOLEAN
  BY <1>0, <1>1 DEF MgrInv
<1>2. ASSUME NEW p \in Callers, SyncRead(p) PROVE MgrInv'
  <2>1. CASE mgr' = [Idle EXCEPT !.pc = "sync"] /\ UNCHANGED cooling
    <3>1. mgr' \in Mgr /\ mgr'.pc = "sync"
      BY <2>1, IdleType DEF Mgr
    <3> QED BY <1>0, <2>1, <3>1 DEF MgrInv
  <2> QED BY <1>0, <1>1, <1>2, <2>1 DEF SyncRead
<1>3. ASSUME NEW p \in Callers, SyncSave(p) PROVE MgrInv'
  <2>1. CASE mgr' = [mgr EXCEPT !.pc = "list"] /\ UNCHANGED cooling
    <3>1. mgr' \in Mgr /\ mgr'.pc = "list"
      BY <1>0, <2>1 DEF Mgr
    <3> QED BY <1>0, <2>1, <3>1 DEF MgrInv
  <2> QED BY <1>0, <1>1, <1>3, <2>1 DEF SyncSave
<1>4. ASSUME NEW a \in Agents, NEW ok \in BOOLEAN, DropCopy(a, ok) \/ DeleteSurplus(a, ok) \/ UpdateCopy(a, ok) \/ WarmCopy(a, ok)
      PROVE  MgrInv'
  BY <1>0, <1>4, MgrLoops
<1>5. ASSUME NEW fails \in SUBSET Agents, ProbeCopies(fails) PROVE MgrInv'
  BY <1>0, <1>5, MgrPhases
<1>6. ASSUME NEW fails, refreshOnce(fails) PROVE MgrInv'
  BY <1>0, <1>1, <1>6 DEF refreshOnce, ViewFrame
<1>7. CASE Loop
  <2>1. ASSUME NEW a \in Agents, DropCopy(a, TRUE) \/ DeleteSurplus(a, TRUE) \/ UpdateCopy(a, TRUE) \/ WarmCopy(a, TRUE)
        PROVE  MgrInv'
    BY <1>4, <2>1
  <2>2. CASE ListBranch \/ DeleteEnds \/ UpdateEnds \/ WarmEnds \/ SyncNothing
    BY <1>0, <2>2, MgrPhases
  <2> QED BY <1>2, <1>3, <1>5, <1>7, <2>1, <2>2 DEF Loop, Callers
<1>8. CASE View \/ CallFails
  <2>1. ASSUME NEW a \in Agents, DropCopy(a, FALSE) \/ DeleteSurplus(a, FALSE) \/ UpdateCopy(a, FALSE) \/ WarmCopy(a, FALSE)
        PROVE  MgrInv'
    BY <1>4, <2>1
  <2> QED BY <1>5, <1>6, <1>8, <2>1 DEF View, CallFails
<1>9. CASE CooledDown \/ SteamChanges \/ UNCHANGED vars
  BY <1>0, <1>1, <1>9 DEF CooledDown, SteamChanges, vars
<1>10. CASE Administrator \/ AdminSaves
  <2>1. ASSUME NEW m \in 0 .. MaxMin, SetBranchMinReplicas(m) PROVE MgrInv'
    BY <1>0, <1>1, <2>1 DEF SetBranchMinReplicas
  <2>2. ASSUME NEW a \in Agents, AdminCache(a) PROVE MgrInv'
    BY <1>0, <1>1, <2>2 DEF AdminCache
  <2>3. CASE SetterSave
    BY <1>0, <1>1, <2>3 DEF SetterSave
  <2> QED BY <1>2, <1>3, <1>10, <2>1, <2>2, <2>3 DEF Administrator, AdminSaves, Callers
<1>11. ASSUME NEW a \in Agents, \/ Place(a) \/ Instance(a) \/ WarmTimeout(a) \/ StopOnCopy(a)
                                \/ \E k \in Builds, ok \in BOOLEAN : DownloadEnds(a, k, ok)
       PROVE  UNCHANGED <<mgr, cooling>>
  BY <1>11 DEF Place, Instance, WarmStart, pollCacheReady, StartOnCopy, WarmTimeout, StopOnCopy, DownloadEnds, InstFrame
<1>12. ASSUME NEW a \in Agents, \/ Place(a) \/ Instance(a) \/ WarmTimeout(a) \/ StopOnCopy(a)
                                \/ \E k \in Builds, ok \in BOOLEAN : DownloadEnds(a, k, ok)
       PROVE  MgrInv'
  BY <1>0, <1>1, <1>11, <1>12
<1> QED BY <1>7, <1>8, <1>9, <1>10, <1>12 DEF Next

-----------------------------------------------------------------------------
(* The snapshot and the bounds.                                            *)

LEMMA UnlessType ==
  ASSUME RestInv, NEW ok, Unless(ok) \/ Upset \/ UNCHANGED upsets
  PROVE  upsets' \in 0 .. MaxUpsets
BY Sizes DEF RestInv, Unless, Upset

LEMMA SnapshotType ==
  ASSUME NEW fails
  PROVE  refreshEntries(fails) \in [Agents -> {"downloading", "available", "unavailable", "missing"}]
BY CurrentIs DEF refreshEntries, fetchEntry

LEMMA RestStep ==
  ASSUME Inv, [Next]_vars
  PROVE  RestInv'
<1>0. RestInv
  BY DEF Inv
<1>1. ASSUME UNCHANGED <<snapshot, placements>>, NEW ok, Unless(ok) \/ Upset \/ UNCHANGED upsets
      PROVE  RestInv'
  BY <1>0, <1>1, UnlessType DEF RestInv
<1>2. ASSUME NEW a \in Agents, NEW ok, DropCopy(a, ok) \/ DeleteSurplus(a, ok) \/ UpdateCopy(a, ok) \/ WarmCopy(a, ok)
      PROVE  RestInv'
  BY <1>1, <1>2 DEF DropCopy, DeleteSurplus, UpdateCopy, WarmCopy, LoopFrame
<1>3. ASSUME NEW fails, ProbeCopies(fails) PROVE RestInv'
  BY <1>1, <1>3 DEF ProbeCopies, LoopFrame
<1>4. ASSUME NEW fails, refreshOnce(fails) PROVE RestInv'
  <2>1. UNCHANGED placements /\ snapshot' = refreshEntries(fails) /\ (Upset \/ UNCHANGED upsets)
    BY <1>4 DEF refreshOnce, ViewFrame
  <2> QED BY <1>0, <2>1, UnlessType, SnapshotType DEF RestInv
<1>5. ASSUME NEW p, SyncRead(p) \/ SyncSave(p) PROVE RestInv'
  BY <1>1, <1>5 DEF SyncRead, SyncSave
<1>6. CASE Loop \/ View \/ CallFails \/ CooledDown
  BY <1>1, <1>2, <1>3, <1>4, <1>5, <1>6
     DEF Loop, View, CallFails, CooledDown, SyncNothing, ListBranch, DeleteEnds, UpdateEnds, WarmEnds, LoopFrame
<1>7. CASE Administrator \/ AdminSaves \/ SteamChanges
  BY <1>1, <1>5, <1>7 DEF Administrator, AdminSaves, SteamChanges, SetBranchMinReplicas, AdminCache, SetterSave, LoopFrame
<1>8. ASSUME NEW a \in Agents, Place(a) PROVE RestInv'
  BY <1>0, <1>8, Sizes DEF Place, InstFrame, RestInv
<1>9. ASSUME NEW a \in Agents, \/ Instance(a) \/ WarmTimeout(a) \/ StopOnCopy(a)
                               \/ \E k \in Builds, ok \in BOOLEAN : DownloadEnds(a, k, ok)
      PROVE  RestInv'
  BY <1>1, <1>9 DEF Instance, WarmStart, pollCacheReady, StartOnCopy, WarmTimeout, StopOnCopy, DownloadEnds, InstFrame
<1>10. CASE UNCHANGED vars
  BY <1>1, <1>10 DEF vars
<1> QED BY <1>6, <1>7, <1>8, <1>9, <1>10 DEF Next

-----------------------------------------------------------------------------

(* FilesInPlace for any number of agents, builds and failing calls: the     *)
(* build a running instance mounted stays on its agent, since remove_cache  *)
(* and gc_orphan_versions look at what is in use when they act and not at   *)
(* what the loop read before; and the loop counts no agent twice.           *)
THEOREM FilesStayInPlace == Spec => []FilesInPlace
<1>1. Init => Inv
  BY InitInv
<1>2. Inv /\ [Next]_vars => Inv'
  BY RowsStep, FilesStep, MgrStep, RestStep DEF Inv
<1>3. Inv => FilesInPlace
  BY InvIsFiles
<1> QED BY <1>1, <1>2, <1>3, PTL DEF Spec
=============================================================================
