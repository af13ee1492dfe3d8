------------------------------ MODULE GameCache -------------------------------
(***************************************************************************)
(* The game cache of one branch of one game: the branch row that a sync     *)
(* with the asset service maintains, the copies on the node agents, the     *)
(* GameCacheManager's loop that updates, thins out and pre-warms them, the  *)
(* NodeCacheView's snapshot the scheduler reads, the administrator's calls  *)
(* and the instances that use the copies. The branch is the public one, the *)
(* one a first sync enables; rows of other branches go the way of a row     *)
(* that is not enabled.                                                     *)
(***************************************************************************)
EXTENDS Integers, FiniteSets, FiniteSetsExt

CONSTANTS
    Agents,         \* enabled node agents
    MaxBuild,       \* bound: build ids 1 .. MaxBuild
    MaxMin,         \* bound: min_replicas an administrator sets
    MaxPlacements,  \* bound: instances placed
    MaxUpsets,      \* bound: failed calls and downloads, changes at Steam,
                    \* calls of the administrator
    None

ASSUME CacheAssumption ==
    /\ IsFiniteSet(Agents)
    /\ {MaxBuild, MaxMin, MaxPlacements, MaxUpsets} \subseteq Nat
    /\ MaxBuild >= 1

VARIABLES
    remote,     \* asset service: the branch's build, and whether it is listed
    row,        \* steam_branches: the row or None
    sync,       \* SyncAndRecordBranch at work: for each caller the row it is
                \* about to save, or None
    setter,     \* SetBranchMinReplicas at work: the row it is about to save
    copies,     \* on each agent, the state of each build's copy
    inst,       \* on each agent, an instance: stage, build asked for, build used
    mgr,        \* the loop: where it is and what it read
    cooling,    \* the cool-down after a deletion
    snapshot,   \* the view: status per agent, missing where there is no entry
    placements, \* instances that may still be placed
    upsets      \* upsets that may still happen

vars == <<remote, row, sync, setter, copies, inst, mgr, cooling, snapshot, placements, upsets>>

Builds == 1 .. MaxBuild
Callers == {"loop", "admin"}

(* SteamBranch and its status.                                              *)
Row == [build: Builds, status: {"enable", "abandoned"}, min: 0 .. MaxMin]

CopyStatus == {"none", "downloading", "available", "unavailable"}
NodeStates == {"avail", "downloading", "missing", "unset"}
Idle == [pc |-> "idle", row |-> None, serving |-> {}, states |-> <<>>,
         todo |-> {}, count |-> 0, deleted |-> {}]
NoInstance == [stage |-> "none", want |-> 0, used |-> 0]

Init ==
    /\ remote = [build |-> 1, listed |-> TRUE]
    /\ row \in {None} \union [build: {1}, status: {"enable"}, min: 0 .. MaxMin]
    /\ sync = [p \in Callers |-> None] /\ setter = None
    /\ copies = [a \in Agents |-> [k \in Builds |-> "none"]]
    /\ inst = [a \in Agents |-> NoInstance]
    /\ mgr = Idle /\ cooling = FALSE
    /\ snapshot = [a \in Agents |-> "missing"]
    /\ placements = MaxPlacements /\ upsets = MaxUpsets

Upset == upsets > 0 /\ upsets' = upsets - 1
Unless(ok) == IF ok THEN UNCHANGED upsets ELSE Upset

-----------------------------------------------------------------------------
(* The node agent's side.                                                   *)

BuildsIn(a, s) == {k \in Builds : copies[a][k] = s}

(* get: the highest available build, else the highest being downloaded,     *)
(* else the highest there is.                                               *)
Current(a) ==
    LET pick == IF BuildsIn(a, "available") # {} THEN BuildsIn(a, "available")
                ELSE IF BuildsIn(a, "downloading") # {} THEN BuildsIn(a, "downloading")
                ELSE BuildsIn(a, "unavailable")
    IN IF pick = {} THEN [status |-> "none", build |-> 0]
       ELSE [status |-> copies[a][Max(pick)], build |-> Max(pick)]

(* cache_game: a copy that is there or on its way is left alone.            *)
CacheGame(a, k) ==
    [copies EXCEPT ![a][k] = IF @ \in {"available", "downloading"} THEN @
                             ELSE "downloading"]

\* Mutant: copies an instance is using are removed too.
MayRemoveUsed(a) == BuildsIn(a, "downloading") = {}

(* remove_cache refuses while an instance uses the branch or a build is     *)
(* being downloaded.                                                        *)
MayRemove(a) == inst[a].stage # "running" /\ BuildsIn(a, "downloading") = {}

RemoveCache(a) ==
    IF MayRemove(a) THEN [copies EXCEPT ![a] = [k \in Builds |-> "none"]]
    ELSE copies

(* gc_orphan_versions when an instance lets go: only the current build and  *)
(* what is being downloaded stay.                                           *)
CollectOrphans(a) ==
    [copies EXCEPT ![a] = [k \in Builds |->
        IF @[k] = "downloading" \/ (k = Current(a).build /\ @[k] = "available")
          THEN @[k] ELSE "none"]]

DownloadEnds(a, k, ok) ==
    /\ copies[a][k] = "downloading"
    /\ copies' = [copies EXCEPT ![a][k] = IF ok THEN "available" ELSE "unavailable"]
    /\ Unless(ok)
    /\ UNCHANGED <<remote, row, sync, setter, inst, mgr, cooling, snapshot, placements>>

-----------------------------------------------------------------------------
(* SyncAndRecordBranch: the list of the asset service and the row are read, *)
(* then the row is saved whole. A new row is enabled, a known one keeps its *)
(* status, one the list does not have is abandoned.                         *)

\* Mutant: a branch the list no longer has stays as it is.
SyncedKeeps(r) ==
    IF ~remote.listed THEN r
    ELSE IF r = None THEN [build |-> remote.build, status |-> "enable", min |-> 0]
    ELSE [r EXCEPT !.build = remote.build]

Synced(r) ==
    IF ~remote.listed THEN IF r = None THEN None ELSE [r EXCEPT !.status = "abandoned"]
    ELSE IF r = None THEN [build |-> remote.build, status |-> "enable", min |-> 0]
    ELSE [r EXCEPT !.build = remote.build]

SyncRead(p) ==
    /\ sync[p] = None /\ Synced(row) # None
    /\ IF p = "loop" THEN mgr.pc = "idle" /\ mgr' = [Idle EXCEPT !.pc = "sync"] /\ UNCHANGED upsets
                     ELSE Upset /\ UNCHANGED mgr
    /\ sync' = [sync EXCEPT ![p] = Synced(row)]
    /\ UNCHANGED <<remote, row, setter, copies, inst, cooling, snapshot, placements>>

SyncSave(p) ==
    /\ sync[p] # None
    /\ row' = sync[p] /\ sync' = [sync EXCEPT ![p] = None]
    /\ mgr' = IF p = "loop" THEN [mgr EXCEPT !.pc = "list"] ELSE mgr
    /\ UNCHANGED <<remote, setter, copies, inst, cooling, snapshot, placements, upsets>>

(* SetBranchMinReplicas: GetByGameAndBranch, then Save of the whole row.    *)
SetBranchMinReplicas(m) ==
    /\ row # None /\ setter = None /\ Upset
    /\ setter' = [row EXCEPT !.min = m]
    /\ UNCHANGED <<remote, row, sync, copies, inst, mgr, cooling, snapshot, placements>>

SetterSave ==
    /\ setter # None
    /\ row' = setter /\ setter' = None
    /\ UNCHANGED <<remote, sync, copies, inst, mgr, cooling, snapshot, placements, upsets>>

(* Steam publishes a build, or the branch disappears or comes back.         *)
SteamChanges ==
    /\ Upset
    /\ \/ remote.build < MaxBuild /\ remote' = [remote EXCEPT !.build = @ + 1]
       \/ remote' = [remote EXCEPT !.listed = ~@]
    /\ UNCHANGED <<row, sync, setter, copies, inst, mgr, cooling, snapshot, placements>>

-----------------------------------------------------------------------------
(* The manager's loop. *)

Enabled(r) == r # None /\ r.status = "enable"

(* servingNodesByBranch: agents of the instances that count as active.      *)
Serving == {a \in Agents : inst[a].stage # "none"}

\* what every step of the loop but its own variables leaves alone
LoopFrame == UNCHANGED <<remote, row, sync, setter, inst, snapshot, placements>>

(* reconcileOnce: the row and the serving agents are read once.             *)
ListBranch ==
    /\ mgr.pc = "list"
    /\ mgr' = [Idle EXCEPT !.pc = IF Enabled(row) THEN "probe" ELSE "drop",
                           !.row = row, !.serving = Serving,
                           !.todo = IF Enabled(row) THEN {} ELSE Agents]
    /\ LoopFrame /\ UNCHANGED <<copies, cooling, upsets>>

(* A branch that is not enabled is removed from every agent; an agent that  *)
(* refuses, or does not answer, keeps it until the next round.              *)
DropCopy(a, ok) ==
    /\ mgr.pc = "drop" /\ a \in mgr.todo
    /\ copies' = IF ok THEN RemoveCache(a) ELSE copies
    /\ mgr' = IF mgr.todo = {a} THEN Idle ELSE [mgr EXCEPT !.todo = @ \ {a}]
    /\ Unless(ok)
    /\ LoopFrame /\ UNCHANGED cooling

(* GetNodeCache for reconcileBranch: an agent that fails to answer counts   *)
(* as one without a copy; an unavailable copy gets no entry at all.         *)
NodeState(a) ==
    CASE Current(a).status = "available" -> "avail"
      [] Current(a).status = "downloading" -> "downloading"
      [] Current(a).status = "unavailable" -> "unset"
      [] OTHER -> "missing"

ProbeCopies(fails) ==
    /\ mgr.pc = "probe"
    /\ LET states == [a \in Agents |-> IF a \in fails THEN "missing" ELSE NodeState(a)]
       IN mgr' = [mgr EXCEPT !.pc = "delete", !.states = states,
                    !.todo = IF cooling THEN {} ELSE Agents,
                    !.count = Cardinality({a \in Agents :
                                states[a] \in {"avail", "downloading"}})]
    /\ fails # {} => Upset
    /\ fails = {} => UNCHANGED upsets
    /\ LoopFrame /\ UNCHANGED <<copies, cooling>>

\* Mutant: one copy more than needed is kept.
KeepOneMore ==
    1 + (IF mgr.row.min > Cardinality(mgr.serving) THEN mgr.row.min
         ELSE Cardinality(mgr.serving))

KeepTarget ==
    IF mgr.row.min > Cardinality(mgr.serving) THEN mgr.row.min
    ELSE Cardinality(mgr.serving)

(* The surplus: available copies no instance stands on, as long as more     *)
(* copies are left than the target.                                         *)
DeleteSurplus(a, ok) ==
    /\ mgr.pc = "delete" /\ a \in mgr.todo /\ mgr.count > KeepTarget
    /\ mgr.states[a] = "avail" /\ a \notin mgr.serving
    /\ Unless(ok)
    /\ IF ok /\ MayRemove(a)
         THEN /\ copies' = RemoveCache(a) /\ cooling' = TRUE
              /\ mgr' = [mgr EXCEPT !.todo = @ \ {a}, !.count = @ - 1,
                                    !.deleted = @ \union {a}]
         ELSE mgr' = [mgr EXCEPT !.todo = @ \ {a}] /\ UNCHANGED <<copies, cooling>>
    /\ LoopFrame

DeleteEnds ==
    /\ mgr.pc = "delete"
    /\ \/ mgr.count <= KeepTarget
       \/ \A a \in mgr.todo : mgr.states[a] # "avail" \/ a \in mgr.serving
    /\ mgr' = [mgr EXCEPT !.pc = "update",
                 !.todo = {a \in Agents \ mgr.deleted :
                   \/ mgr.states[a] = "avail"
                   \/ a \in mgr.serving /\ mgr.states[a] # "unset"}]
    /\ LoopFrame /\ UNCHANGED <<copies, cooling, upsets>>

\* Mutant: a copy that is there is good enough.
CheckAndUpdatePresent(a, k) ==
    IF Current(a).status = "none" THEN CacheGame(a, k) ELSE copies

(* CheckAndUpdate: a missing or an older copy is downloaded; one on its way *)
(* is left alone, one that failed is an error.                              *)
CheckAndUpdate(a, k) ==
    IF \/ Current(a).status = "none"
       \/ Current(a).status = "available" /\ Current(a).build < k
      THEN CacheGame(a, k) ELSE copies

UpdateCopy(a, ok) ==
    /\ mgr.pc = "update" /\ a \in mgr.todo
    /\ copies' = IF ok THEN CheckAndUpdate(a, mgr.row.build) ELSE copies
    /\ mgr' = [mgr EXCEPT !.todo = @ \ {a}]
    /\ Unless(ok)
    /\ LoopFrame /\ UNCHANGED cooling

\* Mutant: a failed copy counts as a copy.
UpdateEndsCountsBroken ==
    /\ mgr.pc = "update" /\ mgr.todo = {}
    /\ mgr' = [mgr EXCEPT !.pc = "warm",
                 !.todo = {a \in Agents \ mgr.deleted : mgr.states[a] = "missing"},
                 !.count = Cardinality({a \in Agents \ mgr.deleted :
                              mgr.states[a] # "missing"})]
    /\ LoopFrame /\ UNCHANGED <<copies, cooling, upsets>>

UpdateEnds ==
    /\ mgr.pc = "update" /\ mgr.todo = {}
    /\ mgr' = [mgr EXCEPT !.pc = "warm",
                 !.todo = {a \in Agents \ mgr.deleted : mgr.states[a] = "missing"},
                 !.count = Cardinality({a \in Agents \ mgr.deleted :
                              mgr.states[a] \in {"avail", "downloading"}})]
    /\ LoopFrame /\ UNCHANGED <<copies, cooling, upsets>>

(* The floor: agents without a copy are told to download until min_replicas *)
(* copies are there or on their way.                                        *)
WarmCopy(a, ok) ==
    /\ mgr.pc = "warm" /\ a \in mgr.todo /\ mgr.count < mgr.row.min
    /\ Unless(ok)
    /\ copies' = IF ok THEN CacheGame(a, mgr.row.build) ELSE copies
    /\ mgr' = [mgr EXCEPT !.todo = @ \ {a}, !.count = IF ok THEN @ + 1 ELSE @]
    /\ LoopFrame /\ UNCHANGED cooling

WarmEnds ==
    /\ mgr.pc = "warm" /\ (mgr.count >= mgr.row.min \/ mgr.todo = {})
    /\ mgr' = Idle
    /\ LoopFrame /\ UNCHANGED <<copies, cooling, upsets>>

(* A round whose sync fails, or finds no branch, ends there.                *)
SyncNothing ==
    /\ mgr.pc = "idle" /\ sync["loop"] = None /\ Synced(row) = None
    /\ mgr' = [Idle EXCEPT !.pc = "idle"]
    /\ LoopFrame /\ UNCHANGED <<copies, cooling, upsets>>

CooledDown ==
    /\ cooling /\ cooling' = FALSE
    /\ LoopFrame /\ UNCHANGED <<copies, mgr, upsets>>

(* The administrator's UpdateBranchCache and RemoveBranchCache.             *)
AdminCache(a) ==
    /\ Upset /\ row # None
    /\ copies' \in {CheckAndUpdate(a, row.build), RemoveCache(a)}
    /\ LoopFrame /\ UNCHANGED <<mgr, cooling>>

-----------------------------------------------------------------------------
(* Instances. *)

InstFrame == UNCHANGED <<remote, row, sync, setter, mgr, cooling, snapshot>>

(* The scheduler puts an instance on an agent: it warms the cache unless    *)
(* the snapshot shows a copy there or on its way.                           *)
Place(a) ==
    /\ placements > 0 /\ placements' = placements - 1
    /\ Enabled(row) /\ inst[a].stage = "none"
    /\ inst' = [inst EXCEPT ![a] =
         [stage |-> IF snapshot[a] \in {"available", "downloading"} THEN "building"
                    ELSE "placed", want |-> row.build, used |-> 0]]
    /\ InstFrame /\ UNCHANGED <<copies, upsets>>

(* CacheWarming: CacheGame once, then polling.                              *)
WarmStart(a) ==
    /\ inst[a].stage = "placed"
    /\ copies' = CacheGame(a, inst[a].want)
    /\ inst' = [inst EXCEPT ![a].stage = "warming"]
    /\ InstFrame /\ UNCHANGED <<placements, upsets>>

(* pollCacheReady: ready, failed, or, when the copy has gone, asked for     *)
(* again.                                                                   *)
pollCacheReady(a) ==
    /\ inst[a].stage = "warming" /\ Current(a).status # "downloading"
    /\ IF Current(a).status = "none"
         THEN copies' = CacheGame(a, inst[a].want) /\ UNCHANGED inst
         ELSE /\ inst' = [inst EXCEPT ![a] = IF Current(a).status = "available"
                            THEN [@ EXCEPT !.stage = "building"] ELSE NoInstance]
              /\ UNCHANGED copies
    /\ InstFrame /\ UNCHANGED <<placements, upsets>>

\* Mutant: the deadline only counts while a download is on its way.
WarmTimeoutDownloading(a) ==
    /\ inst[a].stage = "warming" /\ Current(a).status = "downloading"
    /\ inst' = [inst EXCEPT ![a] = NoInstance]
    /\ InstFrame /\ UNCHANGED <<copies, placements, upsets>>

(* The deadline of an hour, which may pass at any moment of the warming.    *)
WarmTimeout(a) ==
    /\ inst[a].stage = "warming"
    /\ inst' = [inst EXCEPT ![a] = NoInstance]
    /\ InstFrame /\ UNCHANGED <<copies, placements, upsets>>

(* start_instance on the agent: it takes the current copy or fails.         *)
StartOnCopy(a) ==
    /\ inst[a].stage = "building"
    /\ inst' = [inst EXCEPT ![a] = IF Current(a).status = "available"
                  THEN [@ EXCEPT !.stage = "running", !.used = Current(a).build]
                  ELSE NoInstance]
    /\ InstFrame /\ UNCHANGED <<copies, placements, upsets>>

StopOnCopy(a) ==
    /\ inst[a].stage = "running" /\ Upset
    /\ inst' = [inst EXCEPT ![a] = NoInstance]
    /\ copies' = CollectOrphans(a)
    /\ InstFrame /\ UNCHANGED placements

-----------------------------------------------------------------------------
(* NodeCacheView. *)

ViewFrame == UNCHANGED <<remote, row, sync, setter, copies, inst, mgr, cooling, placements>>

(* fetchEntry; a failing agent shows as missing.                            *)
fetchEntry(a, ok) ==
    IF ~ok \/ Current(a).status = "none" THEN "missing" ELSE Current(a).status

\* Mutant: an agent without a copy keeps its old entry.
refreshEntriesMerged(fails) ==
    [a \in Agents |-> IF ~Enabled(row) THEN snapshot[a]
                      ELSE IF a \in fails \/ Current(a).status = "none" THEN snapshot[a]
                      ELSE fetchEntry(a, TRUE)]

(* A snapshot is built from nothing, for the enabled branches only.         *)
refreshEntries(fails) ==
    [a \in Agents |-> IF Enabled(row) THEN fetchEntry(a, a \notin fails) ELSE "missing"]

(* refreshOnce; the calls to the agents, of which some may fail, count as   *)
(* one moment, since the snapshot is stale as soon as it is published.      *)
refreshOnce(fails) ==
    /\ fails # {} => Upset
    /\ fails = {} => UNCHANGED upsets
    /\ snapshot' = refreshEntries(fails)
    /\ ViewFrame

-----------------------------------------------------------------------------
Loop ==
    \/ SyncRead("loop") \/ SyncSave("loop") \/ SyncNothing
    \/ ListBranch \/ DeleteEnds \/ UpdateEnds \/ WarmEnds
    \/ ProbeCopies({})
    \/ \E a \in Agents : \/ DropCopy(a, TRUE) \/ DeleteSurplus(a, TRUE)
                         \/ UpdateCopy(a, TRUE) \/ WarmCopy(a, TRUE)

View == refreshOnce({})

CallFails ==
    \/ \E a \in Agents : \/ DropCopy(a, FALSE) \/ DeleteSurplus(a, FALSE)
                         \/ UpdateCopy(a, FALSE) \/ WarmCopy(a, FALSE)
    \/ \E fails \in (SUBSET Agents) \ {{}} : ProbeCopies(fails) \/ refreshOnce(fails)

Instance(a) == WarmStart(a) \/ pollCacheReady(a) \/ StartOnCopy(a)

Administrator ==
    \/ SyncRead("admin") \/ \E m \in 0 .. MaxMin : SetBranchMinReplicas(m)
    \/ \E a \in Agents : AdminCache(a)

AdminSaves == SyncSave("admin") \/ SetterSave

Next ==
    \/ Loop \/ View \/ CallFails \/ CooledDown \/ Administrator \/ AdminSaves
    \/ SteamChanges
    \/ \E a \in Agents : \/ Place(a) \/ Instance(a) \/ WarmTimeout(a) \/ StopOnCopy(a)
                         \/ \E k \in Builds, ok \in BOOLEAN : DownloadEnds(a, k, ok)

(* The loop and the refresh are tickers that run as long as the controller  *)
(* does, a save follows its read, the cool-down is a clock, a download      *)
(* ends, the goroutine of an instance goes on, and its deadline passes.     *)
Fairness ==
    /\ WF_vars(Loop) /\ WF_vars(View) /\ WF_vars(CooledDown) /\ WF_vars(AdminSaves)
    /\ \A a \in Agents :
         /\ WF_vars(Instance(a)) /\ WF_vars(WarmTimeout(a))
         /\ WF_vars(\E k \in Builds : DownloadEnds(a, k, TRUE))

Spec == Init /\ [][Next]_vars /\ Fairness

-----------------------------------------------------------------------------
(* The type invariant; in particular the loop never counts a copy twice,    *)
(* and a build that is asked for or used is one Steam has published.        *)
TypeOK ==
    /\ remote \in [build: Builds, listed: BOOLEAN]
    /\ row \in Row \union {None} /\ setter \in Row \union {None}
    /\ sync \in [Callers -> Row \union {None}]
    /\ copies \in [Agents -> [Builds -> CopyStatus]]
    /\ inst \in [Agents -> [stage: {"none", "placed", "warming", "building", "running"},
                            want: 0 .. remote.build, used: 0 .. remote.build]]
    /\ mgr.pc \in {"idle", "sync", "list", "drop", "probe", "delete", "update", "warm"}
    /\ mgr.row \in Row \union {None}
    /\ mgr.serving \subseteq Agents /\ mgr.todo \subseteq Agents
    /\ mgr.deleted \subseteq Agents /\ mgr.count \in 0 .. Cardinality(Agents)
    /\ \A a \in DOMAIN mgr.states : mgr.states[a] \in NodeStates
    /\ snapshot \in [Agents -> (CopyStatus \ {"none"}) \union {"missing"}]
    /\ cooling \in BOOLEAN
    /\ placements \in 0 .. MaxPlacements /\ upsets \in 0 .. MaxUpsets

(* The files under a running instance stay: whatever the loop, a sync, the  *)
(* administrator and other downloads do with stale knowledge, the build it  *)
(* mounted is on the agent.                                                 *)
RunningHasFiles ==
    \A a \in Agents :
        inst[a].stage = "running" => copies[a][inst[a].used] = "available"

Copies == {a \in Agents : Current(a).status \in {"available", "downloading"}}
Broken == {a \in Agents : Current(a).status = "unavailable"}
Target == IF row.min > Cardinality(Serving) THEN row.min ELSE Cardinality(Serving)

(* min_replicas is a floor: the loop comes back, again and again, to at     *)
(* least that many copies, on all agents whose last download did not fail.  *)
FloorReached ==
    []<>(Enabled(row) =>
           \/ Cardinality(Copies) >= row.min
           \/ Copies \union Broken = Agents)

(* Surplus copies go: again and again there are no more copies than the     *)
(* floor and the instances ask for.                                         *)
SurplusGoes == []<>(Enabled(row) => Cardinality(Copies) <= Target)

(* Every copy follows the branch: again and again each agent's current copy *)
(* is the latest build of the row, failed downloads of it included.         *)
CopiesFollow ==
    []<>(Enabled(row) =>
           \A a \in Agents : Current(a).status = "available" => Current(a).build >= row.build)

(* A branch that is gone at Steam does not keep its disk space: again and   *)
(* again the row is abandoned, whatever an administrator saved over it, and *)
(* only running instances keep copies.                                      *)
GoneIsFreed ==
    []<>(~remote.listed /\ row # None =>
           ~Enabled(row) /\ \A a \in Copies : inst[a].stage = "running")

(* An instance that warms a cache comes to an end: it runs or it fails,     *)
(* although the loop or an administrator may remove the copy it waits for   *)
(* as often as it asks for it.                                              *)
WarmingEnds == []<>(\A a \in Agents : inst[a].stage \in {"none", "running"})

(* What the scheduler knows catches up: again and again the snapshot shows  *)
(* a copy as available exactly where there is one.                          *)
ViewCatchesUp ==
    []<>(\A a \in Agents : (snapshot[a] = "available")
            <=> (Enabled(row) /\ Current(a).status = "available"))

(* Deletions decided on what was true a moment ago take no files in use.    *)
FilesInPlace == TypeOK /\ RunningHasFiles

(* The promise of the loop and the view: failing calls, an administrator    *)
(* and Steam move the goal, and every part of it is reached again.          *)
Converges == FloorReached /\ SurplusGoes /\ CopiesFollow /\ GoneIsFreed /\ ViewCatchesUp
=============================================================================
