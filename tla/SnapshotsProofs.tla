-------------------------- MODULE SnapshotsProofs ---------------------------
(***************************************************************************)
(* Every snapshot with fsfreeze is taken while the file systems are frozen *)
(* and they are thawed again, for any number of file systems and polls and *)
(* any window that is longer than the latency of the array and a tick; and *)
(* an apply that succeeds has done what the configuration asks for.        *)
(***************************************************************************)
EXTENDS SnapshotsProperties, TLAPS

LEMMA Assumptions ==
    /\ Freeze \subseteq Name /\ Volumes \in Nat /\ Polls \in Nat \ {0}
    /\ Window \in Nat \ {0} /\ Latency \in Nat
BY FreezeAssumption, VolumesAssumption, PollsAssumption, WindowAssumption, LatencyAssumption

LEMMA ApplyStep ==
    ASSUME SnapshotsInv, Apply
    PROVE  SnapshotsInv'
BY Assumptions DEF SnapshotsInv, TypeOK, ScriptInv, HandlerInv, TakenWhileFrozen, TimeInv,
   FS, Root, Freezing, terraform, handler, server, Apply, Goto

LEMMA GetSnapshotsStep ==
    ASSUME SnapshotsInv, GetSnapshots
    PROVE  SnapshotsInv'
BY Assumptions DEF SnapshotsInv, TypeOK, ScriptInv, HandlerInv, TakenWhileFrozen, TimeInv,
   FS, Root, Freezing, terraform, handler, server, GetSnapshots, ReturnError, Goto

LEMMA DeletedStep ==
    ASSUME SnapshotsInv, Deleted
    PROVE  SnapshotsInv'
BY Assumptions DEF SnapshotsInv, TypeOK, ScriptInv, HandlerInv, TakenWhileFrozen, TimeInv,
   FS, Root, Freezing, terraform, handler, server, Deleted, Goto

LEMMA CreatedStep ==
    ASSUME SnapshotsInv, Created
    PROVE  SnapshotsInv'
BY Assumptions DEF SnapshotsInv, TypeOK, ScriptInv, HandlerInv, TakenWhileFrozen, TimeInv,
   FS, Root, Freezing, terraform, handler, server, Created, Goto

LEMMA DeleteStep ==
    ASSUME SnapshotsInv, NEW n \in Name, Delete(n)
    PROVE  SnapshotsInv'
BY Assumptions DEF SnapshotsInv, TypeOK, ScriptInv, HandlerInv, TakenWhileFrozen, TimeInv,
   FS, Root, Freezing, terraform, handler, server, Delete, Unchanged, Request, Skip,
   ReturnError, Goto

LEMMA CreateStep ==
    ASSUME SnapshotsInv, NEW n \in Name, Create(n)
    PROVE  SnapshotsInv'
BY Assumptions DEF SnapshotsInv, TypeOK, ScriptInv, HandlerInv, TakenWhileFrozen, TimeInv,
   FS, Root, Freezing, terraform, handler, server, Create, Wanted, Unchanged, Request, Skip,
   ReturnError, Goto

LEMMA CreateFrozenStep ==
    ASSUME SnapshotsInv, NEW n \in Name, CreateFrozen(n)
    PROVE  SnapshotsInv'
BY Assumptions DEF SnapshotsInv, TypeOK, ScriptInv, HandlerInv, TakenWhileFrozen, TimeInv,
   FS, Root, Freezing, terraform, handler, server, CreateFrozen, Wanted, Unchanged, Skip, Goto

LEMMA SnapshotExistsStep ==
    ASSUME SnapshotsInv, SnapshotExists
    PROVE  SnapshotsInv'
BY Assumptions DEF SnapshotsInv, TypeOK, ScriptInv, HandlerInv, TakenWhileFrozen, TimeInv,
   FS, Root, Freezing, terraform, handler, server, SnapshotExists, Goto, ReturnError

LEMMA StartScriptStep ==
    ASSUME SnapshotsInv, StartScript
    PROVE  SnapshotsInv'
<1>. USE Assumptions DEF SnapshotsInv, Freezing, StartScript, Goto, ReturnError
<1>1. TypeOK'
  <2>1. output' \in BOOLEAN /\ status' \in BOOLEAN /\ connected' \in BOOLEAN
    BY Zenon DEF TypeOK, server
  <2>2. CASE ReturnError /\ UNCHANGED server
    BY <2>1, <2>2 DEF TypeOK, terraform, server
  <2>3. CASE pc' = "poll"
    BY <2>1, <2>3 DEF TypeOK, terraform
  <2>. QED
    BY <2>2, <2>3
<1>2. ScriptInv'
  BY DEF TypeOK, ScriptInv, HandlerInv, server
<1>3. HandlerInv'
  BY DEF TypeOK, HandlerInv, ScriptInv, terraform, handler, server
<1>4. TakenWhileFrozen' /\ (Latency < Window - 1 => TimeInv')
  BY DEF TypeOK, TakenWhileFrozen, TimeInv, HandlerInv, terraform, handler, server
<1>. QED
  BY <1>1, <1>2, <1>3, <1>4

LEMMA PollStep ==
    ASSUME SnapshotsInv, Poll
    PROVE  SnapshotsInv'
BY Assumptions DEF SnapshotsInv, TypeOK, ScriptInv, HandlerInv, TakenWhileFrozen, TimeInv,
   FS, Root, Freezing, terraform, handler, server, Poll, Goto

LEMMA CreateSnapshotStep ==
    ASSUME SnapshotsInv, CreateSnapshot
    PROVE  SnapshotsInv'
BY Assumptions DEF SnapshotsInv, TypeOK, ScriptInv, HandlerInv, TakenWhileFrozen, TimeInv,
   FS, Root, Freezing, terraform, handler, server, CreateSnapshot, Goto

LEMMA WaitStep ==
    ASSUME SnapshotsInv, Wait
    PROVE  SnapshotsInv'
BY Assumptions DEF SnapshotsInv, TypeOK, ScriptInv, HandlerInv, TakenWhileFrozen, TimeInv,
   FS, Root, Freezing, terraform, handler, server, Wait, Goto, ReturnError

LEMMA SyncStep ==
    ASSUME SnapshotsInv, Sync
    PROVE  SnapshotsInv'
<1>. USE Assumptions DEF SnapshotsInv, Freezing, Sync, Script
<1>1. TypeOK'
  <2>1. output' \in BOOLEAN /\ status' \in BOOLEAN /\ connected' \in BOOLEAN
    BY Zenon DEF TypeOK, server
  <2>. QED
    BY <2>1 DEF TypeOK, FS, Root, terraform, handler, server
<1>2. ScriptInv'
  <2>1. frozen' = {}
    BY DEF ScriptInv
  <2>2. {k \in FS : k # Root /\ (at' = Root \/ k < at')} = {}
    BY DEF FS, Root
  <2>. QED
    BY <2>1, <2>2 DEF ScriptInv
<1>3. HandlerInv'
  BY DEF TypeOK, HandlerInv, ScriptInv, terraform, handler, server
<1>4. TakenWhileFrozen' /\ (Latency < Window - 1 => TimeInv')
  BY DEF TypeOK, TakenWhileFrozen, TimeInv, HandlerInv, terraform, handler, server
<1>. QED
  BY <1>1, <1>2, <1>3, <1>4

LEMMA SyncFailsStep ==
    ASSUME SnapshotsInv, SyncFails
    PROVE  SnapshotsInv'
<1>. USE Assumptions DEF SnapshotsInv, Freezing, SyncFails, Script
<1>1. TypeOK'
  <2>1. output' \in BOOLEAN /\ status' \in BOOLEAN /\ connected' \in BOOLEAN
    BY Zenon DEF TypeOK, server
  <2>. QED
    BY <2>1 DEF TypeOK, FS, Root, terraform, handler, server
<1>2. ScriptInv'
  BY DEF TypeOK, ScriptInv
<1>3. HandlerInv'
  BY DEF TypeOK, HandlerInv, ScriptInv, terraform, handler, server
<1>4. TakenWhileFrozen' /\ (Latency < Window - 1 => TimeInv')
  BY DEF TypeOK, TakenWhileFrozen, TimeInv, HandlerInv, terraform, handler, server
<1>. QED
  BY <1>1, <1>2, <1>3, <1>4

LEMMA FreezeNextStep ==
    ASSUME SnapshotsInv, FreezeNext
    PROVE  SnapshotsInv'
BY Assumptions DEF SnapshotsInv, TypeOK, ScriptInv, HandlerInv, TakenWhileFrozen, TimeInv,
   FS, Root, Freezing, terraform, handler, server, FreezeNext, Script

LEMMA FreezeRootStep ==
    ASSUME SnapshotsInv, FreezeRoot
    PROVE  SnapshotsInv'
<1>. USE Assumptions DEF SnapshotsInv, Freezing, FreezeRoot, Script
<1>1. TypeOK'
  <2>1. output' \in BOOLEAN /\ status' \in BOOLEAN /\ connected' \in BOOLEAN
    BY Zenon DEF TypeOK, server
  <2>. QED
    BY <2>1 DEF TypeOK, FS, Root, terraform, handler, server
<1>2. ScriptInv'
  <2>1. frozen' = FS
    BY DEF ScriptInv, FS, Root
  <2>2. connected' => script' = "window"
    OBVIOUS
  <2>. QED
    BY <2>1, <2>2 DEF ScriptInv, Root
<1>3. HandlerInv'
  BY DEF TypeOK, HandlerInv, ScriptInv, terraform, handler, server
<1>4. TakenWhileFrozen' /\ (Latency < Window - 1 => TimeInv')
  BY DEF TypeOK, TakenWhileFrozen, TimeInv, HandlerInv, terraform, handler, server
<1>. QED
  BY <1>1, <1>2, <1>3, <1>4

LEMMA FreezeFailsStep ==
    ASSUME SnapshotsInv, FreezeFails
    PROVE  SnapshotsInv'
BY Assumptions DEF SnapshotsInv, TypeOK, ScriptInv, HandlerInv, TakenWhileFrozen, TimeInv,
   FS, Root, Freezing, terraform, handler, server, FreezeFails, Script

LEMMA WindowEndsStep ==
    ASSUME SnapshotsInv, WindowEnds
    PROVE  SnapshotsInv'
BY Assumptions DEF SnapshotsInv, TypeOK, ScriptInv, HandlerInv, TakenWhileFrozen, TimeInv,
   FS, Root, Freezing, terraform, handler, server, WindowEnds, Script

LEMMA ThawStep ==
    ASSUME SnapshotsInv, Thaw
    PROVE  SnapshotsInv'
BY Assumptions DEF SnapshotsInv, TypeOK, ScriptInv, HandlerInv, TakenWhileFrozen, TimeInv,
   FS, Root, Freezing, terraform, handler, server, Thaw, Script

LEMMA ConnectionLostStep ==
    ASSUME SnapshotsInv, ConnectionLost
    PROVE  SnapshotsInv'
<1>. USE Assumptions DEF SnapshotsInv, Freezing, ConnectionLost
<1>1. TypeOK'
  <2>1. output' \in BOOLEAN /\ status' \in BOOLEAN /\ connected' \in BOOLEAN
    BY Zenon DEF TypeOK
  <2>. QED
    BY <2>1 DEF TypeOK, terraform, handler
<1>2. ScriptInv'
  BY DEF ScriptInv
<1>3. HandlerInv'
  BY DEF HandlerInv, terraform, handler
<1>4. TakenWhileFrozen' /\ (Latency < Window - 1 => TimeInv')
  BY DEF TakenWhileFrozen, TimeInv, handler
<1>. QED
  BY <1>1, <1>2, <1>3, <1>4

LEMMA TickStep ==
    ASSUME SnapshotsInv, Tick
    PROVE  SnapshotsInv'
BY Assumptions DEF SnapshotsInv, TypeOK, ScriptInv, HandlerInv, TakenWhileFrozen, TimeInv,
   FS, Root, Freezing, terraform, handler, server, Tick, Goto

-----------------------------------------------------------------------------

LEMMA HandlerStepKeeps ==
    ASSUME SnapshotsInv, HandlerStep
    PROVE  SnapshotsInv'
BY GetSnapshotsStep, DeletedStep, CreatedStep, DeleteStep, CreateStep, CreateFrozenStep,
   SnapshotExistsStep, StartScriptStep, PollStep, CreateSnapshotStep, WaitStep DEF HandlerStep

LEMMA ScriptStepKeeps ==
    ASSUME SnapshotsInv, ScriptStep
    PROVE  SnapshotsInv'
BY SyncStep, SyncFailsStep, FreezeNextStep, FreezeRootStep, FreezeFailsStep, WindowEndsStep,
   ThawStep DEF ScriptStep

LEMMA StutterKeeps ==
    ASSUME SnapshotsInv, UNCHANGED vars
    PROVE  SnapshotsInv'
BY DEF SnapshotsInv, TypeOK, ScriptInv, HandlerInv, TakenWhileFrozen, TimeInv, FS, Root,
   Freezing, terraform, handler, server, vars

LEMMA InitInv ==
    ASSUME Init
    PROVE  SnapshotsInv
<1>. USE Assumptions DEF Init
<1>1. TypeOK
  <2>1. output \in BOOLEAN /\ status \in BOOLEAN /\ connected \in BOOLEAN
    BY Zenon
  <2>. QED
    BY <2>1 DEF TypeOK, FS, Root, Freezing
<1>2. ScriptInv /\ HandlerInv /\ TimeInv
  BY DEF ScriptInv, HandlerInv, TimeInv, Freezing
<1>3. TakenWhileFrozen
  BY DEF TakenWhileFrozen
<1>. QED
  BY <1>1, <1>2, <1>3 DEF SnapshotsInv

(* The script, the handler's place in it and the time that is left of the  *)
(* window stay together (createSnapshot).                                  *)
THEOREM SnapshotsInvariance == Spec => []SnapshotsInv
<1>1. SnapshotsInv /\ [Next]_vars => SnapshotsInv'
  BY HandlerStepKeeps, ScriptStepKeeps, StutterKeeps, ApplyStep, ConnectionLostStep, TickStep
     DEF Next
<1>. QED
  BY <1>1, InitInv, PTL DEF Spec

(* Every variable keeps its type.                                          *)
THEOREM SnapshotsTypeCorrect == Spec => []TypeOK
<1>1. SnapshotsInv => TypeOK
  BY DEF SnapshotsInv
<1>. QED
  BY <1>1, SnapshotsInvariance, PTL

(* A snapshot with fsfreeze is taken while every file system is frozen, if *)
(* the array answers in time.                                              *)
THEOREM FrozenInTime == Spec => []TakenWhileFrozen
<1>1. SnapshotsInv => TakenWhileFrozen
  BY DEF SnapshotsInv
<1>. QED
  BY <1>1, SnapshotsInvariance, PTL

(* Nothing is frozen when createSnapshot has returned over a connection    *)
(* that held.                                                              *)
THEOREM ThawedAfterwards == Spec => []ThawedOnReturn
<1>1. SnapshotsInv => ThawedOnReturn
  BY DEF SnapshotsInv, ThawedOnReturn, ScriptInv, HandlerInv
<1>. QED
  BY <1>1, SnapshotsInvariance, PTL

(* Only snapshots that the configuration has dropped are destroyed         *)
(* (resourceUpdateServerSnapshot).                                         *)
THEOREM OthersAreKept == Spec => OthersKept
<1>1. ASSUME SnapshotsInv, [Next]_vars, NEW n \in Name, taken[n] # "none", taken'[n] = "none"
      PROVE  n \in old \ new
  <2>. USE DEF SnapshotsInv
  <2>1. PICK m \in Name : Delete(m) \/ Create(m)
    <3>1. taken' # taken /\ Next
      BY <1>1 DEF vars
    <3>2. ~Apply /\ ~ScriptStep /\ ~ConnectionLost /\ ~Tick
      BY <3>1 DEF Apply, ScriptStep, Script, Sync, SyncFails, FreezeNext, FreezeRoot,
         FreezeFails, WindowEnds, Thaw, ConnectionLost, Tick
    <3>3. /\ ~GetSnapshots /\ ~Deleted /\ ~Created /\ ~SnapshotExists /\ ~StartScript
          /\ ~Poll /\ ~Wait /\ \A m \in Name : ~CreateFrozen(m)
      BY <3>1 DEF GetSnapshots, Deleted, Created, CreateFrozen, SnapshotExists, StartScript,
         Poll, Wait, Skip
    <3>4. ~CreateSnapshot
      BY <1>1 DEF CreateSnapshot, TypeOK
    <3>. QED
      BY <3>1, <3>2, <3>3, <3>4 DEF Next, HandlerStep
  <2>2. CASE Create(m)
    BY <1>1, <2>2 DEF Create, Request, Skip, TypeOK
  <2>3. CASE Delete(m)
    BY <1>1, <2>3 DEF Delete, Request, Skip, Unchanged, HandlerInv, TypeOK
  <2>. QED
    BY <2>1, <2>2, <2>3
<1>2. SnapshotsInv /\ [Next]_vars =>
        [\A n \in Name : taken[n] # "none" /\ taken'[n] = "none" => n \in old \ new]_vars
  BY <1>1
<1>. QED
  BY <1>2, SnapshotsInvariance, PTL DEF Spec, OthersKept

-----------------------------------------------------------------------------
(* The loops over the snapshots.                                           *)

LEMMA ScriptLoops ==
    ASSUME LoopInv, UNCHANGED <<taken, old, new, listed, todo, name>>, pc' = pc
    PROVE  LoopInv'
BY DEF LoopInv

LEMMA ListLoops ==
    ASSUME SnapshotsInv, LoopInv, Apply \/ GetSnapshots \/ Deleted \/ Created
    PROVE  LoopInv'
<1>. USE DEF LoopInv, Freezing, Goto, terraform
<1>1. CASE Apply
  BY <1>1 DEF Apply
<1>2. CASE GetSnapshots
  BY <1>2 DEF GetSnapshots, ReturnError
<1>3. CASE Deleted
  BY <1>3 DEF Deleted
<1>4. CASE Created
  BY <1>4 DEF Created
<1>. QED
  BY <1>1, <1>2, <1>3, <1>4

LEMMA DeleteLoops ==
    ASSUME SnapshotsInv, LoopInv, NEW n \in Name, Delete(n)
    PROVE  LoopInv'
<1>1. pc = "delete" /\ n \in todo /\ todo \subseteq old /\ listed \subseteq Name
      /\ taken \in [Name -> {"none", "plain", "frozen"}]
  BY DEF Delete, SnapshotsInv, HandlerInv, TypeOK
<1>2. pc' = "idle" \/ (pc' = "delete" /\ todo' = todo \ {n} /\ UNCHANGED <<old, new, listed>>)
  BY <1>1 DEF Delete, Request, Skip, ReturnError, Goto, terraform
<1>3. CASE pc' = "idle"
  BY <1>3 DEF LoopInv, Freezing
<1>4. CASE pc' = "delete" /\ n \in listed /\ n \notin Unchanged
  <2>1. taken' = [taken EXCEPT ![n] = "none"]
    BY <1>1, <1>4 DEF Delete, Request, ReturnError, Goto
  <2>. QED
    BY <1>1, <1>2, <1>4, <2>1 DEF LoopInv, Freezing
<1>5. CASE pc' = "delete" /\ ~(n \in listed /\ n \notin Unchanged)
  <2>1. taken' = taken
    BY <1>5 DEF Delete, Skip
  <2>. QED
    BY <1>1, <1>2, <1>5, <2>1 DEF LoopInv, Freezing, Unchanged
<1>. QED
  BY <1>2, <1>3, <1>4, <1>5

LEMMA CreateLoops ==
    ASSUME SnapshotsInv, LoopInv, NEW n \in Name, Create(n) \/ CreateFrozen(n)
    PROVE  LoopInv'
<1>1. pc = "create" /\ n \in todo /\ taken \in [Name -> {"none", "plain", "frozen"}]
      /\ listed \subseteq Name /\ todo \subseteq new
  BY DEF Create, CreateFrozen, SnapshotsInv, TypeOK, LoopInv
<1>2. \/ pc' = "idle"
      \/ pc' \in {"create", "exists"} /\ todo' = todo \ {n} /\ UNCHANGED <<old, new, listed>>
  BY <1>1 DEF Create, CreateFrozen, Request, Skip, ReturnError, Goto, terraform
<1>3. CASE pc' = "idle"
  BY <1>3 DEF LoopInv, Freezing
<1>4. CASE pc' # "idle" /\ Create(n) /\ Wanted(n)
  <2>1. taken' = [taken EXCEPT ![n] = "plain"] /\ pc' = "create"
    BY <1>1, <1>4 DEF Create, Request, ReturnError, Goto
  <2>. QED
    BY <1>1, <1>2, <1>4, <2>1 DEF LoopInv, Freezing
<1>5. CASE pc' # "idle" /\ CreateFrozen(n) /\ Wanted(n)
  <2>1. taken' = taken /\ pc' = "exists" /\ name' = n /\ n \in Freeze
    BY <1>5 DEF CreateFrozen, Goto
  <2>. QED
    BY <1>1, <1>2, <2>1 DEF LoopInv, Freezing
<1>6. CASE pc' # "idle" /\ ~Wanted(n)
  <2>1. taken' = taken /\ pc' = "create"
    BY <1>1, <1>6 DEF Create, CreateFrozen, Skip
  <2>. QED
    BY <1>1, <1>2, <1>6, <2>1 DEF LoopInv, Freezing, Wanted, Unchanged
<1>. QED
  BY <1>2, <1>3, <1>4, <1>5, <1>6

LEMMA CreateSnapshotLoops ==
    ASSUME SnapshotsInv, LoopInv,
           SnapshotExists \/ StartScript \/ Poll \/ CreateSnapshot \/ Wait
    PROVE  LoopInv'
<1>1. /\ pc \in {"exists", "start"} \cup Freezing
      /\ taken \in [Name -> {"none", "plain", "frozen"}] /\ name \in Name
  BY DEF SnapshotExists, StartScript, Poll, CreateSnapshot, Wait, Freezing, SnapshotsInv, TypeOK
<1>2. \/ pc' = "idle"
      \/ /\ pc' \in {"create", "start"} \cup Freezing
         /\ UNCHANGED <<old, new, listed, todo, name>>
  BY DEF SnapshotExists, StartScript, Poll, CreateSnapshot, Wait, ReturnError, Goto, Freezing,
     terraform
<1>3. \A n \in Name : taken'[n] = taken[n] \/ (n = name /\ taken'[n] # "none")
  BY <1>1 DEF SnapshotExists, StartScript, Poll, CreateSnapshot, Wait
<1>4. CASE pc' = "idle"
  BY <1>4 DEF LoopInv, Freezing
<1>5. CASE pc' # "idle"
  <2>1. old \subseteq Name /\ new \subseteq Name /\ listed \subseteq Name
    BY DEF SnapshotsInv, TypeOK
  <2>. QED
    BY <1>1, <1>2, <1>3, <1>5, <2>1 DEF LoopInv, Freezing
<1>. QED
  BY <1>4, <1>5

LEMMA OtherLoops ==
    ASSUME SnapshotsInv, LoopInv, ScriptStep \/ ConnectionLost \/ Tick \/ UNCHANGED vars
    PROVE  LoopInv'
<1>1. CASE Tick /\ pc = "sleep"
  <2>1. pc' = "poll" /\ UNCHANGED <<taken, old, new, listed, todo, name>>
    BY <1>1 DEF Tick, Goto, terraform
  <2>. QED
    BY <1>1, <2>1 DEF LoopInv, Freezing
<1>2. CASE ~(Tick /\ pc = "sleep")
  <2>1. UNCHANGED <<taken, old, new, listed, todo, name, pc>>
    BY <1>2 DEF ScriptStep, Script, Sync, SyncFails, FreezeNext, FreezeRoot, FreezeFails,
       WindowEnds, Thaw, ConnectionLost, Tick, terraform, handler, vars
  <2>. QED
    BY <2>1, ScriptLoops
<1>. QED
  BY <1>1, <1>2

LEMMA NextLoops == SnapshotsInv /\ LoopInv /\ [Next]_vars => LoopInv'
BY ListLoops, DeleteLoops, CreateLoops, CreateSnapshotLoops, OtherLoops DEF Next, HandlerStep

(* An apply that succeeds has removed what the configuration has dropped,  *)
(* also after applies that failed half-way, and has created what it has    *)
(* added without fsfreeze (resourceUpdateServerSnapshot).                  *)
THEOREM AppliesReconcile == Spec => Reconciled
<1>1. Init => LoopInv
  BY DEF Init, LoopInv, Freezing
<1>2. SnapshotsInv /\ LoopInv /\ [Next]_vars => LoopInv'
  BY NextLoops
<1>3. ASSUME LoopInv, [Next]_vars, ApplySucceeds PROVE Created
  <2>1. Next /\ pc' = "idle" /\ pc # "idle" /\ result' = "ok"
    BY <1>3 DEF ApplySucceeds, vars, handler
  <2>2. ~ReturnError /\ ~Apply /\ ~GetSnapshots /\ ~Deleted
    BY <2>1 DEF ReturnError, Apply, GetSnapshots, Deleted, Goto
  <2>3. \A n \in Name : ~Delete(n) /\ ~Create(n) /\ ~CreateFrozen(n)
    BY <2>1, <2>2 DEF Delete, Create, CreateFrozen, Request, Skip, Goto
  <2>4. ~SnapshotExists /\ ~StartScript /\ ~Poll /\ ~CreateSnapshot /\ ~Wait
    BY <2>1, <2>2 DEF SnapshotExists, StartScript, Poll, CreateSnapshot, Wait, Goto
  <2>5. ~ScriptStep /\ ~ConnectionLost /\ ~Tick
    BY <2>1 DEF ScriptStep, Script, Sync, SyncFails, FreezeNext, FreezeRoot, FreezeFails,
       WindowEnds, Thaw, ConnectionLost, Tick, handler, Goto
  <2>. QED
    BY <2>1, <2>2, <2>3, <2>4, <2>5 DEF Next, HandlerStep
<1>4. LoopInv /\ [Next]_vars =>
         [ApplySucceeds =>
             /\ \A n \in (new \ old) \ Freeze : taken[n] # "none"
             /\ \A n \in old \ new : taken[n] = "none"]_vars
  BY <1>3 DEF Created, LoopInv
<1>. QED
  BY <1>1, <1>2, <1>4, SnapshotsInvariance, PTL DEF Spec, Reconciled

=============================================================================
