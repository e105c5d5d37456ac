------------------------- MODULE ServerLifecycleProofs -------------------------
(***************************************************************************)
(* How servers, harvester nodes and ESX hosts come and go, for every set   *)
(* of servers, blades and configurations, any number of interfaces and of  *)
(* tries: proofs of TypeOK, KeptIsWhole, DroppedIsGone, OffBeforeDelete,   *)
(* UnknownKept and RacesAreWon.                                            *)
(***************************************************************************)
EXTENDS ServerLifecycleProperties, FiniteSetTheorems, TLAPS

-----------------------------------------------------------------------------
(* The type of the state in five parts.                                    *)

WorldOK ==
    /\ profile \in [Server -> {"none", "bare", "ready"}]
    /\ template \in [Server -> Template \cup {Absent}]
    /\ blade \in [Server -> Blade \cup {NoBlade}]
    /\ power \in [Server -> {"up", "down"}]
    /\ storage \in [Server -> {"none", "part", "whole"}]
    /\ record \in [Server -> [Interface -> Address]]

PlanOK ==
    /\ kind \in [Server -> Kinds]
    /\ want \in [Server -> Configs \cup {Absent}]
    /\ run \in {"idle", "refresh", "apply"}
    /\ todo \subseteq Server

HeldOK ==
    /\ conf \in [Server -> Configs \cup {Absent}]
    /\ tainted \subseteq Server
    /\ cache \in [Server -> Configs \cup {Absent}]
    /\ ip \in [Server -> [Interface -> Address]]

ControlOK ==
    /\ pc \in [Server -> Label]
    /\ stopped \in BOOLEAN
    /\ fault \in BOOLEAN
    /\ reported \in [Server -> BOOLEAN]

LocalOK ==
    /\ next \in [Server -> 1 .. Interfaces + 1]
    /\ pick \in [Server -> Blade \cup {NoBlade}]
    /\ tries \in [Server -> 0 .. Tries]
    /\ back \in [Server -> {"idle", "read_storage", "create_exists", "create_seed", "create_id"}]
    /\ diag \in [Server -> BOOLEAN]

LEMMA TypeParts ==
    TypeOK <=> WorldOK /\ PlanOK /\ HeldOK /\ ControlOK /\ LocalOK
BY DEF TypeOK, WorldOK, PlanOK, HeldOK, ControlOK, LocalOK

ServerInv(s) ==
    /\ CallInv(s) /\ PlaceInv(s) /\ OffInv(s)
    /\ CreateInv(s) /\ DeleteInv(s) /\ RestInv(s)

-----------------------------------------------------------------------------
(* What a handler does to the other servers: nothing.                      *)

Same(m) ==
    /\ profile'[m] = profile[m] /\ template'[m] = template[m] /\ blade'[m] = blade[m]
    /\ power'[m] = power[m] /\ storage'[m] = storage[m] /\ record'[m] = record[m]
    /\ conf'[m] = conf[m] /\ (m \in tainted' <=> m \in tainted)
    /\ cache'[m] = cache[m] /\ ip'[m] = ip[m]
    /\ pc'[m] = pc[m] /\ next'[m] = next[m] /\ pick'[m] = pick[m] /\ tries'[m] = tries[m]
    /\ back'[m] = back[m] /\ diag'[m] = diag[m] /\ reported'[m] = reported[m]

LEMMA AssignBladeFrame ==
    ASSUME TypeOK, NEW s \in Server, NEW m \in Server, m # s, AssignBlade(s)
    PROVE  Same(m)
<1>. USE TypeParts DEF Same, WorldOK, HeldOK, ControlOK, LocalOK, Goto, Continue,
     GoOnFailed, ReturnError, CreateError, DeleteError, ReadError, Attempted, world, ucs,
     state, process, assign, locals, history
<1>1. Pick(s) => Same(m)
  BY DEF Pick, Available
<1>2. Bind(s) => Same(m)
  BY DEF Bind, Bound, BindRefused, BindFailed, Available, AfterTry, EndAssign
<1>3. AssignFailed(s) => Same(m)
  BY DEF AssignFailed, EndAssign
<1>. QED
  BY <1>1, <1>2, <1>3 DEF AssignBlade

LEMMA ReadFrame ==
    ASSUME TypeOK, NEW s \in Server, NEW m \in Server, m # s, Read(s)
    PROVE  Same(m)
<1>. USE TypeParts DEF Same, WorldOK, HeldOK, ControlOK, LocalOK, Goto, Continue,
     GoOnFailed, ReturnError, CreateError, DeleteError, ReadError, Attempted, world, ucs,
     state, process, assign, locals, history
<1>1. ReadServer(s) => Same(m)
  BY DEF ReadServer, SetServerInput, StartAssign
<1>2. ReadStorage(s) => Same(m)
  BY DEF ReadStorage, MayBeFound, Drop
<1>3. ReadRecords(s) => Same(m)
  BY DEF ReadRecords
<1>. QED
  BY <1>1, <1>2, <1>3 DEF Read

LEMMA CreateFrame ==
    ASSUME TypeOK, NEW s \in Server, NEW m \in Server, m # s, Create(s)
    PROVE  Same(m)
<1>. USE TypeParts DEF Same, WorldOK, HeldOK, ControlOK, LocalOK, Goto, Continue,
     GoOnFailed, ReturnError, CreateError, DeleteError, ReadError, Attempted, world, ucs,
     state, process, assign, locals, history
<1>1. CreateDiscover(s) => Same(m)
  BY DEF CreateDiscover, SetServerInput, StartAssign
<1>2. CreateExists(s) => Same(m)
  BY DEF CreateExists
<1>3. CreatePreflight(s) => Same(m)
  BY DEF CreatePreflight, Available
<1>4. CreateAllocate(s) => Same(m)
  BY DEF CreateAllocate, AllocateIp, SetId
<1>5. CreateBoot(s) => Same(m)
  BY DEF CreateBoot
<1>6. CreateProfile(s) => Same(m)
  BY DEF CreateProfile
<1>7. CreateConfigure(s) => Same(m)
  BY DEF CreateConfigure, StartAssign
<1>8. CreateSeed(s) => Same(m)
  BY DEF CreateSeed
<1>9. CreateUndo(s) => Same(m)
  BY DEF CreateUndo, StorageDeleted, StorageDeleteFailed
<1>10. UndoProfile(s) => Same(m)
  BY DEF UndoProfile, ProfileGone
<1>11. UndoRecords(s) => Same(m)
  BY DEF UndoRecords
<1>12. CreateId(s) => Same(m)
  BY DEF CreateId, SetId
<1>13. CreateStart(s) => Same(m)
  BY DEF CreateStart, Created
<1>14. CreateStage(s) => Same(m)
  BY DEF CreateStage
<1>15. CreateHalt(s) => Same(m)
  BY DEF CreateHalt
<1>16. CreateRemap(s) => Same(m)
  BY DEF CreateRemap
<1>17. CreateRestart(s) => Same(m)
  BY DEF CreateRestart
<1>18. CreateRest(s) => Same(m)
  BY DEF CreateRest, Created
<1>. QED
  BY <1>1, <1>2, <1>3, <1>4, <1>5, <1>6, <1>7, <1>8, <1>9, <1>10, <1>11, <1>12, <1>13,
     <1>14, <1>15, <1>16, <1>17, <1>18 DEF Create

LEMMA DeleteFrame ==
    ASSUME TypeOK, NEW s \in Server, NEW m \in Server, m # s, Delete(s)
    PROVE  Same(m)
<1>. USE TypeParts DEF Same, WorldOK, HeldOK, ControlOK, LocalOK, Goto, Continue,
     GoOnFailed, ReturnError, CreateError, DeleteError, ReadError, Attempted, world, ucs,
     state, process, assign, locals, history
<1>1. DeleteCheck(s) => Same(m)
  BY DEF DeleteCheck, SetServerInput, Spared
<1>2. DeleteNode(s) => Same(m)
  BY DEF DeleteNode, AfterStop
<1>3. DeleteStop(s) => Same(m)
  BY DEF DeleteStop, AfterStop
<1>4. DeleteForce(s) => Same(m)
  BY DEF DeleteForce, Succeed, Collect
<1>5. DeleteProfile(s) => Same(m)
  BY DEF DeleteProfile, ProfileGone, Succeed, Collect
<1>6. DeleteStorage(s) => Same(m)
  BY DEF DeleteStorage, StorageDeleted, StorageDeleteFailed, Succeed, Collect
<1>7. DeleteRecords(s) => Same(m)
  BY DEF DeleteRecords, ReleaseIp, Deleted
<1>. QED
  BY <1>1, <1>2, <1>3, <1>4, <1>5, <1>6, <1>7 DEF Delete

-----------------------------------------------------------------------------
(* Types.                                                                  *)

LEMMA AddressType ==
    /\ NoAddress \in Address
    /\ \A c \in Configs : c.subnet \in Address /\ c.template \in Template
BY DEF Address, Subnet, Template

LEMMA InputType ==
    ASSUME HeldOK, NEW s \in Server, NEW c \in Configs, SetServerInput(s, c)
    PROVE  /\ cache' \in [Server -> Configs \cup {Absent}]
           /\ ip' \in [Server -> [Interface -> Address]]
<1>1. cache' \in [Server -> Configs \cup {Absent}]
  BY DEF HeldOK, SetServerInput, process
<1>2. [i \in Interface |-> IF c.static THEN c.subnet ELSE NoAddress] \in [Interface -> Address]
  BY AddressType
<1>3. ip' \in [Server -> [Interface -> Address]]
  BY <1>2 DEF HeldOK, SetServerInput, process
<1>. QED
  BY <1>1, <1>3

LEMMA NextType ==
    /\ 1 \in 1 .. Interfaces + 1
    /\ \A i \in Interface : i + 1 \in 1 .. Interfaces + 1
BY InterfacesAssumption DEF Interface

LEMMA TriesType ==
    /\ 0 \in 0 .. Tries
    /\ \A t \in 0 .. Tries : t < Tries => t + 1 \in 0 .. Tries
BY TriesAssumption

LEMMA RecordType ==
    ASSUME NEW f \in [Server -> [Interface -> Address]], NEW s \in Server, NEW i \in Interface
    PROVE  \A a \in Address :
              /\ [f EXCEPT ![s][i] = a] \in [Server -> [Interface -> Address]]
              /\ [f EXCEPT ![s] = [f[s] EXCEPT ![i] = a]] \in [Server -> [Interface -> Address]]
OBVIOUS

(* What the next step of the loops over the interfaces makes of them.      *)
LEMMA AllocateType ==
    ASSUME WorldOK, HeldOK, LocalOK, NEW s \in Server, cache[s] \in Configs,
           next[s] \in Interface, AllocateIp(s)
    PROVE  /\ record' \in [Server -> [Interface -> Address]]
           /\ ip' \in [Server -> [Interface -> Address]]
           /\ next' \in [Server -> 1 .. Interfaces + 1]
           /\ conf' = conf /\ tainted' \in {tainted, tainted \cup {s}}
<1>. DEFINE i == next[s]
            address == IF ip[s][i] # NoAddress THEN ip[s][i] ELSE cache[s].subnet
            registered == [record EXCEPT ![s][i] = address]
<1>1. address \in Address
  BY AddressType DEF HeldOK
<1>2. registered \in [Server -> [Interface -> Address]]
  BY <1>1, RecordType DEF WorldOK
<1>3. [ip EXCEPT ![s][i] = address] \in [Server -> [Interface -> Address]]
  BY <1>1, RecordType DEF HeldOK
<1>4. record' \in {record, registered}
  BY DEF AllocateIp
<1>5. ip' \in {ip, [ip EXCEPT ![s][i] = address]}
  BY DEF AllocateIp
<1>6. next' \in {next, [next EXCEPT ![s] = i + 1]}
  BY DEF AllocateIp
<1>7. [next EXCEPT ![s] = i + 1] \in [Server -> 1 .. Interfaces + 1]
  BY NextType DEF LocalOK
<1>8. conf' = conf /\ tainted' \in {tainted, tainted \cup {s}}
  BY DEF AllocateIp, Continue, CreateError, ReturnError, state
<1>. HIDE DEF i, address, registered
<1>. QED
  BY <1>8, <1>2, <1>3, <1>4, <1>5, <1>6, <1>7 DEF WorldOK, HeldOK, LocalOK

LEMMA ReleaseType ==
    ASSUME WorldOK, HeldOK, LocalOK, NEW s \in Server, next[s] \in Interface, ReleaseIp(s)
    PROVE  /\ record' \in [Server -> [Interface -> Address]]
           /\ ip' \in [Server -> [Interface -> Address]]
           /\ next' \in [Server -> 1 .. Interfaces + 1]
           /\ conf' = conf /\ tainted' = tainted
<1>. DEFINE i == next[s]
            released == [record EXCEPT ![s][i] = NoAddress]
<1>1. released \in [Server -> [Interface -> Address]]
  BY AddressType, RecordType DEF WorldOK
<1>2. record[s][i] \in Address
  BY DEF WorldOK
<1>3. [ip EXCEPT ![s][i] = record[s][i]] \in [Server -> [Interface -> Address]]
  BY <1>2, RecordType DEF HeldOK
<1>4. record' \in {record, released}
  BY DEF ReleaseIp
<1>5. ip' \in {ip, [ip EXCEPT ![s][i] = record[s][i]]}
  BY DEF ReleaseIp
<1>6. next' \in {next, [next EXCEPT ![s] = i + 1]}
  BY DEF ReleaseIp
<1>7. [next EXCEPT ![s] = i + 1] \in [Server -> 1 .. Interfaces + 1]
  BY NextType DEF LocalOK
<1>8. conf' = conf /\ tainted' = tainted
  BY DEF ReleaseIp, Continue, DeleteError, ReturnError, state
<1>. HIDE DEF i, released
<1>. QED
  BY <1>8, <1>1, <1>3, <1>4, <1>5, <1>6, <1>7 DEF WorldOK, HeldOK, LocalOK

LEMMA AssignBladeWorldType ==
    ASSUME TypeOK, NEW s \in Server, ServerInv(s), AssignBlade(s)
    PROVE  WorldOK'
<1>. USE TypeParts DEF WorldOK, Goto, Continue, GoOnFailed, ReturnError, CreateError,
     DeleteError, ReadError, Attempted, world, ucs, state, process, assign, locals, history
<1>1. Pick(s) => WorldOK'
  BY DEF Pick, Available
<1>2. Bind(s) => WorldOK'
  BY DEF Bind, Bound, BindRefused, BindFailed, Available, AfterTry, EndAssign
<1>3. AssignFailed(s) => WorldOK'
  BY DEF AssignFailed, EndAssign
<1>. QED
  BY <1>1, <1>2, <1>3 DEF AssignBlade

LEMMA AssignBladeHeldType ==
    ASSUME TypeOK, NEW s \in Server, ServerInv(s), AssignBlade(s)
    PROVE  HeldOK'
<1>. USE TypeParts DEF HeldOK, Goto, Continue, GoOnFailed, ReturnError, CreateError,
     DeleteError, ReadError, Attempted, world, ucs, state, process, assign, locals, history
<1>1. Pick(s) => HeldOK'
  BY DEF Pick, Available
<1>2. Bind(s) => HeldOK'
  BY DEF Bind, Bound, BindRefused, BindFailed, Available, AfterTry, EndAssign
<1>3. AssignFailed(s) => HeldOK'
  BY DEF AssignFailed, EndAssign
<1>. QED
  BY <1>1, <1>2, <1>3 DEF AssignBlade

LEMMA AssignBladeControlType ==
    ASSUME TypeOK, NEW s \in Server, ServerInv(s), AssignBlade(s)
    PROVE  ControlOK'
<1>. USE TypeParts DEF ControlOK, Label, Goto, Continue, GoOnFailed, ReturnError,
     CreateError, DeleteError, ReadError, Attempted, world, ucs, state, process, assign,
     locals, history
<1>1. Pick(s) => ControlOK'
  BY DEF Pick, Available
<1>2. Bind(s) => ControlOK'
  <2>1. Bind(s) /\ Bound(s) => ControlOK'
    BY DEF Bind, Bound, LocalOK
  <2>2. Bind(s) /\ BindRefused(s) => ControlOK'
    BY DEF Bind, BindRefused, AfterTry
  <2>3. Bind(s) /\ BindFailed(s) => ControlOK'
    BY DEF Bind, BindFailed, AfterTry
  <2>. QED
    BY <2>1, <2>2, <2>3 DEF Bind
<1>3. AssignFailed(s) => ControlOK'
  BY DEF AssignFailed, EndAssign
<1>. QED
  BY <1>1, <1>2, <1>3 DEF AssignBlade

LEMMA AssignBladeLocalType ==
    ASSUME TypeOK, NEW s \in Server, ServerInv(s), AssignBlade(s)
    PROVE  LocalOK'
<1>. USE TypeParts DEF LocalOK, Goto, Continue, GoOnFailed, ReturnError, CreateError,
     DeleteError, ReadError, Attempted, world, ucs, state, process, assign, locals, history
<1>1. Pick(s) => LocalOK'
  BY DEF Pick, Available
<1>2. Bind(s) => LocalOK'
  BY TriesType DEF Bind, Bound, BindRefused, BindFailed, Available, AfterTry, EndAssign,
     ServerInv, CallInv
<1>3. AssignFailed(s) => LocalOK'
  BY TriesType DEF AssignFailed, EndAssign
<1>. QED
  BY <1>1, <1>2, <1>3 DEF AssignBlade

LEMMA ReadWorldType ==
    ASSUME TypeOK, NEW s \in Server, ServerInv(s), Read(s)
    PROVE  WorldOK'
<1>. USE TypeParts DEF WorldOK, Goto, Continue, GoOnFailed, ReturnError, CreateError,
     DeleteError, ReadError, Attempted, world, ucs, state, process, assign, locals, history
<1>1. ReadServer(s) => WorldOK'
  BY DEF ReadServer, SetServerInput, StartAssign
<1>2. ReadStorage(s) => WorldOK'
  BY DEF ReadStorage, MayBeFound, Drop
<1>3. ReadRecords(s) => WorldOK'
  BY DEF ReadRecords
<1>. QED
  BY <1>1, <1>2, <1>3 DEF Read

LEMMA ReadHeldType ==
    ASSUME TypeOK, NEW s \in Server, ServerInv(s), Read(s)
    PROVE  HeldOK'
<1>. USE TypeParts DEF HeldOK, Goto, Continue, GoOnFailed, ReturnError, CreateError,
     DeleteError, ReadError, Attempted, world, ucs, state, process, assign, locals, history
<1>1. ReadServer(s) => HeldOK'
  BY InputType DEF ReadServer, StartAssign, ServerInv, PlaceInv, InState, Reading
<1>2. ReadStorage(s) => HeldOK'
  BY DEF ReadStorage, MayBeFound, Drop
<1>3. ReadRecords(s) => HeldOK'
  <2>1. ASSUME ReadRecords(s)
        PROVE  ip' \in {ip, [ip EXCEPT ![s] = record[s]]} /\ UNCHANGED <<conf, tainted, cache>>
    BY <2>1 DEF ReadRecords
  <2>2. [ip EXCEPT ![s] = record[s]] \in [Server -> [Interface -> Address]]
    BY DEF WorldOK
  <2>. QED
    BY <2>1, <2>2
<1>. QED
  BY <1>1, <1>2, <1>3 DEF Read

LEMMA ReadControlType ==
    ASSUME TypeOK, NEW s \in Server, ServerInv(s), Read(s)
    PROVE  ControlOK'
<1>. USE TypeParts DEF ControlOK, Label, Goto, Continue, GoOnFailed, ReturnError,
     CreateError, DeleteError, ReadError, Attempted, world, ucs, state, process, assign,
     locals, history
<1>1. ReadServer(s) => ControlOK'
  BY DEF ReadServer, SetServerInput, StartAssign
<1>2. ReadStorage(s) => ControlOK'
  BY DEF ReadStorage, MayBeFound, Drop
<1>3. ReadRecords(s) => ControlOK'
  BY DEF ReadRecords
<1>. QED
  BY <1>1, <1>2, <1>3 DEF Read

LEMMA ReadLocalType ==
    ASSUME TypeOK, NEW s \in Server, ServerInv(s), Read(s)
    PROVE  LocalOK'
<1>. USE TypeParts DEF LocalOK, Goto, Continue, GoOnFailed, ReturnError, CreateError,
     DeleteError, ReadError, Attempted, world, ucs, state, process, assign, locals, history
<1>1. ReadServer(s) => LocalOK'
  BY DEF ReadServer, SetServerInput, StartAssign
<1>2. ReadStorage(s) => LocalOK'
  BY DEF ReadStorage, MayBeFound, Drop
<1>3. ReadRecords(s) => LocalOK'
  BY DEF ReadRecords
<1>. QED
  BY <1>1, <1>2, <1>3 DEF Read

LEMMA CreateWorldType ==
    ASSUME TypeOK, NEW s \in Server, ServerInv(s), Create(s)
    PROVE  WorldOK'
<1>. USE TypeParts DEF WorldOK, Goto, Continue, GoOnFailed, ReturnError, CreateError,
     DeleteError, ReadError, Attempted, world, ucs, state, process, assign, locals, history
<1>1. CreateDiscover(s) => WorldOK'
  BY DEF CreateDiscover, SetServerInput, StartAssign
<1>2. CreateExists(s) => WorldOK'
  BY DEF CreateExists
<1>3. CreatePreflight(s) => WorldOK'
  BY DEF CreatePreflight, Available
<1>4. CreateAllocate(s) => WorldOK'
  BY AllocateType DEF CreateAllocate, SetId, WorldOK, HeldOK, LocalOK, ServerInv, CallInv,
     Unprofiled
<1>5. CreateBoot(s) => WorldOK'
  BY DEF CreateBoot
<1>6. CreateProfile(s) => WorldOK'
  BY AddressType DEF CreateProfile, HeldOK, ServerInv, CallInv, Unprofiled
<1>7. CreateConfigure(s) => WorldOK'
  BY DEF CreateConfigure, StartAssign
<1>8. CreateSeed(s) => WorldOK'
  BY DEF CreateSeed
<1>9. CreateUndo(s) => WorldOK'
  BY ZenonT(60) DEF CreateUndo, StorageDeleted, StorageDeleteFailed
<1>10. UndoProfile(s) => WorldOK'
  BY DEF UndoProfile, ProfileGone
<1>11. UndoRecords(s) => WorldOK'
  <2>1. ASSUME UndoRecords(s)
        PROVE  \/ record' = record
               \/ /\ next[s] \in Interface
                  /\ record' \in { [record EXCEPT ![s][next[s]] = NoAddress],
                                   [record EXCEPT ![s] = [record[s] EXCEPT ![next[s]] = NoAddress]] }
    BY <2>1, Zenon DEF UndoRecords
  <2>2. UndoRecords(s) => UNCHANGED <<ucs, storage>>
    BY DEF UndoRecords
  <2>3. record \in [Server -> [Interface -> Address]]
    OBVIOUS
  <2>4. next[s] \in Interface =>
           /\ [record EXCEPT ![s][next[s]] = NoAddress] \in [Server -> [Interface -> Address]]
           /\ [record EXCEPT ![s] = [record[s] EXCEPT ![next[s]] = NoAddress]]
                 \in [Server -> [Interface -> Address]]
    BY <2>3, AddressType, RecordType
  <2>5. UndoRecords(s) => record' \in [Server -> [Interface -> Address]]
    BY <2>1, <2>3, <2>4
  <2>. QED
    BY <2>2, <2>5
<1>12. CreateId(s) => WorldOK'
  BY DEF CreateId, SetId
<1>13. CreateStart(s) => WorldOK'
  BY DEF CreateStart, Created
<1>14. CreateStage(s) => WorldOK'
  BY DEF CreateStage
<1>15. CreateHalt(s) => WorldOK'
  BY DEF CreateHalt
<1>16. CreateRemap(s) => WorldOK'
  BY DEF CreateRemap
<1>17. CreateRestart(s) => WorldOK'
  BY DEF CreateRestart
<1>18. CreateRest(s) => WorldOK'
  BY DEF CreateRest, Created
<1>. QED
  BY <1>1, <1>2, <1>3, <1>4, <1>5, <1>6, <1>7, <1>8, <1>9, <1>10, <1>11, <1>12, <1>13,
     <1>14, <1>15, <1>16, <1>17, <1>18 DEF Create

LEMMA CreateHeldType ==
    ASSUME TypeOK, NEW s \in Server, ServerInv(s), Create(s)
    PROVE  HeldOK'
<1>. USE TypeParts DEF HeldOK, Goto, Continue, GoOnFailed, ReturnError, CreateError,
     DeleteError, ReadError, Attempted, world, ucs, state, process, assign, locals, history
<1>1. CreateDiscover(s) => HeldOK'
  BY InputType DEF CreateDiscover, StartAssign, ServerInv, CallInv, PlanOK
<1>2. CreateExists(s) => HeldOK'
  BY DEF CreateExists
<1>3. CreatePreflight(s) => HeldOK'
  BY DEF CreatePreflight, Available
<1>4. CreateAllocate(s) => HeldOK'
  <2>1. CASE next[s] \in Interface /\ AllocateIp(s)
    <3>1. CreateAllocate(s) => cache[s] \in Configs /\ cache' = cache
      BY DEF CreateAllocate, ServerInv, CallInv, Unprofiled
    <3>2. CreateAllocate(s) =>
             /\ ip' \in [Server -> [Interface -> Address]]
             /\ conf' = conf /\ tainted' \in {tainted, tainted \cup {s}}
      BY <2>1, <3>1, AllocateType
    <3>. QED
      BY <3>1, <3>2
  <2>2. CASE ~(next[s] \in Interface /\ AllocateIp(s))
    <3>1. CreateAllocate(s) => UNCHANGED <<ip, tainted, cache>> /\ conf' \in {conf, [conf EXCEPT ![s] = want[s]]}
      BY <2>2 DEF CreateAllocate, SetId
    <3>. QED
      BY <3>1 DEF PlanOK
  <2>. QED
    BY <2>1, <2>2
<1>5. CreateBoot(s) => HeldOK'
  BY DEF CreateBoot
<1>6. CreateProfile(s) => HeldOK'
  BY DEF CreateProfile
<1>7. CreateConfigure(s) => HeldOK'
  BY DEF CreateConfigure, StartAssign
<1>8. CreateSeed(s) => HeldOK'
  BY DEF CreateSeed
<1>9. CreateUndo(s) => HeldOK'
  BY DEF CreateUndo, StorageDeleted, StorageDeleteFailed
<1>10. UndoProfile(s) => HeldOK'
  BY DEF UndoProfile, ProfileGone
<1>11. UndoRecords(s) => HeldOK'
  BY DEF UndoRecords
<1>12. CreateId(s) => HeldOK'
  BY DEF CreateId, SetId, PlanOK
<1>13. CreateStart(s) => HeldOK'
  BY DEF CreateStart, Created
<1>14. CreateStage(s) => HeldOK'
  BY DEF CreateStage
<1>15. CreateHalt(s) => HeldOK'
  BY DEF CreateHalt
<1>16. CreateRemap(s) => HeldOK'
  BY DEF CreateRemap
<1>17. CreateRestart(s) => HeldOK'
  BY DEF CreateRestart
<1>18. CreateRest(s) => HeldOK'
  BY DEF CreateRest, Created
<1>. QED
  BY <1>1, <1>2, <1>3, <1>4, <1>5, <1>6, <1>7, <1>8, <1>9, <1>10, <1>11, <1>12, <1>13,
     <1>14, <1>15, <1>16, <1>17, <1>18 DEF Create

LEMMA CreateControlType ==
    ASSUME TypeOK, NEW s \in Server, ServerInv(s), Create(s)
    PROVE  ControlOK'
<1>. USE TypeParts DEF ControlOK, Label, Goto, Continue, GoOnFailed, ReturnError,
     CreateError, DeleteError, ReadError, Attempted, world, ucs, state, process, assign,
     locals, history
<1>1. CreateDiscover(s) => ControlOK'
  BY DEF CreateDiscover, SetServerInput, StartAssign
<1>2. CreateExists(s) => ControlOK'
  BY DEF CreateExists
<1>3. CreatePreflight(s) => ControlOK'
  BY DEF CreatePreflight, Available
<1>4. CreateAllocate(s) => ControlOK'
  BY ZenonT(60) DEF CreateAllocate, AllocateIp, SetId
<1>5. CreateBoot(s) => ControlOK'
  BY DEF CreateBoot
<1>6. CreateProfile(s) => ControlOK'
  BY DEF CreateProfile
<1>7. CreateConfigure(s) => ControlOK'
  BY DEF CreateConfigure, StartAssign
<1>8. CreateSeed(s) => ControlOK'
  BY DEF CreateSeed
<1>9. CreateUndo(s) => ControlOK'
  BY DEF CreateUndo, StorageDeleted, StorageDeleteFailed
<1>10. UndoProfile(s) => ControlOK'
  BY DEF UndoProfile, ProfileGone
<1>11. UndoRecords(s) => ControlOK'
  BY DEF UndoRecords
<1>12. CreateId(s) => ControlOK'
  BY DEF CreateId, SetId
<1>13. CreateStart(s) => ControlOK'
  BY ZenonT(60) DEF CreateStart, Created
<1>14. CreateStage(s) => ControlOK'
  BY DEF CreateStage
<1>15. CreateHalt(s) => ControlOK'
  BY DEF CreateHalt
<1>16. CreateRemap(s) => ControlOK'
  BY DEF CreateRemap
<1>17. CreateRestart(s) => ControlOK'
  BY DEF CreateRestart
<1>18. CreateRest(s) => ControlOK'
  BY DEF CreateRest, Created
<1>. QED
  BY <1>1, <1>2, <1>3, <1>4, <1>5, <1>6, <1>7, <1>8, <1>9, <1>10, <1>11, <1>12, <1>13,
     <1>14, <1>15, <1>16, <1>17, <1>18 DEF Create

LEMMA CreateLocalType ==
    ASSUME TypeOK, NEW s \in Server, ServerInv(s), Create(s)
    PROVE  LocalOK'
<1>. USE TypeParts DEF LocalOK, Goto, Continue, GoOnFailed, ReturnError, CreateError,
     DeleteError, ReadError, Attempted, world, ucs, state, process, assign, locals, history
<1>1. CreateDiscover(s) => LocalOK'
  BY DEF CreateDiscover, SetServerInput, StartAssign
<1>2. CreateExists(s) => LocalOK'
  BY DEF CreateExists
<1>3. CreatePreflight(s) => LocalOK'
  BY NextType DEF CreatePreflight, Available
<1>4. CreateAllocate(s) => LocalOK'
  BY AllocateType DEF CreateAllocate, SetId, WorldOK, HeldOK, LocalOK, PlanOK, ServerInv,
     CallInv, Unprofiled
<1>5. CreateBoot(s) => LocalOK'
  BY DEF CreateBoot
<1>6. CreateProfile(s) => LocalOK'
  BY DEF CreateProfile
<1>7. CreateConfigure(s) => LocalOK'
  BY DEF CreateConfigure, StartAssign
<1>8. CreateSeed(s) => LocalOK'
  BY DEF CreateSeed
<1>9. CreateUndo(s) => LocalOK'
  BY DEF CreateUndo, StorageDeleted, StorageDeleteFailed
<1>10. UndoProfile(s) => LocalOK'
  BY NextType DEF UndoProfile, ProfileGone
<1>11. UndoRecords(s) => LocalOK'
  BY NextType DEF UndoRecords
<1>12. CreateId(s) => LocalOK'
  BY DEF CreateId, SetId
<1>13. CreateStart(s) => LocalOK'
  BY DEF CreateStart, Created
<1>14. CreateStage(s) => LocalOK'
  BY DEF CreateStage
<1>15. CreateHalt(s) => LocalOK'
  BY DEF CreateHalt
<1>16. CreateRemap(s) => LocalOK'
  BY DEF CreateRemap
<1>17. CreateRestart(s) => LocalOK'
  BY DEF CreateRestart
<1>18. CreateRest(s) => LocalOK'
  BY DEF CreateRest, Created
<1>. QED
  BY <1>1, <1>2, <1>3, <1>4, <1>5, <1>6, <1>7, <1>8, <1>9, <1>10, <1>11, <1>12, <1>13,
     <1>14, <1>15, <1>16, <1>17, <1>18 DEF Create

LEMMA DeleteWorldType ==
    ASSUME TypeOK, NEW s \in Server, ServerInv(s), Delete(s)
    PROVE  WorldOK'
<1>. USE TypeParts DEF WorldOK, Goto, Continue, GoOnFailed, ReturnError, CreateError,
     DeleteError, ReadError, Attempted, world, ucs, state, process, assign, locals, history
<1>1. DeleteCheck(s) => WorldOK'
  BY DEF DeleteCheck, SetServerInput, Spared
<1>2. DeleteNode(s) => WorldOK'
  BY DEF DeleteNode, AfterStop
<1>3. DeleteStop(s) => WorldOK'
  BY DEF DeleteStop, AfterStop
<1>4. DeleteForce(s) => WorldOK'
  BY DEF DeleteForce, Succeed, Collect
<1>5. DeleteProfile(s) => WorldOK'
  BY DEF DeleteProfile, ProfileGone, Succeed, Collect
<1>6. DeleteStorage(s) => WorldOK'
  BY DEF DeleteStorage, StorageDeleted, StorageDeleteFailed, Succeed, Collect
<1>7. DeleteRecords(s) => WorldOK'
  BY ReleaseType DEF DeleteRecords, Deleted, WorldOK, HeldOK, LocalOK
<1>. QED
  BY <1>1, <1>2, <1>3, <1>4, <1>5, <1>6, <1>7 DEF Delete

LEMMA DeleteHeldType ==
    ASSUME TypeOK, NEW s \in Server, ServerInv(s), Delete(s)
    PROVE  HeldOK'
<1>. USE TypeParts DEF HeldOK, Goto, Continue, GoOnFailed, ReturnError, CreateError,
     DeleteError, ReadError, Attempted, world, ucs, state, process, assign, locals, history
<1>1. DeleteCheck(s) => HeldOK'
  BY InputType DEF DeleteCheck, Spared, ServerInv, PlaceInv, InState, Deleting
<1>2. DeleteNode(s) => HeldOK'
  BY DEF DeleteNode, AfterStop
<1>3. DeleteStop(s) => HeldOK'
  BY DEF DeleteStop, AfterStop
<1>4. DeleteForce(s) => HeldOK'
  BY DEF DeleteForce, Succeed, Collect
<1>5. DeleteProfile(s) => HeldOK'
  BY DEF DeleteProfile, ProfileGone, Succeed, Collect
<1>6. DeleteStorage(s) => HeldOK'
  BY DEF DeleteStorage, StorageDeleted, StorageDeleteFailed, Succeed, Collect
<1>7. DeleteRecords(s) => HeldOK'
  BY ReleaseType DEF DeleteRecords, Deleted, WorldOK, HeldOK, LocalOK
<1>. QED
  BY <1>1, <1>2, <1>3, <1>4, <1>5, <1>6, <1>7 DEF Delete

LEMMA DeleteControlType ==
    ASSUME TypeOK, NEW s \in Server, ServerInv(s), Delete(s)
    PROVE  ControlOK'
<1>. USE TypeParts DEF ControlOK, Label, Goto, Continue, GoOnFailed, ReturnError,
     CreateError, DeleteError, ReadError, Attempted, world, ucs, state, process, assign,
     locals, history
<1>1. DeleteCheck(s) => ControlOK'
  BY DEF DeleteCheck, SetServerInput, Spared
<1>2. DeleteNode(s) => ControlOK'
  BY DEF DeleteNode, AfterStop
<1>3. DeleteStop(s) => ControlOK'
  BY DEF DeleteStop, AfterStop
<1>4. DeleteForce(s) => ControlOK'
  BY DEF DeleteForce, Succeed, Collect
<1>5. DeleteProfile(s) => ControlOK'
  BY DEF DeleteProfile, ProfileGone, Succeed, Collect
<1>6. DeleteStorage(s) => ControlOK'
  BY DEF DeleteStorage, StorageDeleted, StorageDeleteFailed, Succeed, Collect
<1>7. DeleteRecords(s) => ControlOK'
  BY ZenonT(60) DEF DeleteRecords, ReleaseIp, Deleted
<1>. QED
  BY <1>1, <1>2, <1>3, <1>4, <1>5, <1>6, <1>7 DEF Delete

LEMMA DeleteLocalType ==
    ASSUME TypeOK, NEW s \in Server, ServerInv(s), Delete(s)
    PROVE  LocalOK'
<1>. USE TypeParts DEF LocalOK, Goto, Continue, GoOnFailed, ReturnError, CreateError,
     DeleteError, ReadError, Attempted, world, ucs, state, process, assign, locals, history
<1>1. DeleteCheck(s) => LocalOK'
  BY DEF DeleteCheck, SetServerInput, Spared
<1>2. DeleteNode(s) => LocalOK'
  BY DEF DeleteNode, AfterStop
<1>3. DeleteStop(s) => LocalOK'
  BY DEF DeleteStop, AfterStop
<1>4. DeleteForce(s) => LocalOK'
  BY DEF DeleteForce, Succeed, Collect
<1>5. DeleteProfile(s) => LocalOK'
  BY DEF DeleteProfile, ProfileGone, Succeed, Collect
<1>6. DeleteStorage(s) => LocalOK'
  BY NextType DEF DeleteStorage, StorageDeleted, StorageDeleteFailed, Succeed, Collect
<1>7. DeleteRecords(s) => LocalOK'
  BY ReleaseType DEF DeleteRecords, Deleted, WorldOK, HeldOK, LocalOK
<1>. QED
  BY <1>1, <1>2, <1>3, <1>4, <1>5, <1>6, <1>7 DEF Delete

-----------------------------------------------------------------------------
(* What a handler does to its own server.                                  *)

LEMMA TriesStep ==
    \A t \in 0 .. Tries : t < Tries /\ t + 1 # Tries => t + 1 < Tries
BY TriesAssumption

LEMMA NoneBefore == \A i \in Interface : ~(i < 1)
BY InterfacesAssumption DEF Interface

LEMMA AllBefore ==
    \A k \in 1 .. Interfaces + 1 : k \notin Interface => \A i \in Interface : i < k
BY InterfacesAssumption DEF Interface

LEMMA OneMoreBefore ==
    \A i, k \in Interface : i < k + 1 => i < k \/ i = k
BY InterfacesAssumption DEF Interface

LEMMA AssignBladeCallKept ==
    ASSUME TypeOK, NEW s \in Server, ServerInv(s), UNCHANGED <<kind, want>>, AssignBlade(s)
    PROVE  CallInv(s)'
<1>. USE TypeParts DEF ServerInv, WorldOK, PlanOK, HeldOK, ControlOK, LocalOK, CallInv,
     Assigning, Reading, Deleting, Unprofiled, Undoing, Finishing, ForCreate, InState, Goto,
     Continue, GoOnFailed, ReturnError, CreateError, DeleteError, ReadError, Attempted,
     world, ucs, state, process, assign, locals, history
<1>1. Pick(s) => CallInv(s)'
  BY DEF Pick, Available
<1>2. Bind(s) => CallInv(s)'
  <2>1. Bind(s) /\ Bound(s) => CallInv(s)'
    <3>1. Bind(s) /\ Bound(s) =>
             /\ pc'[s] = back[s] /\ back'[s] = "idle" /\ tries'[s] = 0 /\ cache' = cache
             /\ back[s] \in {"read_storage", "create_exists", "create_seed", "create_id"}
      BY DEF Bind, Bound, EndAssign
    <3>. QED
      BY <3>1
  <2>2. Bind(s) /\ BindRefused(s) => CallInv(s)'
    BY TriesAssumption DEF Bind, BindRefused, AfterTry
  <2>3. Bind(s) /\ BindFailed(s) => CallInv(s)'
    <3>1. Bind(s) /\ BindFailed(s) =>
             /\ pc[s] = "bind" /\ back' = back /\ cache' = cache
             /\ \/ pc'[s] = "assign_failed"
                \/ pc'[s] = "pick" /\ tries'[s] = tries[s] + 1 /\ tries[s] + 1 # Tries
      BY DEF Bind, BindFailed, AfterTry
    <3>2. tries[s] < Tries /\ tries[s] + 1 # Tries => tries[s] + 1 < Tries
      BY TriesStep
    <3>. QED
      BY <3>1, <3>2
  <2>. QED
    BY <2>1, <2>2, <2>3 DEF Bind
<1>3. AssignFailed(s) => CallInv(s)'
  BY DEF AssignFailed, EndAssign
<1>. QED
  BY <1>1, <1>2, <1>3 DEF AssignBlade

LEMMA AssignBladePlaceKept ==
    ASSUME TypeOK, NEW s \in Server, ServerInv(s), UNCHANGED <<kind, want>>, AssignBlade(s)
    PROVE  PlaceInv(s)'
<1>. USE TypeParts DEF ServerInv, WorldOK, PlanOK, HeldOK, ControlOK, LocalOK, PlaceInv,
     CallInv, Assigning, Reading, Deleting, Unprofiled, Undoing, Finishing, ForCreate,
     InState, Goto, Continue, GoOnFailed, ReturnError, CreateError, DeleteError, ReadError,
     Attempted, world, ucs, state, process, assign, locals, history
<1>1. Pick(s) => PlaceInv(s)'
  BY DEF Pick, Available
<1>2. Bind(s) => PlaceInv(s)'
  BY DEF Bind, Bound, BindRefused, BindFailed, Available, AfterTry, EndAssign
<1>3. AssignFailed(s) => PlaceInv(s)'
  BY DEF AssignFailed, EndAssign
<1>. QED
  BY <1>1, <1>2, <1>3 DEF AssignBlade

LEMMA AssignBladeOffKept ==
    ASSUME TypeOK, NEW s \in Server, ServerInv(s), UNCHANGED <<kind, want>>, AssignBlade(s)
    PROVE  OffInv(s)'
<1>. USE TypeParts DEF ServerInv, WorldOK, PlanOK, HeldOK, ControlOK, LocalOK, OffInv,
     CallInv, Assigning, Reading, Deleting, Unprofiled, Undoing, Finishing, ForCreate,
     InState, Goto, Continue, GoOnFailed, ReturnError, CreateError, DeleteError, ReadError,
     Attempted, world, ucs, state, process, assign, locals, history
<1>1. Pick(s) => OffInv(s)'
  BY DEF Pick, Available
<1>2. Bind(s) => OffInv(s)'
  <2>1. Bind(s) /\ Bound(s) => OffInv(s)'
    BY NoBladeAssumption, ZenonT(60) DEF Bind, Bound, EndAssign, Available
  <2>2. Bind(s) /\ BindRefused(s) => OffInv(s)'
    BY DEF Bind, BindRefused, AfterTry
  <2>3. Bind(s) /\ BindFailed(s) => OffInv(s)'
    BY DEF Bind, BindFailed, AfterTry
  <2>. QED
    BY <2>1, <2>2, <2>3 DEF Bind
<1>3. AssignFailed(s) => OffInv(s)'
  BY DEF AssignFailed, EndAssign
<1>. QED
  BY <1>1, <1>2, <1>3 DEF AssignBlade

LEMMA AssignBladeCreateKept ==
    ASSUME TypeOK, NEW s \in Server, ServerInv(s), UNCHANGED <<kind, want>>, AssignBlade(s)
    PROVE  CreateInv(s)'
<1>. USE TypeParts DEF ServerInv, WorldOK, PlanOK, HeldOK, ControlOK, LocalOK, CreateInv,
     CallInv, Assigning, Reading, Deleting, Unprofiled, Undoing, Finishing, ForCreate,
     InState, Goto, Continue, GoOnFailed, ReturnError, CreateError, DeleteError, ReadError,
     Attempted, world, ucs, state, process, assign, locals, history
<1>1. Pick(s) => CreateInv(s)'
  BY DEF Pick, Available
<1>2. Bind(s) => CreateInv(s)'
  <2>1. Bind(s) /\ Bound(s) => CreateInv(s)'
    <3>1. Bind(s) /\ Bound(s) =>
             /\ pc'[s] = back[s] /\ back'[s] = "idle" /\ blade'[s] # NoBlade
             /\ UNCHANGED <<profile, power, storage, record>>
             /\ back[s] \in {"read_storage", "create_exists", "create_seed", "create_id"}
      BY NoBladeAssumption DEF Bind, Bound, EndAssign, Available
    <3>. QED
      BY <3>1
  <2>2. Bind(s) /\ BindRefused(s) => CreateInv(s)'
    BY DEF Bind, BindRefused, AfterTry
  <2>3. Bind(s) /\ BindFailed(s) => CreateInv(s)'
    BY DEF Bind, BindFailed, AfterTry
  <2>. QED
    BY <2>1, <2>2, <2>3 DEF Bind
<1>3. AssignFailed(s) => CreateInv(s)'
  BY DEF AssignFailed, EndAssign
<1>. QED
  BY <1>1, <1>2, <1>3 DEF AssignBlade

LEMMA AssignBladeDeleteKept ==
    ASSUME TypeOK, NEW s \in Server, ServerInv(s), UNCHANGED <<kind, want>>, AssignBlade(s)
    PROVE  DeleteInv(s)'
<1>. USE TypeParts DEF ServerInv, WorldOK, PlanOK, HeldOK, ControlOK, LocalOK, DeleteInv,
     CallInv, Assigning, Reading, Deleting, Unprofiled, Undoing, Finishing, ForCreate,
     InState, Goto, Continue, GoOnFailed, ReturnError, CreateError, DeleteError, ReadError,
     Attempted, world, ucs, state, process, assign, locals, history
<1>1. Pick(s) => DeleteInv(s)'
  BY DEF Pick, Available
<1>2. Bind(s) => DeleteInv(s)'
  BY DEF Bind, Bound, BindRefused, BindFailed, Available, AfterTry, EndAssign
<1>3. AssignFailed(s) => DeleteInv(s)'
  BY DEF AssignFailed, EndAssign
<1>. QED
  BY <1>1, <1>2, <1>3 DEF AssignBlade

LEMMA AssignBladeRestKept ==
    ASSUME TypeOK, NEW s \in Server, ServerInv(s), UNCHANGED <<kind, want>>, AssignBlade(s)
    PROVE  RestInv(s)'
<1>. USE TypeParts DEF ServerInv, WorldOK, PlanOK, HeldOK, ControlOK, LocalOK, RestInv,
     CallInv, PlaceInv, Whole, Gone, Assigning, Reading, Deleting, Unprofiled, Undoing,
     Finishing, ForCreate, InState, Goto, Continue, GoOnFailed, ReturnError, CreateError,
     DeleteError, ReadError, Attempted, world, ucs, state, process, assign, locals, history
<1>1. Pick(s) => RestInv(s)'
  BY DEF Pick, Available
<1>2. Bind(s) => RestInv(s)'
  BY DEF Bind, Bound, BindRefused, BindFailed, Available, AfterTry, EndAssign
<1>3. AssignFailed(s) => RestInv(s)'
  BY DEF AssignFailed, EndAssign
<1>. QED
  BY <1>1, <1>2, <1>3 DEF AssignBlade

LEMMA ReadCallKept ==
    ASSUME TypeOK, NEW s \in Server, ServerInv(s), UNCHANGED <<kind, want>>, Read(s)
    PROVE  CallInv(s)'
<1>. USE TypeParts DEF ServerInv, WorldOK, PlanOK, HeldOK, ControlOK, LocalOK, CallInv,
     Assigning, Reading, Deleting, Unprofiled, Undoing, Finishing, ForCreate, InState, Goto,
     Continue, GoOnFailed, ReturnError, CreateError, DeleteError, ReadError, Attempted,
     world, ucs, state, process, assign, locals, history
<1>1. ReadServer(s) => CallInv(s)'
  BY TriesAssumption DEF ReadServer, SetServerInput, StartAssign
<1>2. ReadStorage(s) => CallInv(s)'
  BY DEF ReadStorage, MayBeFound, Drop
<1>3. ReadRecords(s) => CallInv(s)'
  BY DEF ReadRecords
<1>. QED
  BY <1>1, <1>2, <1>3 DEF Read

LEMMA ReadPlaceKept ==
    ASSUME TypeOK, NEW s \in Server, ServerInv(s), UNCHANGED <<kind, want>>, Read(s)
    PROVE  PlaceInv(s)'
<1>. USE TypeParts DEF ServerInv, WorldOK, PlanOK, HeldOK, ControlOK, LocalOK, PlaceInv,
     CallInv, Assigning, Reading, Deleting, Unprofiled, Undoing, Finishing, ForCreate,
     InState, Goto, Continue, GoOnFailed, ReturnError, CreateError, DeleteError, ReadError,
     Attempted, world, ucs, state, process, assign, locals, history
<1>1. ReadServer(s) => PlaceInv(s)'
  BY DEF ReadServer, SetServerInput, StartAssign
<1>2. ReadStorage(s) => PlaceInv(s)'
  BY DEF ReadStorage, MayBeFound, Drop
<1>3. ReadRecords(s) => PlaceInv(s)'
  BY DEF ReadRecords
<1>. QED
  BY <1>1, <1>2, <1>3 DEF Read

LEMMA ReadOffKept ==
    ASSUME TypeOK, NEW s \in Server, ServerInv(s), UNCHANGED <<kind, want>>, Read(s)
    PROVE  OffInv(s)'
<1>. USE TypeParts DEF ServerInv, WorldOK, PlanOK, HeldOK, ControlOK, LocalOK, OffInv,
     CallInv, Assigning, Reading, Deleting, Unprofiled, Undoing, Finishing, ForCreate,
     InState, Goto, Continue, GoOnFailed, ReturnError, CreateError, DeleteError, ReadError,
     Attempted, world, ucs, state, process, assign, locals, history
<1>1. ReadServer(s) => OffInv(s)'
  BY DEF ReadServer, SetServerInput, StartAssign
<1>2. ReadStorage(s) => OffInv(s)'
  BY DEF ReadStorage, MayBeFound, Drop
<1>3. ReadRecords(s) => OffInv(s)'
  BY DEF ReadRecords
<1>. QED
  BY <1>1, <1>2, <1>3 DEF Read

LEMMA ReadCreateKept ==
    ASSUME TypeOK, NEW s \in Server, ServerInv(s), UNCHANGED <<kind, want>>, Read(s)
    PROVE  CreateInv(s)'
<1>. USE TypeParts DEF ServerInv, WorldOK, PlanOK, HeldOK, ControlOK, LocalOK, CreateInv,
     CallInv, Assigning, Reading, Deleting, Unprofiled, Undoing, Finishing, ForCreate,
     InState, Goto, Continue, GoOnFailed, ReturnError, CreateError, DeleteError, ReadError,
     Attempted, world, ucs, state, process, assign, locals, history
<1>1. ReadServer(s) => CreateInv(s)'
  BY DEF ReadServer, SetServerInput, StartAssign
<1>2. ReadStorage(s) => CreateInv(s)'
  BY DEF ReadStorage, MayBeFound, Drop
<1>3. ReadRecords(s) => CreateInv(s)'
  BY DEF ReadRecords
<1>. QED
  BY <1>1, <1>2, <1>3 DEF Read

LEMMA ReadDeleteKept ==
    ASSUME TypeOK, NEW s \in Server, ServerInv(s), UNCHANGED <<kind, want>>, Read(s)
    PROVE  DeleteInv(s)'
<1>. USE TypeParts DEF ServerInv, WorldOK, PlanOK, HeldOK, ControlOK, LocalOK, DeleteInv,
     CallInv, Assigning, Reading, Deleting, Unprofiled, Undoing, Finishing, ForCreate,
     InState, Goto, Continue, GoOnFailed, ReturnError, CreateError, DeleteError, ReadError,
     Attempted, world, ucs, state, process, assign, locals, history
<1>1. ReadServer(s) => DeleteInv(s)'
  BY DEF ReadServer, SetServerInput, StartAssign
<1>2. ReadStorage(s) => DeleteInv(s)'
  BY DEF ReadStorage, MayBeFound, Drop
<1>3. ReadRecords(s) => DeleteInv(s)'
  BY DEF ReadRecords
<1>. QED
  BY <1>1, <1>2, <1>3 DEF Read

LEMMA ReadRestKept ==
    ASSUME TypeOK, NEW s \in Server, ServerInv(s), UNCHANGED <<kind, want>>, Read(s)
    PROVE  RestInv(s)'
<1>. USE TypeParts DEF ServerInv, WorldOK, PlanOK, HeldOK, ControlOK, LocalOK, RestInv,
     CallInv, PlaceInv, Whole, Gone, Assigning, Reading, Deleting, Unprofiled, Undoing,
     Finishing, ForCreate, InState, Goto, Continue, GoOnFailed, ReturnError, CreateError,
     DeleteError, ReadError, Attempted, world, ucs, state, process, assign, locals, history
<1>1. ReadServer(s) => RestInv(s)'
  BY DEF ReadServer, SetServerInput, StartAssign
<1>2. ReadStorage(s) => RestInv(s)'
  BY DEF ReadStorage, MayBeFound, Drop
<1>3. ReadRecords(s) => RestInv(s)'
  BY DEF ReadRecords
<1>. QED
  BY <1>1, <1>2, <1>3 DEF Read

LEMMA CreateCallKept ==
    ASSUME TypeOK, NEW s \in Server, ServerInv(s), UNCHANGED <<kind, want>>, Create(s)
    PROVE  CallInv(s)'
<1>. USE TypeParts DEF ServerInv, WorldOK, PlanOK, HeldOK, ControlOK, LocalOK, CallInv,
     Assigning, Reading, Deleting, Unprofiled, Undoing, Finishing, ForCreate, InState, Goto,
     Continue, GoOnFailed, ReturnError, CreateError, DeleteError, ReadError, Attempted,
     world, ucs, state, process, assign, locals, history
<1>1. CreateDiscover(s) => CallInv(s)'
  BY TriesAssumption DEF CreateDiscover, SetServerInput, StartAssign
<1>2. CreateExists(s) => CallInv(s)'
  BY DEF CreateExists
<1>3. CreatePreflight(s) => CallInv(s)'
  BY DEF CreatePreflight, Available
<1>4. CreateAllocate(s) => CallInv(s)'
  BY DEF CreateAllocate, AllocateIp, SetId
<1>5. CreateBoot(s) => CallInv(s)'
  BY DEF CreateBoot
<1>6. CreateProfile(s) => CallInv(s)'
  BY DEF CreateProfile
<1>7. CreateConfigure(s) => CallInv(s)'
  BY TriesAssumption DEF CreateConfigure, StartAssign
<1>8. CreateSeed(s) => CallInv(s)'
  BY DEF CreateSeed
<1>9. CreateUndo(s) => CallInv(s)'
  BY DEF CreateUndo, StorageDeleted, StorageDeleteFailed
<1>10. UndoProfile(s) => CallInv(s)'
  BY DEF UndoProfile, ProfileGone
<1>11. UndoRecords(s) => CallInv(s)'
  BY DEF UndoRecords
<1>12. CreateId(s) => CallInv(s)'
  BY DEF CreateId, SetId
<1>13. CreateStart(s) => CallInv(s)'
  BY DEF CreateStart, Created
<1>14. CreateStage(s) => CallInv(s)'
  BY DEF CreateStage
<1>15. CreateHalt(s) => CallInv(s)'
  BY DEF CreateHalt
<1>16. CreateRemap(s) => CallInv(s)'
  BY DEF CreateRemap
<1>17. CreateRestart(s) => CallInv(s)'
  BY DEF CreateRestart
<1>18. CreateRest(s) => CallInv(s)'
  BY DEF CreateRest, Created
<1>. QED
  BY <1>1, <1>2, <1>3, <1>4, <1>5, <1>6, <1>7, <1>8, <1>9, <1>10, <1>11, <1>12, <1>13,
     <1>14, <1>15, <1>16, <1>17, <1>18 DEF Create

LEMMA CreatePlaceKept ==
    ASSUME TypeOK, NEW s \in Server, ServerInv(s), UNCHANGED <<kind, want>>, Create(s)
    PROVE  PlaceInv(s)'
<1>. USE TypeParts DEF ServerInv, WorldOK, PlanOK, HeldOK, ControlOK, LocalOK, PlaceInv,
     CallInv, Assigning, Reading, Deleting, Unprofiled, Undoing, Finishing, ForCreate,
     InState, Goto, Continue, GoOnFailed, ReturnError, CreateError, DeleteError, ReadError,
     Attempted, world, ucs, state, process, assign, locals, history
<1>1. CreateDiscover(s) => PlaceInv(s)'
  BY DEF CreateDiscover, SetServerInput, StartAssign
<1>2. CreateExists(s) => PlaceInv(s)'
  BY DEF CreateExists
<1>3. CreatePreflight(s) => PlaceInv(s)'
  BY DEF CreatePreflight, Available
<1>4. CreateAllocate(s) => PlaceInv(s)'
  BY DEF CreateAllocate, AllocateIp, SetId
<1>5. CreateBoot(s) => PlaceInv(s)'
  BY DEF CreateBoot
<1>6. CreateProfile(s) => PlaceInv(s)'
  BY DEF CreateProfile
<1>7. CreateConfigure(s) => PlaceInv(s)'
  BY DEF CreateConfigure, StartAssign
<1>8. CreateSeed(s) => PlaceInv(s)'
  BY DEF CreateSeed
<1>9. CreateUndo(s) => PlaceInv(s)'
  BY DEF CreateUndo, StorageDeleted, StorageDeleteFailed
<1>10. UndoProfile(s) => PlaceInv(s)'
  BY DEF UndoProfile, ProfileGone
<1>11. UndoRecords(s) => PlaceInv(s)'
  BY DEF UndoRecords
<1>12. CreateId(s) => PlaceInv(s)'
  BY DEF CreateId, SetId
<1>13. CreateStart(s) => PlaceInv(s)'
  BY DEF CreateStart, Created
<1>14. CreateStage(s) => PlaceInv(s)'
  BY DEF CreateStage
<1>15. CreateHalt(s) => PlaceInv(s)'
  BY DEF CreateHalt
<1>16. CreateRemap(s) => PlaceInv(s)'
  BY DEF CreateRemap
<1>17. CreateRestart(s) => PlaceInv(s)'
  BY DEF CreateRestart
<1>18. CreateRest(s) => PlaceInv(s)'
  BY DEF CreateRest, Created
<1>. QED
  BY <1>1, <1>2, <1>3, <1>4, <1>5, <1>6, <1>7, <1>8, <1>9, <1>10, <1>11, <1>12, <1>13,
     <1>14, <1>15, <1>16, <1>17, <1>18 DEF Create

LEMMA CreateOffKept ==
    ASSUME TypeOK, NEW s \in Server, ServerInv(s), UNCHANGED <<kind, want>>, Create(s)
    PROVE  OffInv(s)'
<1>. USE TypeParts DEF ServerInv, WorldOK, PlanOK, HeldOK, ControlOK, LocalOK, OffInv,
     CallInv, Assigning, Reading, Deleting, Unprofiled, Undoing, Finishing, ForCreate,
     InState, Goto, Continue, GoOnFailed, ReturnError, CreateError, DeleteError, ReadError,
     Attempted, world, ucs, state, process, assign, locals, history
<1>1. CreateDiscover(s) => OffInv(s)'
  BY DEF CreateDiscover, SetServerInput, StartAssign
<1>2. CreateExists(s) => OffInv(s)'
  BY DEF CreateExists
<1>3. CreatePreflight(s) => OffInv(s)'
  BY DEF CreatePreflight, Available
<1>4. CreateAllocate(s) => OffInv(s)'
  BY DEF CreateAllocate, AllocateIp, SetId
<1>5. CreateBoot(s) => OffInv(s)'
  BY DEF CreateBoot
<1>6. CreateProfile(s) => OffInv(s)'
  BY DEF CreateProfile
<1>7. CreateConfigure(s) => OffInv(s)'
  BY DEF CreateConfigure, StartAssign
<1>8. CreateSeed(s) => OffInv(s)'
  BY DEF CreateSeed
<1>9. CreateUndo(s) => OffInv(s)'
  BY DEF CreateUndo, StorageDeleted, StorageDeleteFailed
<1>10. UndoProfile(s) => OffInv(s)'
  BY DEF UndoProfile, ProfileGone
<1>11. UndoRecords(s) => OffInv(s)'
  BY DEF UndoRecords
<1>12. CreateId(s) => OffInv(s)'
  BY DEF CreateId, SetId
<1>13. CreateStart(s) => OffInv(s)'
  BY DEF CreateStart, Created, CreateInv
<1>14. CreateStage(s) => OffInv(s)'
  BY DEF CreateStage
<1>15. CreateHalt(s) => OffInv(s)'
  BY DEF CreateHalt
<1>16. CreateRemap(s) => OffInv(s)'
  BY DEF CreateRemap
<1>17. CreateRestart(s) => OffInv(s)'
  BY DEF CreateRestart, CreateInv
<1>18. CreateRest(s) => OffInv(s)'
  BY DEF CreateRest, Created
<1>. QED
  BY <1>1, <1>2, <1>3, <1>4, <1>5, <1>6, <1>7, <1>8, <1>9, <1>10, <1>11, <1>12, <1>13,
     <1>14, <1>15, <1>16, <1>17, <1>18 DEF Create

LEMMA CreateCreateKept ==
    ASSUME TypeOK, NEW s \in Server, ServerInv(s), UNCHANGED <<kind, want>>, Create(s)
    PROVE  CreateInv(s)'
<1>. USE TypeParts DEF ServerInv, WorldOK, PlanOK, HeldOK, ControlOK, LocalOK, CreateInv,
     CallInv, Assigning, Reading, Deleting, Unprofiled, Undoing, Finishing, ForCreate,
     InState, Goto, Continue, GoOnFailed, ReturnError, CreateError, DeleteError, ReadError,
     Attempted, world, ucs, state, process, assign, locals, history
<1>1. CreateDiscover(s) => CreateInv(s)'
  BY DEF CreateDiscover, SetServerInput, StartAssign
<1>2. CreateExists(s) => CreateInv(s)'
  BY DEF CreateExists
<1>3. CreatePreflight(s) => CreateInv(s)'
  BY NoneBefore DEF CreatePreflight, Available
<1>4. CreateAllocate(s) => CreateInv(s)'
  <2>1. CASE next[s] \in Interface /\ AllocateIp(s)
    <3>1. CreateAllocate(s) =>
             \/ pc'[s] = "idle"
             \/ /\ pc'[s] = "create_allocate"
                /\ next'[s] = next[s] + 1
                /\ record'[s][next[s]] # NoAddress
                /\ \A i \in Interface : i # next[s] => record'[s][i] = record[s][i]
      BY <2>1, ConfigsAssumption DEF CreateAllocate, AllocateIp, CallInv
    <3>2. CreateAllocate(s) /\ pc'[s] = "create_allocate" =>
             \A i \in Interface : i < next'[s] => record'[s][i] # NoAddress
      <4>1. CreateAllocate(s) => \A i \in Interface : i < next[s] => record[s][i] # NoAddress
        BY DEF CreateAllocate
      <4>. SUFFICES ASSUME CreateAllocate(s), pc'[s] = "create_allocate",
                           NEW i \in Interface, i < next'[s]
                    PROVE  record'[s][i] # NoAddress
        OBVIOUS
      <4>2. /\ next'[s] = next[s] + 1
            /\ record'[s][next[s]] # NoAddress
            /\ i # next[s] => record'[s][i] = record[s][i]
        BY <3>1
      <4>3. i < next[s] \/ i = next[s]
        BY <2>1, <4>2, OneMoreBefore
      <4>. QED
        BY <4>1, <4>2, <4>3
    <3>3. CreateAllocate(s) => UNCHANGED <<profile, back>> /\ profile[s] = "none" /\ back[s] = "idle"
      BY DEF CreateAllocate, ucs
    <3>. QED
      BY <3>1, <3>2, <3>3
  <2>2. CASE next[s] \notin Interface
    BY <2>2, AllBefore DEF CreateAllocate, SetId
  <2>. QED
    BY <2>1, <2>2 DEF CreateAllocate
<1>5. CreateBoot(s) => CreateInv(s)'
  BY DEF CreateBoot
<1>6. CreateProfile(s) => CreateInv(s)'
  BY DEF CreateProfile
<1>7. CreateConfigure(s) => CreateInv(s)'
  BY DEF CreateConfigure, StartAssign
<1>8. CreateSeed(s) => CreateInv(s)'
  BY DEF CreateSeed
<1>9. CreateUndo(s) => CreateInv(s)'
  BY DEF CreateUndo, StorageDeleted, StorageDeleteFailed
<1>10. UndoProfile(s) => CreateInv(s)'
  BY DEF UndoProfile, ProfileGone
<1>11. UndoRecords(s) => CreateInv(s)'
  BY DEF UndoRecords
<1>12. CreateId(s) => CreateInv(s)'
  BY DEF CreateId, SetId
<1>13. CreateStart(s) => CreateInv(s)'
  BY DEF CreateStart, Created
<1>14. CreateStage(s) => CreateInv(s)'
  BY DEF CreateStage
<1>15. CreateHalt(s) => CreateInv(s)'
  BY DEF CreateHalt
<1>16. CreateRemap(s) => CreateInv(s)'
  BY DEF CreateRemap
<1>17. CreateRestart(s) => CreateInv(s)'
  BY DEF CreateRestart
<1>18. CreateRest(s) => CreateInv(s)'
  BY DEF CreateRest, Created
<1>. QED
  BY <1>1, <1>2, <1>3, <1>4, <1>5, <1>6, <1>7, <1>8, <1>9, <1>10, <1>11, <1>12, <1>13,
     <1>14, <1>15, <1>16, <1>17, <1>18 DEF Create

LEMMA CreateDeleteKept ==
    ASSUME TypeOK, NEW s \in Server, ServerInv(s), UNCHANGED <<kind, want>>, Create(s)
    PROVE  DeleteInv(s)'
<1>. USE TypeParts DEF ServerInv, WorldOK, PlanOK, HeldOK, ControlOK, LocalOK, DeleteInv,
     CallInv, Assigning, Reading, Deleting, Unprofiled, Undoing, Finishing, ForCreate,
     InState, Goto, Continue, GoOnFailed, ReturnError, CreateError, DeleteError, ReadError,
     Attempted, world, ucs, state, process, assign, locals, history
<1>1. CreateDiscover(s) => DeleteInv(s)'
  BY DEF CreateDiscover, SetServerInput, StartAssign
<1>2. CreateExists(s) => DeleteInv(s)'
  BY DEF CreateExists
<1>3. CreatePreflight(s) => DeleteInv(s)'
  BY DEF CreatePreflight, Available
<1>4. CreateAllocate(s) => DeleteInv(s)'
  BY DEF CreateAllocate, AllocateIp, SetId
<1>5. CreateBoot(s) => DeleteInv(s)'
  BY DEF CreateBoot
<1>6. CreateProfile(s) => DeleteInv(s)'
  BY DEF CreateProfile
<1>7. CreateConfigure(s) => DeleteInv(s)'
  BY DEF CreateConfigure, StartAssign
<1>8. CreateSeed(s) => DeleteInv(s)'
  BY DEF CreateSeed
<1>9. CreateUndo(s) => DeleteInv(s)'
  BY DEF CreateUndo, StorageDeleted, StorageDeleteFailed
<1>10. UndoProfile(s) => DeleteInv(s)'
  BY DEF UndoProfile, ProfileGone
<1>11. UndoRecords(s) => DeleteInv(s)'
  BY DEF UndoRecords
<1>12. CreateId(s) => DeleteInv(s)'
  BY DEF CreateId, SetId
<1>13. CreateStart(s) => DeleteInv(s)'
  BY DEF CreateStart, Created
<1>14. CreateStage(s) => DeleteInv(s)'
  BY DEF CreateStage
<1>15. CreateHalt(s) => DeleteInv(s)'
  BY DEF CreateHalt
<1>16. CreateRemap(s) => DeleteInv(s)'
  BY DEF CreateRemap
<1>17. CreateRestart(s) => DeleteInv(s)'
  BY DEF CreateRestart
<1>18. CreateRest(s) => DeleteInv(s)'
  BY DEF CreateRest, Created
<1>. QED
  BY <1>1, <1>2, <1>3, <1>4, <1>5, <1>6, <1>7, <1>8, <1>9, <1>10, <1>11, <1>12, <1>13,
     <1>14, <1>15, <1>16, <1>17, <1>18 DEF Create

LEMMA CreateRestKept ==
    ASSUME TypeOK, NEW s \in Server, ServerInv(s), UNCHANGED <<kind, want>>, Create(s)
    PROVE  RestInv(s)'
<1>. USE TypeParts DEF ServerInv, WorldOK, PlanOK, HeldOK, ControlOK, LocalOK, RestInv,
     CallInv, PlaceInv, Whole, Gone, Assigning, Reading, Deleting, Unprofiled, Undoing,
     Finishing, ForCreate, InState, Goto, Continue, GoOnFailed, ReturnError, CreateError,
     DeleteError, ReadError, Attempted, world, ucs, state, process, assign, locals, history
<1>1. CreateDiscover(s) => RestInv(s)'
  BY DEF CreateDiscover, SetServerInput, StartAssign
<1>2. CreateExists(s) => RestInv(s)'
  BY DEF CreateExists
<1>3. CreatePreflight(s) => RestInv(s)'
  BY DEF CreatePreflight, Available
<1>4. CreateAllocate(s) => RestInv(s)'
  BY DEF CreateAllocate, AllocateIp, SetId
<1>5. CreateBoot(s) => RestInv(s)'
  BY DEF CreateBoot
<1>6. CreateProfile(s) => RestInv(s)'
  BY DEF CreateProfile
<1>7. CreateConfigure(s) => RestInv(s)'
  BY DEF CreateConfigure, StartAssign
<1>8. CreateSeed(s) => RestInv(s)'
  BY DEF CreateSeed
<1>9. CreateUndo(s) => RestInv(s)'
  BY DEF CreateUndo, StorageDeleted, StorageDeleteFailed
<1>10. UndoProfile(s) => RestInv(s)'
  BY DEF UndoProfile, ProfileGone
<1>11. UndoRecords(s) => RestInv(s)'
  BY DEF UndoRecords
<1>12. CreateId(s) => RestInv(s)'
  BY DEF CreateId, SetId
<1>13. CreateStart(s) => RestInv(s)'
  BY DEF CreateStart, Created, CreateInv, OffInv
<1>14. CreateStage(s) => RestInv(s)'
  BY DEF CreateStage
<1>15. CreateHalt(s) => RestInv(s)'
  BY DEF CreateHalt
<1>16. CreateRemap(s) => RestInv(s)'
  BY DEF CreateRemap
<1>17. CreateRestart(s) => RestInv(s)'
  BY DEF CreateRestart
<1>18. CreateRest(s) => RestInv(s)'
  BY DEF CreateRest, Created, CreateInv, OffInv
<1>. QED
  BY <1>1, <1>2, <1>3, <1>4, <1>5, <1>6, <1>7, <1>8, <1>9, <1>10, <1>11, <1>12, <1>13,
     <1>14, <1>15, <1>16, <1>17, <1>18 DEF Create

LEMMA DeleteCallKept ==
    ASSUME TypeOK, NEW s \in Server, ServerInv(s), UNCHANGED <<kind, want>>, Delete(s)
    PROVE  CallInv(s)'
<1>. USE TypeParts DEF ServerInv, WorldOK, PlanOK, HeldOK, ControlOK, LocalOK, CallInv,
     Assigning, Reading, Deleting, Unprofiled, Undoing, Finishing, ForCreate, InState, Goto,
     Continue, GoOnFailed, ReturnError, CreateError, DeleteError, ReadError, Attempted,
     world, ucs, state, process, assign, locals, history
<1>1. DeleteCheck(s) => CallInv(s)'
  BY DEF DeleteCheck, SetServerInput, Spared
<1>2. DeleteNode(s) => CallInv(s)'
  BY DEF DeleteNode, AfterStop
<1>3. DeleteStop(s) => CallInv(s)'
  BY DEF DeleteStop, AfterStop
<1>4. DeleteForce(s) => CallInv(s)'
  BY DEF DeleteForce, Succeed, Collect
<1>5. DeleteProfile(s) => CallInv(s)'
  BY DEF DeleteProfile, ProfileGone, Succeed, Collect
<1>6. DeleteStorage(s) => CallInv(s)'
  BY DEF DeleteStorage, StorageDeleted, StorageDeleteFailed, Succeed, Collect
<1>7. DeleteRecords(s) => CallInv(s)'
  BY DEF DeleteRecords, ReleaseIp, Deleted
<1>. QED
  BY <1>1, <1>2, <1>3, <1>4, <1>5, <1>6, <1>7 DEF Delete

LEMMA DeletePlaceKept ==
    ASSUME TypeOK, NEW s \in Server, ServerInv(s), UNCHANGED <<kind, want>>, Delete(s)
    PROVE  PlaceInv(s)'
<1>. USE TypeParts DEF ServerInv, WorldOK, PlanOK, HeldOK, ControlOK, LocalOK, PlaceInv,
     CallInv, Assigning, Reading, Deleting, Unprofiled, Undoing, Finishing, ForCreate,
     InState, Goto, Continue, GoOnFailed, ReturnError, CreateError, DeleteError, ReadError,
     Attempted, world, ucs, state, process, assign, locals, history
<1>1. DeleteCheck(s) => PlaceInv(s)'
  BY DEF DeleteCheck, SetServerInput, Spared
<1>2. DeleteNode(s) => PlaceInv(s)'
  BY DEF DeleteNode, AfterStop
<1>3. DeleteStop(s) => PlaceInv(s)'
  BY DEF DeleteStop, AfterStop
<1>4. DeleteForce(s) => PlaceInv(s)'
  BY DEF DeleteForce, Succeed, Collect
<1>5. DeleteProfile(s) => PlaceInv(s)'
  BY DEF DeleteProfile, ProfileGone, Succeed, Collect
<1>6. DeleteStorage(s) => PlaceInv(s)'
  BY DEF DeleteStorage, StorageDeleted, StorageDeleteFailed, Succeed, Collect
<1>7. DeleteRecords(s) => PlaceInv(s)'
  BY DEF DeleteRecords, ReleaseIp, Deleted
<1>. QED
  BY <1>1, <1>2, <1>3, <1>4, <1>5, <1>6, <1>7 DEF Delete

LEMMA DeleteOffKept ==
    ASSUME TypeOK, NEW s \in Server, ServerInv(s), UNCHANGED <<kind, want>>, Delete(s)
    PROVE  OffInv(s)'
<1>. USE TypeParts DEF ServerInv, WorldOK, PlanOK, HeldOK, ControlOK, LocalOK, OffInv,
     CallInv, Assigning, Reading, Deleting, Unprofiled, Undoing, Finishing, ForCreate,
     InState, Goto, Continue, GoOnFailed, ReturnError, CreateError, DeleteError, ReadError,
     Attempted, world, ucs, state, process, assign, locals, history
<1>1. DeleteCheck(s) => OffInv(s)'
  BY DEF DeleteCheck, SetServerInput, Spared
<1>2. DeleteNode(s) => OffInv(s)'
  BY DEF DeleteNode, AfterStop
<1>3. DeleteStop(s) => OffInv(s)'
  BY DEF DeleteStop, AfterStop
<1>4. DeleteForce(s) => OffInv(s)'
  BY DEF DeleteForce, Succeed, Collect
<1>5. DeleteProfile(s) => OffInv(s)'
  BY DEF DeleteProfile, ProfileGone, Succeed, Collect
<1>6. DeleteStorage(s) => OffInv(s)'
  BY DEF DeleteStorage, StorageDeleted, StorageDeleteFailed, Succeed, Collect
<1>7. DeleteRecords(s) => OffInv(s)'
  BY DEF DeleteRecords, ReleaseIp, Deleted
<1>. QED
  BY <1>1, <1>2, <1>3, <1>4, <1>5, <1>6, <1>7 DEF Delete

LEMMA DeleteCreateKept ==
    ASSUME TypeOK, NEW s \in Server, ServerInv(s), UNCHANGED <<kind, want>>, Delete(s)
    PROVE  CreateInv(s)'
<1>. USE TypeParts DEF ServerInv, WorldOK, PlanOK, HeldOK, ControlOK, LocalOK, CreateInv,
     CallInv, Assigning, Reading, Deleting, Unprofiled, Undoing, Finishing, ForCreate,
     InState, Goto, Continue, GoOnFailed, ReturnError, CreateError, DeleteError, ReadError,
     Attempted, world, ucs, state, process, assign, locals, history
<1>1. DeleteCheck(s) => CreateInv(s)'
  BY DEF DeleteCheck, SetServerInput, Spared
<1>2. DeleteNode(s) => CreateInv(s)'
  BY DEF DeleteNode, AfterStop
<1>3. DeleteStop(s) => CreateInv(s)'
  BY DEF DeleteStop, AfterStop
<1>4. DeleteForce(s) => CreateInv(s)'
  BY DEF DeleteForce, Succeed, Collect
<1>5. DeleteProfile(s) => CreateInv(s)'
  BY DEF DeleteProfile, ProfileGone, Succeed, Collect
<1>6. DeleteStorage(s) => CreateInv(s)'
  BY DEF DeleteStorage, StorageDeleted, StorageDeleteFailed, Succeed, Collect
<1>7. DeleteRecords(s) => CreateInv(s)'
  BY DEF DeleteRecords, ReleaseIp, Deleted
<1>. QED
  BY <1>1, <1>2, <1>3, <1>4, <1>5, <1>6, <1>7 DEF Delete

LEMMA DeleteDeleteKept ==
    ASSUME TypeOK, NEW s \in Server, ServerInv(s), UNCHANGED <<kind, want>>, Delete(s)
    PROVE  DeleteInv(s)'
<1>. USE TypeParts DEF ServerInv, WorldOK, PlanOK, HeldOK, ControlOK, LocalOK, DeleteInv,
     CallInv, Assigning, Reading, Deleting, Unprofiled, Undoing, Finishing, ForCreate,
     InState, Goto, Continue, GoOnFailed, ReturnError, CreateError, DeleteError, ReadError,
     Attempted, world, ucs, state, process, assign, locals, history
<1>1. DeleteCheck(s) => DeleteInv(s)'
  BY DEF DeleteCheck, SetServerInput, Spared
<1>2. DeleteNode(s) => DeleteInv(s)'
  BY DEF DeleteNode, AfterStop
<1>3. DeleteStop(s) => DeleteInv(s)'
  BY DEF DeleteStop, AfterStop
<1>4. DeleteForce(s) => DeleteInv(s)'
  BY DEF DeleteForce, Succeed, Collect
<1>5. DeleteProfile(s) => DeleteInv(s)'
  BY DEF DeleteProfile, ProfileGone, Succeed, Collect
<1>6. DeleteStorage(s) => DeleteInv(s)'
  BY NoneBefore DEF DeleteStorage, StorageDeleted, StorageDeleteFailed, Succeed, Collect
<1>7. DeleteRecords(s) => DeleteInv(s)'
  <2>1. CASE next[s] \in Interface /\ ReleaseIp(s)
    <3>1. DeleteRecords(s) =>
             \/ pc'[s] = "idle"
             \/ /\ pc'[s] = "delete_records"
                /\ next'[s] = next[s] + 1
                /\ record'[s][next[s]] = NoAddress
                /\ \A i \in Interface : i # next[s] => record'[s][i] = record[s][i]
      BY <2>1 DEF DeleteRecords, ReleaseIp
    <3>2. DeleteRecords(s) /\ pc'[s] = "delete_records" =>
             \A i \in Interface : i < next'[s] => record'[s][i] = NoAddress
      <4>1. DeleteRecords(s) => \A i \in Interface : i < next[s] => record[s][i] = NoAddress
        BY DEF DeleteRecords
      <4>. QED
        BY <2>1, <3>1, <4>1, OneMoreBefore
    <3>3. DeleteRecords(s) => UNCHANGED <<profile, blade, storage, diag>> /\ pc[s] = "delete_records"
      BY DEF DeleteRecords
    <3>. QED
      BY <3>1, <3>2, <3>3
  <2>2. CASE next[s] \notin Interface
    <3>1. DeleteRecords(s) => pc'[s] \in {"idle", "create_discover"}
      BY <2>2 DEF DeleteRecords, Deleted
    <3>. QED
      BY <3>1
  <2>. QED
    BY <2>1, <2>2 DEF DeleteRecords
<1>. QED
  BY <1>1, <1>2, <1>3, <1>4, <1>5, <1>6, <1>7 DEF Delete

LEMMA DeleteRestKept ==
    ASSUME TypeOK, NEW s \in Server, ServerInv(s), UNCHANGED <<kind, want>>, Delete(s)
    PROVE  RestInv(s)'
<1>. USE TypeParts DEF ServerInv, WorldOK, PlanOK, HeldOK, ControlOK, LocalOK, RestInv,
     CallInv, PlaceInv, Whole, Gone, Assigning, Reading, Deleting, Unprofiled, Undoing,
     Finishing, ForCreate, InState, Goto, Continue, GoOnFailed, ReturnError, CreateError,
     DeleteError, ReadError, Attempted, world, ucs, state, process, assign, locals, history
<1>1. DeleteCheck(s) => RestInv(s)'
  BY DEF DeleteCheck, SetServerInput, Spared
<1>2. DeleteNode(s) => RestInv(s)'
  BY DEF DeleteNode, AfterStop
<1>3. DeleteStop(s) => RestInv(s)'
  BY DEF DeleteStop, AfterStop
<1>4. DeleteForce(s) => RestInv(s)'
  BY DEF DeleteForce, Succeed, Collect
<1>5. DeleteProfile(s) => RestInv(s)'
  BY DEF DeleteProfile, ProfileGone, Succeed, Collect
<1>6. DeleteStorage(s) => RestInv(s)'
  BY DEF DeleteStorage, StorageDeleted, StorageDeleteFailed, Succeed, Collect
<1>7. DeleteRecords(s) => RestInv(s)'
  <2>1. CASE next[s] \in Interface /\ ReleaseIp(s)
    <3>1. DeleteRecords(s) =>
             /\ pc[s] = "delete_records" /\ conf' = conf /\ back' = back
             /\ pc'[s] = "delete_records" \/ (pc'[s] = "idle" /\ reported'[s])
      BY <2>1 DEF DeleteRecords, ReleaseIp
    <3>. QED
      BY <3>1
  <2>2. CASE next[s] \notin Interface
    <3>1. DeleteRecords(s) /\ diag[s] =>
             pc[s] = "delete_records" /\ back' = back /\ pc'[s] = "idle" /\ reported'[s]
      BY <2>2 DEF DeleteRecords
    <3>2. DeleteRecords(s) /\ ~diag[s] =>
             /\ pc[s] = "delete_records" /\ back' = back /\ conf'[s] = Absent
             /\ UNCHANGED <<profile, blade, storage, record>>
      BY <2>2 DEF DeleteRecords, Deleted
    <3>3. DeleteRecords(s) /\ ~diag[s] => Gone(s)'
      BY <2>2, <3>2, AllBefore DEF DeleteInv
    <3>. QED
      BY <3>1, <3>2, <3>3
  <2>. QED
    BY <2>1, <2>2 DEF DeleteRecords
<1>. QED
  BY <1>1, <1>2, <1>3, <1>4, <1>5, <1>6, <1>7 DEF Delete

-----------------------------------------------------------------------------
(* Nobody else disturbs the invariant of a server.                         *)

LEMMA OtherKept ==
    ASSUME NEW m \in Server, ServerInv(m), Same(m), UNCHANGED <<kind, want>>
    PROVE  ServerInv(m)'
<1>. USE DEF Same, Assigning, Reading, Deleting, Unprofiled, Undoing, Finishing, ForCreate,
     InState, Whole, Gone
<1>1. CallInv(m)'
  BY DEF ServerInv, CallInv
<1>2. PlaceInv(m)'
  BY DEF ServerInv, PlaceInv
<1>3. OffInv(m)'
  BY DEF ServerInv, OffInv
<1>4. CreateInv(m)'
  BY DEF ServerInv, CreateInv
<1>5. DeleteInv(m)'
  BY DEF ServerInv, DeleteInv
<1>6. RestInv(m)'
  BY DEF ServerInv, RestInv
<1>. QED
  BY <1>1, <1>2, <1>3, <1>4, <1>5, <1>6 DEF ServerInv

-----------------------------------------------------------------------------
(* The steps of a handler.                                                 *)

LEMMA TypeFromParts ==
    WorldOK' /\ PlanOK' /\ HeldOK' /\ ControlOK' /\ LocalOK' => TypeOK'
BY DEF TypeOK, WorldOK, PlanOK, HeldOK, ControlOK, LocalOK

LEMMA HandlerType ==
    ASSUME TypeOK, NEW s \in Server, ServerInv(s), Handler(s)
    PROVE  TypeOK'
<1>1. PlanOK'
  BY TypeParts DEF Handler, PlanOK
<1>2. CASE AssignBlade(s)
  BY <1>1, <1>2, TypeFromParts, AssignBladeWorldType, AssignBladeHeldType,
     AssignBladeControlType, AssignBladeLocalType
<1>3. CASE Read(s)
  BY <1>1, <1>3, TypeFromParts, ReadWorldType, ReadHeldType, ReadControlType, ReadLocalType
<1>4. CASE Create(s)
  BY <1>1, <1>4, TypeFromParts, CreateWorldType, CreateHeldType, CreateControlType,
     CreateLocalType
<1>5. CASE Delete(s)
  BY <1>1, <1>5, TypeFromParts, DeleteWorldType, DeleteHeldType, DeleteControlType,
     DeleteLocalType
<1>. QED
  BY <1>2, <1>3, <1>4, <1>5 DEF Handler

LEMMA HandlerFrame ==
    ASSUME TypeOK, NEW s \in Server, NEW m \in Server, m # s, Handler(s)
    PROVE  Same(m)
BY AssignBladeFrame, ReadFrame, CreateFrame, DeleteFrame DEF Handler

LEMMA HandlerKept ==
    ASSUME TypeOK, NEW s \in Server, ServerInv(s), Handler(s)
    PROVE  ServerInv(s)'
<1>1. UNCHANGED <<kind, want>>
  BY DEF Handler
<1>2. CASE AssignBlade(s)
  BY <1>1, <1>2, AssignBladeCallKept, AssignBladePlaceKept, AssignBladeOffKept,
     AssignBladeCreateKept, AssignBladeDeleteKept, AssignBladeRestKept DEF ServerInv
<1>3. CASE Read(s)
  BY <1>1, <1>3, ReadCallKept, ReadPlaceKept, ReadOffKept, ReadCreateKept, ReadDeleteKept,
     ReadRestKept DEF ServerInv
<1>4. CASE Create(s)
  BY <1>1, <1>4, CreateCallKept, CreatePlaceKept, CreateOffKept, CreateCreateKept,
     CreateDeleteKept, CreateRestKept DEF ServerInv
<1>5. CASE Delete(s)
  BY <1>1, <1>5, DeleteCallKept, DeletePlaceKept, DeleteOffKept, DeleteCreateKept,
     DeleteDeleteKept, DeleteRestKept DEF ServerInv
<1>. QED
  BY <1>2, <1>3, <1>4, <1>5 DEF Handler

(* A server whose turn has not come has no handler.                        *)
LEMMA HandlerRuns ==
    ASSUME NEW s \in Server, Handler(s)
    PROVE  pc[s] # "idle"
<1>1. AssignBlade(s) => pc[s] # "idle"
  BY DEF AssignBlade, Pick, Bind, AssignFailed
<1>2. Read(s) => pc[s] # "idle"
  BY DEF Read, ReadServer, ReadStorage, ReadRecords
<1>3. Create(s) => pc[s] # "idle"
  BY DEF Create, CreateDiscover, CreateExists, CreatePreflight, CreateAllocate, CreateBoot,
     CreateProfile, CreateConfigure, CreateSeed, CreateUndo, UndoProfile, UndoRecords, CreateId,
     CreateStart, CreateStage, CreateHalt, CreateRemap, CreateRestart, CreateRest
<1>4. Delete(s) => pc[s] # "idle"
  BY DEF Delete, DeleteCheck, DeleteNode, DeleteStop, DeleteForce, DeleteProfile,
     DeleteStorage, DeleteRecords
<1>. QED
  BY <1>1, <1>2, <1>3, <1>4 DEF Handler

LEMMA HandlerLife ==
    ASSUME LifeInv, NEW s \in Server, Handler(s)
    PROVE  LifeInv'
<1>1. TypeOK /\ RunInv /\ \A m \in Server : ServerInv(m)
  BY DEF LifeInv, ServerInv
<1>2. TypeOK'
  BY <1>1, HandlerType
<1>3. ASSUME NEW m \in Server PROVE ServerInv(m)'
  <2>1. CASE m = s
    BY <1>1, <2>1, HandlerKept
  <2>2. CASE m # s
    BY <1>1, <2>2, HandlerFrame, OtherKept DEF Handler
  <2>. QED
    BY <2>1, <2>2
<1>4. RunInv'
  <2>1. run' = run /\ todo' = todo /\ todo \subseteq Server
    BY <1>1 DEF Handler, TypeOK
  <2>2. run # "idle" /\ s \notin todo
    BY <1>1, HandlerRuns DEF RunInv, NoHandler
  <2>3. \A m \in todo : Same(m)
    BY <1>1, <2>1, <2>2, HandlerFrame
  <2>. QED
    BY <1>1, <2>1, <2>2, <2>3 DEF RunInv, Same, InState
<1>. QED
  BY <1>2, <1>3, <1>4 DEF LifeInv, ServerInv

-----------------------------------------------------------------------------
(* The steps of terraform.                                                 *)

(* Between two handlers, neither configuration nor process matters.        *)
LEMMA ProcessKept ==
    ASSUME NEW m \in Server, ServerInv(m), pc[m] = "idle",
           UNCHANGED <<kind, world, state, pc, locals, reported>>
    PROVE  ServerInv(m)'
<1>. USE DEF Assigning, Reading, Deleting, Unprofiled, Undoing, Finishing, ForCreate,
     InState, Whole, Gone, world, ucs, state, locals, assign
<1>1. CallInv(m)'
  BY DEF ServerInv, CallInv
<1>2. PlaceInv(m)'
  BY DEF ServerInv, PlaceInv
<1>3. OffInv(m)'
  BY DEF ServerInv, OffInv
<1>4. CreateInv(m)'
  BY DEF ServerInv, CreateInv
<1>5. DeleteInv(m)'
  BY DEF ServerInv, DeleteInv
<1>6. RestInv(m)'
  BY DEF ServerInv, RestInv
<1>. QED
  BY <1>1, <1>2, <1>3, <1>4, <1>5, <1>6 DEF ServerInv

LEMMA NewProcessType ==
    /\ [m \in Server |-> Absent] \in [Server -> Configs \cup {Absent}]
    /\ [m \in Server |-> NoAddresses] \in [Server -> [Interface -> Address]]
BY AddressType DEF NoAddresses

LEMMA StartRunLife ==
    ASSUME LifeInv, StartRun
    PROVE  LifeInv'
<1>1. TypeOK /\ RunInv /\ (\A m \in Server : ServerInv(m)) /\ NoHandler
  BY DEF LifeInv, ServerInv, RunInv, StartRun
<1>2. TypeOK'
  BY <1>1, NewProcessType DEF StartRun, NewProcess, TypeOK, world, ucs, state, locals, assign
<1>3. \A m \in Server : ServerInv(m)'
  BY <1>1, ProcessKept DEF StartRun, NoHandler
<1>4. RunInv'
  BY <1>1 DEF StartRun, RunInv, NoHandler, InState, state
<1>. QED
  BY <1>2, <1>3, <1>4 DEF LifeInv, ServerInv

LEMMA EndRefreshLife ==
    ASSUME LifeInv, EndRefresh
    PROVE  LifeInv'
<1>1. TypeOK /\ RunInv /\ (\A m \in Server : ServerInv(m)) /\ NoHandler
  BY DEF LifeInv, ServerInv, EndRefresh
<1>2. TypeOK'
  BY <1>1, NewProcessType DEF EndRefresh, NewProcess, TypeOK, world, ucs, state, locals, assign,
     history
<1>3. \A m \in Server : ServerInv(m)'
  BY <1>1, ProcessKept DEF EndRefresh, NoHandler, history
<1>4. RunInv'
  BY <1>1 DEF EndRefresh, RunInv, NoHandler
<1>. QED
  BY <1>2, <1>3, <1>4 DEF LifeInv, ServerInv

LEMMA EndApplyLife ==
    ASSUME LifeInv, EndApply
    PROVE  LifeInv'
<1>1. TypeOK /\ RunInv /\ (\A m \in Server : ServerInv(m)) /\ NoHandler
  BY DEF LifeInv, ServerInv, EndApply
<1>2. TypeOK'
  BY <1>1 DEF EndApply, TypeOK, world, ucs, state, process, locals, assign, history
<1>3. \A m \in Server : ServerInv(m)'
  BY <1>1, ProcessKept DEF EndApply, NoHandler, history
<1>4. RunInv'
  BY <1>1 DEF EndApply, RunInv, NoHandler
<1>. QED
  BY <1>2, <1>3, <1>4 DEF LifeInv, ServerInv

LEMMA StartReadLife ==
    ASSUME LifeInv, NEW s \in Server, StartRead(s)
    PROVE  LifeInv'
<1>1. TypeOK /\ RunInv /\ (\A m \in Server : ServerInv(m))
  BY DEF LifeInv, ServerInv
<1>2. pc[s] = "idle" /\ InState(s)
  BY <1>1 DEF StartRead, RunInv
<1>. USE DEF StartRead, Goto, world, ucs, state, process, locals, assign, history
<1>3. TypeOK'
  BY <1>1 DEF TypeOK, Label
<1>4. ASSUME NEW m \in Server, m # s PROVE ServerInv(m)'
  BY <1>1, <1>4, OtherKept DEF Same, TypeOK
<1>5. ServerInv(s)'
  <2>. pc'[s] = "read_server" /\ ServerInv(s)
    BY <1>1 DEF TypeOK
  <2>. USE DEF Assigning, Reading, Deleting, Unprofiled, Undoing, Finishing, ForCreate,
       InState, Whole, Gone
  <2>1. CallInv(s)'
    BY <1>2 DEF ServerInv, CallInv
  <2>2. PlaceInv(s)'
    BY <1>2 DEF ServerInv, PlaceInv
  <2>3. OffInv(s)'
    BY <1>2 DEF ServerInv, OffInv
  <2>4. CreateInv(s)'
    BY <1>2 DEF ServerInv, CreateInv
  <2>5. DeleteInv(s)'
    BY <1>2 DEF ServerInv, DeleteInv
  <2>6. RestInv(s)'
    BY <1>2 DEF ServerInv, RestInv
  <2>. QED
    BY <2>1, <2>2, <2>3, <2>4, <2>5, <2>6 DEF ServerInv
<1>6. RunInv'
  BY <1>1 DEF RunInv, TypeOK, InState
<1>. QED
  BY <1>3, <1>4, <1>5, <1>6 DEF LifeInv, ServerInv

LEMMA StartCreateKept ==
    ASSUME TypeOK, NEW s \in Server, ServerInv(s), pc[s] = "idle", StartCreate(s),
           UNCHANGED <<kind, world, conf, want, process, locals, reported>>
    PROVE  ServerInv(s)'
<1>. pc'[s] = "create_discover" /\ want[s] # Absent
  BY DEF StartCreate, Goto, TypeOK
<1>. USE DEF Assigning, Reading, Deleting, Unprofiled, Undoing, Finishing, ForCreate,
     InState, Whole, Gone, world, ucs, process, locals, assign
<1>1. CallInv(s)'
  BY DEF ServerInv, CallInv
<1>2. PlaceInv(s)'
  BY DEF ServerInv, PlaceInv, CallInv
<1>3. OffInv(s)'
  BY DEF ServerInv, OffInv
<1>4. CreateInv(s)'
  BY DEF ServerInv, CreateInv
<1>5. DeleteInv(s)'
  BY DEF ServerInv, DeleteInv
<1>6. RestInv(s)'
  BY DEF ServerInv, RestInv
<1>. QED
  BY <1>1, <1>2, <1>3, <1>4, <1>5, <1>6 DEF ServerInv

LEMMA StartDeleteKept ==
    ASSUME TypeOK, NEW s \in Server, ServerInv(s), pc[s] = "idle", StartDelete(s),
           UNCHANGED <<kind, world, conf, want, process, locals, reported>>
    PROVE  ServerInv(s)'
<1>. pc'[s] = "delete_check" /\ InState(s)
  BY DEF StartDelete, Goto, TypeOK
<1>. USE DEF Assigning, Reading, Deleting, Unprofiled, Undoing, Finishing, ForCreate,
     InState, Whole, Gone, world, ucs, process, locals, assign
<1>1. CallInv(s)'
  BY DEF ServerInv, CallInv
<1>2. PlaceInv(s)'
  BY DEF ServerInv, PlaceInv, CallInv
<1>3. OffInv(s)'
  BY DEF ServerInv, OffInv
<1>4. CreateInv(s)'
  BY DEF ServerInv, CreateInv
<1>5. DeleteInv(s)'
  BY DEF ServerInv, DeleteInv
<1>6. RestInv(s)'
  BY DEF ServerInv, RestInv
<1>. QED
  BY <1>1, <1>2, <1>3, <1>4, <1>5, <1>6 DEF ServerInv

(* An update may leave its server off and its storage incomplete, but      *)
(* reports it.                                                             *)
LEMMA UpdateKept ==
    ASSUME TypeOK, NEW s \in Server, ServerInv(s), pc[s] = "idle", Update(s),
           UNCHANGED <<kind, profile, template, blade, record, want, process, pc, locals>>
    PROVE  ServerInv(s)'
<1>1. InState(s)' /\ InState(s)
  BY DEF Update, InState, TypeOK
<1>2. power'[s] = power[s] \/ power'[s] = "down"
  BY DEF Update, Attempted, TypeOK
<1>3. \/ UNCHANGED <<power, storage, reported>>
      \/ reported'[s]
  BY DEF Update, TypeOK, history
<1>. USE DEF Assigning, Reading, Deleting, Unprofiled, Undoing, Finishing, ForCreate,
     Whole, Gone, process, locals, assign
<1>4. CallInv(s)'
  BY DEF ServerInv, CallInv
<1>5. PlaceInv(s)'
  BY <1>1 DEF ServerInv, PlaceInv, CallInv
<1>6. OffInv(s)'
  BY <1>2 DEF ServerInv, OffInv, CallInv
<1>7. CreateInv(s)'
  BY DEF ServerInv, CreateInv, CallInv
<1>8. DeleteInv(s)'
  BY DEF ServerInv, DeleteInv
<1>9. RestInv(s)'
  BY <1>1, <1>3 DEF ServerInv, RestInv, CallInv
<1>. QED
  BY <1>4, <1>5, <1>6, <1>7, <1>8, <1>9 DEF ServerInv

LEMMA UpdateStorage ==
    ASSUME NEW s, Update(s)
    PROVE  storage' = storage \/ \E left \in {"part", "none"} : storage' = [storage EXCEPT ![s] = left]
BY Zenon DEF Update

LEMMA ApplyType ==
    ASSUME TypeOK, NEW s \in Server, Apply(s)
    PROVE  TypeOK'
<1>. USE DEF Apply, process, locals, assign, history, TypeOK
<1>1. CASE StartCreate(s) /\ UNCHANGED <<conf, power, storage, history>>
  BY <1>1 DEF StartCreate, Goto, Label
<1>2. CASE StartDelete(s) /\ UNCHANGED <<conf, power, storage, history>>
  BY <1>2 DEF StartDelete, Goto, Label
<1>3. CASE Update(s) /\ UNCHANGED pc
  <2>1. conf' \in [Server -> Configs \cup {Absent}]
    BY <1>3 DEF Update
  <2>2. power' \in [Server -> {"up", "down"}]
    BY <1>3, ZenonT(60) DEF Update, Attempted
  <2>3. storage' \in [Server -> {"none", "part", "whole"}]
    <3>1. storage' = storage \/ \E left \in {"part", "none"} : storage' = [storage EXCEPT ![s] = left]
      BY <1>3, UpdateStorage
    <3>. QED
      BY <3>1
  <2>4. fault' \in BOOLEAN /\ reported' \in [Server -> BOOLEAN]
    BY <1>3 DEF Update
  <2>. QED
    BY <1>3, <2>1, <2>2, <2>3, <2>4
<1>4. CASE Nothing(s) /\ UNCHANGED <<conf, power, storage, pc, history>>
  BY <1>4
<1>. QED
  BY <1>1, <1>2, <1>3, <1>4

LEMMA ApplyFrame ==
    ASSUME TypeOK, NEW s \in Server, Apply(s), NEW m \in Server, m # s
    PROVE  Same(m)
<1>. USE DEF Apply, process, locals, assign, history, TypeOK, Same
<1>1. CASE StartCreate(s) /\ UNCHANGED <<conf, power, storage, history>>
  BY <1>1 DEF StartCreate, Goto
<1>2. CASE StartDelete(s) /\ UNCHANGED <<conf, power, storage, history>>
  BY <1>2 DEF StartDelete, Goto
<1>3. CASE Update(s) /\ UNCHANGED pc
  BY <1>3 DEF Update, Attempted
<1>4. CASE Nothing(s) /\ UNCHANGED <<conf, power, storage, pc, history>>
  BY <1>4
<1>. QED
  BY <1>1, <1>2, <1>3, <1>4

LEMMA NothingKept ==
    ASSUME NEW s \in Server, ServerInv(s),
           UNCHANGED <<kind, world, state, want, process, pc, locals, reported>>
    PROVE  ServerInv(s)'
BY OtherKept DEF Same, world, ucs, state, process, locals, assign

LEMMA ApplyLife ==
    ASSUME LifeInv, NEW s \in Server, Apply(s)
    PROVE  LifeInv'
<1>1. TypeOK /\ RunInv /\ (\A m \in Server : ServerInv(m))
  BY DEF LifeInv, ServerInv
<1>2. pc[s] = "idle"
  BY <1>1 DEF Apply, RunInv
<1>3. TypeOK'
  BY <1>1, ApplyType
<1>4. ServerInv(s)'
  <2>. USE DEF Apply, world, ucs, state, history
  <2>1. CASE StartCreate(s) /\ UNCHANGED <<conf, power, storage, history>>
    BY <1>1, <1>2, <2>1, StartCreateKept
  <2>2. CASE StartDelete(s) /\ UNCHANGED <<conf, power, storage, history>>
    BY <1>1, <1>2, <2>2, StartDeleteKept
  <2>3. CASE Update(s) /\ UNCHANGED pc
    BY <1>1, <1>2, <2>3, UpdateKept
  <2>4. CASE Nothing(s) /\ UNCHANGED <<conf, power, storage, pc, history>>
    BY <1>1, <2>4, NothingKept
  <2>. QED
    BY <2>1, <2>2, <2>3, <2>4
<1>5. ASSUME NEW m \in Server, m # s PROVE ServerInv(m)'
  BY <1>1, <1>5, ApplyFrame, OtherKept DEF Apply
<1>6. RunInv'
  <2>1. run' = "apply" /\ todo' = todo \ {s}
    BY DEF Apply
  <2>2. \A m \in todo' : pc'[m] = pc[m]
    BY <1>1, <2>1, ApplyFrame DEF Same, TypeOK
  <2>. QED
    BY <1>1, <2>1, <2>2 DEF RunInv
<1>. QED
  BY <1>3, <1>4, <1>5, <1>6 DEF LifeInv, ServerInv

-----------------------------------------------------------------------------
(* The invariant.                                                          *)

LEMMA InitLife == Init => LifeInv
<1>. SUFFICES ASSUME Init PROVE LifeInv
  OBVIOUS
<1>1. TypeOK
  BY TriesType, NextType, NewProcessType DEF Init, TypeOK, Label
<1>2. RunInv
  BY DEF Init, RunInv, NoHandler
<1>3. ASSUME NEW s \in Server PROVE ServerInv(s)
  <2>1. /\ profile[s] = "none" /\ blade[s] = NoBlade /\ power[s] = "down" /\ storage[s] = "none"
        /\ conf[s] = Absent /\ pc[s] = "idle" /\ tries[s] = 0 /\ back[s] = "idle"
    BY DEF Init
  <2>2. \A i \in Interface : record[s][i] = NoAddress
    BY DEF Init, NoAddresses
  <2>. USE DEF Assigning, Reading, Deleting, Unprofiled, Undoing, Finishing, ForCreate,
       InState, Whole, Gone
  <2>3. CallInv(s)
    BY <2>1 DEF CallInv
  <2>4. PlaceInv(s) /\ OffInv(s)
    BY <2>1 DEF PlaceInv, OffInv
  <2>5. CreateInv(s) /\ DeleteInv(s)
    BY <2>1 DEF CreateInv, DeleteInv
  <2>6. RestInv(s)
    BY <2>1, <2>2 DEF RestInv
  <2>. QED
    BY <2>3, <2>4, <2>5, <2>6 DEF ServerInv
<1>. QED
  BY <1>1, <1>2, <1>3 DEF LifeInv, ServerInv

LEMMA StutterLife == LifeInv /\ UNCHANGED vars => LifeInv'
<1>. SUFFICES ASSUME LifeInv, UNCHANGED vars PROVE LifeInv'
  OBVIOUS
<1>1. TypeOK /\ RunInv /\ (\A m \in Server : ServerInv(m))
  BY DEF LifeInv, ServerInv
<1>. USE DEF vars, world, ucs, state, control, process, locals, assign, history
<1>2. TypeOK'
  BY <1>1 DEF TypeOK
<1>3. \A m \in Server : ServerInv(m)'
  BY <1>1, NothingKept
<1>4. RunInv'
  BY <1>1 DEF RunInv, NoHandler, InState
<1>. QED
  BY <1>2, <1>3, <1>4 DEF LifeInv, ServerInv

LEMMA NextLife == LifeInv /\ [Next]_vars => LifeInv'
BY StutterLife, HandlerLife, StartRunLife, StartReadLife, EndRefreshLife, ApplyLife,
   EndApplyLife DEF Next, Proceed

(* All of what the steps rely on holds at any time, of every server.       *)
THEOREM LifeInvariance == Spec => []LifeInv
<1>. QED
  BY InitLife, NextLife, PTL DEF Spec

(* Every variable keeps its type, in every run of terraform.               *)
THEOREM LifecycleTypes == Spec => []TypeOK
<1>1. LifeInv => TypeOK
  BY DEF LifeInv
<1>. QED
  BY <1>1, LifeInvariance, PTL

(* What is in the state, and was never reported, is whole: no create, read *)
(* or delete leaves a part without an error (resourceCreateServer and      *)
(* those of the other two kinds).                                          *)
THEOREM KeptServersAreWhole == Spec => []KeptIsWhole
<1>1. LifeInv => KeptIsWhole
  BY DEF LifeInv, RestInv, KeptIsWhole
<1>. QED
  BY <1>1, LifeInvariance, PTL

(* What left the state, and was never reported, has left nothing behind    *)
(* (resourceDeleteServer and those of the other two kinds).                *)
THEOREM DroppedServersAreGone == Spec => []DroppedIsGone
<1>1. LifeInv => DroppedIsGone
  BY DEF LifeInv, RestInv, DroppedIsGone
<1>. QED
  BY <1>1, LifeInvariance, PTL

-----------------------------------------------------------------------------
(* What the steps may do: the storage, and the profiles nobody knows of.   *)

OffFirst(s) == storage[s] = "whole" /\ storage'[s] # "whole" => power'[s] = "down"

LeftAlone(s) == UNCHANGED <<profile[s], power[s], storage[s], record[s]>>
Unknown(s) == ~InState(s) /\ profile[s] # "none" /\ ~Making(s)

LEMMA AssignBladeOffFirst ==
    ASSUME TypeOK, NEW s \in Server, ServerInv(s), AssignBlade(s)
    PROVE  OffFirst(s)
<1>. USE TypeParts DEF ServerInv, WorldOK, ControlOK, OffFirst, OffInv, Assigning, Reading,
     Deleting, Unprofiled, Undoing, Finishing, ForCreate, InState, Goto, Continue,
     GoOnFailed, ReturnError, CreateError, DeleteError, ReadError, Attempted, world, ucs,
     state, process, assign, locals, history
<1>1. Pick(s) => OffFirst(s)
  BY DEF Pick, Available
<1>2. Bind(s) => OffFirst(s)
  BY DEF Bind, Bound, BindRefused, BindFailed, Available, AfterTry, EndAssign
<1>3. AssignFailed(s) => OffFirst(s)
  BY DEF AssignFailed, EndAssign
<1>. QED
  BY <1>1, <1>2, <1>3 DEF AssignBlade

LEMMA ReadOffFirst ==
    ASSUME TypeOK, NEW s \in Server, ServerInv(s), Read(s)
    PROVE  OffFirst(s)
<1>. USE TypeParts DEF ServerInv, WorldOK, ControlOK, OffFirst, OffInv, Assigning, Reading,
     Deleting, Unprofiled, Undoing, Finishing, ForCreate, InState, Goto, Continue,
     GoOnFailed, ReturnError, CreateError, DeleteError, ReadError, Attempted, world, ucs,
     state, process, assign, locals, history
<1>1. ReadServer(s) => OffFirst(s)
  BY DEF ReadServer, SetServerInput, StartAssign
<1>2. ReadStorage(s) => OffFirst(s)
  BY DEF ReadStorage, MayBeFound, Drop
<1>3. ReadRecords(s) => OffFirst(s)
  BY DEF ReadRecords
<1>. QED
  BY <1>1, <1>2, <1>3 DEF Read

LEMMA CreateOffFirst ==
    ASSUME TypeOK, NEW s \in Server, ServerInv(s), Create(s)
    PROVE  OffFirst(s)
<1>. USE TypeParts DEF ServerInv, WorldOK, ControlOK, OffFirst, OffInv, Assigning, Reading,
     Deleting, Unprofiled, Undoing, Finishing, ForCreate, InState, Goto, Continue,
     GoOnFailed, ReturnError, CreateError, DeleteError, ReadError, Attempted, world, ucs,
     state, process, assign, locals, history
<1>1. CreateDiscover(s) => OffFirst(s)
  BY DEF CreateDiscover, SetServerInput, StartAssign
<1>2. CreateExists(s) => OffFirst(s)
  BY DEF CreateExists
<1>3. CreatePreflight(s) => OffFirst(s)
  BY DEF CreatePreflight, Available
<1>4. CreateAllocate(s) => OffFirst(s)
  BY DEF CreateAllocate, AllocateIp, SetId
<1>5. CreateBoot(s) => OffFirst(s)
  BY DEF CreateBoot
<1>6. CreateProfile(s) => OffFirst(s)
  BY DEF CreateProfile
<1>7. CreateConfigure(s) => OffFirst(s)
  BY DEF CreateConfigure, StartAssign
<1>8. CreateSeed(s) => OffFirst(s)
  BY DEF CreateSeed
<1>9. CreateUndo(s) => OffFirst(s)
  BY DEF CreateUndo, StorageDeleted, StorageDeleteFailed
<1>10. UndoProfile(s) => OffFirst(s)
  BY DEF UndoProfile, ProfileGone
<1>11. UndoRecords(s) => OffFirst(s)
  BY DEF UndoRecords
<1>12. CreateId(s) => OffFirst(s)
  BY DEF CreateId, SetId
<1>13. CreateStart(s) => OffFirst(s)
  BY DEF CreateStart, Created
<1>14. CreateStage(s) => OffFirst(s)
  BY DEF CreateStage
<1>15. CreateHalt(s) => OffFirst(s)
  BY DEF CreateHalt
<1>16. CreateRemap(s) => OffFirst(s)
  BY DEF CreateRemap
<1>17. CreateRestart(s) => OffFirst(s)
  BY DEF CreateRestart
<1>18. CreateRest(s) => OffFirst(s)
  BY DEF CreateRest, Created
<1>. QED
  BY <1>1, <1>2, <1>3, <1>4, <1>5, <1>6, <1>7, <1>8, <1>9, <1>10, <1>11, <1>12, <1>13,
     <1>14, <1>15, <1>16, <1>17, <1>18 DEF Create

LEMMA DeleteOffFirst ==
    ASSUME TypeOK, NEW s \in Server, ServerInv(s), Delete(s)
    PROVE  OffFirst(s)
<1>. USE TypeParts DEF ServerInv, WorldOK, ControlOK, OffFirst, OffInv, Assigning, Reading,
     Deleting, Unprofiled, Undoing, Finishing, ForCreate, InState, Goto, Continue,
     GoOnFailed, ReturnError, CreateError, DeleteError, ReadError, Attempted, world, ucs,
     state, process, assign, locals, history
<1>1. DeleteCheck(s) => OffFirst(s)
  BY DEF DeleteCheck, SetServerInput, Spared
<1>2. DeleteNode(s) => OffFirst(s)
  BY DEF DeleteNode, AfterStop
<1>3. DeleteStop(s) => OffFirst(s)
  BY DEF DeleteStop, AfterStop
<1>4. DeleteForce(s) => OffFirst(s)
  BY DEF DeleteForce, Succeed, Collect
<1>5. DeleteProfile(s) => OffFirst(s)
  BY DEF DeleteProfile, ProfileGone, Succeed, Collect
<1>6. DeleteStorage(s) => OffFirst(s)
  BY DEF DeleteStorage, StorageDeleted, StorageDeleteFailed, Succeed, Collect
<1>7. DeleteRecords(s) => OffFirst(s)
  BY DEF DeleteRecords, ReleaseIp, Deleted
<1>. QED
  BY <1>1, <1>2, <1>3, <1>4, <1>5, <1>6, <1>7 DEF Delete

LEMMA AssignBladeLeavesAlone ==
    ASSUME TypeOK, NEW s \in Server, ServerInv(s), AssignBlade(s)
    PROVE  Unknown(s) => LeftAlone(s)
<1>. USE TypeParts DEF ServerInv, WorldOK, ControlOK, Unknown, LeftAlone, Making, PlaceInv,
     CallInv, CreateInv, Assigning, Reading, Deleting, Unprofiled, Undoing, Finishing,
     ForCreate, InState, Goto, Continue, GoOnFailed, ReturnError, CreateError, DeleteError,
     ReadError, Attempted, world, ucs, state, process, assign, locals, history
<1>1. Pick(s) => (Unknown(s) => LeftAlone(s))
  BY DEF Pick, Available
<1>2. Bind(s) => (Unknown(s) => LeftAlone(s))
  BY DEF Bind, Bound, BindRefused, BindFailed, Available, AfterTry, EndAssign
<1>3. AssignFailed(s) => (Unknown(s) => LeftAlone(s))
  BY DEF AssignFailed, EndAssign
<1>. QED
  BY <1>1, <1>2, <1>3 DEF AssignBlade

LEMMA ReadLeavesAlone ==
    ASSUME TypeOK, NEW s \in Server, ServerInv(s), Read(s)
    PROVE  Unknown(s) => LeftAlone(s)
<1>. USE TypeParts DEF ServerInv, WorldOK, ControlOK, Unknown, LeftAlone, Making, PlaceInv,
     CallInv, CreateInv, Assigning, Reading, Deleting, Unprofiled, Undoing, Finishing,
     ForCreate, InState, Goto, Continue, GoOnFailed, ReturnError, CreateError, DeleteError,
     ReadError, Attempted, world, ucs, state, process, assign, locals, history
<1>1. ReadServer(s) => (Unknown(s) => LeftAlone(s))
  BY DEF ReadServer, SetServerInput, StartAssign
<1>2. ReadStorage(s) => (Unknown(s) => LeftAlone(s))
  BY DEF ReadStorage, MayBeFound, Drop
<1>3. ReadRecords(s) => (Unknown(s) => LeftAlone(s))
  BY DEF ReadRecords
<1>. QED
  BY <1>1, <1>2, <1>3 DEF Read

LEMMA CreateLeavesAlone ==
    ASSUME TypeOK, NEW s \in Server, ServerInv(s), Create(s)
    PROVE  Unknown(s) => LeftAlone(s)
<1>. USE TypeParts DEF ServerInv, WorldOK, ControlOK, Unknown, LeftAlone, Making, PlaceInv,
     CallInv, CreateInv, Assigning, Reading, Deleting, Unprofiled, Undoing, Finishing,
     ForCreate, InState, Goto, Continue, GoOnFailed, ReturnError, CreateError, DeleteError,
     ReadError, Attempted, world, ucs, state, process, assign, locals, history
<1>1. CreateDiscover(s) => (Unknown(s) => LeftAlone(s))
  BY DEF CreateDiscover, SetServerInput, StartAssign
<1>2. CreateExists(s) => (Unknown(s) => LeftAlone(s))
  BY DEF CreateExists
<1>3. CreatePreflight(s) => (Unknown(s) => LeftAlone(s))
  BY DEF CreatePreflight, Available
<1>4. CreateAllocate(s) => (Unknown(s) => LeftAlone(s))
  BY DEF CreateAllocate, AllocateIp, SetId
<1>5. CreateBoot(s) => (Unknown(s) => LeftAlone(s))
  BY DEF CreateBoot
<1>6. CreateProfile(s) => (Unknown(s) => LeftAlone(s))
  BY DEF CreateProfile
<1>7. CreateConfigure(s) => (Unknown(s) => LeftAlone(s))
  BY DEF CreateConfigure, StartAssign
<1>8. CreateSeed(s) => (Unknown(s) => LeftAlone(s))
  BY DEF CreateSeed
<1>9. CreateUndo(s) => (Unknown(s) => LeftAlone(s))
  BY DEF CreateUndo, StorageDeleted, StorageDeleteFailed
<1>10. UndoProfile(s) => (Unknown(s) => LeftAlone(s))
  BY DEF UndoProfile, ProfileGone
<1>11. UndoRecords(s) => (Unknown(s) => LeftAlone(s))
  BY DEF UndoRecords
<1>12. CreateId(s) => (Unknown(s) => LeftAlone(s))
  BY DEF CreateId, SetId
<1>13. CreateStart(s) => (Unknown(s) => LeftAlone(s))
  BY DEF CreateStart, Created
<1>14. CreateStage(s) => (Unknown(s) => LeftAlone(s))
  BY DEF CreateStage
<1>15. CreateHalt(s) => (Unknown(s) => LeftAlone(s))
  BY DEF CreateHalt
<1>16. CreateRemap(s) => (Unknown(s) => LeftAlone(s))
  BY DEF CreateRemap
<1>17. CreateRestart(s) => (Unknown(s) => LeftAlone(s))
  BY DEF CreateRestart
<1>18. CreateRest(s) => (Unknown(s) => LeftAlone(s))
  BY DEF CreateRest, Created
<1>. QED
  BY <1>1, <1>2, <1>3, <1>4, <1>5, <1>6, <1>7, <1>8, <1>9, <1>10, <1>11, <1>12, <1>13,
     <1>14, <1>15, <1>16, <1>17, <1>18 DEF Create

LEMMA DeleteLeavesAlone ==
    ASSUME TypeOK, NEW s \in Server, ServerInv(s), Delete(s)
    PROVE  Unknown(s) => LeftAlone(s)
<1>. USE TypeParts DEF ServerInv, WorldOK, ControlOK, Unknown, LeftAlone, Making, PlaceInv,
     CallInv, CreateInv, Assigning, Reading, Deleting, Unprofiled, Undoing, Finishing,
     ForCreate, InState, Goto, Continue, GoOnFailed, ReturnError, CreateError, DeleteError,
     ReadError, Attempted, world, ucs, state, process, assign, locals, history
<1>1. DeleteCheck(s) => (Unknown(s) => LeftAlone(s))
  BY DEF DeleteCheck, SetServerInput, Spared
<1>2. DeleteNode(s) => (Unknown(s) => LeftAlone(s))
  BY DEF DeleteNode, AfterStop
<1>3. DeleteStop(s) => (Unknown(s) => LeftAlone(s))
  BY DEF DeleteStop, AfterStop
<1>4. DeleteForce(s) => (Unknown(s) => LeftAlone(s))
  BY DEF DeleteForce, Succeed, Collect
<1>5. DeleteProfile(s) => (Unknown(s) => LeftAlone(s))
  BY DEF DeleteProfile, ProfileGone, Succeed, Collect
<1>6. DeleteStorage(s) => (Unknown(s) => LeftAlone(s))
  BY DEF DeleteStorage, StorageDeleted, StorageDeleteFailed, Succeed, Collect
<1>7. DeleteRecords(s) => (Unknown(s) => LeftAlone(s))
  BY DEF DeleteRecords, ReleaseIp, Deleted
<1>. QED
  BY <1>1, <1>2, <1>3, <1>4, <1>5, <1>6, <1>7 DEF Delete

LEMMA NextIsOffFirst ==
    ASSUME LifeInv, [Next]_vars, NEW s \in Server
    PROVE  OffFirst(s)
<1>. USE DEF OffFirst
<1>1. TypeOK /\ \A m \in Server : ServerInv(m)
  BY DEF LifeInv, ServerInv
<1>2. ASSUME NEW m \in Server, Handler(m) PROVE OffFirst(s)
  <2>1. CASE m = s
    BY <1>1, <1>2, <2>1, AssignBladeOffFirst, ReadOffFirst, CreateOffFirst, DeleteOffFirst
    DEF Handler
  <2>2. CASE m # s
    BY <1>1, <1>2, <2>2, HandlerFrame DEF Same
  <2>. QED
    BY <2>1, <2>2
<1>3. ASSUME NEW m \in Server, Apply(m) PROVE OffFirst(s)
  <2>1. CASE m # s
    BY <1>1, <1>3, <2>1, ApplyFrame DEF Same
  <2>2. CASE m = s /\ Update(s)
    BY <1>1, <1>3, <2>2 DEF Apply, Update, Attempted, TypeOK
  <2>. QED
    BY <1>3, <2>1, <2>2 DEF Apply
<1>4. (StartRun \/ (\E m \in Server : StartRead(m)) \/ EndRefresh \/ EndApply \/ UNCHANGED vars)
      => storage' = storage
  BY DEF StartRun, StartRead, EndRefresh, EndApply, vars, world
<1>. QED
  BY <1>2, <1>3, <1>4 DEF Next, Proceed

LEMMA NextLeavesAlone ==
    ASSUME LifeInv, [Next]_vars, NEW s \in Server, Unknown(s)
    PROVE  LeftAlone(s)
<1>. USE DEF LeftAlone
<1>1. TypeOK /\ \A m \in Server : ServerInv(m)
  BY DEF LifeInv, ServerInv
<1>2. ASSUME NEW m \in Server, Handler(m) PROVE LeftAlone(s)
  <2>1. CASE m = s
    BY <1>1, <1>2, <2>1, AssignBladeLeavesAlone, ReadLeavesAlone, CreateLeavesAlone,
       DeleteLeavesAlone DEF Handler
  <2>2. CASE m # s
    BY <1>1, <1>2, <2>2, HandlerFrame DEF Same
  <2>. QED
    BY <2>1, <2>2
<1>3. ASSUME NEW m \in Server, Apply(m) PROVE LeftAlone(s)
  <2>1. CASE m # s
    BY <1>1, <1>3, <2>1, ApplyFrame DEF Same
  <2>2. m = s => ~Update(s)
    BY DEF Update, Unknown
  <2>. QED
    BY <1>3, <2>1, <2>2 DEF Apply
<1>4. (StartRun \/ (\E m \in Server : StartRead(m)) \/ EndRefresh \/ EndApply \/ UNCHANGED vars)
      => UNCHANGED <<profile, power, storage, record>>
  BY DEF StartRun, StartRead, EndRefresh, EndApply, vars, world, ucs
<1>. QED
  BY <1>2, <1>3, <1>4 DEF Next, Proceed

(* No handler takes storage away from a server that is on: not a delete,   *)
(* not the cleanup of a create, not the remap of a Harvester installation. *)
THEOREM ServersAreOffBeforeDelete == Spec => OffBeforeDelete
<1>1. LifeInv /\ [Next]_vars =>
         [\A s \in Server :
            storage[s] = "whole" /\ storage'[s] # "whole" => power'[s] = "down"]_vars
  BY NextIsOffFirst DEF OffFirst
<1>. QED
  BY <1>1, LifeInvariance, PTL DEF Spec, OffBeforeDelete

(* No create touches what was there before it under the same name          *)
(* ("already exists"), except to assign a blade.                           *)
THEOREM UnknownServersAreKept == Spec => UnknownKept
<1>1. LifeInv /\ [Next]_vars =>
         [\A s \in Server :
            ~InState(s) /\ profile[s] # "none" /\ ~Making(s) =>
               UNCHANGED <<profile[s], power[s], storage[s], record[s]>>]_vars
  BY NextLeavesAlone DEF Unknown, LeftAlone
<1>. QED
  BY <1>1, LifeInvariance, PTL DEF Spec, UnknownKept

-----------------------------------------------------------------------------
(* Races for a blade.  What a handler needs in order not to lose one for   *)
(* good, and what it does to the races of the others: as long as nothing   *)
(* fails, it keeps a blade it has come to, a blade it takes makes it an    *)
(* owner, and a race that it loses was lost before.                        *)

CanWin(s) ==
    ~fault =>
        /\ pc[s] = "pick" => Available # {}
        /\ pc[s] = "bind" /\ pick[s] \notin Available => tries[s] + 1 # Tries

Gives(s) ==
    blade[s] # NoBlade /\ pc[s] \notin Releasing =>
        blade'[s] # NoBlade /\ pc'[s] \notin Releasing

Takes(s) ==
    \/ blade'[s] = blade[s]
    \/ blade'[s] = NoBlade
    \/ blade[s] = NoBlade /\ pc'[s] \notin Releasing

Loses(s) ==
    pc'[s] \in {"pick", "bind"} =>
        \/ pc'[s] = "pick" /\ tries'[s] = 0
        \/ /\ pc[s] = "pick" /\ pc'[s] = "bind"
           /\ pick'[s] \in Available /\ tries'[s] = tries[s] /\ blade' = blade
        \/ /\ pc[s] = "bind" /\ pc'[s] = "pick"
           /\ pick[s] \notin Available /\ tries'[s] = tries[s] + 1

Races(s) == ~fault' => ~fault /\ Gives(s) /\ Takes(s) /\ Loses(s)

LEMMA AvailableType == Available \subseteq Blade /\ NoBlade \notin Available
BY NoBladeAssumption DEF Available

(* Who undoes a create has met a failure.                                  *)
LEMMA FailureStays ==
    ASSUME TypeOK, NEW s \in Server, BladeInv(s),
           AssignFailed(s) \/ UndoProfile(s) \/ UndoRecords(s)
    PROVE  fault'
<1>1. fault = TRUE
  <2>1. fault
    BY DEF BladeInv, Undoing, AssignFailed, UndoProfile, UndoRecords
  <2>. QED
    BY <2>1 DEF TypeOK
<1>. USE DEF Goto, Continue, GoOnFailed, CreateError, ReadError, ReturnError, history
<1>2. AssignFailed(s) => fault' = TRUE
  BY <1>1 DEF AssignFailed
<1>3. UndoProfile(s) => fault' = TRUE
  BY <1>1 DEF UndoProfile
<1>4. UndoRecords(s) => fault' = TRUE
  BY <1>1 DEF UndoRecords
<1>. QED
  BY <1>2, <1>3, <1>4

LEMMA BindBladeKept ==
    ASSUME TypeOK, NEW s \in Server, BladeInv(s), CanWin(s), Bind(s)
    PROVE  BladeInv(s)'
<1>1. pc[s] = "bind" /\ profile' = profile /\ profile[s] = "ready"
  BY DEF Bind, BladeInv, Assigning
<1>. USE DEF Goto, Continue, GoOnFailed, history, Assigning, Unprofiled, Undoing
<1>2. CASE Bound(s)
  <2>1. pc'[s] = back[s] /\ back[s] \notin {"pick", "bind", "assign_failed"}
        /\ back[s] \notin Unprofiled \cup {"create_configure"} \cup Undoing
    BY <1>2 DEF Bound, TypeOK
  <2>. QED
    BY <1>1, <2>1 DEF BladeInv
<1>3. CASE BindRefused(s)
  <2>1. pick[s] \notin Available /\ blade' = blade /\ fault' = fault
        /\ pc'[s] = AfterTry(s)
    BY <1>3 DEF BindRefused, TypeOK
  <2>2. ~fault => pc'[s] = "pick"
    BY <1>1, <2>1 DEF CanWin, AfterTry
  <2>3. pc'[s] \in {"pick", "assign_failed"}
    BY <2>1 DEF AfterTry
  <2>. QED
    BY <1>1, <2>1, <2>2, <2>3 DEF BladeInv, TypeOK
<1>4. CASE BindFailed(s)
  <2>1. fault' = TRUE /\ pc'[s] \in {"pick", "assign_failed"}
    BY <1>4 DEF BindFailed, AfterTry, TypeOK
  <2>. QED
    BY <1>1, <2>1 DEF BladeInv
<1>. QED
  BY <1>2, <1>3, <1>4 DEF Bind

LEMMA AssignBladeBladeKept ==
    ASSUME TypeOK, NEW s \in Server, ServerInv(s), BladeInv(s), CanWin(s), AssignBlade(s)
    PROVE  BladeInv(s)'
<1>. USE TypeParts, AvailableType DEF ServerInv, WorldOK, ControlOK, BladeInv, CanWin,
     Assigning, Reading, Deleting, Unprofiled, Undoing, Finishing, ForCreate, InState, Goto,
     Continue, GoOnFailed, ReturnError, CreateError, DeleteError, ReadError, Attempted,
     world, ucs, state, process, assign, locals, history
<1>1. Pick(s) => BladeInv(s)'
  BY DEF Pick, LocalOK
<1>2. Bind(s) => BladeInv(s)'
  BY BindBladeKept
<1>3. AssignFailed(s) => BladeInv(s)'
  BY FailureStays DEF AssignFailed, EndAssign
<1>. QED
  BY <1>1, <1>2, <1>3 DEF AssignBlade

LEMMA ReadBladeKept ==
    ASSUME TypeOK, NEW s \in Server, ServerInv(s), BladeInv(s), CanWin(s), Read(s)
    PROVE  BladeInv(s)'
<1>. USE TypeParts, AvailableType DEF ServerInv, WorldOK, ControlOK, BladeInv, CanWin,
     Assigning, Reading, Deleting, Unprofiled, Undoing, Finishing, ForCreate, InState, Goto,
     Continue, GoOnFailed, ReturnError, CreateError, DeleteError, ReadError, Attempted,
     world, ucs, state, process, assign, locals, history
<1>1. ReadServer(s) => BladeInv(s)'
  BY DEF ReadServer, SetServerInput, StartAssign
<1>2. ReadStorage(s) => BladeInv(s)'
  BY DEF ReadStorage, MayBeFound, Drop
<1>3. ReadRecords(s) => BladeInv(s)'
  BY DEF ReadRecords
<1>. QED
  BY <1>1, <1>2, <1>3 DEF Read

LEMMA CreateBladeKept ==
    ASSUME TypeOK, NEW s \in Server, ServerInv(s), BladeInv(s), CanWin(s), Create(s)
    PROVE  BladeInv(s)'
<1>. USE TypeParts, AvailableType DEF ServerInv, WorldOK, ControlOK, BladeInv, CanWin,
     Assigning, Reading, Deleting, Unprofiled, Undoing, Finishing, ForCreate, InState, Goto,
     Continue, GoOnFailed, ReturnError, CreateError, DeleteError, ReadError, Attempted,
     world, ucs, state, process, assign, locals, history
<1>1. CreateDiscover(s) => BladeInv(s)'
  BY DEF CreateDiscover, SetServerInput, StartAssign
<1>2. CreateExists(s) => BladeInv(s)'
  BY DEF CreateExists
<1>3. CreatePreflight(s) => BladeInv(s)'
  BY DEF CreatePreflight
<1>4. CreateAllocate(s) => BladeInv(s)'
  BY DEF CreateAllocate, AllocateIp, SetId
<1>5. CreateBoot(s) => BladeInv(s)'
  BY DEF CreateBoot
<1>6. CreateProfile(s) => BladeInv(s)'
  BY DEF CreateProfile
<1>7. CreateConfigure(s) => BladeInv(s)'
  BY DEF CreateConfigure, StartAssign
<1>8. CreateSeed(s) => BladeInv(s)'
  BY DEF CreateSeed
<1>9. CreateUndo(s) => BladeInv(s)'
  BY ZenonT(60) DEF CreateUndo, StorageDeleted, StorageDeleteFailed
<1>10. UndoProfile(s) => BladeInv(s)'
  BY FailureStays DEF UndoProfile, ProfileGone
<1>11. UndoRecords(s) => BladeInv(s)'
  BY FailureStays DEF UndoRecords
<1>12. CreateId(s) => BladeInv(s)'
  BY DEF CreateId, SetId
<1>13. CreateStart(s) => BladeInv(s)'
  BY DEF CreateStart, Created
<1>14. CreateStage(s) => BladeInv(s)'
  BY DEF CreateStage
<1>15. CreateHalt(s) => BladeInv(s)'
  BY DEF CreateHalt
<1>16. CreateRemap(s) => BladeInv(s)'
  BY DEF CreateRemap
<1>17. CreateRestart(s) => BladeInv(s)'
  BY DEF CreateRestart
<1>18. CreateRest(s) => BladeInv(s)'
  BY DEF CreateRest, Created
<1>. QED
  BY <1>1, <1>2, <1>3, <1>4, <1>5, <1>6, <1>7, <1>8, <1>9, <1>10, <1>11, <1>12, <1>13,
     <1>14, <1>15, <1>16, <1>17, <1>18 DEF Create

LEMMA DeleteBladeKept ==
    ASSUME TypeOK, NEW s \in Server, ServerInv(s), BladeInv(s), CanWin(s), Delete(s)
    PROVE  BladeInv(s)'
<1>. USE TypeParts, AvailableType DEF ServerInv, WorldOK, ControlOK, BladeInv, CanWin,
     Assigning, Reading, Deleting, Unprofiled, Undoing, Finishing, ForCreate, InState, Goto,
     Continue, GoOnFailed, ReturnError, CreateError, DeleteError, ReadError, Attempted,
     world, ucs, state, process, assign, locals, history
<1>1. DeleteCheck(s) => BladeInv(s)'
  BY DEF DeleteCheck, SetServerInput, Spared
<1>2. DeleteNode(s) => BladeInv(s)'
  BY DEF DeleteNode, AfterStop
<1>3. DeleteStop(s) => BladeInv(s)'
  BY DEF DeleteStop, AfterStop
<1>4. DeleteForce(s) => BladeInv(s)'
  BY DEF DeleteForce, Succeed, Collect
<1>5. DeleteProfile(s) => BladeInv(s)'
  BY DEF DeleteProfile, ProfileGone, Succeed, Collect
<1>6. DeleteStorage(s) => BladeInv(s)'
  BY DEF DeleteStorage, StorageDeleted, StorageDeleteFailed, Succeed, Collect
<1>7. DeleteRecords(s) => BladeInv(s)'
  BY DEF DeleteRecords, ReleaseIp, Deleted
<1>. QED
  BY <1>1, <1>2, <1>3, <1>4, <1>5, <1>6, <1>7 DEF Delete

LEMMA AssignBladeRaces ==
    ASSUME TypeOK, NEW s \in Server, ServerInv(s), BladeInv(s), CanWin(s), AssignBlade(s)
    PROVE  Races(s)
<1>. USE TypeParts, AvailableType DEF ServerInv, WorldOK, ControlOK, Races, Gives, Takes,
     Loses, Releasing, BladeInv, CanWin, CallInv, Assigning, Reading, Deleting, Unprofiled,
     Undoing, Finishing, ForCreate, InState, Goto, Continue, GoOnFailed, ReturnError,
     CreateError, DeleteError, ReadError, Attempted, world, ucs, state, process, assign,
     locals, history
<1>1. Pick(s) => Races(s)
  BY DEF Pick, LocalOK
<1>2. Bind(s) => Races(s)
  BY DEF Bind, Bound, BindRefused, BindFailed, AfterTry, EndAssign, LocalOK
<1>3. AssignFailed(s) => Races(s)
  BY FailureStays DEF AssignFailed, EndAssign
<1>. QED
  BY <1>1, <1>2, <1>3 DEF AssignBlade

LEMMA ReadRaces ==
    ASSUME TypeOK, NEW s \in Server, ServerInv(s), BladeInv(s), CanWin(s), Read(s)
    PROVE  Races(s)
<1>. USE TypeParts, AvailableType DEF ServerInv, WorldOK, ControlOK, Races, Gives, Takes,
     Loses, Releasing, BladeInv, CanWin, CallInv, Assigning, Reading, Deleting, Unprofiled,
     Undoing, Finishing, ForCreate, InState, Goto, Continue, GoOnFailed, ReturnError,
     CreateError, DeleteError, ReadError, Attempted, world, ucs, state, process, assign,
     locals, history
<1>1. ReadServer(s) => Races(s)
  BY DEF ReadServer, SetServerInput, StartAssign
<1>2. ReadStorage(s) => Races(s)
  BY DEF ReadStorage, MayBeFound, Drop
<1>3. ReadRecords(s) => Races(s)
  BY DEF ReadRecords
<1>. QED
  BY <1>1, <1>2, <1>3 DEF Read

LEMMA CreateRaces ==
    ASSUME TypeOK, NEW s \in Server, ServerInv(s), BladeInv(s), CanWin(s), Create(s)
    PROVE  Races(s)
<1>. USE TypeParts, AvailableType DEF ServerInv, WorldOK, ControlOK, Races, Gives, Takes,
     Loses, Releasing, BladeInv, CanWin, CallInv, Assigning, Reading, Deleting, Unprofiled,
     Undoing, Finishing, ForCreate, InState, Goto, Continue, GoOnFailed, ReturnError,
     CreateError, DeleteError, ReadError, Attempted, world, ucs, state, process, assign,
     locals, history
<1>1. CreateDiscover(s) => Races(s)
  BY DEF CreateDiscover, SetServerInput, StartAssign
<1>2. CreateExists(s) => Races(s)
  BY DEF CreateExists
<1>3. CreatePreflight(s) => Races(s)
  BY DEF CreatePreflight
<1>4. CreateAllocate(s) => Races(s)
  BY DEF CreateAllocate, AllocateIp, SetId
<1>5. CreateBoot(s) => Races(s)
  BY DEF CreateBoot
<1>6. CreateProfile(s) => Races(s)
  BY DEF CreateProfile
<1>7. CreateConfigure(s) => Races(s)
  BY DEF CreateConfigure, StartAssign
<1>8. CreateSeed(s) => Races(s)
  BY DEF CreateSeed
<1>9. CreateUndo(s) => Races(s)
  BY DEF CreateUndo, StorageDeleted, StorageDeleteFailed
<1>10. UndoProfile(s) => Races(s)
  BY FailureStays DEF UndoProfile, ProfileGone
<1>11. UndoRecords(s) => Races(s)
  BY FailureStays DEF UndoRecords
<1>12. CreateId(s) => Races(s)
  BY DEF CreateId, SetId
<1>13. CreateStart(s) => Races(s)
  BY DEF CreateStart, Created
<1>14. CreateStage(s) => Races(s)
  BY DEF CreateStage
<1>15. CreateHalt(s) => Races(s)
  BY DEF CreateHalt
<1>16. CreateRemap(s) => Races(s)
  BY DEF CreateRemap
<1>17. CreateRestart(s) => Races(s)
  BY DEF CreateRestart
<1>18. CreateRest(s) => Races(s)
  BY DEF CreateRest, Created
<1>. QED
  BY <1>1, <1>2, <1>3, <1>4, <1>5, <1>6, <1>7, <1>8, <1>9, <1>10, <1>11, <1>12, <1>13,
     <1>14, <1>15, <1>16, <1>17, <1>18 DEF Create

LEMMA DeleteRaces ==
    ASSUME TypeOK, NEW s \in Server, ServerInv(s), BladeInv(s), CanWin(s), Delete(s)
    PROVE  Races(s)
<1>. USE TypeParts, AvailableType DEF ServerInv, WorldOK, ControlOK, Races, Gives, Takes,
     Loses, Releasing, BladeInv, CanWin, CallInv, Assigning, Reading, Deleting, Unprofiled,
     Undoing, Finishing, ForCreate, InState, Goto, Continue, GoOnFailed, ReturnError,
     CreateError, DeleteError, ReadError, Attempted, world, ucs, state, process, assign,
     locals, history
<1>1. DeleteCheck(s) => Races(s)
  BY DEF DeleteCheck, SetServerInput, Spared
<1>2. DeleteNode(s) => Races(s)
  BY DEF DeleteNode, AfterStop
<1>3. DeleteStop(s) => Races(s)
  BY DEF DeleteStop, AfterStop
<1>4. DeleteForce(s) => Races(s)
  BY DEF DeleteForce, Succeed, Collect
<1>5. DeleteProfile(s) => Races(s)
  BY DEF DeleteProfile, ProfileGone, Succeed, Collect
<1>6. DeleteStorage(s) => Races(s)
  BY DEF DeleteStorage, StorageDeleted, StorageDeleteFailed, Succeed, Collect
<1>7. DeleteRecords(s) => Races(s)
  BY DEF DeleteRecords, ReleaseIp, Deleted
<1>. QED
  BY <1>1, <1>2, <1>3, <1>4, <1>5, <1>6, <1>7 DEF Delete

LEMMA HandlerRaces ==
    ASSUME TypeOK, NEW s \in Server, ServerInv(s), BladeInv(s), CanWin(s), Handler(s)
    PROVE  BladeInv(s)' /\ Races(s)
BY AssignBladeBladeKept, ReadBladeKept, CreateBladeKept, DeleteBladeKept, AssignBladeRaces,
   ReadRaces, CreateRaces, DeleteRaces DEF Handler

-----------------------------------------------------------------------------
(* Counting.                                                               *)

RaceOK(s) ==
    /\ BladeInv(s)
    /\ pc[s] \in {"pick", "bind"} => Lost(s) <= Cardinality(Owners \ {s}) \/ fault

LEMMA Grows ==
    ASSUME IsFiniteSet(Server), NEW P \in SUBSET Server, NEW Q \in SUBSET Server, P \subseteq Q
    PROVE  /\ Cardinality(P) \in Nat /\ Cardinality(Q) \in Nat
           /\ Cardinality(P) <= Cardinality(Q)
           /\ \A x \in Q \ P : Cardinality(P) + 1 <= Cardinality(Q)
<1>1. IsFiniteSet(P) /\ IsFiniteSet(Q)
  BY FS_Subset
<1>2. Cardinality(P) \in Nat /\ Cardinality(Q) \in Nat
  BY <1>1, FS_CardinalityType
<1>3. Cardinality(P) <= Cardinality(Q)
  BY <1>1, FS_Subset
<1>4. ASSUME NEW x \in Q \ P PROVE Cardinality(P) + 1 <= Cardinality(Q)
  <2>1. Cardinality(P \cup {x}) = Cardinality(P) + 1
    BY <1>1, FS_AddElement
  <2>2. P \cup {x} \in SUBSET Q
    OBVIOUS
  <2>3. Cardinality(P \cup {x}) <= Cardinality(Q)
    BY <1>1, <2>2, FS_Subset
  <2>. QED
    BY <2>1, <2>3
<1>. QED
  BY <1>2, <1>3, <1>4

LEMMA OthersAreFewer ==
    ASSUME IsFiniteSet(Server), NEW s \in Server
    PROVE  /\ Cardinality(Server) \in Nat /\ IsFiniteSet(Server \ {s})
           /\ Cardinality(Server \ {s}) + 1 <= Cardinality(Server)
<1>1. Server \ {s} \in SUBSET Server /\ Server \in SUBSET Server /\ s \in Server \ (Server \ {s})
  OBVIOUS
<1>. QED
  BY <1>1, Grows, FS_Subset

(* The blades of the others are not all of them.                           *)
LEMMA OneIsLeft ==
    ASSUME IsFiniteSet(Server), IsFiniteSet(Blade), Cardinality(Blade) >= Cardinality(Server),
           NEW s \in Server, blade[s] = NoBlade
    PROVE  Available # {}
<1>. SUFFICES ASSUME Available = {} PROVE FALSE
  OBVIOUS
<1>. DEFINE holder == [b \in Blade |-> CHOOSE t \in Server \ {s} : blade[t] = b]
<1>1. ASSUME NEW b \in Blade PROVE holder[b] \in Server \ {s} /\ blade[holder[b]] = b
  <2>1. PICK t \in Server : blade[t] = b
    BY DEF Available
  <2>2. t # s
    BY <2>1, NoBladeAssumption
  <2>. QED
    BY <2>1, <2>2
<1>2. holder \in [Blade -> Server \ {s}]
  BY <1>1
<1>3. /\ IsFiniteSet(Server \ {s})
      /\ Cardinality(Server \ {s}) < Cardinality(Blade)
  <2>1. /\ Cardinality(Server) \in Nat /\ IsFiniteSet(Server \ {s})
        /\ Cardinality(Server \ {s}) + 1 <= Cardinality(Server)
    BY OthersAreFewer
  <2>2. Cardinality(Server \ {s}) \in Nat /\ Cardinality(Blade) \in Nat
    BY <2>1, FS_CardinalityType
  <2>. QED
    BY <2>1, <2>2
<1>4. \E x, y \in Blade : x # y /\ holder[x] = holder[y]
  <2>. HIDE DEF holder
  <2>. QED
    BY <1>2, <1>3, FS_PigeonHole
<1>. QED
  BY <1>1, <1>4

LEMMA HandlerCanWin ==
    ASSUME IsFiniteSet(Server), IsFiniteSet(Blade), EnoughForAll, TypeOK, NEW s \in Server,
           RaceOK(s)
    PROVE  CanWin(s)
<1>1. ASSUME ~fault, pc[s] = "pick" PROVE Available # {}
  BY <1>1, OneIsLeft DEF EnoughForAll, RaceOK, BladeInv
<1>2. ASSUME ~fault, pc[s] = "bind", pick[s] \notin Available PROVE tries[s] + 1 # Tries
  <2>1. tries[s] + 1 <= Cardinality(Owners \ {s})
    BY <1>2 DEF RaceOK, Lost
  <2>2. Owners \ {s} \in SUBSET Server /\ Server \ {s} \in SUBSET Server
        /\ Owners \ {s} \subseteq Server \ {s}
    BY DEF Owners
  <2>3. /\ Cardinality(Owners \ {s}) \in Nat /\ Cardinality(Server \ {s}) \in Nat
        /\ Cardinality(Owners \ {s}) <= Cardinality(Server \ {s})
    BY <2>2, Grows
  <2>4. Cardinality(Server \ {s}) + 1 <= Cardinality(Server) /\ Cardinality(Server) \in Nat
    BY OthersAreFewer
  <2>5. tries[s] \in Nat /\ Tries \in Nat
    BY TriesAssumption DEF TypeOK
  <2>. QED
    BY <2>1, <2>3, <2>4, <2>5 DEF EnoughForAll
<1>. QED
  BY <1>1, <1>2 DEF CanWin

-----------------------------------------------------------------------------
(* The steps of a handler: it has lost no more races than there are other  *)
(* owners, nor has anybody else.                                           *)

LEMMA HandlerOwners ==
    ASSUME TypeOK, RunInv, NEW s \in Server, Handler(s), Races(s), ~fault'
    PROVE  /\ Owners \in SUBSET Server /\ Owners' \in SUBSET Server /\ Owners \subseteq Owners'
           /\ \A b \in Available : b \notin Available' => s \in Owners' \ Owners
<1>1. todo' = todo /\ s \notin todo
  BY HandlerRuns DEF Handler, RunInv
<1>2. \A m \in Server : m # s => blade'[m] = blade[m] /\ pc'[m] = pc[m]
  BY HandlerFrame DEF Same
<1>3. Gives(s) /\ Takes(s)
  BY DEF Races
<1>4. Owners \subseteq Owners'
  BY <1>1, <1>2, <1>3 DEF Owners, Gives
<1>5. ASSUME NEW b \in Available, b \notin Available' PROVE s \in Owners' \ Owners
  <2>1. b \in Blade /\ b # NoBlade
    BY AvailableType
  <2>2. PICK t \in Server : blade'[t] = b
    BY <1>5, <2>1 DEF Available
  <2>3. blade[t] # b
    BY DEF Available
  <2>4. t = s
    BY <1>2, <2>2, <2>3
  <2>5. blade[s] = NoBlade /\ blade'[s] # NoBlade /\ pc'[s] \notin Releasing
    BY <1>3, <2>1, <2>2, <2>3, <2>4 DEF Takes
  <2>. QED
    BY <1>1, <2>5 DEF Owners
<1>. QED
  BY <1>4, <1>5 DEF Owners

LEMMA OwnRace ==
    ASSUME IsFiniteSet(Server), TypeOK, RunInv, NEW s \in Server, ServerInv(s), RaceOK(s),
           CanWin(s), Handler(s)
    PROVE  RaceOK(s)'
<1>1. BladeInv(s)' /\ Races(s)
  BY HandlerRaces DEF RaceOK
<1>2. ASSUME ~fault', pc'[s] \in {"pick", "bind"} PROVE Lost(s)' <= Cardinality(Owners' \ {s})
  <2>1. Owners \ {s} \in SUBSET Server /\ Owners' \ {s} \in SUBSET Server
        /\ Owners \ {s} \subseteq Owners' \ {s}
    BY <1>1, <1>2, HandlerOwners
  <2>2. /\ Cardinality(Owners \ {s}) \in Nat /\ Cardinality(Owners' \ {s}) \in Nat
        /\ Cardinality(Owners \ {s}) <= Cardinality(Owners' \ {s})
    BY <2>1, Grows
  <2>3. tries[s] \in Nat
    BY DEF TypeOK
  <2>4. ~fault /\ Loses(s)
    BY <1>1, <1>2 DEF Races
  <2>5. CASE pc'[s] = "pick" /\ tries'[s] = 0
    BY <2>2, <2>5 DEF Lost
  <2>6. CASE /\ pc[s] = "pick" /\ pc'[s] = "bind"
             /\ pick'[s] \in Available /\ tries'[s] = tries[s] /\ blade' = blade
    <3>1. Lost(s)' = tries[s] /\ Lost(s) = tries[s]
      BY <2>6 DEF Lost, Available
    <3>. QED
      BY <2>2, <2>3, <2>4, <2>6, <3>1 DEF RaceOK
  <2>7. CASE /\ pc[s] = "bind" /\ pc'[s] = "pick"
             /\ pick[s] \notin Available /\ tries'[s] = tries[s] + 1
    <3>1. Lost(s)' = tries[s] + 1 /\ Lost(s) = tries[s] + 1
      BY <2>7 DEF Lost
    <3>. QED
      BY <2>2, <2>3, <2>4, <2>7, <3>1 DEF RaceOK
  <2>. QED
    BY <1>2, <2>4, <2>5, <2>6, <2>7 DEF Loses
<1>. QED
  BY <1>1, <1>2 DEF RaceOK

LEMMA OtherRace ==
    ASSUME IsFiniteSet(Server), TypeOK, RunInv, NEW s \in Server, Handler(s), Races(s),
           NEW m \in Server, m # s, RaceOK(m)
    PROVE  RaceOK(m)'
<1>1. Same(m) /\ (fault => fault')
  BY HandlerFrame DEF Races
<1>2. BladeInv(m)'
  BY <1>1 DEF RaceOK, BladeInv, Same, TypeOK
<1>3. ASSUME ~fault', pc'[m] \in {"pick", "bind"} PROVE Lost(m)' <= Cardinality(Owners' \ {m})
  <2>1. /\ Owners \ {m} \in SUBSET Server /\ Owners' \ {m} \in SUBSET Server
        /\ Owners \ {m} \subseteq Owners' \ {m}
    BY <1>3, HandlerOwners
  <2>2. /\ Cardinality(Owners \ {m}) \in Nat /\ Cardinality(Owners' \ {m}) \in Nat
        /\ Cardinality(Owners \ {m}) <= Cardinality(Owners' \ {m})
        /\ \A x \in (Owners' \ {m}) \ (Owners \ {m}) :
              Cardinality(Owners \ {m}) + 1 <= Cardinality(Owners' \ {m})
    BY <2>1, Grows
  <2>3. tries[m] \in Nat
    BY DEF TypeOK
  <2>4. pc'[m] = pc[m] /\ pick'[m] = pick[m] /\ tries'[m] = tries[m]
    BY <1>1 DEF Same
  <2>5. Lost(m) <= Cardinality(Owners \ {m})
    BY <1>1, <1>3, <2>4 DEF RaceOK
  <2>6. CASE pc[m] = "bind" /\ pick[m] \in Available /\ pick[m] \notin Available'
    <3>1. s \in (Owners' \ {m}) \ (Owners \ {m})
      BY <1>3, <2>6, HandlerOwners
    <3>2. Lost(m) = tries[m] /\ Lost(m)' = tries[m] + 1
      BY <2>4, <2>6 DEF Lost
    <3>3. Cardinality(Owners \ {m}) + 1 <= Cardinality(Owners' \ {m})
      BY <2>2, <3>1
    <3>. QED
      BY <2>2, <2>3, <2>5, <3>2, <3>3
  <2>7. CASE ~(pc[m] = "bind" /\ pick[m] \in Available /\ pick[m] \notin Available')
    <3>1. /\ Lost(m)' \in Nat /\ Lost(m) \in Nat
          /\ Lost(m)' <= Lost(m)
      BY <2>3, <2>4, <2>7 DEF Lost
    <3>. QED
      BY <2>2, <2>5, <3>1
  <2>. QED
    BY <2>6, <2>7
<1>. QED
  BY <1>2, <1>3 DEF RaceOK

LEMMA HandlerRace ==
    ASSUME IsFiniteSet(Server), IsFiniteSet(Blade), EnoughForAll, LifeInv,
           \A m \in Server : RaceOK(m), NEW s \in Server, Handler(s)
    PROVE  \A m \in Server : RaceOK(m)'
<1>1. TypeOK /\ RunInv /\ ServerInv(s)
  BY DEF LifeInv, ServerInv
<1>2. CanWin(s)
  BY <1>1, HandlerCanWin
<1>3. Races(s)
  BY <1>1, <1>2, HandlerRaces DEF RaceOK
<1>4. RaceOK(s)'
  BY <1>1, <1>2, OwnRace
<1>5. ASSUME NEW m \in Server, m # s PROVE RaceOK(m)'
  BY <1>1, <1>3, <1>5, OtherRace
<1>. QED
  BY <1>4, <1>5

-----------------------------------------------------------------------------
(* The steps of terraform.                                                 *)

(* Who has just been started, or has not, is in no race.                   *)
LEMMA IdleRace ==
    ASSUME NEW m \in Server, RaceOK(m), profile'[m] = profile[m], blade'[m] = blade[m],
           pc'[m] \in {"idle", "read_server", "create_discover", "delete_check"}
    PROVE  RaceOK(m)'
BY DEF RaceOK, BladeInv, Assigning, Unprofiled, Undoing

(* A turn that comes takes nothing from an owner.                          *)
LEMMA TurnRace ==
    ASSUME IsFiniteSet(Server), TypeOK, NEW s \in todo, todo' = todo \ {s}, blade' = blade,
           fault => fault', \A m \in Server : m # s => Same(m),
           NEW m \in Server, m # s, RaceOK(m)
    PROVE  RaceOK(m)'
<1>1. Same(m)
  OBVIOUS
<1>2. BladeInv(m)'
  BY <1>1 DEF RaceOK, BladeInv, Same, TypeOK
<1>3. /\ Owners \ {m} \in SUBSET Server /\ Owners' \ {m} \in SUBSET Server
      /\ Owners \ {m} \subseteq Owners' \ {m}
  BY DEF Owners, Same
<1>4. /\ Cardinality(Owners \ {m}) \in Nat /\ Cardinality(Owners' \ {m}) \in Nat
      /\ Cardinality(Owners \ {m}) <= Cardinality(Owners' \ {m})
  BY <1>3, Grows
<1>5. Lost(m)' = Lost(m) /\ Lost(m) \in Nat
  BY <1>1 DEF Lost, Available, Same, TypeOK
<1>. QED
  BY <1>1, <1>2, <1>4, <1>5 DEF RaceOK, Same

LEMMA StartReadRace ==
    ASSUME IsFiniteSet(Server), LifeInv, \A m \in Server : RaceOK(m), NEW s \in Server,
           StartRead(s)
    PROVE  \A m \in Server : RaceOK(m)'
<1>. USE DEF StartRead, Goto, world, ucs, state, process, locals, assign, history
<1>1. TypeOK
  BY DEF LifeInv
<1>2. RaceOK(s)'
  BY <1>1, IdleRace DEF TypeOK
<1>3. \A m \in Server : m # s => Same(m)
  BY <1>1 DEF Same, TypeOK
<1>4. ASSUME NEW m \in Server, m # s PROVE RaceOK(m)'
  BY <1>1, <1>3, <1>4, TurnRace
<1>. QED
  BY <1>2, <1>4

LEMMA ApplyRace ==
    ASSUME IsFiniteSet(Server), LifeInv, \A m \in Server : RaceOK(m), NEW s \in Server,
           Apply(s)
    PROVE  \A m \in Server : RaceOK(m)'
<1>1. TypeOK /\ pc[s] = "idle"
  BY DEF LifeInv, RunInv, Apply
<1>2. /\ s \in todo /\ todo' = todo \ {s} /\ UNCHANGED <<profile, blade>>
      /\ fault => fault'
      /\ pc'[s] \in {"idle", "create_discover", "delete_check"}
  BY <1>1 DEF Apply, StartCreate, StartDelete, Update, Nothing, Goto, history, TypeOK
<1>3. RaceOK(s)'
  BY <1>2, IdleRace
<1>4. \A m \in Server : m # s => Same(m)
  BY <1>1, ApplyFrame
<1>5. ASSUME NEW m \in Server, m # s PROVE RaceOK(m)'
  BY <1>1, <1>2, <1>4, <1>5, TurnRace
<1>. QED
  BY <1>3, <1>5

(* Runs begin and end while nobody runs.                                   *)
LEMMA RunRace ==
    ASSUME LifeInv, \A m \in Server : RaceOK(m), StartRun \/ EndRefresh \/ EndApply
    PROVE  \A m \in Server : RaceOK(m)'
<1>1. NoHandler /\ UNCHANGED <<profile, blade, pc>>
  BY DEF LifeInv, RunInv, StartRun, EndRefresh, EndApply, world, ucs
<1>. QED
  BY <1>1, IdleRace DEF NoHandler

LEMMA InitRace == Init => \A s \in Server : RaceOK(s)
<1>. SUFFICES ASSUME Init, NEW s \in Server PROVE RaceOK(s)
  OBVIOUS
<1>1. profile[s] = "none" /\ blade[s] = NoBlade /\ pc[s] = "idle"
  BY DEF Init
<1>. QED
  BY <1>1 DEF RaceOK, BladeInv, Assigning, Unprofiled, Undoing

LEMMA StutterRace ==
    ASSUME \A m \in Server : RaceOK(m), UNCHANGED vars
    PROVE  \A m \in Server : RaceOK(m)'
BY DEF RaceOK, BladeInv, Lost, Owners, Available, vars, world, ucs, control, locals, assign,
       history

LEMMA NextRace ==
    ASSUME IsFiniteSet(Server), IsFiniteSet(Blade)
    PROVE  LifeInv /\ RaceInv /\ [Next]_vars => RaceInv'
<1>. SUFFICES ASSUME LifeInv, RaceInv, [Next]_vars, EnoughForAll PROVE RaceInv'
  BY DEF RaceInv, EnoughForAll
<1>1. \A m \in Server : RaceOK(m)
  BY DEF RaceInv, RaceOK
<1>2. \A m \in Server : RaceOK(m)'
  BY <1>1, HandlerRace, StartReadRace, ApplyRace, RunRace, StutterRace DEF Next, Proceed
<1>. QED
  BY <1>2 DEF RaceInv, RaceOK

(* With as many blades and tries as there are servers, no server goes      *)
(* without a blade unless a request fails, however many they are and       *)
(* however their queries and assignments interleave: it loses at most one  *)
(* race to each server that has come to a blade in this half of the run.   *)
THEOREM RacesAreAlwaysWon ==
    ASSUME IsFiniteSet(Server), IsFiniteSet(Blade)
    PROVE  Spec => []RacesAreWon
<1>1. Init => RaceInv
  BY InitRace DEF RaceInv, RaceOK
<1>2. LifeInv /\ RaceInv /\ [Next]_vars => RaceInv'
  BY NextRace
<1>3. RaceInv => RacesAreWon
  BY DEF RaceInv, RacesAreWon, EnoughForAll, BladeInv
<1>. QED
  BY <1>1, <1>2, <1>3, LifeInvariance, PTL DEF Spec

=============================================================================
