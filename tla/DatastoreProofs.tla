-------------------------- MODULE DatastoreProofs --------------------------
(***************************************************************************)
(* Proofs about Datastore, for every set of snapshots, chunks and session  *)
(* slots and every value of the bounds.                                    *)
(***************************************************************************)
EXTENDS Datastore, TLAPS

-----------------------------------------------------------------------------
(* Type correctness. *)

LEMMA InitTypeOK == Init => TypeOK
<1> SUFFICES ASSUME Init PROVE TypeOK
  OBVIOUS
<1> USE DEF Init
<1>1. BucketOK
  BY DEF BucketOK
<1>2. SessionOK
  BY DEF SessionOK, Phase
<1>3. WritesOK
  BY DEF WritesOK, NoOp
<1>4. CollectorOK
  BY DEF CollectorOK, GcPc, Inventory, Plan, NoInventory, NoPlan
<1>5. HistoryOK
  BY BoundsAssumption DEF HistoryOK
<1> QED
  BY <1>1, <1>2, <1>3, <1>4, <1>5 DEF TypeOK

\* A live session has a snapshot.
LEMMA LiveHasSnap ==
  ASSUME SessionOK, NEW x \in Session, st[x] # "idle"
  PROVE  snap[x] \in Snap
BY DEF SessionOK

LEMMA DownloadOK ==
  ASSUME BucketOK, SessionOK, NEW x \in Session, Download(x)
  PROVE  SessionOK'
<1>1. snap[x] \in Snap
  BY LiveHasSnap DEF Download
<1>2. idx[snap[x]] \in SUBSET Chunk
  BY <1>1 DEF BucketOK
<1>3. known' = [known EXCEPT ![x] = idx[snap[x]]]
  BY DEF Download
<1>4. UNCHANGED <<st, snap, sized, base, acks, finished>>
  BY DEF Download
<1> QED
  BY <1>2, <1>3, <1>4 DEF SessionOK

LEMMA RemoveFilesOK ==
  ASSUME BucketOK, NEW s \in Snap, NEW r \in SUBSET files[s], RemoveFiles(s, r),
         UNCHANGED <<indexed, chunks, fresh, expired>>
  PROVE  BucketOK'
<1>1. files' \in [Snap -> SUBSET File]
  BY DEF BucketOK, RemoveFiles
<1>2. idx' \in [Snap -> SUBSET Chunk]
  BY DEF BucketOK, RemoveFiles
<1>3. tagged' \subseteq tagged /\ ("manifest" \in r => s \notin tagged')
  BY DEF RemoveFiles
<1>4. \A t \in Snap : files'[t] = IF t = s THEN files[t] \ r ELSE files[t]
  BY DEF BucketOK, RemoveFiles
<1> QED
  BY <1>1, <1>2, <1>3, <1>4 DEF BucketOK

LEMMA WriteLandsOK ==
  ASSUME BucketOK, NEW s \in Snap, NEW o, o.index \in SUBSET Chunk, WriteLands(s, o),
         o.step = "csjson" => s \in Dynamic,
         UNCHANGED <<chunks, fresh, expired>>
  PROVE  BucketOK'
<1>1. CASE o.step = "put"
  BY <1>1 DEF WriteLands, PutFile, BucketOK, File
<1>2. CASE o.step = "copy"
  BY <1>2 DEF WriteLands, BucketOK
<1>3. CASE o.step = "csjson"
  BY <1>3 DEF WriteLands, PutFile, BucketOK, File
<1>4. CASE o.step = "manifest"
  BY <1>4 DEF WriteLands, PutFile, BucketOK, File
<1> QED
  BY <1>1, <1>2, <1>3, <1>4 DEF WriteLands

LEMMA GcSweepBackupsOK ==
  ASSUME BucketOK, GcSweepBackups
  PROVE  BucketOK'
<1> PICK r \in SUBSET plan.backups :
       /\ files' = [s \in Snap |-> files[s] \ {f \in File : <<s, f>> \in r}]
       /\ idx' = [s \in Snap |-> IF <<s, "idx">> \in r THEN {} ELSE idx[s]]
       /\ tagged' = tagged \ {s \in Snap : <<s, "manifest">> \in r}
  BY DEF GcSweepBackups
<1>1. files' \in [Snap -> SUBSET File]
  BY DEF BucketOK
<1>2. idx' \in [Snap -> SUBSET Chunk]
  BY DEF BucketOK
<1>3. \A s \in Snap : files'[s] = files[s] \ {f \in File : <<s, f>> \in r}
  OBVIOUS
<1>4. UNCHANGED <<indexed, chunks, fresh, expired>>
  BY DEF GcSweepBackups
<1> QED
  BY <1>1, <1>2, <1>3, <1>4 DEF BucketOK

LEMMA OpIndex ==
  ASSUME WritesOK, NEW x \in Session
  PROVE  op[x].index \in SUBSET Chunk
BY DEF WritesOK, Op, NoOp

LEMMA FinishWriteOK ==
  ASSUME SessionOK, WritesOK, NEW x \in Session, FinishWrite(x)
  PROVE  WritesOK'
<1> DEFINE o == IF op[x].step = "put" THEN [step |-> FollowUp(snap[x]), index |-> op[x].index]
                                      ELSE NoOp
<1>1. st[x] \in {"backup", "closing", "cleaned"} /\ snap[x] \in Snap
  BY LiveHasSnap DEF FinishWrite, WritesOK
<1>2. o \in Op \cup {NoOp}
  BY OpIndex DEF Op, FollowUp
<1>3. /\ o.step = "copy" => snap[x] \notin Dynamic
      /\ o.step = "csjson" => snap[x] \in Dynamic
  BY DEF FollowUp, NoOp
<1>4. op' = [op EXCEPT ![x] = o]
  BY DEF FinishWrite
<1>5. UNCHANGED <<st, snap, late>>
  BY DEF FinishWrite
<1> HIDE DEF o
<1>6. op' \in [Session -> Op \cup {NoOp}]
  BY <1>2, <1>4 DEF WritesOK
<1>7. \A y \in Session : op'[y] = IF y = x THEN o ELSE op[y]
  BY <1>4 DEF WritesOK
<1> QED
  BY <1>1, <1>3, <1>5, <1>6, <1>7 DEF WritesOK

LEMMA EndSessionOK ==
  ASSUME SessionOK, WritesOK, NEW x \in Session, EndSession(x)
  PROVE  WritesOK'
<1>1. snap[x] \in Snap
  BY LiveHasSnap DEF EndSession
<1>2. late' \subseteq LateOp
  <2>1. CASE op[x] = NoOp
    BY <2>1 DEF EndSession, WritesOK
  <2>2. CASE op[x] # NoOp
    <3>1. op[x] \in Op
      BY <2>2 DEF WritesOK
    <3>2. [snap |-> snap[x], step |-> op[x].step, index |-> op[x].index, overrun |-> FALSE] \in LateOp
      BY <1>1, <3>1 DEF Op, LateOp
    <3> QED
      BY <2>2, <3>2 DEF EndSession, WritesOK
  <2> QED
    BY <2>1, <2>2
<1>3. \A l \in late' : l.step = "csjson" => l.snap \in Dynamic
  BY DEF EndSession, WritesOK
<1>4. /\ op' \in [Session -> Op \cup {NoOp}]
      /\ \A y \in Session : op'[y] = IF y = x THEN NoOp ELSE op[y]
  BY DEF EndSession, ResetSlots, WritesOK
<1>5. \A y \in Session : y # x => st'[y] = st[y] /\ snap'[y] = snap[y]
  BY DEF EndSession, ResetSlots
<1>6. NoOp.step = "none"
  BY DEF NoOp
<1> QED
  BY <1>2, <1>3, <1>4, <1>5, <1>6 DEF WritesOK

LEMMA FinishOK ==
  ASSUME SessionOK, HistoryOK, NEW x \in Session, Finish(x)
  PROVE  HistoryOK'
<1>1. snap[x] \in Snap
  BY LiveHasSnap DEF Finish
<1>2. owed' \subseteq Snap
  BY <1>1 DEF Finish, HistoryOK
<1>3. UNCHANGED <<chunks, opens, userOps, cleaned, stray, crossed, lost, marked, noticed>>
  BY DEF Finish, bucketVars
<1> QED
  BY <1>2, <1>3 DEF HistoryOK

LEMMA RemoveIncompleteOK ==
  ASSUME SessionOK, HistoryOK, NEW x \in Session, RemoveIncomplete(x)
  PROVE  HistoryOK'
<1>1. snap[x] \in Snap
  BY LiveHasSnap DEF RemoveIncomplete
<1>2. cleaned' \subseteq Snap
  BY <1>1 DEF RemoveIncomplete, HistoryOK
<1>3. UNCHANGED <<chunks, opens, userOps, owed, stray, crossed, lost, marked, noticed>>
  BY DEF RemoveIncomplete, bucketVars
<1> QED
  BY <1>2, <1>3 DEF HistoryOK

LEMMA LateWriteOK ==
  ASSUME WritesOK, NEW l \in late, LateWrite(l)
  PROVE  WritesOK'
<1>1. /\ [l EXCEPT !.step = FollowUp(l.snap)] \in LateOp
      /\ [l EXCEPT !.step = FollowUp(l.snap)].step = FollowUp(l.snap)
      /\ [l EXCEPT !.step = FollowUp(l.snap)].snap = l.snap
  BY DEF WritesOK, LateOp, FollowUp
<1>2. UNCHANGED <<op, st, snap>>
  BY DEF LateWrite, sessionVars
<1>3. FollowUp(l.snap) = "csjson" => l.snap \in Dynamic
  BY DEF FollowUp
<1>4. \A m \in late' : m \in late \/ m = [l EXCEPT !.step = FollowUp(l.snap)]
  BY DEF LateWrite
<1> QED
  BY <1>1, <1>2, <1>3, <1>4 DEF WritesOK

LEMMA StartWriteOK ==
  ASSUME WritesOK, NEW x \in Session, NEW o \in Op,
         o.step \notin {"copy", "csjson"}, StartWrite(x, o)
  PROVE  WritesOK'
<1>1. /\ op' \in [Session -> Op \cup {NoOp}]
      /\ \A y \in Session : op'[y] = IF y = x THEN o ELSE op[y]
  BY DEF StartWrite, WritesOK
<1>2. st[x] = "backup" /\ UNCHANGED <<st, snap, late>>
  BY DEF StartWrite
<1> QED
  BY <1>1, <1>2 DEF WritesOK

LEMMA FailWriteOK ==
  ASSUME WritesOK, NEW x \in Session, FailWrite(x)
  PROVE  WritesOK'
<1>1. /\ op' \in [Session -> Op \cup {NoOp}]
      /\ \A y \in Session : op'[y] = IF y = x THEN NoOp ELSE op[y]
  BY DEF FailWrite, WritesOK
<1>2. UNCHANGED <<st, snap, late>>
  BY DEF FailWrite
<1>3. NoOp.step = "none"
  BY DEF NoOp
<1> QED
  BY <1>1, <1>2, <1>3 DEF WritesOK

LEMMA NextTypeOK == TypeOK /\ [Next]_vars => TypeOK'
<1> SUFFICES ASSUME TypeOK, [Next]_vars PROVE TypeOK'
  OBVIOUS
<1> USE BoundsAssumption, SnapAssumption, DynamicAssumption
<1> USE DEF TypeOK, vars, bucketVars, sessionVars, gcVars, historyVars
<1>1. ASSUME NEW x \in Session, NEW s \in Snap, OpenBackup(x, s) PROVE TypeOK'
  <2>1. BucketOK'
    BY <1>1 DEF OpenBackup, Begin, BucketOK, File
  <2>2. SessionOK'
    BY <1>1 DEF OpenBackup, Begin, SessionOK, Phase, BucketOK
  <2>3. WritesOK'
    BY <1>1 DEF OpenBackup, Begin, WritesOK, Op, LateOp, NoOp, BucketOK, SessionOK
  <2>4. CollectorOK'
    BY <1>1 DEF OpenBackup, Begin, CollectorOK, GcPc, Inventory, Plan, NoInventory, NoPlan, File
  <2>5. HistoryOK'
    BY <1>1 DEF OpenBackup, Begin, HistoryOK, BucketOK, SessionOK
  <2> QED
    BY <2>1, <2>2, <2>3, <2>4, <2>5
<1>2. ASSUME NEW x \in Session, NEW s \in Snap, OpenRestore(x, s) PROVE TypeOK'
  BY <1>2
  DEF OpenRestore, Begin,
         BucketOK, SessionOK, WritesOK, CollectorOK, HistoryOK, File, NoOp, Op, LateOp, Phase,
         GcPc, Inventory, Plan, NoInventory, NoPlan
<1>3. ASSUME NEW x \in Session, Previous(x) PROVE TypeOK'
  BY <1>3
  DEF Previous, GetLatestSnapshot, Candidates,
         BucketOK, SessionOK, WritesOK, CollectorOK, HistoryOK, File, NoOp, Op, LateOp, Phase,
         GcPc, Inventory, Plan, NoInventory, NoPlan
<1>4. ASSUME NEW x \in Session, Download(x) PROVE TypeOK'
  <2>1. BucketOK'
    BY <1>4 DEF Download, BucketOK, File
  <2>2. SessionOK'
    BY <1>4, DownloadOK
  <2>3. WritesOK'
    BY <1>4 DEF Download, WritesOK, Op, LateOp, NoOp, BucketOK, SessionOK
  <2>4. CollectorOK'
    BY <1>4 DEF Download, CollectorOK, GcPc, Inventory, Plan, NoInventory, NoPlan, File
  <2>5. HistoryOK'
    BY <1>4 DEF Download, HistoryOK, BucketOK, SessionOK
  <2> QED
    BY <2>1, <2>2, <2>3, <2>4, <2>5
<1>5. ASSUME NEW x \in Session, NEW c \in Chunk, UploadChunk(x, c) PROVE TypeOK'
  BY <1>5
  DEF UploadChunk, StoreChunk,
         BucketOK, SessionOK, WritesOK, CollectorOK, HistoryOK, File, NoOp, Op, LateOp, Phase,
         GcPc, Inventory, Plan, NoInventory, NoPlan
<1>6. ASSUME NEW x \in Session, NEW c \in Chunk, UploadChunkUnacknowledged(x, c) PROVE TypeOK'
  BY <1>6
  DEF UploadChunkUnacknowledged, StoreChunk,
         BucketOK, SessionOK, WritesOK, CollectorOK, HistoryOK, File, NoOp, Op, LateOp, Phase,
         GcPc, Inventory, Plan, NoInventory, NoPlan
<1>7. ASSUME NEW x \in Session, FixedClose(x) PROVE TypeOK'
  <2>1. BucketOK'
    BY <1>7 DEF FixedClose, Assignments, StartWrite, BucketOK, File
  <2>2. SessionOK'
    BY <1>7 DEF FixedClose, Assignments, StartWrite, SessionOK, Phase, BucketOK
  <2>3. WritesOK'
    <3>1. PICK d \in SUBSET Chunk : StartWrite(x, [step |-> "put", index |-> d])
      BY <1>7 DEF FixedClose, Assignments, SessionOK
    <3> QED
      BY <3>1, StartWriteOK DEF Op
  <2>4. CollectorOK'
    BY <1>7 DEF FixedClose, Assignments, StartWrite, CollectorOK, GcPc, Inventory, Plan, NoInventory, NoPlan, File
  <2>5. HistoryOK'
    BY <1>7 DEF FixedClose, Assignments, StartWrite, HistoryOK, BucketOK, SessionOK
  <2> QED
    BY <2>1, <2>2, <2>3, <2>4, <2>5
<1>8. ASSUME NEW x \in Session, FixedCloseReuse(x) PROVE TypeOK'
  <2>1. BucketOK'
    BY <1>8 DEF FixedCloseReuse, StartWrite, BucketOK, File
  <2>2. SessionOK'
    BY <1>8 DEF FixedCloseReuse, StartWrite, SessionOK, Phase, BucketOK
  <2>3. WritesOK'
    <3>1. PICK d \in SUBSET Chunk : StartWrite(x, [step |-> "put", index |-> d])
      BY <1>8 DEF FixedCloseReuse, SessionOK
    <3> QED
      BY <3>1, StartWriteOK DEF Op
  <2>4. CollectorOK'
    BY <1>8 DEF FixedCloseReuse, StartWrite, CollectorOK, GcPc, Inventory, Plan, NoInventory, NoPlan, File
  <2>5. HistoryOK'
    BY <1>8 DEF FixedCloseReuse, StartWrite, HistoryOK, BucketOK, SessionOK
  <2> QED
    BY <2>1, <2>2, <2>3, <2>4, <2>5
<1>9. ASSUME NEW x \in Session, DynamicClose(x) PROVE TypeOK'
  <2>1. BucketOK'
    BY <1>9 DEF DynamicClose, Assignments, StartWrite, BucketOK, File
  <2>2. SessionOK'
    BY <1>9 DEF DynamicClose, Assignments, StartWrite, SessionOK, Phase, BucketOK
  <2>3. WritesOK'
    <3>1. PICK d \in SUBSET Chunk : StartWrite(x, [step |-> "put", index |-> d])
      BY <1>9 DEF DynamicClose, Assignments, SessionOK
    <3> QED
      BY <3>1, StartWriteOK DEF Op
  <2>4. CollectorOK'
    BY <1>9 DEF DynamicClose, Assignments, StartWrite, CollectorOK, GcPc, Inventory, Plan, NoInventory, NoPlan, File
  <2>5. HistoryOK'
    BY <1>9 DEF DynamicClose, Assignments, StartWrite, HistoryOK, BucketOK, SessionOK
  <2> QED
    BY <2>1, <2>2, <2>3, <2>4, <2>5
<1>10. ASSUME NEW x \in Session, UploadManifest(x) PROVE TypeOK'
  <2>1. BucketOK'
    BY <1>10 DEF UploadManifest, StartWrite, BucketOK, File
  <2>2. SessionOK'
    BY <1>10 DEF UploadManifest, StartWrite, SessionOK, Phase, BucketOK
  <2>3. WritesOK'
    BY <1>10, StartWriteOK DEF UploadManifest, Op
  <2>4. CollectorOK'
    BY <1>10 DEF UploadManifest, StartWrite, CollectorOK, GcPc, Inventory, Plan, NoInventory, NoPlan, File
  <2>5. HistoryOK'
    BY <1>10 DEF UploadManifest, StartWrite, HistoryOK, BucketOK, SessionOK
  <2> QED
    BY <2>1, <2>2, <2>3, <2>4, <2>5
<1>11. ASSUME NEW x \in Session, FinishWrite(x) PROVE TypeOK'
  <2>1. BucketOK'
    <3>1. snap[x] \in Snap /\ op[x].index \in SUBSET Chunk
      BY <1>11, LiveHasSnap, OpIndex DEF FinishWrite, WritesOK, TypeOK
    <3>2. op[x].step = "csjson" => snap[x] \in Dynamic
      BY DEF WritesOK, TypeOK
    <3> QED
      BY <1>11, <3>1, <3>2, WriteLandsOK DEF FinishWrite, TypeOK
  <2>2. SessionOK'
    BY <1>11 DEF FinishWrite, WriteLands, PutFile, FollowUp, SessionOK, Phase, BucketOK
  <2>3. WritesOK'
    BY <1>11, FinishWriteOK
  <2>4. CollectorOK'
    BY <1>11 DEF FinishWrite, WriteLands, PutFile, FollowUp, CollectorOK, GcPc, Inventory, Plan, NoInventory, NoPlan, File
  <2>5. HistoryOK'
    BY <1>11 DEF FinishWrite, WriteLands, PutFile, FollowUp, HistoryOK, BucketOK, SessionOK
  <2> QED
    BY <2>1, <2>2, <2>3, <2>4, <2>5
<1>12. ASSUME NEW x \in Session, FailWrite(x) PROVE TypeOK'
  <2>1. BucketOK'
    BY <1>12 DEF FailWrite, BucketOK, File
  <2>2. SessionOK'
    BY <1>12 DEF FailWrite, SessionOK, Phase, BucketOK
  <2>3. WritesOK'
    BY <1>12, FailWriteOK
  <2>4. CollectorOK'
    BY <1>12 DEF FailWrite, CollectorOK, GcPc, Inventory, Plan, NoInventory, NoPlan, File
  <2>5. HistoryOK'
    BY <1>12 DEF FailWrite, HistoryOK, BucketOK, SessionOK
  <2> QED
    BY <2>1, <2>2, <2>3, <2>4, <2>5
<1>13. ASSUME NEW x \in Session, Finish(x) PROVE TypeOK'
  <2>1. BucketOK'
    BY <1>13 DEF Finish, BucketOK, File
  <2>2. SessionOK'
    BY <1>13 DEF Finish, SessionOK, Phase, BucketOK
  <2>3. WritesOK'
    BY <1>13 DEF Finish, WritesOK, Op, LateOp, NoOp, BucketOK, SessionOK
  <2>4. CollectorOK'
    BY <1>13 DEF Finish, CollectorOK, GcPc, Inventory, Plan, NoInventory, NoPlan, File
  <2>5. HistoryOK'
    BY <1>13, FinishOK
  <2> QED
    BY <2>1, <2>2, <2>3, <2>4, <2>5
<1>14. ASSUME NEW x \in Session, Disconnect(x) PROVE TypeOK'
  BY <1>14
  DEF Disconnect,
         BucketOK, SessionOK, WritesOK, CollectorOK, HistoryOK, File, NoOp, Op, LateOp, Phase,
         GcPc, Inventory, Plan, NoInventory, NoPlan
<1>15. ASSUME NEW x \in Session, RemoveIncomplete(x) PROVE TypeOK'
  <2>1. BucketOK'
    BY <1>15, RemoveFilesOK, LiveHasSnap DEF RemoveIncomplete
  <2>2. SessionOK'
    BY <1>15 DEF RemoveIncomplete, RemoveFiles, SessionOK, Phase, BucketOK
  <2>3. WritesOK'
    BY <1>15 DEF RemoveIncomplete, RemoveFiles, WritesOK, Op, LateOp, NoOp, BucketOK, SessionOK
  <2>4. CollectorOK'
    BY <1>15 DEF RemoveIncomplete, RemoveFiles, CollectorOK, GcPc, Inventory, Plan, NoInventory, NoPlan, File
  <2>5. HistoryOK'
    BY <1>15, RemoveIncompleteOK
  <2> QED
    BY <2>1, <2>2, <2>3, <2>4, <2>5
<1>16. ASSUME NEW x \in Session, EndSession(x) PROVE TypeOK'
  <2>1. BucketOK'
    BY <1>16 DEF EndSession, ResetSlots, BucketOK, File
  <2>2. SessionOK'
    BY <1>16 DEF EndSession, ResetSlots, SessionOK, Phase, BucketOK
  <2>3. WritesOK'
    BY <1>16, EndSessionOK
  <2>4. CollectorOK'
    BY <1>16 DEF EndSession, ResetSlots, CollectorOK, GcPc, Inventory, Plan, NoInventory, NoPlan, File
  <2>5. HistoryOK'
    BY <1>16 DEF EndSession, ResetSlots, HistoryOK, BucketOK, SessionOK
  <2> QED
    BY <2>1, <2>2, <2>3, <2>4, <2>5
<1>17. CASE GcLock
  <2>1. BucketOK'
    BY <1>17 DEF GcLock, BucketOK, File
  <2>2. SessionOK'
    BY <1>17 DEF GcLock, SessionOK, Phase, BucketOK
  <2>3. WritesOK'
    <3> DEFINE U(l) == [l EXCEPT !.overrun = TRUE]
    <3>1. \A l \in late : U(l) \in LateOp /\ U(l).step = l.step /\ U(l).snap = l.snap
      BY DEF WritesOK, LateOp
    <3>2. late' = {U(l) : l \in late}
      BY <1>17 DEF GcLock
    <3>3. \A l \in late : l.step = "csjson" => l.snap \in Dynamic
      BY DEF WritesOK
    <3>4. late' \subseteq LateOp /\ \A l \in late' : l.step = "csjson" => l.snap \in Dynamic
      <4> HIDE DEF U
      <4> QED BY <3>1, <3>2, <3>3
    <3> QED
      BY <1>17, <3>4 DEF GcLock, WritesOK
  <2>4. CollectorOK'
    BY <1>17 DEF GcLock, CollectorOK, GcPc, Inventory, Plan, NoInventory, NoPlan, File
  <2>5. HistoryOK'
    BY <1>17 DEF GcLock, HistoryOK, BucketOK, SessionOK
  <2> QED
    BY <2>1, <2>2, <2>3, <2>4, <2>5
<1>18. CASE GcListBackups
  BY <1>18
  DEF GcListBackups,
         BucketOK, SessionOK, WritesOK, CollectorOK, HistoryOK, File, NoOp, Op, LateOp, Phase,
         GcPc, Inventory, Plan, NoInventory, NoPlan
<1>19. CASE GcInventory
  BY <1>19
  DEF GcInventory,
         BucketOK, SessionOK, WritesOK, CollectorOK, HistoryOK, File, NoOp, Op, LateOp, Phase,
         GcPc, Inventory, Plan, NoInventory, NoPlan
<1>20. CASE GcRefreshProtection
  BY <1>20
  DEF GcRefreshProtection, StillDoomed,
         BucketOK, SessionOK, WritesOK, CollectorOK, HistoryOK, File, NoOp, Op, LateOp, Phase,
         GcPc, Inventory, Plan, NoInventory, NoPlan
<1>21. CASE GcPlan
  BY <1>21
  DEF GcPlan, BuildGCPlan, Retained, KnownChunks, KnownHashes,
         BucketOK, SessionOK, WritesOK, CollectorOK, HistoryOK, File, NoOp, Op, LateOp, Phase,
         GcPc, Inventory, Plan, NoInventory, NoPlan
<1>22. CASE GcMarkCorrupted
  BY <1>22
  DEF GcMarkCorrupted, GcExit,
         BucketOK, SessionOK, WritesOK, CollectorOK, HistoryOK, File, NoOp, Op, LateOp, Phase,
         GcPc, Inventory, Plan, NoInventory, NoPlan
<1>23. CASE GcSweepBackups
  <2>1. BucketOK'
    BY <1>23, GcSweepBackupsOK
  <2>2. SessionOK'
    BY <1>23 DEF GcSweepBackups, AfterRemoving, GcExit, SessionOK, Phase, BucketOK
  <2>3. WritesOK'
    BY <1>23 DEF GcSweepBackups, AfterRemoving, GcExit, WritesOK, Op, LateOp, NoOp, BucketOK, SessionOK
  <2>4. CollectorOK'
    BY <1>23 DEF GcSweepBackups, AfterRemoving, GcExit, CollectorOK, GcPc, Inventory, Plan, NoInventory, NoPlan, File
  <2>5. HistoryOK'
    BY <1>23 DEF GcSweepBackups, AfterRemoving, GcExit, HistoryOK, BucketOK, SessionOK
  <2> QED
    BY <2>1, <2>2, <2>3, <2>4, <2>5
<1>24. CASE GcSweepIndexed
  BY <1>24
  DEF GcSweepIndexed, AfterRemoving, GcExit,
         BucketOK, SessionOK, WritesOK, CollectorOK, HistoryOK, File, NoOp, Op, LateOp, Phase,
         GcPc, Inventory, Plan, NoInventory, NoPlan
<1>25. CASE GcSweepChunks
  BY <1>25
  DEF GcSweepChunks, GcExit,
         BucketOK, SessionOK, WritesOK, CollectorOK, HistoryOK, File, NoOp, Op, LateOp, Phase,
         GcPc, Inventory, Plan, NoInventory, NoPlan
<1>26. CASE GcFatal
  BY <1>26
  DEF GcFatal, GcExit,
         BucketOK, SessionOK, WritesOK, CollectorOK, HistoryOK, File, NoOp, Op, LateOp, Phase,
         GcPc, Inventory, Plan, NoInventory, NoPlan
<1>27. ASSUME NEW l \in late, LateWrite(l) PROVE TypeOK'
  <2>1. BucketOK'
    BY <1>27, WriteLandsOK DEF LateWrite, WritesOK, LateOp
  <2>2. SessionOK'
    BY <1>27 DEF LateWrite, WriteLands, PutFile, FollowUp, SessionOK, Phase, BucketOK
  <2>3. WritesOK'
    BY <1>27, LateWriteOK
  <2>4. CollectorOK'
    BY <1>27 DEF LateWrite, WriteLands, PutFile, FollowUp, CollectorOK, GcPc, Inventory, Plan, NoInventory, NoPlan, File
  <2>5. HistoryOK'
    BY <1>27 DEF LateWrite, HistoryOK, WritesOK, LateOp
  <2> QED
    BY <2>1, <2>2, <2>3, <2>4, <2>5
<1>28. ASSUME NEW l \in late, LateFailure(l) PROVE TypeOK'
  BY <1>28
  DEF LateFailure,
         BucketOK, SessionOK, WritesOK, CollectorOK, HistoryOK, File, NoOp, Op, LateOp, Phase,
         GcPc, Inventory, Plan, NoInventory, NoPlan
<1>29. CASE ProxyExit
  BY <1>29
  DEF ProxyExit, ResetSlots,
         BucketOK, SessionOK, WritesOK, CollectorOK, HistoryOK, File, NoOp, Op, LateOp, Phase,
         GcPc, Inventory, Plan, NoInventory, NoPlan
<1>30. ASSUME NEW s \in Snap, UserDelete(s) PROVE TypeOK'
  BY <1>30
  DEF UserDelete, UserRequest, RemoveFiles,
         BucketOK, SessionOK, WritesOK, CollectorOK, HistoryOK, File, NoOp, Op, LateOp, Phase,
         GcPc, Inventory, Plan, NoInventory, NoPlan
<1>31. ASSUME NEW s \in Snap, UploadBackupLog(s) PROVE TypeOK'
  BY <1>31
  DEF UploadBackupLog, UserRequest, PutFile,
         BucketOK, SessionOK, WritesOK, CollectorOK, HistoryOK, File, NoOp, Op, LateOp, Phase,
         GcPc, Inventory, Plan, NoInventory, NoPlan
<1>32. ASSUME NEW s \in Snap, ToggleProtection(s) PROVE TypeOK'
  BY <1>32
  DEF ToggleProtection, UserRequest,
         BucketOK, SessionOK, WritesOK, CollectorOK, HistoryOK, File, NoOp, Op, LateOp, Phase,
         GcPc, Inventory, Plan, NoInventory, NoPlan
<1>33. ASSUME NEW s \in Snap, Expire(s) PROVE TypeOK'
  BY <1>33
  DEF Expire,
         BucketOK, SessionOK, WritesOK, CollectorOK, HistoryOK, File, NoOp, Op, LateOp, Phase,
         GcPc, Inventory, Plan, NoInventory, NoPlan
<1>34. ASSUME NEW c \in Chunk, AgeChunk(c) PROVE TypeOK'
  BY <1>34
  DEF AgeChunk,
         BucketOK, SessionOK, WritesOK, CollectorOK, HistoryOK, File, NoOp, Op, LateOp, Phase,
         GcPc, Inventory, Plan, NoInventory, NoPlan
<1>35. ASSUME NEW c \in Chunk, LoseChunk(c) PROVE TypeOK'
  BY <1>35
  DEF LoseChunk,
         BucketOK, SessionOK, WritesOK, CollectorOK, HistoryOK, File, NoOp, Op, LateOp, Phase,
         GcPc, Inventory, Plan, NoInventory, NoPlan
<1>36. CASE UNCHANGED vars
  BY <1>36 DEF BucketOK, SessionOK, WritesOK, CollectorOK, HistoryOK, File, NoOp, Op, LateOp, Phase,
         GcPc, Inventory, Plan, NoInventory, NoPlan
<1> QED
  BY <1>1, <1>2, <1>3, <1>4, <1>5, <1>6, <1>7, <1>8, <1>9, <1>10, <1>11, <1>12, <1>13, 
     <1>14, <1>15, <1>16, <1>17, <1>18, <1>19, <1>20, <1>21, <1>22, <1>23, <1>24, <1>25, 
     <1>26, <1>27, <1>28, <1>29, <1>30, <1>31, <1>32, <1>33, <1>34, <1>35, <1>36
  DEF Next, SessionStep, Collector, Environment

\* Type correctness of every reachable state, and with it that a protection tag
\* always sits on an existing manifest (PutObject and the removals drop it) and
\* that only fixed archives are ever copied to indexed/.
THEOREM TypeCorrect == Spec => []TypeOK
<1>1. Init => TypeOK
  BY InitTypeOK
<1>2. TypeOK /\ [Next]_vars => TypeOK'
  BY NextTypeOK
<1> QED
  BY <1>1, <1>2, PTL DEF Spec

-----------------------------------------------------------------------------
(* The inductive invariant. *)

\* A step that takes no chunk away, adds no late write and starts no collector.
LEMMA LateSafeKept ==
  ASSUME LateSafe, late' \subseteq late, Accounted \subseteq Accounted', crossed' = crossed,
         gpc' # "idle" => gpc # "idle"
  PROVE  LateSafe'
BY DEF LateSafe

LEMMA NextLateSafe == TypeOK /\ IndInv /\ [Next]_vars => LateSafe'
<1> SUFFICES ASSUME TypeOK, IndInv, [Next]_vars PROVE LateSafe'
  OBVIOUS
<1>1. ASSUME NEW x \in Session, SessionStep(x), ~EndSession(x) PROVE LateSafe'
  <2>1. /\ late' \subseteq late /\ chunks \subseteq chunks' /\ lost \subseteq lost' \cup chunks'
        /\ crossed' = crossed /\ gpc' = gpc
    BY <1>1 DEF SessionStep, OpenBackup, OpenRestore, Begin, Previous, Download, UploadChunk,
                UploadChunkUnacknowledged, StoreChunk, FixedClose, FixedCloseReuse, DynamicClose,
                UploadManifest, StartWrite, FinishWrite, FailWrite, Finish, Disconnect,
                RemoveIncomplete, bucketVars, gcVars, historyVars
  <2> QED
    BY <2>1, LateSafeKept DEF IndInv, Accounted
<1>2. ASSUME NEW x \in Session, EndSession(x) PROVE LateSafe'
  <2>1. gpc = "idle" /\ UNCHANGED <<gpc, chunks, lost, crossed>>
    BY <1>2 DEF EndSession, IndInv, Exclusion, bucketVars, gcVars, historyVars
  <2>2. \A l \in late' : l \in late \/ l.index = op[x].index
    BY <1>2 DEF EndSession
  <2>3. crossed = {} => op[x].index \subseteq Accounted
    BY DEF IndInv, SessionKnowledgeHolds
  <2> QED
    BY <2>1, <2>2, <2>3 DEF IndInv, LateSafe, Accounted
<1>3. CASE GcLock
  <2>1. \A l \in late' : l.overrun
    BY <1>3 DEF GcLock, TypeOK, WritesOK, LateOp
  <2> QED
    BY <2>1 DEF LateSafe
<1>4. CASE Collector /\ ~GcLock
  <2>1. gpc # "idle" /\ late' = late
    BY <1>4 DEF Collector, GcListBackups, GcInventory, GcRefreshProtection, GcPlan,
                GcMarkCorrupted, GcSweepBackups, GcSweepIndexed, GcSweepChunks, GcFatal
  <2> QED
    BY <2>1 DEF IndInv, LateSafe
<1>5. ASSUME NEW l \in late, LateWrite(l) PROVE LateSafe'
  <2>1. UNCHANGED <<gpc, chunks, lost>> /\ (crossed' = {} => crossed = {})
    BY <1>5 DEF LateWrite, gcVars
  <2>2. \A m \in late' : m \in late \/ (m.overrun = l.overrun /\ m.index = l.index)
    BY <1>5 DEF LateWrite, TypeOK, WritesOK, LateOp
  <2> QED
    BY <2>1, <2>2 DEF IndInv, LateSafe, Accounted
<1>6. CASE Environment /\ ~(\E l \in late : LateWrite(l))
  <2>1. /\ late' \subseteq late /\ Accounted \subseteq Accounted'
        /\ crossed' = crossed /\ gpc' = gpc
    BY <1>6 DEF Environment, LateFailure, ProxyExit, UserDelete, UserRequest, UploadBackupLog,
                ToggleProtection, Expire, AgeChunk, LoseChunk, Accounted, bucketVars, gcVars,
                historyVars
  <2> QED
    BY <2>1, LateSafeKept DEF IndInv
<1>7. CASE UNCHANGED vars
  BY <1>7 DEF IndInv, LateSafe, Accounted, vars, bucketVars, gcVars, historyVars
<1> QED
  BY <1>1, <1>2, <1>3, <1>4, <1>5, <1>6, <1>7 DEF Next

LEMMA NextIndInv == TypeOK /\ IndInv /\ [Next]_vars => IndInv'
<1> SUFFICES ASSUME TypeOK, IndInv, [Next]_vars PROVE IndInv'
  OBVIOUS
<1>0. LateSafe'
  BY NextLateSafe
<1> USE DEF IndInv, TypeOK, vars, bucketVars, sessionVars, gcVars, historyVars
<1>1. ASSUME NEW x \in Session, NEW s \in Snap, OpenBackup(x, s) PROVE IndInv'
  <2>1. Exclusion'
    BY <1>1
    DEF OpenBackup, Begin, ProxyMayLock, BucketOK, SessionOK, WritesOK, Exclusion
  <2>2. crossed' = {} => ListingsComplete' /\ PlanSafe'
    BY <1>1
    DEF OpenBackup, Begin, ProxyMayLock, BucketOK, SessionOK, WritesOK, ListingsComplete, PlanSafe, Exclusion
  <2>3. NoDanglingIndex'
    BY <1>1
    DEF OpenBackup, Begin, ProxyMayLock, BucketOK, SessionOK, WritesOK, NoDanglingIndex, Accounted, SessionKnowledgeHolds
  <2>4. SessionKnowledgeHolds'
    BY <1>1
    DEF OpenBackup, Begin, ProxyMayLock, BucketOK, SessionOK, WritesOK, SessionKnowledgeHolds, Accounted, Exclusion, NoDanglingIndex
  <2> QED
    BY <1>0, <2>1, <2>2, <2>3, <2>4
<1>2. ASSUME NEW x \in Session, NEW s \in Snap, OpenRestore(x, s) PROVE IndInv'
  <2>1. Exclusion'
    BY <1>2
    DEF OpenRestore, Begin, ProxyMayLock, BucketOK, SessionOK, WritesOK, Exclusion
  <2>2. crossed' = {} => ListingsComplete' /\ PlanSafe'
    BY <1>2
    DEF OpenRestore, Begin, ProxyMayLock, BucketOK, SessionOK, WritesOK, ListingsComplete, PlanSafe, Exclusion
  <2>3. NoDanglingIndex'
    BY <1>2
    DEF OpenRestore, Begin, ProxyMayLock, BucketOK, SessionOK, WritesOK, NoDanglingIndex, Accounted, SessionKnowledgeHolds
  <2>4. SessionKnowledgeHolds'
    BY <1>2
    DEF OpenRestore, Begin, ProxyMayLock, BucketOK, SessionOK, WritesOK, SessionKnowledgeHolds, Accounted, Exclusion, NoDanglingIndex
  <2> QED
    BY <1>0, <2>1, <2>2, <2>3, <2>4
<1>3. ASSUME NEW x \in Session, Previous(x) PROVE IndInv'
  <2>1. Exclusion'
    BY <1>3
    DEF Previous, GetLatestSnapshot, Candidates, BucketOK, SessionOK, WritesOK, Exclusion
  <2>2. crossed' = {} => ListingsComplete' /\ PlanSafe'
    BY <1>3
    DEF Previous, GetLatestSnapshot, Candidates, BucketOK, SessionOK, WritesOK, ListingsComplete, PlanSafe, Exclusion
  <2>3. NoDanglingIndex'
    BY <1>3
    DEF Previous, GetLatestSnapshot, Candidates, BucketOK, SessionOK, WritesOK, NoDanglingIndex, Accounted, SessionKnowledgeHolds
  <2>4. SessionKnowledgeHolds'
    BY <1>3
    DEF Previous, GetLatestSnapshot, Candidates, BucketOK, SessionOK, WritesOK, SessionKnowledgeHolds, Accounted, Exclusion, NoDanglingIndex
  <2> QED
    BY <1>0, <2>1, <2>2, <2>3, <2>4
<1>4. ASSUME NEW x \in Session, Download(x) PROVE IndInv'
  <2>1. Exclusion'
    BY <1>4
    DEF Download, BucketOK, SessionOK, WritesOK, Exclusion
  <2>2. crossed' = {} => ListingsComplete' /\ PlanSafe'
    BY <1>4
    DEF Download, BucketOK, SessionOK, WritesOK, ListingsComplete, PlanSafe, Exclusion
  <2>3. NoDanglingIndex'
    BY <1>4
    DEF Download, BucketOK, SessionOK, WritesOK, NoDanglingIndex, Accounted, SessionKnowledgeHolds
  <2>4. SessionKnowledgeHolds'
    BY <1>4
    DEF Download, BucketOK, SessionOK, WritesOK, SessionKnowledgeHolds, Accounted, Exclusion, NoDanglingIndex
  <2> QED
    BY <1>0, <2>1, <2>2, <2>3, <2>4
<1>5. ASSUME NEW x \in Session, NEW c \in Chunk, UploadChunk(x, c) PROVE IndInv'
  <2>1. Exclusion'
    BY <1>5
    DEF UploadChunk, StoreChunk, BucketOK, SessionOK, WritesOK, Exclusion
  <2>2. crossed' = {} => ListingsComplete' /\ PlanSafe'
    BY <1>5
    DEF UploadChunk, StoreChunk, BucketOK, SessionOK, WritesOK, ListingsComplete, PlanSafe, Exclusion
  <2>3. NoDanglingIndex'
    BY <1>5
    DEF UploadChunk, StoreChunk, BucketOK, SessionOK, WritesOK, NoDanglingIndex, Accounted, SessionKnowledgeHolds
  <2>4. SessionKnowledgeHolds'
    BY <1>5
    DEF UploadChunk, StoreChunk, BucketOK, SessionOK, WritesOK, SessionKnowledgeHolds, Accounted, Exclusion, NoDanglingIndex
  <2> QED
    BY <1>0, <2>1, <2>2, <2>3, <2>4
<1>6. ASSUME NEW x \in Session, NEW c \in Chunk, UploadChunkUnacknowledged(x, c) PROVE IndInv'
  <2>1. Exclusion'
    BY <1>6
    DEF UploadChunkUnacknowledged, StoreChunk, BucketOK, SessionOK, WritesOK, Exclusion
  <2>2. crossed' = {} => ListingsComplete' /\ PlanSafe'
    BY <1>6
    DEF UploadChunkUnacknowledged, StoreChunk, BucketOK, SessionOK, WritesOK, ListingsComplete, PlanSafe, Exclusion
  <2>3. NoDanglingIndex'
    BY <1>6
    DEF UploadChunkUnacknowledged, StoreChunk, BucketOK, SessionOK, WritesOK, NoDanglingIndex, Accounted, SessionKnowledgeHolds
  <2>4. SessionKnowledgeHolds'
    BY <1>6
    DEF UploadChunkUnacknowledged, StoreChunk, BucketOK, SessionOK, WritesOK, SessionKnowledgeHolds, Accounted, Exclusion, NoDanglingIndex
  <2> QED
    BY <1>0, <2>1, <2>2, <2>3, <2>4
<1>7. ASSUME NEW x \in Session, FixedClose(x) PROVE IndInv'
  <2>1. Exclusion'
    BY <1>7
    DEF FixedClose, Assignments, StartWrite, BucketOK, SessionOK, WritesOK, Exclusion
  <2>2. crossed' = {} => ListingsComplete' /\ PlanSafe'
    BY <1>7
    DEF FixedClose, Assignments, StartWrite, BucketOK, SessionOK, WritesOK, ListingsComplete, PlanSafe, Exclusion
  <2>3. NoDanglingIndex'
    BY <1>7
    DEF FixedClose, Assignments, StartWrite, BucketOK, SessionOK, WritesOK, NoDanglingIndex, Accounted, SessionKnowledgeHolds
  <2>4. SessionKnowledgeHolds'
    BY <1>7
    DEF FixedClose, Assignments, StartWrite, BucketOK, SessionOK, WritesOK, SessionKnowledgeHolds, Accounted, Exclusion, NoDanglingIndex
  <2> QED
    BY <1>0, <2>1, <2>2, <2>3, <2>4
<1>8. ASSUME NEW x \in Session, FixedCloseReuse(x) PROVE IndInv'
  <2>1. Exclusion'
    BY <1>8
    DEF FixedCloseReuse, StartWrite, BucketOK, SessionOK, WritesOK, Exclusion
  <2>2. crossed' = {} => ListingsComplete' /\ PlanSafe'
    BY <1>8
    DEF FixedCloseReuse, StartWrite, BucketOK, SessionOK, WritesOK, ListingsComplete, PlanSafe, Exclusion
  <2>3. NoDanglingIndex'
    BY <1>8
    DEF FixedCloseReuse, StartWrite, BucketOK, SessionOK, WritesOK, NoDanglingIndex, Accounted, SessionKnowledgeHolds
  <2>4. SessionKnowledgeHolds'
    BY <1>8
    DEF FixedCloseReuse, StartWrite, BucketOK, SessionOK, WritesOK, SessionKnowledgeHolds, Accounted, Exclusion, NoDanglingIndex
  <2> QED
    BY <1>0, <2>1, <2>2, <2>3, <2>4
<1>9. ASSUME NEW x \in Session, DynamicClose(x) PROVE IndInv'
  <2>1. Exclusion'
    BY <1>9
    DEF DynamicClose, Assignments, StartWrite, BucketOK, SessionOK, WritesOK, Exclusion
  <2>2. crossed' = {} => ListingsComplete' /\ PlanSafe'
    BY <1>9
    DEF DynamicClose, Assignments, StartWrite, BucketOK, SessionOK, WritesOK, ListingsComplete, PlanSafe, Exclusion
  <2>3. NoDanglingIndex'
    BY <1>9
    DEF DynamicClose, Assignments, StartWrite, BucketOK, SessionOK, WritesOK, NoDanglingIndex, Accounted, SessionKnowledgeHolds
  <2>4. SessionKnowledgeHolds'
    BY <1>9
    DEF DynamicClose, Assignments, StartWrite, BucketOK, SessionOK, WritesOK, SessionKnowledgeHolds, Accounted, Exclusion, NoDanglingIndex
  <2> QED
    BY <1>0, <2>1, <2>2, <2>3, <2>4
<1>10. ASSUME NEW x \in Session, UploadManifest(x) PROVE IndInv'
  <2>1. Exclusion'
    BY <1>10
    DEF UploadManifest, StartWrite, BucketOK, SessionOK, WritesOK, Exclusion
  <2>2. crossed' = {} => ListingsComplete' /\ PlanSafe'
    BY <1>10
    DEF UploadManifest, StartWrite, BucketOK, SessionOK, WritesOK, ListingsComplete, PlanSafe, Exclusion
  <2>3. NoDanglingIndex'
    BY <1>10
    DEF UploadManifest, StartWrite, BucketOK, SessionOK, WritesOK, NoDanglingIndex, Accounted, SessionKnowledgeHolds
  <2>4. SessionKnowledgeHolds'
    BY <1>10
    DEF UploadManifest, StartWrite, BucketOK, SessionOK, WritesOK, SessionKnowledgeHolds, Accounted, Exclusion, NoDanglingIndex
  <2> QED
    BY <1>0, <2>1, <2>2, <2>3, <2>4
<1>11. ASSUME NEW x \in Session, FinishWrite(x) PROVE IndInv'
  <2>1. Exclusion'
    BY <1>11
    DEF FinishWrite, WriteLands, PutFile, FollowUp, BucketOK, SessionOK, WritesOK, Exclusion
  <2>2. crossed' = {} => ListingsComplete' /\ PlanSafe'
    BY <1>11
    DEF FinishWrite, WriteLands, PutFile, FollowUp, BucketOK, SessionOK, WritesOK, ListingsComplete, PlanSafe, Exclusion
  <2>3. NoDanglingIndex'
    BY <1>11
    DEF FinishWrite, WriteLands, PutFile, FollowUp, BucketOK, SessionOK, WritesOK, NoDanglingIndex, Accounted, SessionKnowledgeHolds
  <2>4. SessionKnowledgeHolds'
    <3>1. \A y \in Session : op'[y].index \subseteq op[y].index
      BY <1>11 DEF FinishWrite, WritesOK, NoOp
    <3>2. UNCHANGED <<known, base, chunks, lost, crossed>>
      BY <1>11 DEF FinishWrite
    <3> QED
      BY <3>1, <3>2 DEF SessionKnowledgeHolds, Accounted
  <2> QED
    BY <1>0, <2>1, <2>2, <2>3, <2>4
<1>12. ASSUME NEW x \in Session, FailWrite(x) PROVE IndInv'
  <2>1. Exclusion'
    BY <1>12
    DEF FailWrite, BucketOK, SessionOK, WritesOK, Exclusion
  <2>2. crossed' = {} => ListingsComplete' /\ PlanSafe'
    BY <1>12
    DEF FailWrite, BucketOK, SessionOK, WritesOK, ListingsComplete, PlanSafe, Exclusion
  <2>3. NoDanglingIndex'
    BY <1>12
    DEF FailWrite, BucketOK, SessionOK, WritesOK, NoDanglingIndex, Accounted, SessionKnowledgeHolds
  <2>4. SessionKnowledgeHolds'
    BY <1>12 DEF FailWrite, WritesOK, SessionKnowledgeHolds, Accounted, NoOp
  <2> QED
    BY <1>0, <2>1, <2>2, <2>3, <2>4
<1>13. ASSUME NEW x \in Session, Finish(x) PROVE IndInv'
  <2>1. Exclusion'
    BY <1>13
    DEF Finish, BucketOK, SessionOK, WritesOK, Exclusion
  <2>2. crossed' = {} => ListingsComplete' /\ PlanSafe'
    BY <1>13
    DEF Finish, BucketOK, SessionOK, WritesOK, ListingsComplete, PlanSafe, Exclusion
  <2>3. NoDanglingIndex'
    BY <1>13
    DEF Finish, BucketOK, SessionOK, WritesOK, NoDanglingIndex, Accounted, SessionKnowledgeHolds
  <2>4. SessionKnowledgeHolds'
    BY <1>13
    DEF Finish, BucketOK, SessionOK, WritesOK, SessionKnowledgeHolds, Accounted, Exclusion, NoDanglingIndex
  <2> QED
    BY <1>0, <2>1, <2>2, <2>3, <2>4
<1>14. ASSUME NEW x \in Session, Disconnect(x) PROVE IndInv'
  <2>1. Exclusion'
    BY <1>14
    DEF Disconnect, BucketOK, SessionOK, WritesOK, Exclusion
  <2>2. crossed' = {} => ListingsComplete' /\ PlanSafe'
    BY <1>14
    DEF Disconnect, BucketOK, SessionOK, WritesOK, ListingsComplete, PlanSafe, Exclusion
  <2>3. NoDanglingIndex'
    BY <1>14
    DEF Disconnect, BucketOK, SessionOK, WritesOK, NoDanglingIndex, Accounted, SessionKnowledgeHolds
  <2>4. SessionKnowledgeHolds'
    BY <1>14
    DEF Disconnect, BucketOK, SessionOK, WritesOK, SessionKnowledgeHolds, Accounted, Exclusion, NoDanglingIndex
  <2> QED
    BY <1>0, <2>1, <2>2, <2>3, <2>4
<1>15. ASSUME NEW x \in Session, RemoveIncomplete(x) PROVE IndInv'
  <2>1. Exclusion'
    BY <1>15
    DEF RemoveIncomplete, RemoveFiles, BucketOK, SessionOK, WritesOK, Exclusion
  <2>2. crossed' = {} => ListingsComplete' /\ PlanSafe'
    BY <1>15
    DEF RemoveIncomplete, RemoveFiles, BucketOK, SessionOK, WritesOK, ListingsComplete, PlanSafe, Exclusion
  <2>3. NoDanglingIndex'
    BY <1>15
    DEF RemoveIncomplete, RemoveFiles, BucketOK, SessionOK, WritesOK, NoDanglingIndex, Accounted, SessionKnowledgeHolds
  <2>4. SessionKnowledgeHolds'
    BY <1>15
    DEF RemoveIncomplete, RemoveFiles, BucketOK, SessionOK, WritesOK, SessionKnowledgeHolds, Accounted, Exclusion, NoDanglingIndex
  <2> QED
    BY <1>0, <2>1, <2>2, <2>3, <2>4
<1>16. ASSUME NEW x \in Session, EndSession(x) PROVE IndInv'
  <2>1. Exclusion'
    BY <1>16
    DEF EndSession, ResetSlots, BucketOK, SessionOK, WritesOK, Exclusion
  <2>2. crossed' = {} => ListingsComplete' /\ PlanSafe'
    BY <1>16
    DEF EndSession, ResetSlots, BucketOK, SessionOK, WritesOK, ListingsComplete, PlanSafe, Exclusion
  <2>3. NoDanglingIndex'
    BY <1>16
    DEF EndSession, ResetSlots, BucketOK, SessionOK, WritesOK, NoDanglingIndex, Accounted, SessionKnowledgeHolds
  <2>4. SessionKnowledgeHolds'
    BY <1>16 DEF EndSession, ResetSlots, SessionKnowledgeHolds, Accounted, NoOp
  <2> QED
    BY <1>0, <2>1, <2>2, <2>3, <2>4
<1>17. CASE GcLock
  <2>1. Exclusion'
    BY <1>17
    DEF GcLock, CollectorMayLock, BucketOK, SessionOK, WritesOK, Exclusion
  <2>2. crossed' = {} => ListingsComplete' /\ PlanSafe'
    BY <1>17
    DEF GcLock, CollectorMayLock, BucketOK, SessionOK, WritesOK, ListingsComplete, PlanSafe, Exclusion
  <2>3. NoDanglingIndex'
    BY <1>17
    DEF GcLock, CollectorMayLock, BucketOK, SessionOK, WritesOK, NoDanglingIndex, Accounted, SessionKnowledgeHolds
  <2>4. SessionKnowledgeHolds'
    BY <1>17
    DEF GcLock, CollectorMayLock, BucketOK, SessionOK, WritesOK, SessionKnowledgeHolds, Accounted, Exclusion, NoDanglingIndex
  <2> QED
    BY <1>0, <2>1, <2>2, <2>3, <2>4
<1>18. CASE GcListBackups
  <2>1. Exclusion'
    BY <1>18
    DEF GcListBackups, BucketOK, SessionOK, WritesOK, Exclusion
  <2>2. crossed' = {} => ListingsComplete' /\ PlanSafe'
    BY <1>18
    DEF GcListBackups, NoInventory, CollectorOK, BucketOK, ListingsComplete, PlanSafe
  <2>3. NoDanglingIndex'
    BY <1>18
    DEF GcListBackups, BucketOK, SessionOK, WritesOK, NoDanglingIndex, Accounted, SessionKnowledgeHolds
  <2>4. SessionKnowledgeHolds'
    BY <1>18
    DEF GcListBackups, BucketOK, SessionOK, WritesOK, SessionKnowledgeHolds, Accounted, Exclusion, NoDanglingIndex
  <2> QED
    BY <1>0, <2>1, <2>2, <2>3, <2>4
<1>19. CASE GcInventory
  <2>1. Exclusion'
    BY <1>19
    DEF GcInventory, BucketOK, SessionOK, WritesOK, Exclusion
  <2>2. crossed' = {} => ListingsComplete' /\ PlanSafe'
    BY <1>19
    DEF GcInventory, BucketOK, SessionOK, WritesOK, ListingsComplete, PlanSafe, Exclusion
  <2>3. NoDanglingIndex'
    BY <1>19
    DEF GcInventory, BucketOK, SessionOK, WritesOK, NoDanglingIndex, Accounted, SessionKnowledgeHolds
  <2>4. SessionKnowledgeHolds'
    BY <1>19
    DEF GcInventory, BucketOK, SessionOK, WritesOK, SessionKnowledgeHolds, Accounted, Exclusion, NoDanglingIndex
  <2> QED
    BY <1>0, <2>1, <2>2, <2>3, <2>4
<1>20. CASE GcRefreshProtection
  <2>1. Exclusion'
    BY <1>20
    DEF GcRefreshProtection, StillDoomed, BucketOK, SessionOK, WritesOK, Exclusion
  <2>2. crossed' = {} => ListingsComplete' /\ PlanSafe'
    BY <1>20
    DEF GcRefreshProtection, StillDoomed, BucketOK, SessionOK, WritesOK, ListingsComplete, PlanSafe, Exclusion
  <2>3. NoDanglingIndex'
    BY <1>20
    DEF GcRefreshProtection, StillDoomed, BucketOK, SessionOK, WritesOK, NoDanglingIndex, Accounted, SessionKnowledgeHolds
  <2>4. SessionKnowledgeHolds'
    BY <1>20
    DEF GcRefreshProtection, StillDoomed, BucketOK, SessionOK, WritesOK, SessionKnowledgeHolds, Accounted, Exclusion, NoDanglingIndex
  <2> QED
    BY <1>0, <2>1, <2>2, <2>3, <2>4
<1>21. CASE GcPlan
  <2>1. Exclusion'
    BY <1>21
    DEF GcPlan, BuildGCPlan, Retained, KnownChunks, KnownHashes, BucketOK, SessionOK, WritesOK, Exclusion
  <2>2. crossed' = {} => ListingsComplete' /\ PlanSafe'
    BY <1>21
    DEF GcPlan, BuildGCPlan, Retained, KnownChunks, KnownHashes, BucketOK, SessionOK, WritesOK, ListingsComplete, PlanSafe, Exclusion
  <2>3. NoDanglingIndex'
    BY <1>21
    DEF GcPlan, BuildGCPlan, Retained, KnownChunks, KnownHashes, BucketOK, SessionOK, WritesOK, NoDanglingIndex, Accounted, SessionKnowledgeHolds
  <2>4. SessionKnowledgeHolds'
    BY <1>21
    DEF GcPlan, BuildGCPlan, Retained, KnownChunks, KnownHashes, BucketOK, SessionOK, WritesOK, SessionKnowledgeHolds, Accounted, Exclusion, NoDanglingIndex
  <2> QED
    BY <1>0, <2>1, <2>2, <2>3, <2>4
<1>22. CASE GcMarkCorrupted
  <2>1. Exclusion'
    BY <1>22
    DEF GcMarkCorrupted, GcExit, BucketOK, SessionOK, WritesOK, Exclusion
  <2>2. crossed' = {} => ListingsComplete' /\ PlanSafe'
    BY <1>22
    DEF GcMarkCorrupted, GcExit, BucketOK, SessionOK, WritesOK, ListingsComplete, PlanSafe, Exclusion
  <2>3. NoDanglingIndex'
    BY <1>22
    DEF GcMarkCorrupted, GcExit, BucketOK, SessionOK, WritesOK, NoDanglingIndex, Accounted, SessionKnowledgeHolds
  <2>4. SessionKnowledgeHolds'
    BY <1>22
    DEF GcMarkCorrupted, GcExit, BucketOK, SessionOK, WritesOK, SessionKnowledgeHolds, Accounted, Exclusion, NoDanglingIndex
  <2> QED
    BY <1>0, <2>1, <2>2, <2>3, <2>4
<1>23. CASE GcSweepBackups
  <2>1. Exclusion'
    BY <1>23
    DEF GcSweepBackups, AfterRemoving, GcExit, BucketOK, SessionOK, WritesOK, Exclusion
  <2>2. crossed' = {} => ListingsComplete' /\ PlanSafe'
    BY <1>23
    DEF GcSweepBackups, AfterRemoving, GcExit, BucketOK, SessionOK, WritesOK, ListingsComplete, PlanSafe, Exclusion
  <2>3. NoDanglingIndex'
    BY <1>23
    DEF GcSweepBackups, AfterRemoving, GcExit, BucketOK, SessionOK, WritesOK, NoDanglingIndex, Accounted, SessionKnowledgeHolds
  <2>4. SessionKnowledgeHolds'
    BY <1>23
    DEF GcSweepBackups, AfterRemoving, GcExit, BucketOK, SessionOK, WritesOK, SessionKnowledgeHolds, Accounted, Exclusion, NoDanglingIndex
  <2> QED
    BY <1>0, <2>1, <2>2, <2>3, <2>4
<1>24. CASE GcSweepIndexed
  <2>1. Exclusion'
    BY <1>24
    DEF GcSweepIndexed, AfterRemoving, GcExit, BucketOK, SessionOK, WritesOK, Exclusion
  <2>2. crossed' = {} => ListingsComplete' /\ PlanSafe'
    BY <1>24
    DEF GcSweepIndexed, AfterRemoving, GcExit, BucketOK, SessionOK, WritesOK, ListingsComplete, PlanSafe, Exclusion
  <2>3. NoDanglingIndex'
    BY <1>24
    DEF GcSweepIndexed, AfterRemoving, GcExit, BucketOK, SessionOK, WritesOK, NoDanglingIndex, Accounted, SessionKnowledgeHolds
  <2>4. SessionKnowledgeHolds'
    BY <1>24
    DEF GcSweepIndexed, AfterRemoving, GcExit, BucketOK, SessionOK, WritesOK, SessionKnowledgeHolds, Accounted, Exclusion, NoDanglingIndex
  <2> QED
    BY <1>0, <2>1, <2>2, <2>3, <2>4
<1>25. CASE GcSweepChunks
  <2>1. Exclusion'
    BY <1>25
    DEF GcSweepChunks, GcExit, BucketOK, SessionOK, WritesOK, Exclusion
  <2>2. crossed' = {} => ListingsComplete' /\ PlanSafe'
    BY <1>25
    DEF GcSweepChunks, GcExit, BucketOK, SessionOK, WritesOK, ListingsComplete, PlanSafe, Exclusion
  <2>3. NoDanglingIndex'
    <3> SUFFICES ASSUME crossed = {} PROVE NoDanglingIndex'
      BY <1>25 DEF GcSweepChunks, NoDanglingIndex
    <3>1. PICK r \in SUBSET plan.chunks : chunks' = chunks \ r
      BY <1>25 DEF GcSweepChunks
    <3>2. UNCHANGED <<files, idx, indexed, lost>> /\ gpc = "sweepChunks"
      BY <1>25 DEF GcSweepChunks
    <3>3. \A s \in Snap : "idx" \in files[s] => idx[s] \cap plan.chunks = {}
      BY <3>2 DEF PlanSafe
    <3>4. \A e \in indexed : e \cap plan.chunks = {}
      BY <3>2 DEF PlanSafe
    <3> QED
      BY <3>1, <3>2, <3>3, <3>4 DEF NoDanglingIndex, Accounted
  <2>4. SessionKnowledgeHolds'
    <3>1. \A x \in Session : known[x] = {} /\ base[x] = {} /\ op[x] = NoOp
      BY <1>25 DEF GcSweepChunks, Exclusion
    <3> QED
      BY <1>25, <3>1 DEF GcSweepChunks, SessionKnowledgeHolds, NoOp
  <2> QED
    BY <1>0, <2>1, <2>2, <2>3, <2>4
<1>26. CASE GcFatal
  <2>1. Exclusion'
    BY <1>26
    DEF GcFatal, GcExit, BucketOK, SessionOK, WritesOK, Exclusion
  <2>2. crossed' = {} => ListingsComplete' /\ PlanSafe'
    BY <1>26
    DEF GcFatal, GcExit, BucketOK, SessionOK, WritesOK, ListingsComplete, PlanSafe, Exclusion
  <2>3. NoDanglingIndex'
    BY <1>26
    DEF GcFatal, GcExit, BucketOK, SessionOK, WritesOK, NoDanglingIndex, Accounted, SessionKnowledgeHolds
  <2>4. SessionKnowledgeHolds'
    BY <1>26
    DEF GcFatal, GcExit, BucketOK, SessionOK, WritesOK, SessionKnowledgeHolds, Accounted, Exclusion, NoDanglingIndex
  <2> QED
    BY <1>0, <2>1, <2>2, <2>3, <2>4
<1>27. ASSUME NEW l \in late, LateWrite(l) PROVE IndInv'
  <2>1. Exclusion'
    BY <1>27
    DEF LateWrite, WriteLands, PutFile, FollowUp, BucketOK, SessionOK, WritesOK, Exclusion
  <2> SUFFICES ASSUME crossed' = {}
               PROVE  (ListingsComplete /\ PlanSafe /\ NoDanglingIndex /\ SessionKnowledgeHolds)'
    BY <1>0, <2>1 DEF NoDanglingIndex, SessionKnowledgeHolds
  <2>2. ~l.overrun /\ crossed = {}
    BY <1>27 DEF LateWrite
  <2>3. gpc = "idle" /\ l.index \subseteq Accounted
    BY <2>2 DEF LateSafe
  <2>4. ListingsComplete' /\ PlanSafe'
    BY <1>27, <2>3 DEF LateWrite, ListingsComplete, PlanSafe
  <2>5. NoDanglingIndex'
    BY <1>27, <2>2, <2>3
    DEF LateWrite, WriteLands, PutFile, BucketOK, WritesOK, LateOp, NoDanglingIndex, Accounted
  <2>6. SessionKnowledgeHolds'
    BY <1>27, <2>2 DEF LateWrite, SessionKnowledgeHolds, Accounted
  <2> QED
    BY <2>4, <2>5, <2>6
<1>28. ASSUME NEW l \in late, LateFailure(l) PROVE IndInv'
  <2>1. Exclusion'
    BY <1>28
    DEF LateFailure, BucketOK, SessionOK, WritesOK, Exclusion
  <2>2. crossed' = {} => ListingsComplete' /\ PlanSafe'
    BY <1>28
    DEF LateFailure, BucketOK, SessionOK, WritesOK, ListingsComplete, PlanSafe, Exclusion
  <2>3. NoDanglingIndex'
    BY <1>28
    DEF LateFailure, BucketOK, SessionOK, WritesOK, NoDanglingIndex, Accounted, SessionKnowledgeHolds
  <2>4. SessionKnowledgeHolds'
    BY <1>28
    DEF LateFailure, BucketOK, SessionOK, WritesOK, SessionKnowledgeHolds, Accounted, Exclusion, NoDanglingIndex
  <2> QED
    BY <1>0, <2>1, <2>2, <2>3, <2>4
<1>29. CASE ProxyExit
  <2>1. Exclusion'
    BY <1>29
    DEF ProxyExit, ResetSlots, BucketOK, SessionOK, WritesOK, Exclusion
  <2>2. crossed' = {} => ListingsComplete' /\ PlanSafe'
    BY <1>29
    DEF ProxyExit, ResetSlots, BucketOK, SessionOK, WritesOK, ListingsComplete, PlanSafe, Exclusion
  <2>3. NoDanglingIndex'
    BY <1>29
    DEF ProxyExit, ResetSlots, BucketOK, SessionOK, WritesOK, NoDanglingIndex, Accounted, SessionKnowledgeHolds
  <2>4. SessionKnowledgeHolds'
    BY <1>29 DEF ProxyExit, ResetSlots, SessionKnowledgeHolds, Accounted, NoOp
  <2> QED
    BY <1>0, <2>1, <2>2, <2>3, <2>4
<1>30. ASSUME NEW s \in Snap, UserDelete(s) PROVE IndInv'
  <2>1. Exclusion'
    BY <1>30
    DEF UserDelete, UserRequest, RemoveFiles, BucketOK, SessionOK, WritesOK, Exclusion
  <2>2. crossed' = {} => ListingsComplete' /\ PlanSafe'
    BY <1>30
    DEF UserDelete, UserRequest, RemoveFiles, BucketOK, SessionOK, WritesOK, ListingsComplete, PlanSafe, Exclusion
  <2>3. NoDanglingIndex'
    BY <1>30
    DEF UserDelete, UserRequest, RemoveFiles, BucketOK, SessionOK, WritesOK, NoDanglingIndex, Accounted, SessionKnowledgeHolds
  <2>4. SessionKnowledgeHolds'
    BY <1>30
    DEF UserDelete, UserRequest, RemoveFiles, BucketOK, SessionOK, WritesOK, SessionKnowledgeHolds, Accounted, Exclusion, NoDanglingIndex
  <2> QED
    BY <1>0, <2>1, <2>2, <2>3, <2>4
<1>31. ASSUME NEW s \in Snap, UploadBackupLog(s) PROVE IndInv'
  <2>1. Exclusion'
    BY <1>31
    DEF UploadBackupLog, UserRequest, PutFile, BucketOK, SessionOK, WritesOK, Exclusion
  <2>2. crossed' = {} => ListingsComplete' /\ PlanSafe'
    BY <1>31
    DEF UploadBackupLog, UserRequest, PutFile, BucketOK, SessionOK, WritesOK, ListingsComplete, PlanSafe, Exclusion
  <2>3. NoDanglingIndex'
    BY <1>31
    DEF UploadBackupLog, UserRequest, PutFile, BucketOK, SessionOK, WritesOK, NoDanglingIndex, Accounted, SessionKnowledgeHolds
  <2>4. SessionKnowledgeHolds'
    BY <1>31
    DEF UploadBackupLog, UserRequest, PutFile, BucketOK, SessionOK, WritesOK, SessionKnowledgeHolds, Accounted, Exclusion, NoDanglingIndex
  <2> QED
    BY <1>0, <2>1, <2>2, <2>3, <2>4
<1>32. ASSUME NEW s \in Snap, ToggleProtection(s) PROVE IndInv'
  <2>1. Exclusion'
    BY <1>32
    DEF ToggleProtection, UserRequest, BucketOK, SessionOK, WritesOK, Exclusion
  <2>2. crossed' = {} => ListingsComplete' /\ PlanSafe'
    BY <1>32
    DEF ToggleProtection, UserRequest, BucketOK, SessionOK, WritesOK, ListingsComplete, PlanSafe, Exclusion
  <2>3. NoDanglingIndex'
    BY <1>32
    DEF ToggleProtection, UserRequest, BucketOK, SessionOK, WritesOK, NoDanglingIndex, Accounted, SessionKnowledgeHolds
  <2>4. SessionKnowledgeHolds'
    BY <1>32
    DEF ToggleProtection, UserRequest, BucketOK, SessionOK, WritesOK, SessionKnowledgeHolds, Accounted, Exclusion, NoDanglingIndex
  <2> QED
    BY <1>0, <2>1, <2>2, <2>3, <2>4
<1>33. ASSUME NEW s \in Snap, Expire(s) PROVE IndInv'
  <2>1. Exclusion'
    BY <1>33
    DEF Expire, BucketOK, SessionOK, WritesOK, Exclusion
  <2>2. crossed' = {} => ListingsComplete' /\ PlanSafe'
    BY <1>33
    DEF Expire, BucketOK, SessionOK, WritesOK, ListingsComplete, PlanSafe, Exclusion
  <2>3. NoDanglingIndex'
    BY <1>33
    DEF Expire, BucketOK, SessionOK, WritesOK, NoDanglingIndex, Accounted, SessionKnowledgeHolds
  <2>4. SessionKnowledgeHolds'
    BY <1>33
    DEF Expire, BucketOK, SessionOK, WritesOK, SessionKnowledgeHolds, Accounted, Exclusion, NoDanglingIndex
  <2> QED
    BY <1>0, <2>1, <2>2, <2>3, <2>4
<1>34. ASSUME NEW c \in Chunk, AgeChunk(c) PROVE IndInv'
  <2>1. Exclusion'
    BY <1>34
    DEF AgeChunk, BucketOK, SessionOK, WritesOK, Exclusion
  <2>2. crossed' = {} => ListingsComplete' /\ PlanSafe'
    BY <1>34
    DEF AgeChunk, BucketOK, SessionOK, WritesOK, ListingsComplete, PlanSafe, Exclusion
  <2>3. NoDanglingIndex'
    BY <1>34
    DEF AgeChunk, BucketOK, SessionOK, WritesOK, NoDanglingIndex, Accounted, SessionKnowledgeHolds
  <2>4. SessionKnowledgeHolds'
    BY <1>34
    DEF AgeChunk, BucketOK, SessionOK, WritesOK, SessionKnowledgeHolds, Accounted, Exclusion, NoDanglingIndex
  <2> QED
    BY <1>0, <2>1, <2>2, <2>3, <2>4
<1>35. ASSUME NEW c \in Chunk, LoseChunk(c) PROVE IndInv'
  <2>1. Exclusion'
    BY <1>35
    DEF LoseChunk, BucketOK, SessionOK, WritesOK, Exclusion
  <2>2. crossed' = {} => ListingsComplete' /\ PlanSafe'
    BY <1>35
    DEF LoseChunk, BucketOK, SessionOK, WritesOK, ListingsComplete, PlanSafe, Exclusion
  <2>3. NoDanglingIndex'
    BY <1>35
    DEF LoseChunk, BucketOK, SessionOK, WritesOK, NoDanglingIndex, Accounted, SessionKnowledgeHolds
  <2>4. SessionKnowledgeHolds'
    BY <1>35
    DEF LoseChunk, BucketOK, SessionOK, WritesOK, SessionKnowledgeHolds, Accounted, Exclusion, NoDanglingIndex
  <2> QED
    BY <1>0, <2>1, <2>2, <2>3, <2>4
<1>36. CASE UNCHANGED vars
  BY <1>0, <1>36
  DEF Exclusion, ListingsComplete, PlanSafe, NoDanglingIndex, SessionKnowledgeHolds, Accounted
<1> QED
  BY <1>1, <1>2, <1>3, <1>4, <1>5, <1>6, <1>7, <1>8, <1>9, <1>10, <1>11, <1>12, <1>13, 
     <1>14, <1>15, <1>16, <1>17, <1>18, <1>19, <1>20, <1>21, <1>22, <1>23, <1>24, <1>25, 
     <1>26, <1>27, <1>28, <1>29, <1>30, <1>31, <1>32, <1>33, <1>34, <1>35, <1>36
  DEF Next, SessionStep, Collector, Environment

LEMMA InitIndInv == Init => IndInv
BY DEF Init, IndInv, Exclusion, LateSafe, ListingsComplete, PlanSafe, NoDanglingIndex, SessionKnowledgeHolds,
       NoOp

\* The inductive invariant holds in every reachable state.
THEOREM Inductive == Spec => []IndInv
<1>1. Init => TypeOK /\ IndInv
  BY InitTypeOK, InitIndInv
<1>2. TypeOK /\ IndInv /\ [Next]_vars => (TypeOK /\ IndInv)'
  BY NextTypeOK, NextIndInv
<1> QED
  BY <1>1, <1>2, PTL DEF Spec

\* Whatever the interleaving of sessions, aborts, proxy exits, lock-free requests
\* and collector runs that fail between two removals, no index and no copied
\* index references a chunk the collector removed (executeGCPlan's order of
\* removals), unless a write outlived its session and landed after a collector ran.
THEOREM NoDangling == Spec => []NoDanglingIndex
<1>1. IndInv => NoDanglingIndex
  BY DEF IndInv
<1> QED
  BY <1>1, Inductive, PTL

\* What a live session was told is stored stays stored until the session ends,
\* so an index written from it is complete (storeChunk's known answer, /previous).
THEOREM KnowledgeHolds == Spec => []SessionKnowledgeHolds
<1>1. IndInv => SessionKnowledgeHolds
  BY DEF IndInv
<1> QED
  BY <1>1, Inductive, PTL

LEMMA NextKeepsData == TypeOK /\ IndInv /\ [Next]_vars => [KeepsData]_vars
<1> SUFFICES ASSUME TypeOK, IndInv, Next, NEW x \in Session, st[x] # "idle"
             PROVE  chunks \ lost' \subseteq chunks' /\ indexed \subseteq indexed'
  BY DEF KeepsData
<1>1. gpc = "idle"
  BY DEF IndInv, Exclusion
<1>2. ASSUME NEW y \in Session, SessionStep(y)
      PROVE  chunks \ lost' \subseteq chunks' /\ indexed \subseteq indexed'
  BY <1>2 DEF SessionStep, OpenBackup, OpenRestore, Begin, Previous, Download, UploadChunk,
              UploadChunkUnacknowledged, StoreChunk, FixedClose, FixedCloseReuse, DynamicClose, Assignments,
              UploadManifest, StartWrite, FinishWrite, WriteLands, FailWrite, Finish, Disconnect,
              RemoveIncomplete, EndSession, bucketVars
<1>3. CASE Collector
  BY <1>1, <1>3 DEF Collector, GcLock, GcListBackups, GcInventory, GcRefreshProtection, GcPlan,
              GcMarkCorrupted, GcSweepBackups, GcSweepIndexed, GcSweepChunks, GcFatal, bucketVars
<1>4. CASE Environment
  BY <1>4 DEF Environment, LateWrite, WriteLands, LateFailure, ProxyExit, UserDelete,
              UploadBackupLog, ToggleProtection, Expire, AgeChunk, LoseChunk, bucketVars
<1> QED
  BY <1>2, <1>3, <1>4 DEF Next

\* The inter-process lock does its work: no step of any process removes a chunk
\* or a copied index while a backup or restore session is live.
THEOREM KeepData == Spec => LiveSessionsKeepData
<1>1. TypeOK /\ IndInv /\ [Next]_vars => [KeepsData]_vars
  BY NextKeepsData
<1> QED
  BY <1>1, TypeCorrect, Inductive, PTL DEF Spec, LiveSessionsKeepData

-----------------------------------------------------------------------------
(* Finished snapshots. *)

\* What is left of Intact when NoDanglingIndex is known.
Kept(s) == ArchiveStored(s) /\ "manifest" \in files[s]

LEMMA IntactKept ==
  ASSUME OwedIntact
  PROVE  \A s \in owed \ stray : Kept(s)
BY DEF OwedIntact, Intact, Kept, ArchiveStored

LEMMA KeptIntact ==
  ASSUME HistoryOK', IndInv', \A s \in (owed \ stray)' : Kept(s)'
  PROVE  OwedIntact'
<1> SUFFICES ASSUME NEW s \in (owed \ stray)' PROVE Intact(s)'
  BY DEF OwedIntact
<1>1. s \in Snap /\ Kept(s)'
  BY DEF HistoryOK
<1>2. crossed' = {} => idx'[s] \subseteq Accounted'
  BY <1>1 DEF IndInv, NoDanglingIndex, Kept, ArchiveStored
<1> QED
  BY <1>1, <1>2 DEF Intact, Kept, ArchiveStored

\* Steps that concern neither the objects of a snapshot, nor who writes to them, nor the
\* plans of the collector.
LEMMA AsideOwed ==
  ASSUME OwedInv, IndInv', HistoryOK',
         UNCHANGED <<files, idx, indexed, st, snap, op, acks, finished, owed, stray, gpc, inv,
                     plan, expired>>
  PROVE  OwedInv'
<1>1. WritersApart'
  BY DEF OwedInv, WritersApart, Writer
<1>2. AcksTrue'
  BY DEF OwedInv, AcksTrue, Undisturbed, ArchiveStored
<1>3. OwedSpared'
  BY DEF OwedInv, OwedSpared
<1>4. OwedIntact'
  BY IntactKept, KeptIntact DEF OwedInv, Kept, ArchiveStored
<1> QED
  BY <1>1, <1>2, <1>3, <1>4 DEF OwedInv

\* Steps of sessions that write nothing: the collector does not run, and nothing that is
\* owed from now on lacks a part.
LEMMA QuietOwed ==
  ASSUME OwedInv, IndInv', HistoryOK', WritersApart', AcksTrue',
         UNCHANGED <<files, idx, indexed, stray, gpc, inv, plan, expired>>,
         \A s \in owed' : s \in owed \/ (gpc = "idle" /\ (s \notin stray => Kept(s)))
  PROVE  OwedInv'
<1>1. OwedSpared'
  BY DEF OwedInv, OwedSpared
<1>2. OwedIntact'
  BY IntactKept, KeptIntact DEF OwedInv, Kept, ArchiveStored
<1> QED
  BY <1>1, <1>2 DEF OwedInv

\* Steps of the collector: no session is there to be told anything.
LEMMA GcOwed ==
  ASSUME OwedInv, IndInv, IndInv', HistoryOK', gpc # "idle",
         UNCHANGED <<st, snap, op, acks, finished>>, stray' = stray, owed' \subseteq owed,
         OwedSpared', \A s \in owed' \ stray : Kept(s)'
  PROVE  OwedInv'
<1>1. WritersApart'
  BY DEF OwedInv, WritersApart, Writer
<1>2. AcksTrue'
  BY DEF IndInv, Exclusion, AcksTrue, Undisturbed
<1>3. OwedIntact'
  BY KeptIntact
<1> QED
  BY <1>1, <1>2, <1>3 DEF OwedInv

\* A collector that has ended plans nothing.
LEMMA NothingPlanned ==
  ASSUME gpc' = "idle"
  PROVE  OwedSpared'
BY DEF OwedSpared

-----------------------------------------------------------------------------
(* Sessions. *)

LEMMA BeginOwed ==
  ASSUME TypeOK, IndInv, OwedInv, TypeOK', IndInv', NEW x \in Session, NEW s \in Snap,
         OpenBackup(x, s) \/ OpenRestore(x, s)
  PROVE  OwedInv'
<1> USE DEF TypeOK
<1>1. PICK p \in {"backup", "restore"} :
        /\ Begin(x, s, p)
        /\ p = "backup" => \A y \in Session : st[y] # "idle" => snap[y] # s
        /\ p = "backup" => owed' = owed \ {s}
        /\ p = "restore" => owed' = owed
  BY DEF OpenBackup, OpenRestore
<1>2. /\ st[x] = "idle" /\ st' = [st EXCEPT ![x] = p] /\ snap' = [snap EXCEPT ![x] = s]
      /\ UNCHANGED <<files, idx, indexed, op, acks, finished, stray, gpc, inv, plan, expired>>
  BY <1>1 DEF Begin, bucketVars, gcVars
<1>3. /\ st'[x] = p /\ snap'[x] = s /\ op[x] = NoOp /\ acks[x] = {} /\ x \notin finished
      /\ \A y \in Session \ {x} : st'[y] = st[y] /\ snap'[y] = snap[y]
  BY <1>2 DEF SessionOK, IndInv, Exclusion, OwedInv, WritersApart
<1>4. \A y \in Session \ {x} : Writer(y)' = Writer(y) /\ (Writer(y) => st[y] # "idle")
  BY <1>2, <1>3 DEF Writer, WritesOK
<1>5. WritersApart'
  <2>1. Writer(x)' => p = "backup"
    BY <1>2, <1>3 DEF Writer
  <2> QED
    BY <1>1, <1>2, <1>3, <1>4, <2>1 DEF OwedInv, WritersApart
<1>6. AcksTrue'
  <2>1. NoOp.step = "none"
    BY DEF NoOp
  <2> QED
    BY <1>2, <1>3, <2>1 DEF OwedInv, AcksTrue, Undisturbed, ArchiveStored
<1> QED
  BY <1>1, <1>2, <1>5, <1>6, QuietOwed

\* A handler starts a write, or its write fails.
LEMMA WriteOwed ==
  ASSUME TypeOK, OwedInv, TypeOK', IndInv', NEW x \in Session,
         \/ FixedClose(x) \/ FixedCloseReuse(x) \/ DynamicClose(x) \/ UploadManifest(x)
         \/ FailWrite(x)
  PROVE  OwedInv'
<1> USE DEF TypeOK
<1>1. /\ UNCHANGED <<files, idx, indexed, st, snap, acks, finished, owed, stray, gpc, inv,
                     plan, expired>>
      /\ \A y \in Session \ {x} : op'[y] = op[y]
  BY DEF FixedClose, FixedCloseReuse, DynamicClose, UploadManifest, StartWrite, FailWrite,
         bucketVars, gcVars, historyVars, WritesOK
<1>2. /\ Writer(x) /\ x \notin finished
      /\ \/ op'[x] = NoOp
         \/ op'[x].step = "manifest"
         \/ op'[x].step = "put" /\ "idx" \notin acks[x]
  BY DEF FixedClose, FixedCloseReuse, DynamicClose, UploadManifest, StartWrite, FailWrite,
         WritesOK, Writer, OwedInv, WritersApart
<1>3. WritersApart'
  <2>1. \A y \in Session : Writer(y)' => Writer(y)
    BY <1>1, <1>2 DEF Writer
  <2> QED
    BY <1>1, <1>2, <2>1 DEF OwedInv, WritersApart
<1>4. AcksTrue'
  <2>1. NoOp.step = "none"
    BY DEF NoOp
  <2> QED
    BY <1>1, <1>2, <2>1 DEF OwedInv, AcksTrue, Undisturbed, ArchiveStored
<1> QED
  BY <1>1, <1>3, <1>4, QuietOwed

\* The write of a session that is not over: nobody is owed its snapshot yet.
LEMMA FinishWriteOwed ==
  ASSUME TypeOK, IndInv, OwedInv, TypeOK', IndInv', NEW x \in Session, FinishWrite(x)
  PROVE  OwedInv'
<1> USE DEF TypeOK
<1> DEFINE s == snap[x]
<1>1. /\ op[x] # NoOp /\ WriteLands(s, op[x])
      /\ UNCHANGED <<st, snap, finished, owed, stray, gpc, inv, plan, expired>>
      /\ \A y \in Session \ {x} : op'[y] = op[y] /\ acks'[y] = acks[y]
  BY DEF FinishWrite, gcVars, historyVars, WritesOK, SessionOK
<1>2. Writer(x) /\ x \notin finished /\ st[x] # "idle" /\ s \in Snap /\ s \notin owed
  BY <1>1 DEF Writer, WritesOK, SessionOK, OwedInv, WritersApart
<1>3. /\ gpc = "idle" /\ indexed \subseteq indexed' /\ files[s] \subseteq files'[s]
      /\ \A t \in Snap \ {s} : files'[t] = files[t] /\ idx'[t] = idx[t]
  BY <1>1, <1>2 DEF WriteLands, PutFile, BucketOK, IndInv, Exclusion
<1>4. WritersApart'
  <2>1. \A y \in Session : Writer(y)' => Writer(y)
    BY <1>1, <1>2 DEF Writer
  <2> QED
    BY <1>1, <1>2, <2>1 DEF OwedInv, WritersApart
<1>5. AcksTrue'
  <2> SUFFICES ASSUME NEW y \in Session, Undisturbed(y)'
               PROVE  /\ op'[y].step \in {"put", "copy", "csjson"} => "idx" \notin acks'[y]
                      /\ op'[y].step \in {"copy", "csjson"} => "idx" \in files'[snap[y]]
                      /\ "idx" \in acks'[y] => ArchiveStored(snap[y])'
                      /\ "manifest" \in acks'[y] => "manifest" \in files'[snap[y]]
    BY <1>1 DEF AcksTrue
  <2>1. CASE y # x
    <3>1. Writer(y) /\ snap[y] # s /\ snap[y] \in Snap /\ Undisturbed(y)
      BY <1>1, <1>2, <2>1 DEF Undisturbed, Writer, SessionOK, OwedInv, WritersApart
    <3>2. files'[snap[y]] = files[snap[y]] /\ idx'[snap[y]] = idx[snap[y]]
      BY <1>3, <3>1
    <3> QED
      BY <1>1, <1>3, <2>1, <3>1, <3>2 DEF OwedInv, AcksTrue, ArchiveStored
  <2>2. CASE y = x
    <3>1. Undisturbed(x)
      BY <1>1, <2>2 DEF Undisturbed, FinishWrite, SessionOK
    <3> QED
      BY <1>1, <1>2, <2>2, <3>1
      DEF FinishWrite, WriteLands, PutFile, FollowUp, NoOp, BucketOK, SessionOK, WritesOK,
          OwedInv, AcksTrue, Undisturbed, ArchiveStored
  <2> QED
    BY <2>1, <2>2
<1>6. OwedSpared'
  BY <1>1, <1>3 DEF OwedSpared
<1>7. \A t \in (owed \ stray)' : Kept(t)'
  <2> SUFFICES ASSUME NEW t \in owed \ stray PROVE Kept(t)'
    BY <1>1
  <2>1. t \in Snap \ {s} /\ Kept(t)
    BY <1>2, IntactKept DEF HistoryOK, OwedInv
  <2> QED
    BY <1>3, <2>1 DEF Kept, ArchiveStored
<1> QED
  BY <1>4, <1>5, <1>6, <1>7, KeptIntact DEF OwedInv

\* From here on the client relies on what was acknowledged.
LEMMA FinishOwed ==
  ASSUME TypeOK, IndInv, OwedInv, TypeOK', IndInv', NEW x \in Session, Finish(x)
  PROVE  OwedInv'
<1> USE DEF TypeOK
<1>1. /\ st[x] = "backup" /\ op[x] = NoOp /\ finished' = finished \cup {x}
      /\ owed' = IF acks[x] = {"idx", "manifest"} THEN owed \cup {snap[x]} ELSE owed
      /\ UNCHANGED <<files, idx, indexed, st, snap, op, acks, stray, gpc, inv, plan, expired>>
  BY DEF Finish, bucketVars, gcVars
<1>2. gpc = "idle"
  BY <1>1 DEF IndInv, Exclusion
<1>3. WritersApart'
  BY <1>1 DEF OwedInv, WritersApart, Writer
<1>4. AcksTrue'
  BY <1>1 DEF OwedInv, AcksTrue, Undisturbed, ArchiveStored
<1>5. acks[x] = {"idx", "manifest"} /\ snap[x] \notin stray => Kept(snap[x])
  BY <1>1 DEF OwedInv, AcksTrue, Undisturbed, Kept
<1> QED
  BY <1>1, <1>2, <1>3, <1>4, <1>5, QuietOwed

\* The end of sessions, orderly or not.
LEMMA EndOwed ==
  ASSUME TypeOK, OwedInv, TypeOK', IndInv',
         ProxyExit \/ \E x \in Session : Disconnect(x) \/ EndSession(x)
  PROVE  OwedInv'
<1> USE DEF TypeOK
<1>1. /\ UNCHANGED <<files, idx, indexed, owed, stray, gpc, inv, plan, expired>>
      /\ finished' \subseteq finished
      /\ \A y \in Session :
           \/ /\ st'[y] = "idle" /\ op'[y] = NoOp /\ acks'[y] = {} /\ y \notin finished'
           \/ /\ snap'[y] = snap[y] /\ op'[y] = op[y] /\ acks'[y] = acks[y]
              /\ y \in finished' <=> y \in finished
              /\ \/ st'[y] = st[y]
                 \/ st[y] = "backup" /\ st'[y] = "closing" /\ y \notin finished
                 \/ st[y] \in {"backup", "restore"} /\ st'[y] = "cleaned"
  BY DEF ProxyExit, Disconnect, EndSession, ResetSlots, SessionOK, WritesOK, bucketVars, gcVars,
         historyVars
<1>2. \A y \in Session : Writer(y)' => Writer(y) /\ snap'[y] = snap[y]
  BY <1>1 DEF Writer
<1>3. WritersApart'
  <2>1. \A x, y \in Session : x # y /\ Writer(x)' /\ Writer(y)' => snap'[x] # snap'[y]
    BY <1>2 DEF OwedInv, WritersApart
  <2>2. \A x \in Session : x \in finished' => op'[x] = NoOp /\ st'[x] \notin {"idle", "closing"}
    BY <1>1 DEF OwedInv, WritersApart
  <2>3. \A x \in Session : Writer(x)' /\ snap'[x] \in owed' => x \in finished'
    BY <1>1, <1>2 DEF OwedInv, WritersApart, Writer
  <2>4. \A x \in Session : st'[x] = "idle" => acks'[x] = {}
    BY <1>1 DEF OwedInv, WritersApart
  <2> QED
    BY <2>1, <2>2, <2>3, <2>4 DEF WritersApart
<1>4. AcksTrue'
  BY <1>1 DEF OwedInv, AcksTrue, Undisturbed, ArchiveStored
<1> QED
  BY <1>1, <1>3, <1>4, QuietOwed

\* The objects of one snapshot are removed, and it is owed to nobody.
LEMMA RemoveOwed ==
  ASSUME TypeOK, OwedInv, TypeOK', IndInv', NEW s \in Snap, NEW r \in SUBSET files[s],
         RemoveFiles(s, r), WritersApart', s \notin owed' \ stray, owed' \subseteq owed,
         UNCHANGED <<indexed, op, snap, stray, gpc, inv, plan, expired>>,
         \A y \in Session : Undisturbed(y)' =>
           Undisturbed(y) /\ acks'[y] = acks[y] /\ snap[y] # s
  PROVE  OwedInv'
<1> USE DEF TypeOK
<1>1. \A t \in Snap \ {s} : files'[t] = files[t] /\ idx'[t] = idx[t]
  BY DEF RemoveFiles, BucketOK
<1>2. AcksTrue'
  <2> SUFFICES ASSUME NEW y \in Session, Undisturbed(y)'
               PROVE  /\ op[y].step \in {"put", "copy", "csjson"} => "idx" \notin acks[y]
                      /\ op[y].step \in {"copy", "csjson"} => "idx" \in files'[snap[y]]
                      /\ "idx" \in acks[y] => ArchiveStored(snap[y])'
                      /\ "manifest" \in acks[y] => "manifest" \in files'[snap[y]]
    BY DEF AcksTrue
  <2>1. Undisturbed(y) /\ snap[y] \in Snap \ {s}
    BY DEF Undisturbed, SessionOK
  <2> QED
    BY <1>1, <2>1 DEF OwedInv, AcksTrue, ArchiveStored
<1>3. OwedSpared'
  <2>1. \A t \in owed' \ stray : t \in owed \ stray /\ idx'[t] = idx[t]
    BY <1>1 DEF HistoryOK
  <2> QED
    BY <2>1 DEF OwedInv, OwedSpared
<1>4. \A t \in (owed \ stray)' : Kept(t)'
  <2> SUFFICES ASSUME NEW t \in owed' \ stray PROVE Kept(t)'
    OBVIOUS
  <2>1. t \in Snap \ {s} /\ Kept(t)
    BY IntactKept DEF HistoryOK, OwedInv
  <2> QED
    BY <1>1, <2>1 DEF Kept, ArchiveStored
<1> QED
  BY <1>2, <1>3, <1>4, KeptIntact DEF OwedInv

LEMMA RemoveIncompleteOwed ==
  ASSUME TypeOK, OwedInv, TypeOK', IndInv', NEW x \in Session, RemoveIncomplete(x)
  PROVE  OwedInv'
<1> USE DEF TypeOK
<1>1. PICK r \in SUBSET files[snap[x]] : RemoveFiles(snap[x], r)
  BY DEF RemoveIncomplete
<1>2. /\ st[x] = "closing" /\ st' = [st EXCEPT ![x] = "cleaned"]
      /\ UNCHANGED <<indexed, op, snap, acks, finished, owed, stray, gpc, inv, plan, expired>>
  BY DEF RemoveIncomplete, gcVars
<1>3. /\ Writer(x) /\ x \notin finished /\ snap[x] \in Snap \ owed
      /\ \A y \in Session \ {x} : st'[y] = st[y]
  BY <1>2 DEF Writer, SessionOK, OwedInv, WritersApart
<1>4. st'[x] = "cleaned" /\ \A y \in Session : Writer(y)' => Writer(y)
  BY <1>2, <1>3 DEF Writer, SessionOK
<1>5. WritersApart'
  BY <1>2, <1>3, <1>4 DEF OwedInv, WritersApart
<1>6. \A y \in Session : Undisturbed(y)' => Undisturbed(y) /\ snap[y] # snap[x]
  BY <1>2, <1>3, <1>4 DEF Undisturbed, Writer, OwedInv, WritersApart
<1> QED
  BY <1>1, <1>2, <1>3, <1>5, <1>6, RemoveOwed

LEMMA UserDeleteOwed ==
  ASSUME TypeOK, OwedInv, TypeOK', IndInv', NEW s \in Snap, UserDelete(s)
  PROVE  OwedInv'
<1> USE DEF TypeOK
<1>1. PICK r \in SUBSET files[s] : RemoveFiles(s, r)
  BY DEF UserDelete
<1>2. /\ owed' = owed \ {s}
      /\ UNCHANGED <<indexed, st, op, snap, finished, stray, gpc, inv, plan, expired>>
      /\ \A y \in Session : acks'[y] = IF st[y] # "idle" /\ snap[y] = s
                                       THEN acks[y] \cup {"deleted"} ELSE acks[y]
  BY DEF UserDelete, gcVars
<1>3. WritersApart'
  BY <1>2 DEF OwedInv, WritersApart, Writer
<1>4. \A y \in Session : Undisturbed(y)' =>
        Undisturbed(y) /\ acks'[y] = acks[y] /\ snap[y] # s
  BY <1>2 DEF Undisturbed
<1> QED
  BY <1>1, <1>2, <1>3, <1>4, RemoveOwed

\* A write that comes after its session: from now on its snapshot is a stray.
LEMMA LateWriteOwed ==
  ASSUME TypeOK, OwedInv, TypeOK', IndInv', NEW l \in late, LateWrite(l)
  PROVE  OwedInv'
<1> USE DEF TypeOK
<1> DEFINE s == l.snap
<1>1. /\ WriteLands(s, l) /\ stray' = stray \cup {s} /\ s \in Snap
      /\ UNCHANGED <<st, op, snap, acks, finished, owed, gpc, inv, plan, expired>>
  BY DEF LateWrite, sessionVars, gcVars, WritesOK, LateOp
<1> HIDE DEF s
<1>2. /\ indexed \subseteq indexed'
      /\ \A t \in Snap \ {s} : files'[t] = files[t] /\ idx'[t] = idx[t]
  BY <1>1 DEF WriteLands, PutFile, BucketOK
<1>3. WritersApart'
  BY <1>1 DEF OwedInv, WritersApart, Writer
<1>4. AcksTrue'
  <2> SUFFICES ASSUME NEW y \in Session, Undisturbed(y)'
               PROVE  /\ op[y].step \in {"put", "copy", "csjson"} => "idx" \notin acks[y]
                      /\ op[y].step \in {"copy", "csjson"} => "idx" \in files'[snap[y]]
                      /\ "idx" \in acks[y] => ArchiveStored(snap[y])'
                      /\ "manifest" \in acks[y] => "manifest" \in files'[snap[y]]
    BY <1>1 DEF AcksTrue
  <2>1. Undisturbed(y) /\ snap[y] \in Snap \ {s}
    BY <1>1 DEF Undisturbed, SessionOK
  <2>2. files'[snap[y]] = files[snap[y]] /\ idx'[snap[y]] = idx[snap[y]] /\ snap' = snap
    BY <1>1, <1>2, <2>1
  <2> QED
    BY <1>2, <2>1, <2>2 DEF OwedInv, AcksTrue, ArchiveStored
<1>5. \A t \in (owed \ stray)' : t \in (owed \ stray) \ {s} /\ t \in Snap
  BY <1>1 DEF HistoryOK
<1>6. OwedSpared'
  <2>1. \A t \in (owed \ stray)' : idx'[t] = idx[t]
    BY <1>2, <1>5
  <2> QED
    BY <1>1, <1>5, <2>1 DEF OwedInv, OwedSpared
<1>7. \A t \in (owed \ stray)' : Kept(t)'
  <2> SUFFICES ASSUME NEW t \in (owed \ stray)' PROVE Kept(t)'
    OBVIOUS
  <2>1. Kept(t) /\ t \in Snap \ {s}
    BY <1>5, IntactKept DEF OwedInv
  <2> QED
    BY <1>2, <2>1 DEF Kept, ArchiveStored
<1> QED
  BY <1>3, <1>4, <1>6, <1>7, KeptIntact DEF OwedInv

LEMMA BackupLogOwed ==
  ASSUME TypeOK, OwedInv, TypeOK', IndInv', NEW s \in Snap, UploadBackupLog(s)
  PROVE  OwedInv'
<1> USE DEF TypeOK
<1>1. /\ UNCHANGED <<idx, indexed, st, snap, op, acks, finished, owed, stray, gpc, inv, plan,
                     expired>>
      /\ \A t \in Snap : files[t] \subseteq files'[t]
  BY DEF UploadBackupLog, PutFile, BucketOK, sessionVars, gcVars
<1>2. WritersApart' /\ OwedSpared'
  BY <1>1 DEF OwedInv, WritersApart, Writer, OwedSpared
<1>3. AcksTrue'
  <2>1. \A y \in Session : Undisturbed(y)' => Undisturbed(y) /\ snap[y] \in Snap
    BY <1>1 DEF Undisturbed, SessionOK
  <2> QED
    BY <1>1, <2>1 DEF OwedInv, AcksTrue, ArchiveStored
<1>4. \A t \in (owed \ stray)' : Kept(t)'
  BY <1>1, IntactKept DEF OwedInv, HistoryOK, Kept, ArchiveStored
<1> QED
  BY <1>2, <1>3, <1>4, KeptIntact DEF OwedInv

LEMMA ExpireOwed ==
  ASSUME TypeOK, OwedInv, TypeOK', IndInv', NEW s \in Snap, Expire(s)
  PROVE  OwedInv'
<1> USE DEF TypeOK
<1>1. /\ expired \subseteq expired'
      /\ UNCHANGED <<files, idx, indexed, st, snap, op, acks, finished, owed, stray, gpc, inv,
                     plan>>
  BY DEF Expire, bucketVars, sessionVars, gcVars, historyVars
<1>2. WritersApart' /\ OwedSpared'
  BY <1>1 DEF OwedInv, WritersApart, Writer, OwedSpared
<1>3. AcksTrue'
  BY <1>1 DEF OwedInv, AcksTrue, Undisturbed, ArchiveStored
<1>4. OwedIntact'
  BY <1>1, IntactKept, KeptIntact DEF OwedInv, Kept, ArchiveStored
<1> QED
  BY <1>2, <1>3, <1>4 DEF OwedInv

-----------------------------------------------------------------------------
(* The collector, step by step: what is owed is listed, not doomed, and not planned. *)

LEMMA GcLockOwed ==
  ASSUME TypeOK, OwedInv, TypeOK', IndInv', GcLock
  PROVE  OwedInv'
<1>1. /\ gpc' = "list"
      /\ UNCHANGED <<files, idx, indexed, st, snap, op, acks, finished, owed, stray>>
  BY DEF GcLock, bucketVars, sessionVars, historyVars
<1>2. WritersApart' /\ OwedSpared'
  BY <1>1 DEF OwedInv, WritersApart, Writer, OwedSpared
<1>3. AcksTrue'
  BY <1>1 DEF OwedInv, AcksTrue, Undisturbed, ArchiveStored
<1>4. OwedIntact'
  BY <1>1, IntactKept, KeptIntact DEF OwedInv, TypeOK, Kept, ArchiveStored
<1> QED
  BY <1>2, <1>3, <1>4 DEF OwedInv

LEMMA GcListOwed ==
  ASSUME TypeOK, IndInv, OwedInv, TypeOK', IndInv', GcListBackups \/ GcInventory
  PROVE  OwedInv'
<1>1. /\ gpc # "idle"
      /\ UNCHANGED <<files, idx, indexed, st, snap, op, acks, finished, owed, stray, expired>>
  BY DEF GcListBackups, GcInventory, bucketVars, sessionVars, historyVars
<1>2. \A s \in owed' \ stray : Kept(s) /\ Kept(s)'
  BY <1>1, IntactKept DEF OwedInv, Kept, ArchiveStored
<1>3. OwedSpared'
  <2>1. CASE GcListBackups
    <3>1. gpc' = "idle" \/ (gpc' = "inventory" /\ inv'.files = files)
      BY <2>1 DEF GcListBackups, NoInventory
    <3> QED
      BY <1>1, <1>2, <3>1 DEF OwedSpared, Kept, ArchiveStored
  <2>2. CASE GcInventory
    <3>1. /\ gpc = "inventory" /\ gpc' = "refresh" /\ inv'.files = inv.files
          /\ inv'.doomed \subseteq expired
      BY <2>2 DEF GcInventory
    <3> QED
      BY <1>1, <3>1 DEF OwedInv, OwedSpared
  <2> QED
    BY <2>1, <2>2
<1> QED
  BY <1>1, <1>2, <1>3, GcOwed DEF TypeOK

\* What is past its retention and not protected is given up; the rest is not doomed.
LEMMA GcRefreshOwed ==
  ASSUME TypeOK, IndInv, OwedInv, TypeOK', IndInv', GcRefreshProtection
  PROVE  OwedInv'
<1> USE DEF TypeOK
<1>1. /\ gpc = "refresh" /\ gpc' = "plan"
      /\ inv'.files = inv.files /\ inv'.doomed = StillDoomed
      /\ owed' = owed \ {s \in expired : s \notin tagged}
      /\ UNCHANGED <<files, idx, indexed, st, snap, op, acks, finished, stray>>
  BY DEF GcRefreshProtection, CollectorOK, Inventory, bucketVars, sessionVars
<1>2. \A s \in owed' \ stray : Kept(s)'
  BY <1>1, IntactKept DEF OwedInv, Kept, ArchiveStored
<1>3. StillDoomed \cap (owed' \ stray) = {}
  BY <1>1 DEF OwedInv, OwedSpared, StillDoomed, Complete
<1>4. OwedSpared'
  BY <1>1, <1>3 DEF OwedInv, OwedSpared
<1> QED
  BY <1>1, <1>2, <1>4, GcOwed

LEMMA GcPlanOwed ==
  ASSUME TypeOK, IndInv, OwedInv, TypeOK', IndInv', GcPlan
  PROVE  OwedInv'
<1> USE DEF TypeOK
<1>1. /\ gpc = "plan" /\ gpc' \in {"corrupt", "sweepBackups"} /\ plan' = BuildGCPlan
      /\ UNCHANGED <<files, idx, indexed, st, snap, op, acks, finished, owed, stray>>
  BY DEF GcPlan, bucketVars, sessionVars, historyVars
<1>2. \A s \in owed \ stray : Kept(s)'
  BY <1>1, IntactKept DEF OwedInv, Kept, ArchiveStored
<1>3. ASSUME NEW s \in owed \ stray
      PROVE  /\ \A f \in File : <<s, f>> \notin BuildGCPlan.backups
             /\ s \in Dynamic \/ idx[s] \notin BuildGCPlan.indexed
  <2>1. s \in Retained
    BY <1>1 DEF OwedInv, OwedSpared, HistoryOK, Retained
  <2>2. s \notin inv.doomed
    BY <1>1 DEF OwedInv, OwedSpared
  <2> QED
    BY <2>1, <2>2 DEF BuildGCPlan, KnownHashes
<1>4. OwedSpared'
  BY <1>1, <1>3 DEF OwedSpared
<1> QED
  BY <1>1, <1>2, <1>4, GcOwed

LEMMA GcMarkOwed ==
  ASSUME TypeOK, IndInv, OwedInv, TypeOK', IndInv', GcMarkCorrupted
  PROVE  OwedInv'
<1>1. /\ gpc # "idle" /\ gpc' = "idle"
      /\ UNCHANGED <<idx, indexed, st, snap, op, acks, finished, owed, stray>>
      /\ \A s \in Snap : files[s] \subseteq files'[s]
  BY DEF GcMarkCorrupted, GcExit, sessionVars
<1>2. \A s \in owed \ stray : Kept(s)'
  BY <1>1, IntactKept DEF TypeOK, OwedInv, HistoryOK, Kept, ArchiveStored
<1> QED
  BY <1>1, <1>2, NothingPlanned, GcOwed DEF TypeOK

LEMMA GcSweepOwed ==
  ASSUME TypeOK, IndInv, OwedInv, TypeOK', IndInv',
         GcSweepBackups \/ GcSweepIndexed \/ GcSweepChunks \/ GcFatal
  PROVE  OwedInv'
<1> USE DEF TypeOK
<1>1. /\ gpc # "idle" /\ UNCHANGED <<st, snap, op, acks, finished, owed, stray>>
  BY DEF GcSweepBackups, GcSweepIndexed, GcSweepChunks, GcFatal, sessionVars, historyVars
<1>2. \/ gpc' = "idle"
      \/ /\ gpc \in {"sweepBackups", "sweepIndexed", "sweepChunks"} /\ plan' = plan
         /\ gpc' \in {"sweepIndexed", "sweepChunks"}
  BY DEF GcSweepBackups, GcSweepIndexed, GcSweepChunks, GcFatal, AfterRemoving, GcExit
<1>3. ASSUME NEW s \in owed \ stray
      PROVE  files'[s] = files[s] /\ idx'[s] = idx[s] /\ (Kept(s) => Kept(s)')
  <2>1. CASE GcSweepBackups
    <3>1. PICK r \in SUBSET plan.backups :
            /\ files' = [t \in Snap |-> files[t] \ {f \in File : <<t, f>> \in r}]
            /\ idx' = [t \in Snap |-> IF <<t, "idx">> \in r THEN {} ELSE idx[t]]
      BY <2>1 DEF GcSweepBackups
    <3>2. s \in Snap /\ \A f \in File : <<s, f>> \notin r
      BY <2>1, <3>1 DEF GcSweepBackups, OwedInv, OwedSpared, HistoryOK
    <3>3. files'[s] = files[s] /\ idx'[s] = idx[s]
      BY <3>1, <3>2 DEF File
    <3>4. indexed' = indexed
      BY <2>1 DEF GcSweepBackups
    <3> QED
      BY <3>3, <3>4 DEF Kept, ArchiveStored
  <2>2. CASE GcSweepIndexed
    <3>1. UNCHANGED <<files, idx>> /\ \E r \in SUBSET plan.indexed : indexed' = indexed \ r
      BY <2>2 DEF GcSweepIndexed
    <3>2. s \in Dynamic \/ idx[s] \notin plan.indexed
      BY <2>2 DEF GcSweepIndexed, OwedInv, OwedSpared
    <3> QED
      BY <3>1, <3>2 DEF Kept, ArchiveStored
  <2>3. CASE GcSweepChunks \/ GcFatal
    BY <2>3 DEF GcSweepChunks, GcFatal, bucketVars, Kept, ArchiveStored
  <2> QED
    BY <2>1, <2>2, <2>3
<1>4. \A s \in owed \ stray : Kept(s)'
  BY <1>3, IntactKept DEF OwedInv
<1>5. OwedSpared'
  BY <1>1, <1>2, <1>3 DEF OwedInv, OwedSpared
<1> QED
  BY <1>1, <1>4, <1>5, GcOwed

LEMMA NextOwedInv == TypeOK /\ IndInv /\ OwedInv /\ [Next]_vars => OwedInv'
<1> SUFFICES ASSUME TypeOK, IndInv, OwedInv, [Next]_vars PROVE OwedInv'
  OBVIOUS
<1>1. TypeOK' /\ IndInv'
  BY NextTypeOK, NextIndInv
<1>2. ASSUME \/ \E x \in Session :
                  \/ Previous(x) \/ Download(x)
                  \/ \E c \in Chunk : UploadChunk(x, c) \/ UploadChunkUnacknowledged(x, c)
             \/ \E l \in late : LateFailure(l)
             \/ \E s \in Snap : ToggleProtection(s)
             \/ \E c \in Chunk : AgeChunk(c) \/ LoseChunk(c)
             \/ UNCHANGED vars
      PROVE  OwedInv'
  <2>1. UNCHANGED <<files, idx, indexed, st, snap, op, acks, finished, owed, stray, gpc, inv,
                    plan, expired>>
    BY <1>2 DEF Previous, Download, UploadChunk, UploadChunkUnacknowledged, LateFailure,
       ToggleProtection, AgeChunk, LoseChunk, vars, bucketVars, sessionVars, gcVars, historyVars
  <2> QED
    BY <1>1, <2>1, AsideOwed DEF TypeOK
<1>3. ASSUME NEW x \in Session, SessionStep(x) PROVE OwedInv'
  BY <1>1, <1>2, <1>3, BeginOwed, WriteOwed, FinishWriteOwed, FinishOwed, EndOwed,
     RemoveIncompleteOwed DEF SessionStep
<1>4. CASE Collector
  BY <1>1, <1>4, GcLockOwed, GcListOwed, GcRefreshOwed, GcPlanOwed, GcMarkOwed, GcSweepOwed
     DEF Collector
<1>5. CASE Environment
  BY <1>1, <1>2, <1>5, LateWriteOwed, EndOwed, UserDeleteOwed, BackupLogOwed, ExpireOwed
     DEF Environment
<1> QED
  BY <1>2, <1>3, <1>4, <1>5 DEF Next

LEMMA InitOwedInv == Init => OwedInv
BY DEF Init, OwedInv, WritersApart, Writer, NoOp, AcksTrue, Undisturbed, OwedSpared, OwedIntact

\* What backup() and its handlers have acknowledged is true, the writers of a session
\* keep to their own snapshot, and the collector's lists spare what is owed.
THEOREM OwedInductive == Spec => []OwedInv
<1>1. Init => TypeOK /\ IndInv /\ OwedInv
  BY InitTypeOK, InitIndInv, InitOwedInv
<1>2. TypeOK /\ IndInv /\ OwedInv /\ [Next]_vars => (TypeOK /\ IndInv /\ OwedInv)'
  BY NextTypeOK, NextIndInv, NextOwedInv
<1> QED
  BY <1>1, <1>2, PTL DEF Spec

(***************************************************************************)
(* A finished snapshot stays restorable: its index, manifest, chunks and   *)
(* the copy incremental backups start from (fixed_close, dynamic_close,    *)
(* /blob, /finish against Delete, backup() and executeGCPlan), unless one  *)
(* of its own S3 writes outlives its session.                              *)
(***************************************************************************)
THEOREM FinishedStayIntact == Spec => []OwedIntact
<1>1. OwedInv => OwedIntact
  BY DEF OwedInv
<1> QED
  BY <1>1, OwedInductive, PTL

-----------------------------------------------------------------------------
(* The lock of one bucket, as DatastoreLock specifies it. *)

\* Sessions that hold the lock.
Live == {x \in Session : st[x] # "idle"}

Lock == INSTANCE DatastoreLock WITH
          Bucket     <- {"bucket"},
          inside     <- [b \in {"bucket"} |-> Live],
          collecting <- IF gpc = "idle" THEN {} ELSE {"bucket"}
UsesLock == Lock!Spec

\* A step by which nobody comes or goes.
LEMMA LockStutters ==
  ASSUME Live' = Live, (gpc = "idle") <=> (gpc' = "idle")
  PROVE  UNCHANGED Lock!vars
<1>1. [b \in {"bucket"} |-> Live]' = [b \in {"bucket"} |-> Live]
  OBVIOUS
<1>2. (IF gpc = "idle" THEN {} ELSE {"bucket"})' = IF gpc = "idle" THEN {} ELSE {"bucket"}
  OBVIOUS
<1> QED
  BY <1>1, <1>2 DEF Lock!vars

\* The steps of a session between its first and its last.
LEMMA SameLive ==
  ASSUME TypeOK, NEW x \in Session, NEW p \in Phase \ {"idle"}, st[x] # "idle",
         st' = [st EXCEPT ![x] = p]
  PROVE  Live' = Live
BY DEF TypeOK, SessionOK, Live

LEMMA SessionLocks ==
  ASSUME TypeOK, NEW x \in Session, SessionStep(x)
  PROVE  [Lock!Next]_Lock!vars
<1>1. ASSUME NEW s \in Snap, NEW p \in Phase \ {"idle"}, Begin(x, s, p) PROVE Lock!Enter(x, "bucket")
  <2>1. x \notin Live /\ Live' = Live \cup {x}
    BY <1>1 DEF Begin, TypeOK, SessionOK, Live
  <2>2. gpc = "idle" /\ gpc' = "idle"
    BY <1>1 DEF Begin, ProxyMayLock, gcVars
  <2> QED
    BY <2>1, <2>2 DEF Lock!Enter
<1>2. CASE EndSession(x)
  <2>1. x \in Live /\ Live' = Live \ {x} /\ gpc' = gpc
    BY <1>2 DEF EndSession, ResetSlots, TypeOK, SessionOK, Live, gcVars
  <2>2. Lock!Leave(x, "bucket")
    BY <2>1 DEF Lock!Leave
  <2> QED
    BY <2>2 DEF Lock!Next
<1>3. CASE Disconnect(x) \/ RemoveIncomplete(x)
  <2>1. Live' = Live
    BY <1>3, SameLive DEF Disconnect, RemoveIncomplete, Phase
  <2> QED
    BY <1>3, <2>1, LockStutters DEF Disconnect, RemoveIncomplete, gcVars
<1>4. ASSUME st' = st, gpc' = gpc PROVE UNCHANGED Lock!vars
  BY <1>4, LockStutters DEF Live
<1>5. \A s \in Snap : OpenBackup(x, s) \/ OpenRestore(x, s) => Lock!Next
  BY <1>1 DEF OpenBackup, OpenRestore, Lock!Next, Phase
<1>6. \/ Previous(x) \/ Download(x)
      \/ \E c \in Chunk : UploadChunk(x, c) \/ UploadChunkUnacknowledged(x, c)
      \/ FixedClose(x) \/ FixedCloseReuse(x) \/ DynamicClose(x) \/ UploadManifest(x)
      \/ FinishWrite(x) \/ FailWrite(x) \/ Finish(x)
      => st' = st /\ gpc' = gpc
  BY DEF Previous, Download, UploadChunk, UploadChunkUnacknowledged, FixedClose,
         FixedCloseReuse, DynamicClose, UploadManifest, StartWrite, FinishWrite, FailWrite,
         Finish, sessionVars, gcVars
<1> QED
  BY <1>2, <1>3, <1>4, <1>5, <1>6 DEF SessionStep

LEMMA CollectorLocks ==
  ASSUME TypeOK, Collector
  PROVE  [Lock!Next]_Lock!vars
<1>1. st' = st
  BY DEF Collector, GcLock, GcListBackups, GcInventory, GcRefreshProtection, GcPlan,
         GcMarkCorrupted, GcSweepBackups, GcSweepIndexed, GcSweepChunks, GcFatal, sessionVars
<1>2. CASE GcLock
  <2>1. Live = {} /\ Live' = Live /\ gpc = "idle" /\ gpc' # "idle"
    BY <1>1, <1>2 DEF GcLock, CollectorMayLock, Live
  <2>2. Lock!Collect("bucket")
    BY <2>1 DEF Lock!Collect
  <2> QED
    BY <2>2 DEF Lock!Next
<1>3. CASE ~GcLock
  <2>1. gpc # "idle" /\ Live' = Live
    BY <1>1, <1>3 DEF Collector, GcListBackups, GcInventory, GcRefreshProtection, GcPlan,
       GcMarkCorrupted, GcSweepBackups, GcSweepIndexed, GcSweepChunks, GcFatal, Live
  <2>2. CASE gpc' = "idle"
    <3>1. Lock!Release("bucket")
      BY <2>1, <2>2 DEF Lock!Release
    <3> QED
      BY <3>1 DEF Lock!Next
  <2>3. CASE gpc' # "idle"
    BY <2>1, <2>3, LockStutters
  <2> QED
    BY <2>2, <2>3
<1> QED
  BY <1>2, <1>3

LEMMA EnvironmentLocks ==
  ASSUME TypeOK, Environment
  PROVE  [Lock!Next]_Lock!vars
<1>1. gpc' = gpc
  BY DEF Environment, LateWrite, LateFailure, ProxyExit, UserDelete, UploadBackupLog,
         ToggleProtection, Expire, AgeChunk, LoseChunk, gcVars
<1>2. CASE ProxyExit
  <2>1. Live' = {}
    BY <1>2 DEF ProxyExit, ResetSlots, Live
  <2>2. Lock!LeaveAll
    BY <1>1, <2>1 DEF Lock!LeaveAll
  <2> QED
    BY <2>2 DEF Lock!Next
<1>3. CASE ~ProxyExit
  <2>1. st' = st
    BY <1>3 DEF Environment, LateWrite, LateFailure, UserDelete, UploadBackupLog,
       ToggleProtection, Expire, AgeChunk, LoseChunk, sessionVars
  <2> QED
    BY <1>1, <2>1, LockStutters DEF Live
<1> QED
  BY <1>2, <1>3

\* Sessions, collectors and exits of the proxy come and go as DatastoreLock specifies,
\* which is the specification that SessionLock implements: beginDataStoreSession and the
\* collector's mutex.Acquire keep them apart, whatever ends first or fails in between.
THEOREM RespectsLock == Spec => UsesLock
<1>1. Init => Lock!Init
  BY DEF Init, Lock!Init, Live
<1>2. TypeOK /\ [Next]_vars => [Lock!Next]_Lock!vars
  <2> SUFFICES ASSUME TypeOK, [Next]_vars PROVE [Lock!Next]_Lock!vars
    OBVIOUS
  <2>1. CASE UNCHANGED vars
    BY <2>1, LockStutters DEF vars, sessionVars, gcVars, Live
  <2> QED
    BY <2>1, SessionLocks, CollectorLocks, EnvironmentLocks DEF Next
<1> QED
  BY <1>1, <1>2, TypeCorrect, PTL DEF Spec, UsesLock, Lock!Spec
=============================================================================
