-------------------------- MODULE ChunkUploadProofs --------------------------
(***************************************************************************)
(* Proofs about ChunkUpload, for any uploads, requests, bounds and faults. *)
(*                                                                         *)
(* WithinQuota rests on three facts.  O_EXCL lets one merge at a time work *)
(* on a target (SoleMerger, TargetThere).  The quota that a transaction    *)
(* has read is still the quota as long as its snapshot is not stale, since *)
(* whoever changes it commits and makes it stale (SnapshotFits).           *)
(*                                                                         *)
(* ChunksKeptUntilRegistered and MergedIsComplete need that requests which *)
(* do not overlap are about different chunks (Alone, Separate), and that a *)
(* request knows the length of its chunk (Written).  PendingCovered and    *)
(* ExactWhenIdle compare a row with what it owes to each chunk (Owed): the *)
(* length of it, or while a request works on it the reservation and the    *)
(* length it had before (Covered, Exact).                                  *)
(***************************************************************************)
EXTENDS ChunkUpload, Sums, TLAPS

\* The target of a merge belongs to it while it copies and charges.
Merging(s) == At(s, "copying") \/ At(s, "copied") \/ At(s, "charging")

Shape ==
  /\ req = [s \in Slots |-> req[s]]
  /\ \A s \in Slots : req[s] # None => {"pc", "id"} \subseteq DOMAIN req[s]

SoleMerger ==
  \A s, t \in Slots : s # t /\ Merging(s) /\ Merging(t) => req[s].id # req[t].id

TargetThere == \A s \in Slots : Merging(s) => req[s].id \in DOMAIN out

SnapshotFits ==
  \A s \in Slots : At(s, "charging") /\ s \notin stale =>
                     used + Ceil(out[req[s].id]) <= Quota

QuotaInv == Shape /\ SoleMerger /\ TargetThere /\ SnapshotFits /\ WithinQuota

USE DEF At

\* A step of a request that is not merging, before or after, and that leaves the
\* targets and the quota alone, keeps the invariant.
LEMMA Harmless ==
  ASSUME QuotaInv, NEW s \in Slots,
         UNCHANGED <<out, used>>,
         \A t \in Slots \ {s} : t \in stale => t \in stale' \/ ~At(t, "charging"),
         Shape',
         \A t \in Slots \ {s} : req'[t] = req[t],
         ~Merging(s)'
  PROVE  QuotaInv'
<1>1. \A t \in Slots : Merging(t)' => t # s /\ Merging(t) /\ req'[t].id = req[t].id
  BY DEF Merging
<1>2. SoleMerger'
  BY <1>1 DEF SoleMerger, QuotaInv
<1>3. TargetThere'
  BY <1>1 DEF TargetThere, QuotaInv
<1>4. SnapshotFits'
  <2> SUFFICES ASSUME NEW t \in Slots, At(t, "charging")', t \notin stale'
               PROVE  used' + Ceil(out'[req'[t].id]) <= Quota
    BY DEF SnapshotFits, Ceil
  <2>1. t # s /\ At(t, "charging") /\ req'[t].id = req[t].id
    BY <1>1 DEF Merging
  <2>2. t \notin stale
    BY <2>1
  <2> QED BY <2>1, <2>2 DEF SnapshotFits, QuotaInv, Ceil
<1> QED BY <1>2, <1>3, <1>4 DEF QuotaInv, WithinQuota

\* So does a step of a merge on the one target that no other merge works on.
LEMMA OwnTarget ==
  ASSUME QuotaInv, NEW s \in Slots, NEW id,
         \A t \in Slots \ {s} : Merging(t) => req[t].id # id,
         UNCHANGED used,
         \A i \in DOMAIN out \ {id} : i \in DOMAIN out' /\ out'[i] = out[i],
         \A t \in Slots \ {s} : t \in stale => t \in stale' \/ ~At(t, "charging"),
         Shape',
         \A t \in Slots \ {s} : req'[t] = req[t],
         Merging(s)' => req'[s].id = id /\ id \in DOMAIN out',
         At(s, "charging")' /\ s \notin stale' => used' + Ceil(out'[id]) <= Quota
  PROVE  QuotaInv'
<1>1. \A t \in Slots \ {s} : Merging(t)' => Merging(t) /\ req'[t].id = req[t].id
  BY DEF Merging
<1>2. SoleMerger'
  BY <1>1 DEF SoleMerger, QuotaInv
<1>3. \A t \in Slots \ {s} : Merging(t) =>
        req[t].id \in DOMAIN out' /\ out'[req[t].id] = out[req[t].id]
  BY DEF TargetThere, QuotaInv
<1>4. TargetThere'
  BY <1>1, <1>3 DEF TargetThere, QuotaInv
<1>5. SnapshotFits'
  <2> SUFFICES ASSUME NEW t \in Slots, At(t, "charging")', t \notin stale'
               PROVE  used' + Ceil(out'[req'[t].id]) <= Quota
    BY DEF SnapshotFits, Ceil
  <2>1. CASE t = s
    BY <2>1 DEF Merging
  <2>2. CASE t # s
    <3>1. At(t, "charging") /\ Merging(t) /\ req'[t].id = req[t].id
      BY <1>1, <2>2 DEF Merging
    <3>2. t \notin stale
      BY <2>2, <3>1
    <3>3. out'[req'[t].id] = out[req[t].id]
      BY <1>3, <2>2, <3>1
    <3>4. used + Ceil(out[req[t].id]) <= Quota
      BY <3>1, <3>2 DEF SnapshotFits, QuotaInv
    <3> QED BY <3>3, <3>4 DEF Ceil
  <2> QED BY <2>1, <2>2
<1> QED BY <1>2, <1>4, <1>5 DEF QuotaInv, WithinQuota

------------------------------------------------------------------------------
LEMMA QuotaInvInit == Init => QuotaInv
<1> SUFFICES ASSUME Init PROVE QuotaInv
  OBVIOUS
<1>1. \A s \in Slots : req[s] = None
  BY DEF Init
<1>2. Shape
  BY DEF Init, Shape
<1>3. WithinQuota
  BY ChunkAssumption DEF Init, WithinQuota
<1> QED
  BY <1>1, <1>2, <1>3 DEF QuotaInv, SoleMerger, TargetThere, SnapshotFits, Merging

\* The steps of upload_chunk
LEMMA UploadKeepsQuota ==
  ASSUME QuotaInv, NEW s \in Slots, Upload(s)
  PROVE  QuotaInv'
<1>0. Shape
  BY DEF QuotaInv
<1>1. ASSUME NEW id \in Ids, NEW k \in DOMAIN Chunks[id], Reserve(s, id, k)
      PROVE  QuotaInv'
  BY <1>0, <1>1, Harmless DEF Reserve, Commits, Shape, Merging
<1>2. CASE Truncate(s)
  BY <1>0, <1>2, Harmless DEF Truncate, Shape, Merging
<1>3. CASE CreateFails(s)
  BY <1>0, <1>3, Harmless DEF CreateFails, Done, Shape, Merging
<1>4. CASE Write(s)
  BY <1>0, <1>4, Harmless DEF Write, Shape, Merging
<1>5. CASE EndOfStream(s)
  BY <1>0, <1>5, Harmless DEF EndOfStream, Step, Shape, Merging
<1>6. CASE Reject(s)
  BY <1>0, <1>6, Harmless DEF Reject, Shape, Merging
<1>7. CASE Correct(s)
  BY <1>0, <1>7, Harmless DEF Correct, Commits, Shape, Merging
<1>8. CASE ReadSizes(s)
  BY <1>0, <1>8, Harmless DEF ReadSizes, Shape, Merging
<1>9. CASE WriteSizes(s)
  BY <1>0, <1>9, Harmless DEF WriteSizes, Done, Commits, Shape, Merging
<1> QED
  BY <1>1, <1>2, <1>3, <1>4, <1>5, <1>6, <1>7, <1>8, <1>9 DEF Upload

\* The steps of merge_chunks
LEMMA MergeKeepsQuota ==
  ASSUME QuotaInv, NEW s \in Slots, Merge(s)
  PROVE  QuotaInv'
<1>0. Shape
  BY DEF QuotaInv
<1>00. Merging(s) => \A t \in Slots \ {s} : Merging(t) => req[t].id # req[s].id
  BY DEF QuotaInv, SoleMerger
<1>1. ASSUME NEW id \in Ids, MergeCheck(s, id)
      PROVE  QuotaInv'
  BY <1>0, <1>1, Harmless DEF MergeCheck, Shape, Merging
<1>2. CASE MergeCreate(s)
  <2>1. CASE req[s].id \in DOMAIN out
    BY <1>0, <1>2, <2>1, Harmless DEF MergeCreate, Done, Shape, Merging
  <2>2. CASE req[s].id \notin DOMAIN out
    <3>1. \A t \in Slots \ {s} : Merging(t) => req[t].id # req[s].id
      BY <2>2 DEF QuotaInv, TargetThere
    <3>2. out' = Put(out, req[s].id, 0) /\ Step(s, "copying") /\ UNCHANGED <<used, stale>>
      BY <1>2, <2>2 DEF MergeCreate
    <3>3. Shape'
      BY <1>0, <1>2, <3>2 DEF MergeCreate, Step, Shape
    <3>4. req'[s].id = req[s].id /\ ~At(s, "charging")'
      BY <1>0, <1>2, <3>2 DEF MergeCreate, Step, Shape
    <3>5. req[s].id \in DOMAIN out' /\ \A i \in DOMAIN out \ {req[s].id} : i \in DOMAIN out' /\ out'[i] = out[i]
      BY <3>2 DEF Put
    <3>6. \A t \in Slots \ {s} : req'[t] = req[t]
      BY <1>0, <3>2 DEF Step, Shape
    <3> QED BY <3>1, <3>2, <3>3, <3>4, <3>5, <3>6, OwnTarget
  <2> QED BY <2>1, <2>2
<1>3. CASE MergeCopy(s)
  <2>1. Merging(s) /\ UNCHANGED <<used, stale>>
    BY <1>3 DEF MergeCopy, Merging
  <2>2. \A i \in DOMAIN out \ {req[s].id} : i \in DOMAIN out' /\ out'[i] = out[i]
    BY <1>3 DEF MergeCopy, Put, Drop, Restrict
  <2>3. Shape' /\ \A t \in Slots \ {s} : req'[t] = req[t]
    BY <1>0, <1>3 DEF MergeCopy, Step, Done, Shape
  <2>4. Merging(s)' => req'[s].id = req[s].id /\ req[s].id \in DOMAIN out' /\ ~At(s, "charging")'
    BY <1>0, <1>3 DEF MergeCopy, Step, Done, Shape, Put, Merging
  <2> QED BY <1>00, <2>1, <2>2, <2>3, <2>4, OwnTarget DEF Merging
<1>4. CASE MergeBegin(s)
  <2>1. Merging(s) /\ UNCHANGED <<used, stale, out>> /\ used + Ceil(out[req[s].id]) <= Quota
    BY <1>4 DEF MergeBegin, Merging
  <2>2. Shape' /\ \A t \in Slots \ {s} : req'[t] = req[t]
    BY <1>0, <1>4 DEF MergeBegin, Step, Shape
  <2>3. req'[s].id = req[s].id /\ req[s].id \in DOMAIN out
    BY <1>0, <1>4, <2>1 DEF MergeBegin, Step, Shape, QuotaInv, TargetThere
  <2> QED BY <1>00, <2>1, <2>2, <2>3, OwnTarget DEF Ceil
<1>5. CASE MergeReject(s)
  <2>1. Merging(s) /\ UNCHANGED used /\ \A t \in Slots \ {s} : t \in stale => t \in stale'
    BY <1>5 DEF MergeReject, Merging
  <2>2. \A i \in DOMAIN out \ {req[s].id} : i \in DOMAIN out' /\ out'[i] = out[i]
    BY <1>5 DEF MergeReject, Drop, Restrict
  <2>3. Shape' /\ ~Merging(s)' /\ \A t \in Slots \ {s} : req'[t] = req[t]
    BY <1>0, <1>5 DEF MergeReject, Done, Shape, Merging
  <2> QED BY <1>00, <2>1, <2>2, <2>3, OwnTarget DEF Merging
<1>6. CASE MergeCommit(s)
  <2>1. Shape' /\ ~Merging(s)' /\ \A t \in Slots \ {s} : req'[t] = req[t]
    BY <1>0, <1>6 DEF MergeCommit, Step, Shape, Merging
  <2>2. \A t \in Slots : Merging(t)' => t # s /\ Merging(t) /\ req'[t].id = req[t].id
    BY <2>1 DEF Merging
  <2>3. SoleMerger' /\ TargetThere'
    BY <1>6, <2>2 DEF QuotaInv, SoleMerger, TargetThere, MergeCommit
  <2>4. SnapshotFits'
    BY <1>6, <2>1, <2>2 DEF SnapshotFits, MergeCommit, Commits, Merging
  <2>5. WithinQuota'
    BY <1>6 DEF MergeCommit, QuotaInv, SnapshotFits, WithinQuota
  <2> QED BY <2>1, <2>3, <2>4, <2>5 DEF QuotaInv
<1>7. CASE MergeFail(s)
  BY <1>0, <1>7, Harmless DEF MergeFail, Done, Shape, Merging
<1>8. CASE MergeClean(s)
  BY <1>0, <1>8, Harmless DEF MergeClean, Step, Shape, Merging
<1>9. CASE MergeForget(s)
  BY <1>0, <1>9, Harmless DEF MergeForget, Done, Commits, Shape, Merging
<1> QED
  BY <1>1, <1>2, <1>3, <1>4, <1>5, <1>6, <1>7, <1>8, <1>9 DEF Merge

\* Dropped requests, crashes and the sweeps
LEMMA OthersKeepQuota ==
  ASSUME QuotaInv,
         \/ \E s \in Slots : Disconnect(s)
         \/ \E id \in Ids : ExpireRow(id) \/ SweepChunks(id)
         \/ Crash
         \/ UNCHANGED vars
  PROVE  QuotaInv'
<1>0. Shape
  BY DEF QuotaInv
<1>1. ASSUME NEW s \in Slots, Disconnect(s)
      PROVE  QuotaInv'
  <2>1. Shape' /\ ~Merging(s)' /\ \A t \in Slots \ {s} : req'[t] = req[t]
    BY <1>0, <1>1 DEF Disconnect, Done, Shape, Merging
  <2>2. UNCHANGED used /\ \A t \in Slots \ {s} : t \in stale => t \in stale'
    BY <1>1 DEF Disconnect
  <2>3. CASE At(s, "copying")
    <3>1. \A i \in DOMAIN out \ {req[s].id} : i \in DOMAIN out' /\ out'[i] = out[i]
      BY <1>1 DEF Disconnect, Drop, Restrict
    <3>2. \A t \in Slots \ {s} : Merging(t) => req[t].id # req[s].id
      BY <2>3 DEF QuotaInv, SoleMerger, Merging
    <3> QED BY <2>1, <2>2, <3>1, <3>2, OwnTarget DEF Merging
  <2>4. CASE ~At(s, "copying")
    BY <1>1, <2>1, <2>2, <2>4, Harmless DEF Disconnect
  <2> QED BY <2>3, <2>4
<1>2. ASSUME UNCHANGED <<req, out, used>>, \A t \in Slots : t \in stale => t \in stale'
      PROVE  QuotaInv'
  BY <1>2 DEF QuotaInv, Shape, SoleMerger, TargetThere, SnapshotFits, WithinQuota, Merging, Ceil
<1>3. ASSUME NEW id \in Ids, ExpireRow(id) \/ SweepChunks(id)
      PROVE  QuotaInv'
  BY <1>2, <1>3 DEF ExpireRow, SweepChunks
<1>4. CASE Crash
  BY <1>4 DEF Crash, QuotaInv, Shape, SoleMerger, TargetThere, SnapshotFits, WithinQuota, Merging
<1>5. CASE UNCHANGED vars
  BY <1>2, <1>5 DEF vars
<1> QED BY <1>1, <1>3, <1>4, <1>5

\* However many merges run at once, and whatever fails, what is charged stays
\* within the quota (the transaction of merge_chunks).
THEOREM QuotaHolds == Spec => []WithinQuota
<1>1. QuotaInv /\ [Next]_vars => QuotaInv'
  BY UploadKeepsQuota, MergeKeepsQuota, OthersKeepQuota DEF Next
<1>2. QuotaInv => WithinQuota
  BY DEF QuotaInv
<1> QED BY QuotaInvInit, <1>1, <1>2, PTL DEF Spec

------------------------------------------------------------------------------
(* ChunksKeptUntilRegistered.  Without overlapping requests a merge has its  *)
(* upload to itself from its first check (Alone), so the chunks it saw are   *)
(* there when it copies (ChunksThere), MergeCleanup has no occasion to remove *)
(* them, and when it does remove them their file is registered (Registered). *)

InMerge(s) == req[s] # None /\ req[s].pc \in MergePcs

Requests ==
  /\ tmp = [id \in Ids |-> tmp[id]]
  /\ req = [s \in Slots |-> req[s]]
  /\ \A s \in Slots : req[s] # None =>
       /\ {"pc", "id", "index"} \subseteq DOMAIN req[s]
       /\ req[s].id \in Ids
       /\ \/ req[s].pc \in ChunkPcs /\ req[s].index \in DOMAIN Chunks[req[s].id]
          \/ req[s].pc \in MergePcs /\ req[s].index = None /\ "chunks" \in DOMAIN req[s]

Alone ==
  "overlap" \notin faults =>
    \A s, t \in Slots : s # t /\ InMerge(s) /\ req[t] # None => req[t].id # req[s].id

ChunksThere ==
  "overlap" \notin faults =>
    \A s \in Slots : At(s, "checked") \/ At(s, "copying") =>
                       req[s].chunks \subseteq DOMAIN tmp[req[s].id]

Registered == \A s \in Slots : At(s, "merged") => req[s].id \in DOMAIN files

KeepInv == Requests /\ Alone /\ ChunksThere /\ Registered

\* A step of a request that was there before, on the chunks of its own upload
LEMMA OwnChunks ==
  ASSUME KeepInv, NEW s \in Slots, req[s] # None,
         UNCHANGED faults, DOMAIN files \subseteq DOMAIN files',
         Requests',
         \A t \in Slots \ {s} : req'[t] = req[t],
         \A id \in Ids \ {req[s].id} : tmp'[id] = tmp[id],
         req'[s] # None => req'[s].id = req[s].id /\ (InMerge(s)' => InMerge(s)),
         At(s, "merged")' => req[s].id \in DOMAIN files',
         "overlap" \notin faults /\ (At(s, "checked") \/ At(s, "copying"))' =>
            req'[s].chunks \subseteq DOMAIN tmp'[req[s].id]
  PROVE  KeepInv'
<1>1. Alone'
  BY DEF Alone, KeepInv, InMerge
<1>2. Registered'
  BY DEF Registered, KeepInv
<1>3. ChunksThere'
  <2> SUFFICES ASSUME "overlap" \notin faults, NEW t \in Slots, t # s,
                      (At(t, "checked") \/ At(t, "copying"))'
               PROVE  req'[t].chunks \subseteq DOMAIN tmp'[req'[t].id]
    BY DEF ChunksThere
  <2>1. InMerge(t) /\ (At(t, "checked") \/ At(t, "copying")) /\ req'[t] = req[t]
    BY DEF InMerge, MergePcs
  <2>2. req[s].id # req[t].id /\ req[t].id \in Ids
    BY <2>1 DEF KeepInv, Alone, Requests
  <2> QED BY <2>1, <2>2 DEF KeepInv, ChunksThere
<1> QED BY <1>1, <1>2, <1>3 DEF KeepInv

\* A request that only arrives
LEMMA Arrival ==
  ASSUME KeepInv, NEW s \in Slots, req[s] = None,
         UNCHANGED <<faults, files, tmp>>,
         Requests',
         \A t \in Slots \ {s} : req'[t] = req[t],
         "overlap" \notin faults =>
            \A t \in Slots \ {s} : req[t] # None /\ (InMerge(s)' \/ InMerge(t)) =>
                                     req[t].id # req'[s].id,
         ~At(s, "merged")',
         (At(s, "checked") \/ At(s, "copying"))' => req'[s].chunks \subseteq DOMAIN tmp[req'[s].id]
  PROVE  KeepInv'
<1>1. Alone'
  BY DEF Alone, KeepInv, InMerge
<1>2. Registered' /\ ChunksThere'
  BY DEF Registered, ChunksThere, KeepInv
<1> QED BY <1>1, <1>2 DEF KeepInv

LEMMA KeepInvInit == Init => KeepInv
  BY DEF Init, KeepInv, Requests, Alone, ChunksThere, Registered, InMerge

LEMMA UploadKeepsChunks ==
  ASSUME KeepInv, NEW s \in Slots, Upload(s)
  PROVE  KeepInv'
<1>0. Requests
  BY DEF KeepInv
<1> USE DEF ChunkPcs, MergePcs
<1>1. ASSUME NEW id \in Ids, NEW k \in DOMAIN Chunks[id], Reserve(s, id, k)
      PROVE  KeepInv'
  <2>1. Requests' /\ req'[s].id = id /\ req'[s].pc = "reserved" /\ req[s] = None
    BY <1>0, <1>1 DEF Reserve, Requests
  <2>2. "overlap" \notin faults => \A t \in Slots : InMerge(t) => req[t].id # id
    BY <1>0, <1>1 DEF Reserve, Admitted, Break, Requests, InMerge
  <2>3. \A t \in Slots \ {s} : req'[t] = req[t]
    BY <1>0, <1>1 DEF Reserve, Requests
  <2> QED BY <1>1, <2>1, <2>2, <2>3, Arrival DEF Reserve, InMerge
<1>2. CASE Truncate(s)
  <2>1. Requests' /\ req'[s].id = req[s].id /\ req'[s].pc = "writing"
    BY <1>0, <1>2 DEF Truncate, Requests
  <2> QED BY <1>0, <1>2, <2>1, OwnChunks DEF Truncate, Requests, InMerge
<1>3. CASE CreateFails(s)
  BY <1>0, <1>3, OwnChunks DEF CreateFails, Done, Requests, InMerge
<1>4. CASE Write(s)
  <2>1. Requests' /\ req'[s].id = req[s].id /\ req'[s].pc = "writing"
    BY <1>0, <1>4 DEF Write, Requests
  <2> QED BY <1>0, <1>4, <2>1, OwnChunks DEF Write, Requests, InMerge
<1>5. CASE EndOfStream(s)
  <2>1. Requests' /\ req'[s].id = req[s].id /\ req'[s].pc = "written"
    BY <1>0, <1>5 DEF EndOfStream, Step, Requests
  <2> QED BY <1>0, <1>5, <2>1, OwnChunks DEF EndOfStream, Step, Requests, InMerge
<1>6. CASE Reject(s)
  <2>1. Requests' /\ req'[s].id = req[s].id /\ req'[s].pc = "written"
    BY <1>0, <1>6 DEF Reject, Requests
  <2> QED BY <1>0, <1>6, <2>1, OwnChunks DEF Reject, Requests, InMerge
<1>7. CASE Correct(s)
  <2>1. Requests' /\ req'[s].id = req[s].id /\ req'[s].pc = "counted"
    BY <1>0, <1>7 DEF Correct, Requests
  <2> QED BY <1>0, <1>7, <2>1, OwnChunks DEF Correct, Requests, InMerge
<1>8. CASE ReadSizes(s)
  <2>1. Requests' /\ req'[s].id = req[s].id /\ req'[s].pc = "sizing"
    BY <1>0, <1>8 DEF ReadSizes, Requests
  <2> QED BY <1>0, <1>8, <2>1, OwnChunks DEF ReadSizes, Requests, InMerge
<1>9. CASE WriteSizes(s)
  BY <1>0, <1>9, OwnChunks DEF WriteSizes, Done, Requests, InMerge
<1> QED
  BY <1>1, <1>2, <1>3, <1>4, <1>5, <1>6, <1>7, <1>8, <1>9 DEF Upload

LEMMA MergeKeepsChunks ==
  ASSUME KeepInv, NEW s \in Slots, Merge(s)
  PROVE  KeepInv'
<1>0. Requests
  BY DEF KeepInv
<1> USE DEF ChunkPcs, MergePcs
<1>1. ASSUME NEW id \in Ids, MergeCheck(s, id)
      PROVE  KeepInv'
  <2>1. Requests' /\ req[s] = None
    BY <1>0, <1>1 DEF MergeCheck, Requests
  <2>2. req'[s].id = id /\ req'[s].pc = "checked" /\ req'[s].chunks = DOMAIN tmp[id]
    BY <1>0, <1>1 DEF MergeCheck, Requests
  <2>3. "overlap" \notin faults => \A t \in Slots : req[t] # None => req[t].id # id
    BY <1>0, <1>1 DEF MergeCheck, Admitted, Break, Requests
  <2>4. \A t \in Slots \ {s} : req'[t] = req[t]
    BY <1>0, <1>1 DEF MergeCheck, Requests
  <2> QED BY <1>1, <2>1, <2>2, <2>3, <2>4, Arrival DEF MergeCheck, InMerge
<1>2. CASE MergeCreate(s)
  <2>1. CASE req[s].id \in DOMAIN out
    BY <1>0, <1>2, <2>1, OwnChunks DEF MergeCreate, Done, Requests, InMerge
  <2>2. CASE req[s].id \notin DOMAIN out
    <3>1. Requests' /\ req'[s].id = req[s].id /\ req'[s].pc = "copying" /\ req'[s].chunks = req[s].chunks
      BY <1>0, <1>2, <2>2 DEF MergeCreate, Step, Requests
    <3>2. "overlap" \notin faults => req[s].chunks \subseteq DOMAIN tmp[req[s].id]
      BY <1>2 DEF MergeCreate, KeepInv, ChunksThere
    <3>3. InMerge(s)
      BY <1>2 DEF MergeCreate, InMerge
    <3> QED BY <1>0, <1>2, <2>2, <3>1, <3>2, <3>3, OwnChunks DEF MergeCreate, Step, Requests
  <2> QED BY <2>1, <2>2
<1>3. CASE MergeCopy(s)
  <2>1. CASE req[s].chunks \subseteq DOMAIN tmp[req[s].id]
    <3>1. Requests' /\ req'[s].id = req[s].id /\ req'[s].pc = "copied"
      BY <1>0, <1>3, <2>1 DEF MergeCopy, Step, Requests
    <3>2. InMerge(s)
      BY <1>3 DEF MergeCopy, InMerge
    <3> QED BY <1>0, <1>3, <2>1, <3>1, <3>2, OwnChunks DEF MergeCopy, Step, Requests
  <2>2. CASE ~(req[s].chunks \subseteq DOMAIN tmp[req[s].id])
    BY <1>0, <1>3, <2>2, OwnChunks DEF MergeCopy, Done, Requests, InMerge
  <2> QED BY <2>1, <2>2
<1>4. CASE MergeBegin(s)
  <2>1. Requests' /\ req'[s].id = req[s].id /\ req'[s].pc = "charging"
    BY <1>0, <1>4 DEF MergeBegin, Step, Requests
  <2> QED BY <1>0, <1>4, <2>1, OwnChunks DEF MergeBegin, Step, Requests, InMerge
<1>5. CASE MergeReject(s)
  BY <1>0, <1>5, OwnChunks DEF MergeReject, Done, Requests, InMerge
<1>6. CASE MergeCommit(s)
  <2>1. Requests' /\ req'[s].id = req[s].id /\ req'[s].pc = "merged"
    BY <1>0, <1>6 DEF MergeCommit, Step, Requests
  <2>2. req[s].id \in DOMAIN files' /\ DOMAIN files \subseteq DOMAIN files'
    BY <1>6 DEF MergeCommit, Put
  <2> QED BY <1>0, <1>6, <2>1, <2>2, OwnChunks DEF MergeCommit, Step, Requests, InMerge
<1>7. CASE MergeFail(s)
  BY <1>0, <1>7, OwnChunks DEF MergeFail, Done, Requests, InMerge
<1>8. CASE MergeClean(s)
  <2>1. Requests' /\ req'[s].id = req[s].id /\ req'[s].pc = "cleaned"
    BY <1>0, <1>8 DEF MergeClean, Step, Requests
  <2> QED BY <1>0, <1>8, <2>1, OwnChunks DEF MergeClean, Step, Requests, InMerge
<1>9. CASE MergeForget(s)
  BY <1>0, <1>9, OwnChunks DEF MergeForget, Done, Requests, InMerge
<1> QED
  BY <1>1, <1>2, <1>3, <1>4, <1>5, <1>6, <1>7, <1>8, <1>9 DEF Merge

LEMMA OthersKeepChunks ==
  ASSUME KeepInv,
         \/ \E s \in Slots : Disconnect(s)
         \/ \E id \in Ids : ExpireRow(id) \/ SweepChunks(id)
         \/ Crash
         \/ UNCHANGED vars
  PROVE  KeepInv'
<1>0. Requests
  BY DEF KeepInv
<1>1. ASSUME NEW s \in Slots, Disconnect(s)
      PROVE  KeepInv'
  <2>1. Requests'
    BY <1>0, <1>1 DEF Disconnect, Done, Requests
  <2> QED BY <1>0, <1>1, <2>1, OwnChunks DEF Disconnect, Done, Requests, InMerge
<1>2. ASSUME NEW id \in Ids, SweepChunks(id)
      PROVE  KeepInv'
  <2>1. Requests' /\ Registered' /\ Alone'
    BY <1>0, <1>2 DEF SweepChunks, Requests, KeepInv, Registered, Alone, InMerge
  <2>2. \A s \in Slots : req[s] # None => tmp'[req[s].id] = tmp[req[s].id]
    BY <1>0, <1>2 DEF SweepChunks, Requests
  <2>3. ChunksThere'
    BY <1>2, <2>2 DEF SweepChunks, KeepInv, ChunksThere
  <2> QED BY <2>1, <2>3 DEF KeepInv
<1>3. ASSUME UNCHANGED <<req, tmp, files, faults>>
      PROVE  KeepInv'
  BY <1>3 DEF KeepInv, Requests, Alone, ChunksThere, Registered, InMerge
<1>4. CASE Crash
  BY <1>0, <1>4 DEF Crash, KeepInv, Requests, Alone, ChunksThere, Registered, InMerge
<1> QED BY <1>1, <1>2, <1>3, <1>4 DEF ExpireRow, vars

\* All chunks of an upload go at once when a merge copies, cleans or is dropped
\* and when a directory is swept; a handler of upload_chunk removes one it wrote.
LEMMA RemovalIsJustified ==
  ASSUME KeepInv, Next, NEW id \in Ids,
         Free({"disconnect", "overlap"}),
         tmp[id] # Empty, tmp'[id] = Empty,
         \A s \in Slots : req[s] # None /\ req[s].id = id => req[s].index = None
  PROVE  id \in DOMAIN files \/ record[id] = None
<1>0. Requests /\ "overlap" \notin faults /\ "disconnect" \notin faults
  BY DEF KeepInv, Free
<1>1. \A s \in Slots : req[s] # None /\ req[s].id = id => req[s].pc \in MergePcs
  BY <1>0, ChunkAssumption DEF Requests
<1>2. ASSUME NEW s \in Slots, Upload(s)
      PROVE  FALSE
  <2>1. tmp' # tmp
    OBVIOUS
  <2>2. req[s] # None /\ req[s].pc \in ChunkPcs
    BY <1>2, <2>1 DEF Upload, Reserve, Truncate, CreateFails, Write, EndOfStream, Reject, Correct, ReadSizes, WriteSizes, ChunkPcs
  <2>3. req[s].id # id
    BY <1>1, <2>2 DEF ChunkPcs, MergePcs
  <2>4. tmp'[id] = tmp[id]
    BY <1>0, <1>2, <2>1, <2>3 DEF Requests, Upload, Reserve, Truncate, CreateFails, Write, EndOfStream, Reject, Correct, ReadSizes, WriteSizes
  <2> QED BY <2>4
<1>3. ASSUME NEW s \in Slots, Merge(s)
      PROVE  id \in DOMAIN files
  <2>1. CASE MergeCopy(s)
    <3>1. req[s].chunks \subseteq DOMAIN tmp[req[s].id]
      BY <1>0, <2>1 DEF MergeCopy, KeepInv, ChunksThere
    <3> QED BY <2>1, <3>1 DEF MergeCopy
  <2>2. CASE MergeClean(s)
    <3>1. req[s].id = id
      BY <1>0, <2>2 DEF MergeClean, Requests
    <3> QED BY <2>2, <3>1 DEF MergeClean, KeepInv, Registered
  <2> QED
    BY <1>3, <2>1, <2>2 DEF Merge, MergeCheck, MergeCreate, MergeBegin, MergeReject, MergeCommit, MergeFail, MergeForget
<1>4. CASE \E i \in Ids : SweepChunks(i)
  BY <1>0, <1>4 DEF SweepChunks, Requests
<1> QED
  BY <1>0, <1>2, <1>3, <1>4 DEF Next, Disconnect, Crash, ExpireRow

\* A merge that does not register its file, and the clean-up, leave the chunks
\* of every upload in place (M10 in merge_chunks, P2-15 in tasks/cleanup.rs).
THEOREM ChunksSurvive == Spec => ChunksKeptUntilRegistered
<1>1. KeepInv /\ [Next]_vars => KeepInv'
  BY UploadKeepsChunks, MergeKeepsChunks, OthersKeepChunks DEF Next
<1>2. KeepInv /\ [Next]_vars =>
        [\A id \in Ids :
           /\ Free({"disconnect", "overlap"})
           /\ tmp[id] # Empty /\ tmp'[id] = Empty
           /\ \A s \in Slots : req[s] # None /\ req[s].id = id => req[s].index = None
           => id \in DOMAIN files \/ record[id] = None]_vars
  BY RemovalIsJustified
<1> QED BY KeepInvInit, <1>1, <1>2, PTL DEF Spec, ChunksKeptUntilRegistered

------------------------------------------------------------------------------
(* Types.                                                                  *)

LEMMA ListFacts ==
  ASSUME NEW id \in Ids, NEW S, NEW f \in Lists(id, S)
  PROVE  /\ DOMAIN f \subseteq DOMAIN Chunks[id]
         /\ IsFiniteSet(DOMAIN f)
         /\ \A k \in DOMAIN f : f[k] \in S
<1>1. PICK K \in SUBSET DOMAIN Chunks[id] : f \in [K -> S]
  BY DEF Lists
<1>2. IsFiniteSet(K)
  BY ChunkAssumption, FS_Subset
<1> QED BY <1>1, <1>2

LEMMA EmptyList ==
  ASSUME NEW id \in Ids, NEW S
  PROVE  Empty \in Lists(id, S) /\ DOMAIN Empty = {}
<1>1. Empty \in [{} -> S]
  BY DEF Empty
<1>2. {} \in SUBSET DOMAIN Chunks[id]
  OBVIOUS
<1> QED BY <1>1, <1>2 DEF Lists

LEMMA PutList ==
  ASSUME NEW id \in Ids, NEW S, NEW f \in Lists(id, S),
         NEW k \in DOMAIN Chunks[id], NEW v \in S
  PROVE  Put(f, k, v) \in Lists(id, S)
<1>1. DOMAIN f \cup {k} \in SUBSET DOMAIN Chunks[id]
  BY ListFacts
<1>2. Put(f, k, v) \in [DOMAIN f \cup {k} -> S]
  BY ListFacts DEF Put
<1> QED BY <1>1, <1>2 DEF Lists

LEMMA DropList ==
  ASSUME NEW id \in Ids, NEW S, NEW f \in Lists(id, S), NEW k
  PROVE  Drop(f, k) \in Lists(id, S)
<1>1. DOMAIN f \ {k} \in SUBSET DOMAIN Chunks[id]
  BY ListFacts
<1>2. Drop(f, k) \in [DOMAIN f \ {k} -> S]
  BY ListFacts DEF Drop, Restrict
<1> QED BY <1>1, <1>2 DEF Lists

LEMMA CeilIsNat == ASSUME NEW n \in Nat PROVE Ceil(n) \in Nat
  BY ChunkAssumption DEF Ceil

\* A request of upload_chunk, one of merge_chunks
Chunking(s) == req[s] # None /\ req[s] \in ChunkRequest(req[s].id) /\ req[s].id \in Ids
Joining(s)  == req[s] # None /\ req[s] \in MergeRequest(req[s].id) /\ req[s].id \in Ids

Typed ==
  /\ tmp = [id \in Ids |-> tmp[id]] /\ record = [id \in Ids |-> record[id]]
  /\ req = [s \in Slots |-> req[s]]
  /\ \A id \in Ids : tmp[id] \in Lists(id, 0..MaxChunk) /\ record[id] \in Row(id) \cup {None}
  /\ DOMAIN out \subseteq Ids /\ DOMAIN files \subseteq Ids
  /\ \A id \in DOMAIN out : out[id] \in Nat
  /\ \A id \in DOMAIN files : files[id] \in Nat
  /\ used \in Nat
  /\ \A s \in Slots : req[s] = None \/ Chunking(s) \/ Joining(s)
  /\ stale \subseteq {s \in Slots : At(s, "charging")}
  /\ faults \in FaultSets /\ breaks \in 0..MaxBreaks

LEMMA TypedIsTypeOK == Typed => TypeOK
  BY DEF Typed, TypeOK, Chunking, Joining, Partial, Range

LEMMA TypedInit == Init => Typed
<1> SUFFICES ASSUME Init PROVE Typed
  OBVIOUS
<1>1. \A id \in Ids : Empty \in Lists(id, 0..MaxChunk) /\ DOMAIN Empty = {}
  BY EmptyList
<1>2. DOMAIN Empty = {}
  BY DEF Empty
<1> QED BY <1>1, <1>2, ChunkAssumption DEF Init, Typed, Chunking, Joining

\* What a step of one request leaves alone.
Frame(s) ==
  /\ req' = [req EXCEPT ![s] = req'[s]]
  /\ UNCHANGED faults
  /\ stale' \subseteq {t \in Slots : At(t, "charging")'}
  /\ breaks' \in 0..MaxBreaks

LEMMA FrameKeeps ==
  ASSUME Typed, NEW s \in Slots, Frame(s),
         req'[s] = None \/ Chunking(s)' \/ Joining(s)',
         tmp' = [id \in Ids |-> tmp'[id]], record' = [id \in Ids |-> record'[id]],
         \A id \in Ids : tmp'[id] \in Lists(id, 0..MaxChunk) /\ record'[id] \in Row(id) \cup {None},
         DOMAIN out' \subseteq Ids, DOMAIN files' \subseteq Ids,
         \A id \in DOMAIN out' : out'[id] \in Nat,
         \A id \in DOMAIN files' : files'[id] \in Nat,
         used' \in Nat
  PROVE  Typed'
<1>1. \A t \in Slots : req'[t] = None \/ Chunking(t)' \/ Joining(t)'
  BY DEF Typed, Frame, Chunking, Joining
<1>2. req' = [t \in Slots |-> req'[t]]
  BY DEF Typed, Frame
<1> QED BY <1>1, <1>2 DEF Typed, Frame


LEMMA ChunkFields ==
  ASSUME Typed, NEW s \in Slots, req[s] # None, req[s].pc \in ChunkPcs
  PROVE  /\ Chunking(s) /\ req[s].id \in Ids /\ req[s].index \in DOMAIN Chunks[req[s].id]
         /\ req[s].len \in 0..MaxChunk /\ req[s].prev \in 0..MaxChunk
         /\ req[s].sizes \in Lists(req[s].id, 1..MaxChunk) \cup {None}
<1>1. ~Joining(s)
  BY DEF Joining, MergeRequest, ChunkPcs, MergePcs
<1>2. Chunking(s)
  BY <1>1 DEF Typed
<1> QED BY <1>2 DEF Chunking, ChunkRequest

LEMMA MergeFields ==
  ASSUME Typed, NEW s \in Slots, req[s] # None, req[s].pc \in MergePcs
  PROVE  /\ Joining(s) /\ req[s].id \in Ids /\ req[s].index = None
         /\ req[s].chunks \in SUBSET DOMAIN Chunks[req[s].id]
<1>1. ~Chunking(s)
  BY DEF Chunking, ChunkRequest, ChunkPcs, MergePcs
<1>2. Joining(s)
  BY <1>1 DEF Typed
<1> QED BY <1>2 DEF Joining, MergeRequest

\* A field of a request changes.
LEMMA ChunkChanges ==
  ASSUME Typed, NEW s \in Slots, Chunking(s), NEW pc \in ChunkPcs, NEW len \in 0..MaxChunk,
         NEW prev \in 0..MaxChunk, NEW sizes \in Lists(req[s].id, 1..MaxChunk) \cup {None},
         req'[s] = [pc |-> pc, id |-> req[s].id, index |-> req[s].index, len |-> len,
                    prev |-> prev, sizes |-> sizes]
  PROVE  Chunking(s)'
<1>1. req[s].id \in Ids /\ req[s].index \in DOMAIN Chunks[req[s].id]
  BY DEF Chunking, ChunkRequest
<1>2. req'[s] \in ChunkRequest(req[s].id) /\ req'[s].id = req[s].id
  BY <1>1 DEF ChunkRequest
<1>3. req'[s] # None
  BY <1>1, <1>2, ChunkAssumption
<1> QED BY <1>1, <1>2, <1>3 DEF Chunking

\* What is written to a request, with the names of its fields.
LEMMA ChunkExcept ==
  ASSUME Typed, NEW s \in Slots, Chunking(s)
  PROVE  req[s] = [pc |-> req[s].pc, id |-> req[s].id, index |-> req[s].index, len |-> req[s].len,
                   prev |-> req[s].prev, sizes |-> req[s].sizes]
  BY DEF Chunking, ChunkRequest

LEMMA JoinExcept ==
  ASSUME Typed, NEW s \in Slots, Joining(s), NEW pc \in MergePcs, Step(s, pc)
  PROVE  /\ Joining(s)' /\ req'[s].id = req[s].id /\ req'[s].pc = pc
         /\ req'[s].chunks = req[s].chunks
         /\ req' = [req EXCEPT ![s] = req'[s]]
<1>1. req' = [req EXCEPT ![s] = req'[s]] /\ req'[s] = [req[s] EXCEPT !.pc = pc]
  BY DEF Typed, Step
<1>2. req'[s] \in MergeRequest(req[s].id) /\ req'[s].id = req[s].id /\ req'[s].pc = pc
      /\ req'[s].chunks = req[s].chunks
  BY <1>1 DEF Joining, MergeRequest
<1>3. req[s].id \in Ids
  BY DEF Joining
<1>4. req'[s] # None
  BY <1>2, <1>3, ChunkAssumption
<1> QED BY <1>1, <1>2, <1>3, <1>4 DEF Joining

LEMMA CommitsFrame ==
  ASSUME Typed, NEW s \in Slots, Commits(s), req' = [req EXCEPT ![s] = req'[s]]
  PROVE  stale' \subseteq {t \in Slots : At(t, "charging")'}
  BY DEF Typed, Commits

LEMMA SameStale ==
  ASSUME Typed, NEW s \in Slots, stale' = stale \ {s} \/ (UNCHANGED stale /\ ~At(s, "charging")),
         req' = [req EXCEPT ![s] = req'[s]]
  PROVE  stale' \subseteq {t \in Slots : At(t, "charging")'}
  BY DEF Typed

------------------------------------------------------------------------------
(* What each handler of upload_chunk makes of its request.                 *)

\* The request stays with its chunk.
SameChunk(s) == req'[s].id = req[s].id /\ req'[s].index = req[s].index

LEMMA ReserveFacts ==
  ASSUME Typed, NEW s \in Slots, NEW id \in Ids, NEW k \in DOMAIN Chunks[id], Reserve(s, id, k)
  PROVE  /\ Frame(s) /\ req[s] = None /\ Chunking(s)'
         /\ req'[s] = [pc |-> "reserved", id |-> id, index |-> k, len |-> 0, prev |-> 0,
                       sizes |-> None]
<1>1. /\ req' = [req EXCEPT ![s] = req'[s]] /\ req[s] = None
      /\ req'[s] = [pc |-> "reserved", id |-> id, index |-> k, len |-> 0, prev |-> 0,
                    sizes |-> None]
  BY DEF Reserve, Typed
<1>2. 0 \in 0..MaxChunk
  BY ChunkAssumption
<1>3. req'[s] \in ChunkRequest(id) /\ req'[s].id = id
  BY <1>1, <1>2 DEF ChunkRequest, ChunkPcs
<1>4. Chunking(s)'
  BY <1>3, ChunkAssumption DEF Chunking
<1>5. breaks' \in 0..MaxBreaks
  BY ChunkAssumption DEF Reserve, Admitted, Break, Typed
<1>6. stale' \subseteq {t \in Slots : At(t, "charging")'}
  BY <1>1, CommitsFrame DEF Reserve
<1> QED BY <1>1, <1>4, <1>5, <1>6 DEF Frame, Reserve

LEMMA TruncateFacts ==
  ASSUME Typed, NEW s \in Slots, Truncate(s)
  PROVE  /\ Frame(s) /\ Chunking(s) /\ Chunking(s)' /\ SameChunk(s) /\ req[s].pc = "reserved"
         /\ req'[s] = [pc |-> "writing", id |-> req[s].id, index |-> req[s].index,
                       len |-> req[s].len, sizes |-> req[s].sizes,
                       prev |-> IF req[s].index \in DOMAIN tmp[req[s].id]
                                THEN tmp[req[s].id][req[s].index] ELSE 0]
<1> DEFINE old == IF req[s].index \in DOMAIN tmp[req[s].id]
                  THEN tmp[req[s].id][req[s].index] ELSE 0
<1>1. Chunking(s) /\ req[s].pc = "reserved" /\ req[s].id \in Ids
      /\ req[s].len \in 0..MaxChunk /\ req[s].sizes \in Lists(req[s].id, 1..MaxChunk) \cup {None}
  BY ChunkFields DEF Truncate, ChunkPcs
<1>2. old \in 0..MaxChunk
  BY <1>1, ListFacts, ChunkAssumption DEF Typed
<1> HIDE DEF old
<1>3. req' = [req EXCEPT ![s] = req'[s]] /\ req'[s] = [req[s] EXCEPT !.pc = "writing", !.prev = old]
  BY DEF Truncate, Typed, old
<1>4. req'[s] = [pc |-> "writing", id |-> req[s].id, index |-> req[s].index,
                 len |-> req[s].len, sizes |-> req[s].sizes, prev |-> old]
  BY <1>1, <1>3, ChunkExcept
<1>5. Chunking(s)'
  BY <1>1, <1>2, <1>4, ChunkChanges DEF ChunkPcs
<1>6. Frame(s)
  BY <1>1, <1>3, SameStale DEF Frame, Truncate, Typed
<1>9. SameChunk(s)
  BY <1>4 DEF SameChunk
<1> QED BY <1>9, <1>1, <1>4, <1>5, <1>6 DEF old

LEMMA WriteFacts ==
  ASSUME Typed, NEW s \in Slots, Write(s)
  PROVE  /\ Frame(s) /\ Chunking(s) /\ Chunking(s)' /\ SameChunk(s) /\ req[s].pc = "writing"
         /\ req[s].len < Chunks[req[s].id][req[s].index]
         /\ req[s].len + 1 \in 0..MaxChunk
         /\ req'[s] = [pc |-> "writing", id |-> req[s].id, index |-> req[s].index,
                       len |-> req[s].len + 1, sizes |-> req[s].sizes, prev |-> req[s].prev]
<1>1. /\ Chunking(s) /\ req[s].pc = "writing" /\ req[s].id \in Ids
      /\ req[s].index \in DOMAIN Chunks[req[s].id]
      /\ req[s].len \in 0..MaxChunk /\ req[s].prev \in 0..MaxChunk
      /\ req[s].sizes \in Lists(req[s].id, 1..MaxChunk) \cup {None}
  BY ChunkFields DEF Write, ChunkPcs
<1>2. Chunks[req[s].id][req[s].index] \in 1..MaxChunk
  BY <1>1, ChunkAssumption DEF Range
<1>3. req[s].len < Chunks[req[s].id][req[s].index] /\ req[s].len + 1 \in 0..MaxChunk
  BY <1>1, <1>2, ChunkAssumption DEF Write
<1>4. req' = [req EXCEPT ![s] = req'[s]] /\ req'[s] = [req[s] EXCEPT !.len = req[s].len + 1]
  BY DEF Write, Typed
<1>5. req'[s] = [pc |-> "writing", id |-> req[s].id, index |-> req[s].index,
                 len |-> req[s].len + 1, sizes |-> req[s].sizes, prev |-> req[s].prev]
  BY <1>1, <1>4, ChunkExcept
<1>6. Chunking(s)'
  BY <1>1, <1>3, <1>5, ChunkChanges DEF ChunkPcs
<1>7. Frame(s)
  BY <1>1, <1>4, SameStale DEF Frame, Write, Typed
<1>9. SameChunk(s)
  BY <1>5 DEF SameChunk
<1> QED BY <1>9, <1>1, <1>3, <1>5, <1>6, <1>7

LEMMA EndOfStreamFacts ==
  ASSUME Typed, NEW s \in Slots, EndOfStream(s)
  PROVE  /\ Frame(s) /\ Chunking(s) /\ Chunking(s)' /\ SameChunk(s) /\ req[s].pc = "writing"
         /\ req'[s] = [pc |-> "written", id |-> req[s].id, index |-> req[s].index,
                       len |-> req[s].len, sizes |-> req[s].sizes, prev |-> req[s].prev]
<1>1. /\ Chunking(s) /\ req[s].pc = "writing"
      /\ req[s].len \in 0..MaxChunk /\ req[s].prev \in 0..MaxChunk
      /\ req[s].sizes \in Lists(req[s].id, 1..MaxChunk) \cup {None}
  BY ChunkFields DEF EndOfStream, ChunkPcs
<1>2. req' = [req EXCEPT ![s] = req'[s]] /\ req'[s] = [req[s] EXCEPT !.pc = "written"]
  BY DEF EndOfStream, Step, Typed
<1>3. req'[s] = [pc |-> "written", id |-> req[s].id, index |-> req[s].index,
                 len |-> req[s].len, sizes |-> req[s].sizes, prev |-> req[s].prev]
  BY <1>1, <1>2, ChunkExcept
<1>4. Chunking(s)'
  BY <1>1, <1>3, ChunkChanges DEF ChunkPcs
<1>5. Frame(s)
  BY <1>1, <1>2, SameStale DEF Frame, EndOfStream, Typed
<1>9. SameChunk(s)
  BY <1>3 DEF SameChunk
<1> QED BY <1>9, <1>1, <1>3, <1>4, <1>5

LEMMA RejectFacts ==
  ASSUME Typed, NEW s \in Slots, Reject(s)
  PROVE  /\ Frame(s) /\ Chunking(s) /\ Chunking(s)' /\ SameChunk(s) /\ req[s].pc = "writing"
         /\ req'[s] = [pc |-> "written", id |-> req[s].id, index |-> req[s].index,
                       len |-> 0, sizes |-> req[s].sizes, prev |-> req[s].prev]
<1>1. /\ Chunking(s) /\ req[s].pc = "writing" /\ req[s].prev \in 0..MaxChunk
      /\ req[s].sizes \in Lists(req[s].id, 1..MaxChunk) \cup {None} /\ 0 \in 0..MaxChunk
  BY ChunkFields, ChunkAssumption DEF Reject, ChunkPcs
<1>2. req' = [req EXCEPT ![s] = req'[s]] /\ req'[s] = [req[s] EXCEPT !.pc = "written", !.len = 0]
  BY DEF Reject, Typed
<1>3. req'[s] = [pc |-> "written", id |-> req[s].id, index |-> req[s].index,
                 len |-> 0, sizes |-> req[s].sizes, prev |-> req[s].prev]
  BY <1>1, <1>2, ChunkExcept
<1>4. Chunking(s)'
  BY <1>1, <1>3, ChunkChanges DEF ChunkPcs
<1>5. Frame(s)
  BY <1>1, <1>2, SameStale DEF Frame, Reject, Typed
<1>9. SameChunk(s)
  BY <1>3 DEF SameChunk
<1> QED BY <1>9, <1>1, <1>3, <1>4, <1>5

LEMMA CorrectFacts ==
  ASSUME Typed, NEW s \in Slots, Correct(s)
  PROVE  /\ Frame(s) /\ Chunking(s) /\ Chunking(s)' /\ SameChunk(s) /\ req[s].pc = "written"
         /\ req'[s] = [pc |-> "counted", id |-> req[s].id, index |-> req[s].index,
                       len |-> req[s].len, sizes |-> req[s].sizes, prev |-> 0]
<1>1. /\ Chunking(s) /\ req[s].pc = "written" /\ req[s].len \in 0..MaxChunk
      /\ req[s].sizes \in Lists(req[s].id, 1..MaxChunk) \cup {None} /\ 0 \in 0..MaxChunk
  BY ChunkFields, ChunkAssumption DEF Correct, ChunkPcs
<1>2. req' = [req EXCEPT ![s] = req'[s]] /\ req'[s] = [req[s] EXCEPT !.pc = "counted", !.prev = 0]
  BY DEF Correct, Typed
<1>3. req'[s] = [pc |-> "counted", id |-> req[s].id, index |-> req[s].index,
                 len |-> req[s].len, sizes |-> req[s].sizes, prev |-> 0]
  BY <1>1, <1>2, ChunkExcept
<1>4. Chunking(s)'
  BY <1>1, <1>3, ChunkChanges DEF ChunkPcs
<1>5. Frame(s)
  BY <1>1, <1>2, CommitsFrame DEF Frame, Correct, Typed
<1>9. SameChunk(s)
  BY <1>3 DEF SameChunk
<1> QED BY <1>9, <1>1, <1>3, <1>4, <1>5

LEMMA ReadSizesFacts ==
  ASSUME Typed, NEW s \in Slots, ReadSizes(s)
  PROVE  /\ Frame(s) /\ Chunking(s) /\ Chunking(s)' /\ SameChunk(s) /\ req[s].pc = "counted"
         /\ req'[s] = [pc |-> "sizing", id |-> req[s].id, index |-> req[s].index,
                       len |-> req[s].len, prev |-> req[s].prev,
                       sizes |-> IF record[req[s].id] = None THEN None
                                 ELSE record[req[s].id].sizes]
<1> DEFINE list == IF record[req[s].id] = None THEN None ELSE record[req[s].id].sizes
<1>1. /\ Chunking(s) /\ req[s].pc = "counted" /\ req[s].len \in 0..MaxChunk
      /\ req[s].prev \in 0..MaxChunk /\ req[s].id \in Ids
  BY ChunkFields DEF ReadSizes, ChunkPcs
<1>2. list \in Lists(req[s].id, 1..MaxChunk) \cup {None}
  BY <1>1 DEF Typed, Row
<1> HIDE DEF list
<1>3. req' = [req EXCEPT ![s] = req'[s]] /\ req'[s] = [req[s] EXCEPT !.pc = "sizing", !.sizes = list]
  BY DEF ReadSizes, Typed, list
<1>4. req'[s] = [pc |-> "sizing", id |-> req[s].id, index |-> req[s].index,
                 len |-> req[s].len, prev |-> req[s].prev, sizes |-> list]
  BY <1>1, <1>3, ChunkExcept
<1>5. Chunking(s)'
  BY <1>1, <1>2, <1>4, ChunkChanges DEF ChunkPcs
<1>6. Frame(s)
  BY <1>1, <1>3, SameStale DEF Frame, ReadSizes, Typed
<1>9. SameChunk(s)
  BY <1>4 DEF SameChunk
<1> QED BY <1>9, <1>1, <1>4, <1>5, <1>6 DEF list

\* A request ends.
LEMMA DoneFacts ==
  ASSUME Typed, NEW s \in Slots, Done(s), UNCHANGED faults, breaks' \in 0..MaxBreaks,
         Commits(s) \/ stale' = stale \ {s} \/ (UNCHANGED stale /\ ~At(s, "charging"))
  PROVE  Frame(s) /\ req'[s] = None
<1>1. req' = [req EXCEPT ![s] = req'[s]] /\ req'[s] = None
  BY DEF Done, Typed
<1> QED BY <1>1, CommitsFrame, SameStale DEF Frame


LEMMA UploadKeepsTypes ==
  ASSUME Typed, NEW s \in Slots, Upload(s)
  PROVE  Typed'
<1>0. /\ tmp = [id \in Ids |-> tmp[id]] /\ record = [id \in Ids |-> record[id]]
      /\ \A id \in Ids : tmp[id] \in Lists(id, 0..MaxChunk) /\ record[id] \in Row(id) \cup {None}
      /\ DOMAIN out \subseteq Ids /\ DOMAIN files \subseteq Ids
      /\ \A id \in DOMAIN out : out[id] \in Nat
      /\ \A id \in DOMAIN files : files[id] \in Nat
      /\ used \in Nat /\ MaxChunk \in Nat
  BY ChunkAssumption DEF Typed
<1>1. ASSUME NEW id \in Ids, NEW k \in DOMAIN Chunks[id], Reserve(s, id, k)
      PROVE  Typed'
  <2> DEFINE row == IF record[id] = None THEN [bytes |-> MaxChunk, sizes |-> None]
                    ELSE [bytes |-> record[id].bytes + MaxChunk, sizes |-> record[id].sizes]
  <2>a. record' = [record EXCEPT ![id] = row]
    BY <1>1 DEF Reserve
  <2>b. row \in Row(id)
    BY <1>0 DEF Row
  <2> HIDE DEF row
  <2>1. /\ record' = [i \in Ids |-> record'[i]]
        /\ \A i \in Ids \ {id} : record'[i] = record[i]
    BY <1>0, <2>a
  <2>2. record'[id] \in Row(id)
    BY <1>0, <2>a, <2>b
  <2>3. Frame(s) /\ Chunking(s)' /\ UNCHANGED <<tmp, out, files, used>>
    BY <1>1, ReserveFacts DEF Reserve
  <2> QED BY <1>0, <2>1, <2>2, <2>3, FrameKeeps
<1>2. CASE Truncate(s)
  <2>1. Frame(s) /\ Chunking(s)' /\ Chunking(s) /\ UNCHANGED <<record, out, files, used>>
    BY <1>2, TruncateFacts DEF Truncate
  <2>2. req[s].id \in Ids /\ req[s].index \in DOMAIN Chunks[req[s].id]
    BY <2>1 DEF Chunking, ChunkRequest
  <2>3. tmp' = [tmp EXCEPT ![req[s].id] = Put(tmp[req[s].id], req[s].index, 0)]
    BY <1>2 DEF Truncate
  <2>4. Put(tmp[req[s].id], req[s].index, 0) \in Lists(req[s].id, 0..MaxChunk)
    BY <1>0, <2>2, PutList
  <2>5. tmp' = [i \in Ids |-> tmp'[i]] /\ \A i \in Ids : tmp'[i] \in Lists(i, 0..MaxChunk)
    BY <1>0, <2>2, <2>3, <2>4
  <2> QED BY <1>0, <2>1, <2>5, FrameKeeps
<1>3. CASE CreateFails(s)
  <2>1. Frame(s) /\ req'[s] = None /\ UNCHANGED <<tmp, record, out, files, used>>
    BY <1>3, DoneFacts DEF CreateFails, Typed
  <2> QED BY <1>0, <2>1, FrameKeeps
<1>4. CASE Write(s)
  <2> DEFINE id == req[s].id
             k == req[s].index
             n == req[s].len + 1
             new == [i \in DOMAIN tmp[id] |-> IF i = k /\ tmp[id][i] < n THEN n ELSE tmp[id][i]]
  <2>1. /\ Frame(s) /\ Chunking(s)' /\ Chunking(s) /\ UNCHANGED <<record, out, files, used>>
        /\ n \in 0..MaxChunk
    BY <1>4, WriteFacts DEF Write
  <2>2. id \in Ids
    BY <2>1 DEF Chunking
  <2>3. tmp' = [tmp EXCEPT ![id] = new]
    BY <1>4 DEF Write
  <2> HIDE DEF n
  <2>4. new \in [DOMAIN tmp[id] -> 0..MaxChunk]
    BY <1>0, <2>1, <2>2, ListFacts
  <2>5. DOMAIN tmp[id] \in SUBSET DOMAIN Chunks[id]
    BY <1>0, <2>2, ListFacts
  <2> HIDE DEF new
  <2>6. new \in Lists(id, 0..MaxChunk)
    BY <2>4, <2>5 DEF Lists
  <2>7. tmp' = [i \in Ids |-> tmp'[i]] /\ \A i \in Ids : tmp'[i] \in Lists(i, 0..MaxChunk)
    BY <1>0, <2>2, <2>3, <2>6
  <2> QED BY <1>0, <2>1, <2>7, FrameKeeps
<1>5. CASE EndOfStream(s)
  <2>1. Frame(s) /\ Chunking(s)' /\ UNCHANGED <<tmp, record, out, files, used>>
    BY <1>5, EndOfStreamFacts DEF EndOfStream
  <2> QED BY <1>0, <2>1, FrameKeeps
<1>6. CASE Reject(s)
  <2>1. Frame(s) /\ Chunking(s)' /\ Chunking(s) /\ UNCHANGED <<record, out, files, used>>
    BY <1>6, RejectFacts DEF Reject
  <2>2. req[s].id \in Ids
    BY <2>1 DEF Chunking
  <2>3. tmp' = [tmp EXCEPT ![req[s].id] = Drop(tmp[req[s].id], req[s].index)]
    BY <1>6 DEF Reject
  <2>4. Drop(tmp[req[s].id], req[s].index) \in Lists(req[s].id, 0..MaxChunk)
    BY <1>0, <2>2, DropList
  <2>5. tmp' = [i \in Ids |-> tmp'[i]] /\ \A i \in Ids : tmp'[i] \in Lists(i, 0..MaxChunk)
    BY <1>0, <2>2, <2>3, <2>4
  <2> QED BY <1>0, <2>1, <2>5, FrameKeeps
<1>7. CASE Correct(s)
  <2> DEFINE id == req[s].id
             n == Minus(Bytes(id) + req[s].len, req[s].prev + MaxChunk)
  <2>1. Frame(s) /\ Chunking(s)' /\ Chunking(s) /\ UNCHANGED <<tmp, out, files, used>>
    BY <1>7, CorrectFacts DEF Correct
  <2>2. id \in Ids /\ req[s].len \in 0..MaxChunk /\ req[s].prev \in 0..MaxChunk
    BY <2>1 DEF Chunking, ChunkRequest
  <2>3. Bytes(id) \in Nat
    BY <1>0, <2>2 DEF Bytes, Row
  <2>4. n \in Nat
    BY <1>0, <2>2, <2>3 DEF Minus
  <2>5. Counting(id, n)
    BY <1>7 DEF Correct
  <2> HIDE DEF n
  <2>6. record' = [i \in Ids |-> record'[i]] /\ \A i \in Ids \ {id} : record'[i] = record[i]
    BY <1>0, <2>2, <2>5 DEF Counting
  <2>7. record'[id] \in Row(id) \cup {None}
    BY <1>0, <2>2, <2>4, <2>5 DEF Counting, Row
  <2> QED BY <1>0, <2>1, <2>6, <2>7, FrameKeeps
<1>8. CASE ReadSizes(s)
  <2>1. Frame(s) /\ Chunking(s)' /\ UNCHANGED <<tmp, record, out, files, used>>
    BY <1>8, ReadSizesFacts DEF ReadSizes
  <2> QED BY <1>0, <2>1, FrameKeeps
<1>9. CASE WriteSizes(s)
  <2> DEFINE id == req[s].id
             k == req[s].index
             old == IF req[s].sizes = None THEN Empty ELSE req[s].sizes
             new == IF req[s].len = 0 THEN Drop(old, k) ELSE Put(old, k, req[s].len)
  <2>1. /\ id \in Ids /\ k \in DOMAIN Chunks[id] /\ req[s].len \in 0..MaxChunk
        /\ req[s].sizes \in Lists(id, 1..MaxChunk) \cup {None}
    BY <1>9, ChunkFields DEF WriteSizes, ChunkPcs
  <2>2. old \in Lists(id, 1..MaxChunk)
    BY <2>1, EmptyList
  <2>3. new \in Lists(id, 1..MaxChunk)
    <3> HIDE DEF old
    <3>1. CASE req[s].len = 0
      BY <2>1, <2>2, <3>1, DropList
    <3>2. CASE req[s].len # 0
      <4>1. req[s].len \in 1..MaxChunk
        BY <1>0, <2>1, <3>2
      <4> QED BY <2>1, <2>2, <3>2, <4>1, PutList
    <3> QED BY <3>1, <3>2
  <2>4. record' = record \/ (record[id] # None /\ record' = [record EXCEPT ![id].sizes = new])
    BY <1>9 DEF WriteSizes
  <2> HIDE DEF new
  <2>5. record' = [i \in Ids |-> record'[i]] /\ \A i \in Ids : record'[i] \in Row(i) \cup {None}
    BY <1>0, <2>1, <2>3, <2>4 DEF Row
  <2>6. Frame(s) /\ req'[s] = None /\ UNCHANGED <<tmp, out, files, used>>
    BY <1>9, DoneFacts DEF WriteSizes, Typed
  <2> QED BY <1>0, <2>5, <2>6, FrameKeeps
<1> QED BY <1>1, <1>2, <1>3, <1>4, <1>5, <1>6, <1>7, <1>8, <1>9 DEF Upload

LEMMA PutLength ==
  ASSUME NEW f, NEW id \in Ids, NEW n \in Nat, DOMAIN f \subseteq Ids, \A i \in DOMAIN f : f[i] \in Nat
  PROVE  /\ DOMAIN Put(f, id, n) \subseteq Ids
         /\ \A i \in DOMAIN Put(f, id, n) : Put(f, id, n)[i] \in Nat
  BY DEF Put

LEMMA DropLength ==
  ASSUME NEW f, NEW id, DOMAIN f \subseteq Ids, \A i \in DOMAIN f : f[i] \in Nat
  PROVE  /\ DOMAIN Drop(f, id) \subseteq Ids
         /\ \A i \in DOMAIN Drop(f, id) : Drop(f, id)[i] \in Nat
  BY DEF Drop, Restrict

LEMMA MergeKeepsTypes ==
  ASSUME Typed, TargetThere, NEW s \in Slots, Merge(s)
  PROVE  Typed'
<1>0. /\ tmp = [id \in Ids |-> tmp[id]] /\ record = [id \in Ids |-> record[id]]
      /\ \A id \in Ids : tmp[id] \in Lists(id, 0..MaxChunk) /\ record[id] \in Row(id) \cup {None}
      /\ DOMAIN out \subseteq Ids /\ DOMAIN files \subseteq Ids
      /\ \A id \in DOMAIN out : out[id] \in Nat
      /\ \A id \in DOMAIN files : files[id] \in Nat
      /\ used \in Nat /\ MaxChunk \in Nat /\ breaks \in 0..MaxBreaks
  BY ChunkAssumption DEF Typed
<1>1. ASSUME NEW id \in Ids, MergeCheck(s, id)
      PROVE  Typed'
  <2>1. /\ req' = [req EXCEPT ![s] = req'[s]] /\ req[s] = None
        /\ req'[s] = [pc |-> "checked", id |-> id, index |-> None, chunks |-> DOMAIN tmp[id]]
    BY <1>1 DEF MergeCheck, Typed
  <2>2. DOMAIN tmp[id] \in SUBSET DOMAIN Chunks[id]
    BY <1>0, ListFacts
  <2>3. req'[s] \in MergeRequest(id) /\ req'[s].id = id
    BY <2>1, <2>2 DEF MergeRequest, MergePcs
  <2>4. Joining(s)'
    BY <2>3, ChunkAssumption DEF Joining
  <2>5. breaks' \in 0..MaxBreaks
    BY <1>0, <1>1, ChunkAssumption DEF MergeCheck, Admitted, Break
  <2>6. Frame(s) /\ UNCHANGED <<tmp, record, out, files, used>>
    BY <1>1, <2>1, <2>5, SameStale DEF MergeCheck, Frame
  <2> QED BY <1>0, <2>4, <2>6, FrameKeeps
<1>2. CASE MergeCreate(s)
  <2>1. Joining(s) /\ req[s].id \in Ids /\ ~At(s, "charging")
    BY <1>2, MergeFields DEF MergeCreate, MergePcs
  <2>2. CASE Done(s) /\ UNCHANGED out
    <3>1. Frame(s) /\ req'[s] = None /\ UNCHANGED <<tmp, record, files, used>>
      BY <1>0, <1>2, <2>1, <2>2, DoneFacts DEF MergeCreate
    <3> QED BY <1>0, <2>2, <3>1, FrameKeeps
  <2>3. CASE out' = Put(out, req[s].id, 0) /\ Step(s, "copying")
    <3>1. Joining(s)' /\ req' = [req EXCEPT ![s] = req'[s]]
      BY <2>1, <2>3, JoinExcept DEF MergePcs
    <3>2. Frame(s) /\ UNCHANGED <<tmp, record, files, used>>
      BY <1>0, <1>2, <2>1, <3>1, SameStale DEF MergeCreate, Frame
    <3>3. DOMAIN out' \subseteq Ids /\ \A i \in DOMAIN out' : out'[i] \in Nat
      BY <1>0, <2>1, <2>3, PutLength
    <3> QED BY <1>0, <3>1, <3>2, <3>3, FrameKeeps
  <2> QED BY <1>2, <2>2, <2>3 DEF MergeCreate
<1>3. CASE MergeCopy(s)
  <2> DEFINE id == req[s].id
             sum == SumFunctionOnSet(tmp[id], req[s].chunks)
  <2>1. Joining(s) /\ id \in Ids /\ ~At(s, "charging")
    BY <1>3, MergeFields DEF MergeCopy, MergePcs
  <2>2. CASE req[s].chunks \subseteq DOMAIN tmp[id] /\ out' = Put(out, id, sum)
             /\ Step(s, "copied") /\ UNCHANGED tmp
    <3>1. Joining(s)' /\ req' = [req EXCEPT ![s] = req'[s]]
      BY <2>1, <2>2, JoinExcept DEF MergePcs
    <3>2. Frame(s) /\ UNCHANGED <<record, files, used>>
      BY <1>0, <1>3, <2>1, <3>1, SameStale DEF MergeCopy, Frame
    <3>3. IsFiniteSet(req[s].chunks) /\ \A k \in req[s].chunks : tmp[id][k] \in Nat
      <4>1. tmp[id] \in Lists(id, 0..MaxChunk)
        BY <1>0, <2>1
      <4>2. IsFiniteSet(DOMAIN tmp[id]) /\ \A k \in DOMAIN tmp[id] : tmp[id][k] \in 0..MaxChunk
        BY <2>1, <4>1, ListFacts
      <4>3. req[s].chunks \subseteq DOMAIN tmp[id]
        BY <2>2
      <4>4. IsFiniteSet(req[s].chunks)
        BY <4>2, <4>3, FS_Subset
      <4>5. \A k \in req[s].chunks : tmp[id][k] \in Nat
        BY <4>2, <4>3
      <4> QED BY <4>4, <4>5
    <3>4. sum \in Nat
      BY <3>3, SumIsNat
    <3> HIDE DEF sum
    <3>5. DOMAIN out' \subseteq Ids /\ \A i \in DOMAIN out' : out'[i] \in Nat
      BY <1>0, <2>1, <2>2, <3>4, PutLength
    <3> QED BY <1>0, <2>2, <3>1, <3>2, <3>5, FrameKeeps
  <2>3. CASE out' = Drop(out, id) /\ tmp' = [tmp EXCEPT ![id] = Empty] /\ Done(s)
    <3>1. Frame(s) /\ req'[s] = None /\ UNCHANGED <<record, files, used>>
      BY <1>0, <1>3, <2>1, <2>3, DoneFacts DEF MergeCopy
    <3>2. tmp' = [i \in Ids |-> tmp'[i]] /\ \A i \in Ids : tmp'[i] \in Lists(i, 0..MaxChunk)
      BY <1>0, <2>1, <2>3, EmptyList
    <3>3. DOMAIN out' \subseteq Ids /\ \A i \in DOMAIN out' : out'[i] \in Nat
      BY <1>0, <2>3, DropLength
    <3> QED BY <1>0, <3>1, <3>2, <3>3, FrameKeeps
  <2> QED BY <1>3, <2>2, <2>3 DEF MergeCopy
<1>4. CASE MergeBegin(s)
  <2>1. Joining(s) /\ ~At(s, "charging") /\ Step(s, "charging")
    BY <1>4, MergeFields DEF MergeBegin, MergePcs
  <2>2. Joining(s)' /\ req' = [req EXCEPT ![s] = req'[s]]
    BY <2>1, JoinExcept DEF MergePcs
  <2>3. Frame(s) /\ UNCHANGED <<tmp, record, out, files, used>>
    BY <1>0, <1>4, <2>1, <2>2, SameStale DEF MergeBegin, Frame
  <2> QED BY <1>0, <2>2, <2>3, FrameKeeps
<1>5. CASE MergeReject(s)
  <2>1. Frame(s) /\ req'[s] = None /\ UNCHANGED <<tmp, record, files, used>>
    BY <1>0, <1>5, DoneFacts DEF MergeReject
  <2>2. DOMAIN out' \subseteq Ids /\ \A i \in DOMAIN out' : out'[i] \in Nat
    BY <1>0, <1>5, DropLength DEF MergeReject
  <2> QED BY <1>0, <2>1, <2>2, FrameKeeps
<1>6. CASE MergeCommit(s)
  <2> DEFINE id == req[s].id
  <2>1. Joining(s) /\ id \in Ids /\ Step(s, "merged")
    BY <1>6, MergeFields DEF MergeCommit, MergePcs
  <2>2. Joining(s)' /\ req' = [req EXCEPT ![s] = req'[s]]
    BY <2>1, JoinExcept DEF MergePcs
  <2>3. id \in DOMAIN out
    BY <1>6 DEF MergeCommit, TargetThere, Merging
  <2>4. out[id] \in Nat /\ Ceil(out[id]) \in Nat
    BY <1>0, <2>3, CeilIsNat
  <2>5. used' \in Nat
    BY <1>0, <1>6, <2>4 DEF MergeCommit
  <2>6. DOMAIN files' \subseteq Ids /\ \A i \in DOMAIN files' : files'[i] \in Nat
    BY <1>0, <1>6, <2>1, <2>4, PutLength DEF MergeCommit
  <2>7. Frame(s) /\ UNCHANGED <<tmp, record, out>>
    BY <1>0, <1>6, <2>2, CommitsFrame DEF MergeCommit, Frame
  <2> QED BY <1>0, <2>2, <2>5, <2>6, <2>7, FrameKeeps
<1>7. CASE MergeFail(s)
  <2>1. Frame(s) /\ req'[s] = None /\ UNCHANGED <<tmp, record, out, files, used>>
    BY <1>0, <1>7, DoneFacts DEF MergeFail
  <2> QED BY <1>0, <2>1, FrameKeeps
<1>8. CASE MergeClean(s)
  <2>1. Joining(s) /\ req[s].id \in Ids /\ Step(s, "cleaned") /\ ~At(s, "charging")
    BY <1>8, MergeFields DEF MergeClean, MergePcs
  <2>2. Joining(s)' /\ req' = [req EXCEPT ![s] = req'[s]]
    BY <2>1, JoinExcept DEF MergePcs
  <2>3. Frame(s) /\ UNCHANGED <<record, out, files, used>>
    BY <1>0, <1>8, <2>1, <2>2, SameStale DEF MergeClean, Frame
  <2>4. tmp' = [i \in Ids |-> tmp'[i]] /\ \A i \in Ids : tmp'[i] \in Lists(i, 0..MaxChunk)
    BY <1>0, <1>8, <2>1, EmptyList DEF MergeClean
  <2> QED BY <1>0, <2>2, <2>3, <2>4, FrameKeeps
<1>9. CASE MergeForget(s)
  <2>1. req[s].id \in Ids
    BY <1>9, MergeFields DEF MergeForget, MergePcs
  <2>2. Frame(s) /\ req'[s] = None /\ UNCHANGED <<tmp, out, files, used>>
    BY <1>0, <1>9, DoneFacts DEF MergeForget
  <2>3. record' = [i \in Ids |-> record'[i]] /\ \A i \in Ids : record'[i] \in Row(i) \cup {None}
    BY <1>0, <1>9, <2>1 DEF MergeForget
  <2> QED BY <1>0, <2>2, <2>3, FrameKeeps
<1> QED BY <1>1, <1>2, <1>3, <1>4, <1>5, <1>6, <1>7, <1>8, <1>9 DEF Merge

LEMMA OthersKeepTypes ==
  ASSUME Typed,
         \/ \E s \in Slots : Disconnect(s)
         \/ \E id \in Ids : ExpireRow(id) \/ SweepChunks(id)
         \/ Crash
         \/ UNCHANGED vars
  PROVE  Typed'
<1>0. /\ tmp = [id \in Ids |-> tmp[id]] /\ record = [id \in Ids |-> record[id]]
      /\ \A id \in Ids : tmp[id] \in Lists(id, 0..MaxChunk) /\ record[id] \in Row(id) \cup {None}
      /\ DOMAIN out \subseteq Ids /\ DOMAIN files \subseteq Ids
      /\ \A id \in DOMAIN out : out[id] \in Nat
      /\ \A id \in DOMAIN files : files[id] \in Nat
      /\ used \in Nat /\ MaxChunk \in Nat /\ breaks \in 0..MaxBreaks
  BY ChunkAssumption DEF Typed
<1>1. Break => breaks' \in 0..MaxBreaks
  BY <1>0, ChunkAssumption DEF Break
<1>2. ASSUME NEW s \in Slots, Disconnect(s)
      PROVE  Typed'
  <2>1. Frame(s) /\ req'[s] = None /\ UNCHANGED <<record, files, used>>
    BY <1>0, <1>1, <1>2, DoneFacts DEF Disconnect
  <2>2. CASE At(s, "copying") /\ out' = Drop(out, req[s].id) /\ tmp' = [tmp EXCEPT ![req[s].id] = Empty]
    <3>1. req[s].id \in Ids
      BY <2>2, MergeFields DEF MergePcs
    <3>2. tmp' = [i \in Ids |-> tmp'[i]] /\ \A i \in Ids : tmp'[i] \in Lists(i, 0..MaxChunk)
      BY <1>0, <2>2, <3>1, EmptyList
    <3>3. DOMAIN out' \subseteq Ids /\ \A i \in DOMAIN out' : out'[i] \in Nat
      BY <1>0, <2>2, DropLength
    <3> QED BY <1>0, <2>1, <3>2, <3>3, FrameKeeps
  <2>3. CASE UNCHANGED <<out, tmp>>
    BY <1>0, <2>1, <2>3, FrameKeeps
  <2> QED BY <1>2, <2>2, <2>3 DEF Disconnect
<1>3. ASSUME NEW id \in Ids, ExpireRow(id)
      PROVE  Typed'
  <2>1. /\ UNCHANGED <<tmp, out, files, used, req, faults>> /\ breaks' \in 0..MaxBreaks
        /\ stale' \subseteq {s \in Slots : At(s, "charging")'}
        /\ record' = [i \in Ids |-> record'[i]] /\ \A i \in Ids : record'[i] \in Row(i) \cup {None}
    BY <1>0, <1>1, <1>3 DEF ExpireRow, Typed
  <2> QED BY <2>1 DEF Typed, Chunking, Joining
<1>4. ASSUME NEW id \in Ids, SweepChunks(id)
      PROVE  Typed'
  <2>1. /\ UNCHANGED <<record, out, files, used, req, stale, faults, breaks>>
        /\ tmp' = [i \in Ids |-> tmp'[i]] /\ \A i \in Ids : tmp'[i] \in Lists(i, 0..MaxChunk)
    BY <1>0, <1>4, EmptyList DEF SweepChunks
  <2> QED BY <2>1 DEF Typed, Chunking, Joining
<1>5. CASE Crash
  <2>1. /\ UNCHANGED <<tmp, record, out, files, used, faults>> /\ stale' = {}
        /\ breaks' \in 0..MaxBreaks /\ req' = [s \in Slots |-> None]
    BY <1>0, <1>1, <1>5 DEF Crash
  <2>2. req' = [s \in Slots |-> req'[s]] /\ \A s \in Slots : req'[s] = None
    BY <2>1
  <2> QED BY <2>1, <2>2 DEF Typed
<1>6. CASE UNCHANGED vars
  BY <1>6 DEF vars, Typed, Chunking, Joining
<1> QED BY <1>2, <1>3, <1>4, <1>5, <1>6

\* Whatever is sent again, cut off or swept, the tables, the chunks on disk and
\* the requests keep their types (upload_chunk, merge_chunks, tasks/cleanup.rs).
THEOREM TypeCorrect == Spec => []TypeOK
<1>1. Typed /\ QuotaInv /\ [Next]_vars => Typed'
  BY UploadKeepsTypes, MergeKeepsTypes, OthersKeepTypes DEF Next, QuotaInv
<1>2. QuotaInv /\ [Next]_vars => QuotaInv'
  BY UploadKeepsQuota, MergeKeepsQuota, OthersKeepQuota DEF Next
<1> QED BY TypedInit, TypedIsTypeOK, QuotaInvInit, <1>1, <1>2, PTL DEF Spec

------------------------------------------------------------------------------
(* UsedIsExact                                                             *)

LEMMA ChargeIsExact ==
  ASSUME Typed, TargetThere, UsedIsExact, NEW s \in Slots, MergeCommit(s)
  PROVE  UsedIsExact'
<1> DEFINE id == req[s].id
           f  == [i \in DOMAIN files |-> Ceil(files[i])]
           g  == [i \in DOMAIN files' |-> Ceil(files'[i])]
<1>1. id \in DOMAIN out /\ id \notin DOMAIN files
  BY DEF MergeCommit, TargetThere, Merging
<1>2. /\ DOMAIN files' = DOMAIN files \cup {id} /\ files'[id] = out[id]
      /\ \A i \in DOMAIN files : files'[i] = files[i]
  BY <1>1 DEF MergeCommit, Put
<1>3. IsFiniteSet(DOMAIN files)
  BY ChunkAssumption, FS_Subset DEF Typed
<1>4. \A i \in DOMAIN files : f[i] \in Int /\ g[i] = f[i]
  BY <1>2, CeilIsNat DEF Typed
<1>5. g[id] = Ceil(out[id]) /\ g[id] \in Int
  BY <1>1, <1>2, CeilIsNat DEF Typed
<1>6. DOMAIN f = DOMAIN files /\ DOMAIN g = DOMAIN files \cup {id}
  BY <1>2
<1> HIDE DEF f, g
<1>7. SumFunctionOnSet(g, DOMAIN g) = SumFunctionOnSet(f, DOMAIN f) + g[id]
  BY <1>1, <1>3, <1>4, <1>5, <1>6, SumInsert
<1>8. used = SumFunctionOnSet(f, DOMAIN f) /\ used' = used + Ceil(out[id])
  BY DEF UsedIsExact, SumFunction, MergeCommit, f
<1>9. used' = SumFunctionOnSet(g, DOMAIN g)
  BY <1>5, <1>7, <1>8
<1> QED BY <1>9 DEF UsedIsExact, SumFunction, g

LEMMA UsedIsExactNext ==
  ASSUME Typed, TargetThere, UsedIsExact, [Next]_vars
  PROVE  UsedIsExact'
<1>1. ASSUME NEW s \in Slots, MergeCommit(s) PROVE UsedIsExact'
  BY <1>1, ChargeIsExact
<1>2. CASE UNCHANGED <<used, files>>
  BY <1>2 DEF UsedIsExact
<1>3. ASSUME NEW s \in Slots, Upload(s) PROVE UNCHANGED <<used, files>>
  BY <1>3 DEF Upload, Reserve, Truncate, CreateFails, Write, EndOfStream, Reject, Correct,
     ReadSizes, WriteSizes
<1>4. ASSUME NEW s \in Slots, Merge(s), ~MergeCommit(s) PROVE UNCHANGED <<used, files>>
  BY <1>4 DEF Merge, MergeCheck, MergeCreate, MergeCopy, MergeBegin, MergeReject, MergeFail,
     MergeClean, MergeForget
<1> QED
  BY <1>1, <1>2, <1>3, <1>4 DEF Next, vars, Disconnect, ExpireRow, SweepChunks, Crash

\* Every charge is that of a registered file and no registered file is without
\* its charge, however many merges of one upload run and fail (merge_chunks).
THEOREM UsedIsTheFiles == Spec => []UsedIsExact
<1>1. Init => UsedIsExact
  <2> SUFFICES ASSUME Init PROVE UsedIsExact
    OBVIOUS
  <2> DEFINE f == [i \in DOMAIN files |-> Ceil(files[i])]
  <2>1. DOMAIN f = {}
    BY DEF Init, Empty
  <2> HIDE DEF f
  <2>2. SumFunctionOnSet(f, DOMAIN f) = 0
    BY <2>1, SumEmpty
  <2> QED BY <2>2 DEF Init, UsedIsExact, SumFunction, f
<1>2. Typed /\ QuotaInv /\ [Next]_vars => Typed'
  BY UploadKeepsTypes, MergeKeepsTypes, OthersKeepTypes DEF Next, QuotaInv
<1>3. QuotaInv /\ [Next]_vars => QuotaInv'
  BY UploadKeepsQuota, MergeKeepsQuota, OthersKeepQuota DEF Next
<1>4. Typed /\ QuotaInv /\ UsedIsExact /\ [Next]_vars => UsedIsExact'
  BY UsedIsExactNext DEF QuotaInv
<1> QED BY TypedInit, QuotaInvInit, <1>1, <1>2, <1>3, <1>4, PTL DEF Spec

------------------------------------------------------------------------------
(* Without overlapping requests, two requests of one upload are about      *)
(* different chunks of it, and a merge is alone.                           *)

Separate ==
  "overlap" \notin faults =>
    \A s, t \in Slots : s # t /\ req[s] # None /\ req[t] # None /\ req[s].id = req[t].id =>
      Chunking(s) /\ Chunking(t) /\ req[s].index # req[t].index

LEMMA SeparateStep ==
  ASSUME Typed, Separate, NEW s \in Slots, Frame(s),
         \/ req'[s] = None
         \/ /\ req[s] # None /\ req'[s].id = req[s].id /\ req'[s].index = req[s].index
            /\ Chunking(s) => Chunking(s)'
  PROVE  Separate'
<1>1. \A t \in Slots \ {s} : req'[t] = req[t] /\ (Chunking(t) => Chunking(t)')
  BY DEF Frame, Typed, Chunking
<1> QED BY <1>1 DEF Separate, Frame

LEMMA SeparateArrival ==
  ASSUME Typed, Typed', Separate, NEW s \in Slots, Frame(s), req[s] = None, req'[s] # None,
         NEW id, NEW index, req'[s].id = id, req'[s].index = index,
         index # None => Chunking(s)',
         Admitted(id, index)
  PROVE  Separate'
<1>1. \A t \in Slots \ {s} : req'[t] = req[t] /\ (Chunking(t) => Chunking(t)')
  BY DEF Frame, Typed, Chunking
<1> SUFFICES ASSUME "overlap" \notin faults, NEW t \in Slots \ {s}, req[t] # None, req[t].id = id
             PROVE  Chunking(s)' /\ Chunking(t)' /\ req[t].index # index
  BY <1>1 DEF Separate, Frame
<1>2. index # None /\ req[t].index \notin {None, index}
  BY DEF Admitted, Break
<1>3. ~Joining(t)
  BY <1>2 DEF Joining, MergeRequest
<1>4. Chunking(t)
  BY <1>3 DEF Typed
<1> QED BY <1>1, <1>2, <1>4

LEMMA SeparateNext ==
  ASSUME Typed, Typed', Separate, [Next]_vars
  PROVE  Separate'
<1>1. ASSUME NEW s \in Slots, Upload(s) PROVE Separate'
  <2>1. ASSUME NEW id \in Ids, NEW k \in DOMAIN Chunks[id], Reserve(s, id, k) PROVE Separate'
    <3>0. /\ Frame(s) /\ req[s] = None /\ Chunking(s)'
          /\ req'[s] = [pc |-> "reserved", id |-> id, index |-> k, len |-> 0, prev |-> 0,
                        sizes |-> None]
      BY <2>1, ReserveFacts
    <3>1. Frame(s) /\ req[s] = None /\ Chunking(s)' /\ req'[s].id = id /\ req'[s].index = k
      BY <3>0
    <3>2. req'[s] # None /\ Admitted(id, k)
      BY <2>1, <3>1 DEF Reserve, Chunking
    <3> QED BY <3>1, <3>2, SeparateArrival
  <2>2. CASE Truncate(s)
    <3>1. /\ Frame(s) /\ Chunking(s) /\ Chunking(s)'
          /\ SameChunk(s)
      BY <2>2, TruncateFacts
    <3> QED BY <3>1, SeparateStep DEF Chunking, SameChunk
  <2>3. CASE Write(s)
    <3>1. /\ Frame(s) /\ Chunking(s) /\ Chunking(s)'
          /\ SameChunk(s)
      BY <2>3, WriteFacts
    <3> QED BY <3>1, SeparateStep DEF Chunking, SameChunk
  <2>4. CASE EndOfStream(s)
    <3>1. /\ Frame(s) /\ Chunking(s) /\ Chunking(s)'
          /\ SameChunk(s)
      BY <2>4, EndOfStreamFacts
    <3> QED BY <3>1, SeparateStep DEF Chunking, SameChunk
  <2>5. CASE Reject(s)
    <3>1. /\ Frame(s) /\ Chunking(s) /\ Chunking(s)'
          /\ SameChunk(s)
      BY <2>5, RejectFacts
    <3> QED BY <3>1, SeparateStep DEF Chunking, SameChunk
  <2>6. CASE Correct(s)
    <3>1. /\ Frame(s) /\ Chunking(s) /\ Chunking(s)'
          /\ SameChunk(s)
      BY <2>6, CorrectFacts
    <3> QED BY <3>1, SeparateStep DEF Chunking, SameChunk
  <2>7. CASE ReadSizes(s)
    <3>1. /\ Frame(s) /\ Chunking(s) /\ Chunking(s)'
          /\ SameChunk(s)
      BY <2>7, ReadSizesFacts
    <3> QED BY <3>1, SeparateStep DEF Chunking, SameChunk
  <2>8. CASE CreateFails(s) \/ WriteSizes(s)
    <3>1. Done(s) /\ UNCHANGED faults /\ breaks' \in 0..MaxBreaks
          /\ (Commits(s) \/ (UNCHANGED stale /\ ~At(s, "charging")))
      BY <2>8 DEF CreateFails, WriteSizes, Typed
    <3> QED BY <3>1, DoneFacts, SeparateStep
  <2> QED BY <1>1, <2>1, <2>2, <2>3, <2>4, <2>5, <2>6, <2>7, <2>8 DEF Upload
<1>2. ASSUME NEW s \in Slots, Merge(s) PROVE Separate'
  <2>1. ASSUME NEW id \in Ids, MergeCheck(s, id) PROVE Separate'
    <3>1. /\ req' = [req EXCEPT ![s] = req'[s]] /\ req[s] = None
          /\ req'[s].id = id /\ req'[s].index = None /\ Admitted(id, None)
          /\ req'[s] = [pc |-> "checked", id |-> id, index |-> None, chunks |-> DOMAIN tmp[id]]
      BY <2>1 DEF MergeCheck, Typed
    <3>2. req'[s] # None
      <4>1. DOMAIN tmp[id] \in SUBSET DOMAIN Chunks[id]
        BY <2>1, ListFacts DEF Typed
      <4>2. req'[s] \in MergeRequest(id)
        BY <3>1, <4>1 DEF MergeRequest, MergePcs
      <4> QED BY <4>2, ChunkAssumption
    <3>3. Frame(s)
      BY <2>1, <3>1 DEF Frame, Typed, MergeCheck
    <3> QED BY <3>1, <3>2, <3>3, SeparateArrival
  <2>2. ASSUME NEW pc \in MergePcs, Step(s, pc), req[s] # None, req[s].pc \in MergePcs,
               UNCHANGED faults
        PROVE  Separate'
    <3>1. Joining(s)
      BY <2>2, MergeFields
    <3>2. /\ req' = [req EXCEPT ![s] = req'[s]] /\ req'[s].id = req[s].id
          /\ Joining(s)' /\ Joining(s)
      BY <2>2, <3>1, JoinExcept
    <3>3. req'[s].index = req[s].index /\ ~Chunking(s)
      BY <3>2 DEF Joining, MergeRequest, Chunking, ChunkRequest, ChunkPcs, MergePcs
    <3>4. Frame(s)
      BY <2>2, <3>2 DEF Frame, Typed
    <3> QED BY <2>2, <3>2, <3>3, <3>4, SeparateStep
  <2>3. CASE Done(s) /\ UNCHANGED faults
    <3>1. Frame(s) /\ req'[s] = None
      BY <2>3 DEF Frame, Done, Typed
    <3> QED BY <3>1, SeparateStep
  <2>4. CASE MergeCreate(s)
    BY <2>2, <2>3, <2>4 DEF MergeCreate, MergePcs
  <2>5. CASE MergeCopy(s)
    BY <2>2, <2>3, <2>5 DEF MergeCopy, MergePcs
  <2>6. CASE MergeBegin(s) \/ MergeCommit(s) \/ MergeClean(s)
    BY <2>2, <2>6 DEF MergeBegin, MergeCommit, MergeClean, MergePcs
  <2>7. CASE MergeReject(s) \/ MergeFail(s) \/ MergeForget(s)
    BY <2>3, <2>7 DEF MergeReject, MergeFail, MergeForget
  <2> QED BY <1>2, <2>1, <2>4, <2>5, <2>6, <2>7 DEF Merge
<1>3. ASSUME NEW s \in Slots, Disconnect(s) PROVE Separate'
  <2>1. Frame(s) /\ req'[s] = None
    BY <1>3 DEF Disconnect, Done, Frame, Typed
  <2> QED BY <2>1, SeparateStep
<1>4. CASE Crash
  BY <1>4 DEF Crash, Separate
<1>5. CASE UNCHANGED <<req, faults>>
  BY <1>5 DEF Separate, Chunking
<1> QED BY <1>1, <1>2, <1>3, <1>4, <1>5 DEF Next, vars, ExpireRow, SweepChunks

------------------------------------------------------------------------------
(* A step of one request leaves the chunks of the others alone.            *)

SameLength(id, k) ==
  /\ k \in DOMAIN tmp'[id] <=> k \in DOMAIN tmp[id]
  /\ k \in DOMAIN tmp[id] => tmp'[id][k] = tmp[id][k]

OthersKept(s) ==
  "overlap" \notin faults =>
    \A t \in Slots \ {s} : req[t] # None =>
      /\ Joining(t) => tmp'[req[t].id] = tmp[req[t].id]
      /\ Chunking(t) => SameLength(req[t].id, req[t].index)

LEMMA ChunkKeepsOthers ==
  ASSUME Typed, Separate, NEW s \in Slots, Chunking(s),
         \A id \in Ids \ {req[s].id} : tmp'[id] = tmp[id],
         \A k \in DOMAIN Chunks[req[s].id] \ {req[s].index} : SameLength(req[s].id, k)
  PROVE  OthersKept(s)
<1> SUFFICES ASSUME "overlap" \notin faults, NEW t \in Slots \ {s}, req[t] # None
             PROVE  /\ Joining(t) => tmp'[req[t].id] = tmp[req[t].id]
                    /\ Chunking(t) => SameLength(req[t].id, req[t].index)
  BY DEF OthersKept
<1>1. req[s] # None /\ req[t].id \in Ids
  BY DEF Typed, Chunking, Joining
<1>2. CASE req[t].id # req[s].id
  BY <1>1, <1>2 DEF SameLength
<1>3. CASE req[t].id = req[s].id
  <2>1. Chunking(t) /\ req[t].index # req[s].index
    BY <1>1, <1>3 DEF Separate
  <2>2. ~Joining(t) /\ req[t].index \in DOMAIN Chunks[req[t].id]
    BY <2>1 DEF Chunking, Joining, ChunkRequest, MergeRequest, ChunkPcs, MergePcs
  <2> QED BY <1>3, <2>1, <2>2
<1> QED BY <1>2, <1>3

LEMMA MergeKeepsOthers ==
  ASSUME Typed, Separate, NEW s \in Slots, Joining(s),
         \A id \in Ids \ {req[s].id} : tmp'[id] = tmp[id]
  PROVE  OthersKept(s)
<1> SUFFICES ASSUME "overlap" \notin faults, NEW t \in Slots \ {s}, req[t] # None
             PROVE  tmp'[req[t].id] = tmp[req[t].id]
  BY DEF OthersKept, SameLength
<1>1. req[s] # None /\ req[t].id \in Ids /\ ~Chunking(s)
  BY DEF Typed, Chunking, Joining, ChunkRequest, MergeRequest, ChunkPcs, MergePcs
<1> QED BY <1>1 DEF Separate

LEMMA SameTmp ==
  ASSUME NEW s \in Slots, UNCHANGED tmp
  PROVE  OthersKept(s)
  BY DEF OthersKept, SameLength

\* What Truncate, Write and Reject do to the chunks of their upload
LEMMA TruncateTmp ==
  ASSUME Typed, NEW s \in Slots, Truncate(s)
  PROVE  /\ \A id \in Ids \ {req[s].id} : tmp'[id] = tmp[id]
         /\ \A k \in DOMAIN Chunks[req[s].id] \ {req[s].index} : SameLength(req[s].id, k)
         /\ req[s].index \in DOMAIN tmp'[req[s].id]
         /\ tmp'[req[s].id][req[s].index] = 0
<1>1. req[s].id \in Ids
  BY ChunkFields DEF Truncate, ChunkPcs
<1>2. /\ tmp'[req[s].id] = Put(tmp[req[s].id], req[s].index, 0)
      /\ \A id \in Ids \ {req[s].id} : tmp'[id] = tmp[id]
  BY <1>1 DEF Truncate, Typed
<1> QED BY <1>2 DEF Put, SameLength

LEMMA WriteTmp ==
  ASSUME Typed, NEW s \in Slots, Write(s)
  PROVE  /\ \A id \in Ids \ {req[s].id} : tmp'[id] = tmp[id]
         /\ \A k \in DOMAIN Chunks[req[s].id] \ {req[s].index} : SameLength(req[s].id, k)
         /\ req[s].index \in DOMAIN tmp[req[s].id] /\ tmp[req[s].id][req[s].index] = req[s].len =>
              /\ req[s].index \in DOMAIN tmp'[req[s].id]
              /\ tmp'[req[s].id][req[s].index] = req[s].len + 1
<1> DEFINE id == req[s].id
           k == req[s].index
           n == req[s].len + 1
<1>1. id \in Ids /\ req[s].len \in 0..MaxChunk
  BY ChunkFields DEF Write, ChunkPcs
<1>2. /\ tmp'[id] = [i \in DOMAIN tmp[id] |-> IF i = k /\ tmp[id][i] < n THEN n ELSE tmp[id][i]]
      /\ \A i \in Ids \ {id} : tmp'[i] = tmp[i]
  BY <1>1 DEF Write, Typed
<1>3. \A i \in DOMAIN Chunks[id] \ {k} : SameLength(id, i)
  BY <1>2 DEF SameLength
<1>4. k \in DOMAIN tmp[id] /\ tmp[id][k] = req[s].len => k \in DOMAIN tmp'[id] /\ tmp'[id][k] = n
  BY <1>1, <1>2
<1> QED BY <1>2, <1>3, <1>4

LEMMA RejectTmp ==
  ASSUME Typed, NEW s \in Slots, Reject(s)
  PROVE  /\ \A id \in Ids \ {req[s].id} : tmp'[id] = tmp[id]
         /\ \A k \in DOMAIN Chunks[req[s].id] \ {req[s].index} : SameLength(req[s].id, k)
         /\ req[s].index \notin DOMAIN tmp'[req[s].id]
<1>1. req[s].id \in Ids
  BY ChunkFields DEF Reject, ChunkPcs
<1>2. /\ tmp'[req[s].id] = Drop(tmp[req[s].id], req[s].index)
      /\ \A id \in Ids \ {req[s].id} : tmp'[id] = tmp[id]
  BY <1>1 DEF Reject, Typed
<1> QED BY <1>2 DEF Drop, Restrict, SameLength

\* The chunks of an upload go at once.
LEMMA EmptyTmp ==
  ASSUME Typed, NEW id \in Ids, tmp' = [tmp EXCEPT ![id] = Empty]
  PROVE  tmp'[id] = Empty /\ \A i \in Ids \ {id} : tmp'[i] = tmp[i]
  BY DEF Typed

LEMMA UploadOthers ==
  ASSUME Typed, Separate, NEW s \in Slots, Upload(s)
  PROVE  Frame(s) /\ OthersKept(s)
<1>1. ASSUME NEW id \in Ids, NEW k \in DOMAIN Chunks[id], Reserve(s, id, k)
      PROVE  Frame(s) /\ OthersKept(s)
  BY <1>1, ReserveFacts, SameTmp DEF Reserve
<1>2. CASE Truncate(s)
  BY <1>2, TruncateFacts, TruncateTmp, ChunkKeepsOthers
<1>3. CASE CreateFails(s)
  BY <1>3, DoneFacts, SameTmp DEF CreateFails, Typed
<1>4. CASE Write(s)
  BY <1>4, WriteFacts, WriteTmp, ChunkKeepsOthers
<1>5. CASE EndOfStream(s)
  BY <1>5, EndOfStreamFacts, SameTmp DEF EndOfStream
<1>6. CASE Reject(s)
  BY <1>6, RejectFacts, RejectTmp, ChunkKeepsOthers
<1>7. CASE Correct(s)
  BY <1>7, CorrectFacts, SameTmp DEF Correct
<1>8. CASE ReadSizes(s)
  BY <1>8, ReadSizesFacts, SameTmp DEF ReadSizes
<1>9. CASE WriteSizes(s)
  BY <1>9, DoneFacts, SameTmp DEF WriteSizes, Typed
<1> QED BY <1>1, <1>2, <1>3, <1>4, <1>5, <1>6, <1>7, <1>8, <1>9 DEF Upload

LEMMA MergeOthers ==
  ASSUME Typed, Separate, NEW s \in Slots, Merge(s) \/ Disconnect(s)
  PROVE  Frame(s) /\ OthersKept(s)
<1>1. ASSUME NEW id \in Ids, MergeCheck(s, id)
      PROVE  Frame(s) /\ OthersKept(s)
  <2>1. req' = [req EXCEPT ![s] = req'[s]] /\ UNCHANGED <<stale, faults, tmp>> /\ req[s] = None
    BY <1>1 DEF MergeCheck, Typed
  <2>2. breaks' \in 0..MaxBreaks
    BY <1>1, ChunkAssumption DEF MergeCheck, Admitted, Break, Typed
  <2> QED BY <2>1, <2>2, SameStale, SameTmp DEF Frame
<1>2. CASE MergeCreate(s) \/ MergeBegin(s)
  <2>1. UNCHANGED <<tmp, stale, faults, breaks>> /\ ~At(s, "charging")
        /\ req' = [req EXCEPT ![s] = req'[s]]
    BY <1>2 DEF MergeCreate, MergeBegin, Done, Step, Typed
  <2> QED BY <2>1, SameStale, SameTmp DEF Frame, Typed
<1>3. CASE MergeCopy(s) \/ MergeClean(s)
  <2>1. UNCHANGED <<stale, faults, breaks>> /\ ~At(s, "charging")
        /\ req' = [req EXCEPT ![s] = req'[s]]
    BY <1>3 DEF MergeCopy, MergeClean, Done, Step, Typed
  <2>2. Joining(s) /\ req[s].id \in Ids
    BY <1>3, MergeFields DEF MergeCopy, MergeClean, MergePcs
  <2>3. UNCHANGED tmp \/ tmp' = [tmp EXCEPT ![req[s].id] = Empty]
    BY <1>3 DEF MergeCopy, MergeClean
  <2>4. \A id \in Ids \ {req[s].id} : tmp'[id] = tmp[id]
    BY <2>2, <2>3, EmptyTmp
  <2> QED BY <2>1, <2>2, <2>4, SameStale, MergeKeepsOthers DEF Frame, Typed
<1>4. CASE MergeReject(s) \/ MergeFail(s)
  <2>1. UNCHANGED <<tmp, faults, breaks>> /\ stale' = stale \ {s}
        /\ req' = [req EXCEPT ![s] = req'[s]]
    BY <1>4 DEF MergeReject, MergeFail, Done, Step, Typed
  <2> QED BY <2>1, SameStale, SameTmp DEF Frame, Typed
<1>5. CASE MergeCommit(s) \/ MergeForget(s)
  <2>1. UNCHANGED <<tmp, faults, breaks>> /\ Commits(s)
        /\ req' = [req EXCEPT ![s] = req'[s]]
    BY <1>5 DEF MergeCommit, MergeForget, Done, Step, Typed
  <2> QED BY <2>1, CommitsFrame, SameTmp DEF Frame, Typed
<1>6. CASE Disconnect(s)
  <2>1. UNCHANGED faults /\ stale' = stale \ {s} /\ req' = [req EXCEPT ![s] = req'[s]]
    BY <1>6 DEF Disconnect, Done, Typed
  <2>2. breaks' \in 0..MaxBreaks
    BY <1>6, ChunkAssumption DEF Disconnect, Break, Typed
  <2>3. CASE At(s, "copying")
    <3>1. Joining(s) /\ req[s].id \in Ids
      BY <2>3, MergeFields DEF MergePcs
    <3>2. tmp' = [tmp EXCEPT ![req[s].id] = Empty]
      BY <1>6, <2>3 DEF Disconnect
    <3> QED BY <2>1, <2>2, <3>1, <3>2, SameStale, EmptyTmp, MergeKeepsOthers DEF Frame
  <2>4. CASE ~At(s, "copying")
    BY <1>6, <2>1, <2>2, <2>4, SameStale, SameTmp DEF Disconnect, Frame
  <2> QED BY <2>3, <2>4
<1> QED BY <1>1, <1>2, <1>3, <1>4, <1>5, <1>6 DEF Merge

------------------------------------------------------------------------------
(* What a request knows of its chunk.                                      *)

Length(id, k) == IF k \in DOMAIN tmp[id] THEN tmp[id][k] ELSE 0

Known(s) ==
  req[s] # None =>
    /\ At(s, "reserved") => req[s].len = 0
    /\ At(s, "writing") => /\ req[s].index \in DOMAIN tmp[req[s].id]
                           /\ tmp[req[s].id][req[s].index] = req[s].len
    /\ At(s, "written") => Length(req[s].id, req[s].index) = req[s].len
    /\ At(s, "cleaned") => tmp[req[s].id] = Empty

Written == "overlap" \notin faults => \A s \in Slots : Known(s)

LEMMA WrittenStep ==
  ASSUME Typed, Written, NEW s \in Slots, Frame(s), OthersKept(s),
         "overlap" \notin faults => Known(s)'
  PROVE  Written'
<1>0. faults' = faults /\ \A t \in Slots \ {s} : req'[t] = req[t]
  BY DEF Frame, Typed
<1> SUFFICES ASSUME "overlap" \notin faults, NEW t \in Slots \ {s}, req[t] # None
             PROVE  Known(t)'
  <2>1. ASSUME "overlap" \notin faults, NEW t \in Slots, t # s PROVE Known(t)'
    <3>1. CASE req[t] = None
      BY <1>0, <2>1, <3>1 DEF Known
    <3> QED BY <2>1, <3>1
  <2> QED BY <1>0, <2>1 DEF Written
<1>1. req'[t] = req[t] /\ Known(t)
  BY DEF Frame, Typed, Written
<1>2. CASE Chunking(t)
  <2>1. SameLength(req[t].id, req[t].index) /\ req[t].pc # "cleaned"
    BY <1>2 DEF OthersKept, Chunking, ChunkRequest, ChunkPcs
  <2> QED BY <1>1, <2>1 DEF SameLength, Known, Length
<1>3. CASE Joining(t)
  <2>1. tmp'[req[t].id] = tmp[req[t].id]
    BY <1>3 DEF OthersKept
  <2> QED BY <1>1, <2>1 DEF Known, Length
<1> QED BY <1>2, <1>3 DEF Typed

LEMMA WrittenNext ==
  ASSUME Typed, Separate, Written, [Next]_vars
  PROVE  Written'
<1>1. ASSUME NEW s \in Slots, Upload(s) PROVE Written'
  <2>0. Frame(s) /\ OthersKept(s)
    BY <1>1, UploadOthers
  <2> SUFFICES ASSUME "overlap" \notin faults PROVE Known(s)'
    BY <2>0, WrittenStep
  <2>1. ASSUME NEW id \in Ids, NEW k \in DOMAIN Chunks[id], Reserve(s, id, k) PROVE Known(s)'
    <3>1. req'[s] = [pc |-> "reserved", id |-> id, index |-> k, len |-> 0, prev |-> 0,
                     sizes |-> None]
      BY <2>1, ReserveFacts
    <3> QED BY <3>1 DEF Known
  <2>2. CASE Truncate(s)
    <3>0. req'[s] = [pc |-> "writing", id |-> req[s].id, index |-> req[s].index,
                    len |-> req[s].len, sizes |-> req[s].sizes,
                    prev |-> IF req[s].index \in DOMAIN tmp[req[s].id]
                             THEN tmp[req[s].id][req[s].index] ELSE 0]
      BY <2>2, TruncateFacts
    <3>1. req'[s].pc = "writing" /\ req'[s].len = req[s].len
          /\ req'[s].id = req[s].id /\ req'[s].index = req[s].index
      BY <3>0
    <3>2. req[s].len = 0
      BY <2>2 DEF Truncate, Written, Known
    <3> QED BY <2>2, <3>1, <3>2, TruncateTmp DEF Known
  <2>3. CASE Write(s)
    <3>0. req'[s] = [pc |-> "writing", id |-> req[s].id, index |-> req[s].index,
                    len |-> req[s].len + 1, sizes |-> req[s].sizes, prev |-> req[s].prev]
      BY <2>3, WriteFacts
    <3>1. req'[s].pc = "writing" /\ req'[s].len = req[s].len + 1
          /\ req'[s].id = req[s].id /\ req'[s].index = req[s].index
      BY <3>0
    <3>2. req[s].index \in DOMAIN tmp[req[s].id] /\ tmp[req[s].id][req[s].index] = req[s].len
      BY <2>3 DEF Write, Written, Known
    <3> QED BY <2>3, <3>1, <3>2, WriteTmp DEF Known
  <2>4. CASE EndOfStream(s)
    <3>0. req'[s] = [pc |-> "written", id |-> req[s].id, index |-> req[s].index,
                    len |-> req[s].len, sizes |-> req[s].sizes, prev |-> req[s].prev]
      BY <2>4, EndOfStreamFacts
    <3>1. req'[s].pc = "written" /\ req'[s].len = req[s].len
          /\ req'[s].id = req[s].id /\ req'[s].index = req[s].index
      BY <3>0
    <3>2. req[s].index \in DOMAIN tmp[req[s].id] /\ tmp[req[s].id][req[s].index] = req[s].len
      BY <2>4 DEF EndOfStream, Written, Known
    <3> QED BY <2>4, <3>1, <3>2 DEF Known, Length, EndOfStream
  <2>5. CASE Reject(s)
    <3>0. req'[s] = [pc |-> "written", id |-> req[s].id, index |-> req[s].index,
                    len |-> 0, sizes |-> req[s].sizes, prev |-> req[s].prev]
      BY <2>5, RejectFacts
    <3>1. req'[s].pc = "written" /\ req'[s].len = 0
          /\ req'[s].id = req[s].id /\ req'[s].index = req[s].index
      BY <3>0
    <3> QED BY <2>5, <3>1, RejectTmp DEF Known, Length
  <2>6. CASE Correct(s) \/ ReadSizes(s)
    <3>1. req'[s].pc \in {"counted", "sizing"}
      <4>1. CASE Correct(s)
        <5>1. req'[s] = [pc |-> "counted", id |-> req[s].id, index |-> req[s].index,
                         len |-> req[s].len, sizes |-> req[s].sizes, prev |-> 0]
          BY <4>1, CorrectFacts
        <5> QED BY <5>1
      <4>2. CASE ReadSizes(s)
        <5>1. req'[s] = [pc |-> "sizing", id |-> req[s].id, index |-> req[s].index,
                         len |-> req[s].len, prev |-> req[s].prev,
                         sizes |-> IF record[req[s].id] = None THEN None
                                   ELSE record[req[s].id].sizes]
          BY <4>2, ReadSizesFacts
        <5> QED BY <5>1
      <4> QED BY <2>6, <4>1, <4>2
    <3> QED BY <3>1 DEF Known
  <2>7. CASE CreateFails(s) \/ WriteSizes(s)
    BY <2>7 DEF CreateFails, WriteSizes, Done, Typed, Known
  <2> QED BY <1>1, <2>1, <2>2, <2>3, <2>4, <2>5, <2>6, <2>7 DEF Upload
<1>2. ASSUME NEW s \in Slots, Merge(s) \/ Disconnect(s) PROVE Written'
  <2>0. Frame(s) /\ OthersKept(s)
    BY <1>2, MergeOthers
  <2>1. Known(s)'
    <3>1. CASE MergeClean(s)
      <4>1. Joining(s) /\ req[s].id \in Ids /\ Step(s, "cleaned")
        BY <3>1, MergeFields DEF MergeClean, MergePcs
      <4>2. req'[s].id = req[s].id /\ req'[s].pc = "cleaned"
        BY <4>1, JoinExcept DEF MergePcs
      <4>3. tmp'[req[s].id] = Empty
        BY <3>1, <4>1, EmptyTmp DEF MergeClean
      <4> QED BY <4>2, <4>3 DEF Known
    <3>2. ASSUME NEW pc \in {"copying", "copied", "charging", "merged"}, Step(s, pc),
                 req[s] # None, req[s].pc \in MergePcs
          PROVE  Known(s)'
      <4>1. Joining(s) /\ pc \in MergePcs
        BY <3>2, MergeFields DEF MergePcs
      <4>2. req'[s].pc = pc
        BY <3>2, <4>1, JoinExcept
      <4> QED BY <4>2 DEF Known
    <3>3. CASE Done(s)
      BY <3>3 DEF Done, Typed, Known
    <3>4. ASSUME NEW id \in Ids, MergeCheck(s, id) PROVE Known(s)'
      BY <3>4 DEF MergeCheck, Typed, Known
    <3>5. CASE MergeCreate(s)
      BY <3>2, <3>3, <3>5 DEF MergeCreate, MergePcs
    <3>6. CASE MergeCopy(s)
      BY <3>2, <3>3, <3>6 DEF MergeCopy, MergePcs
    <3>7. CASE MergeBegin(s) \/ MergeCommit(s)
      BY <3>2, <3>7 DEF MergeBegin, MergeCommit, MergePcs
    <3>8. CASE MergeReject(s) \/ MergeFail(s) \/ MergeForget(s) \/ Disconnect(s)
      BY <3>3, <3>8 DEF MergeReject, MergeFail, MergeForget, Disconnect
    <3> QED BY <1>2, <3>1, <3>4, <3>5, <3>6, <3>7, <3>8 DEF Merge
  <2> QED BY <2>0, <2>1, WrittenStep
<1>3. ASSUME NEW id \in Ids, SweepChunks(id) PROVE Written'
  <2>1. UNCHANGED <<req, faults>> /\ \A s \in Slots : req[s] # None => req[s].id # id
    BY <1>3 DEF SweepChunks
  <2>2. \A i \in Ids \ {id} : tmp'[i] = tmp[i]
    BY <1>3, EmptyTmp DEF SweepChunks
  <2>3. \A s \in Slots : req[s] # None => tmp'[req[s].id] = tmp[req[s].id]
    BY <2>1, <2>2 DEF Typed, Chunking, Joining
  <2> QED BY <2>1, <2>3 DEF Written, Known, Length
<1>4. CASE Crash
  BY <1>4 DEF Crash, Written, Known
<1>5. CASE UNCHANGED <<req, faults, tmp>>
  BY <1>5 DEF Written, Known, Length
<1> QED BY <1>1, <1>2, <1>3, <1>4, <1>5 DEF Next, vars, ExpireRow

------------------------------------------------------------------------------
(* What upload_chunk does to the rows.                                     *)

LEMMA RowWritten ==
  ASSUME Typed, NEW id \in Ids, NEW n \in Nat, NEW l \in Lists(id, 1..MaxChunk) \cup {None},
         record'[id] = [bytes |-> n, sizes |-> l]
  PROVE  record'[id] # None /\ Bytes(id)' = n
<1>2. record'[id] \in Row(id) /\ record'[id].bytes = n
  BY DEF Row
<1>3. record'[id] # None
  BY <1>2, ChunkAssumption
<1> QED BY <1>2, <1>3 DEF Bytes

\* The fields of a row
LEMMA RowFields ==
  ASSUME Typed, NEW id \in Ids, record[id] # None
  PROVE  record[id] = [bytes |-> record[id].bytes, sizes |-> record[id].sizes]
  BY DEF Typed, Row

LEMMA BytesIsNat ==
  ASSUME Typed, NEW id \in Ids
  PROVE  /\ Bytes(id) \in Nat
         /\ record[id] # None =>
              /\ Bytes(id) = record[id].bytes
              /\ record[id].sizes \in Lists(id, 1..MaxChunk) \cup {None}
  BY DEF Typed, Bytes, Row

LEMMA ReserveRow ==
  ASSUME Typed, NEW s \in Slots, NEW id \in Ids, NEW k \in DOMAIN Chunks[id], Reserve(s, id, k)
  PROVE  /\ record'[id] # None /\ Bytes(id)' = Bytes(id) + MaxChunk
         /\ \A i \in Ids \ {id} : record'[i] = record[i]
<1>1. MaxChunk \in Nat /\ Bytes(id) \in Nat
  BY ChunkAssumption, BytesIsNat
<1>2. CASE record[id] = None
  <2>1. record' = [record EXCEPT ![id] = [bytes |-> MaxChunk, sizes |-> None]]
    BY <1>2 DEF Reserve
  <2>2. Bytes(id) + MaxChunk = MaxChunk
    BY <1>1, <1>2 DEF Bytes
  <2>3. record'[id] = [bytes |-> MaxChunk, sizes |-> None]
        /\ \A i \in Ids \ {id} : record'[i] = record[i]
    BY <2>1 DEF Typed
  <2>4. record'[id] # None /\ Bytes(id)' = MaxChunk
    BY <1>1, <2>3, RowWritten
  <2> QED BY <2>2, <2>3, <2>4
<1>3. CASE record[id] # None
  <2> DEFINE n == Bytes(id) + MaxChunk
             l == record[id].sizes
  <2>1. record' = [record EXCEPT ![id] = [bytes |-> n, sizes |-> l]]
    BY <1>3 DEF Reserve, Bytes
  <2>2. record[id].sizes \in Lists(id, 1..MaxChunk) \cup {None}
    BY <1>3, BytesIsNat
  <2>3. n \in Nat
    BY <1>1
  <2> HIDE DEF n
  <2>4. record'[id] = [bytes |-> n, sizes |-> l] /\ \A i \in Ids \ {id} : record'[i] = record[i]
    BY <2>1 DEF Typed
  <2>5. record'[id] # None /\ Bytes(id)' = n
    BY <2>2, <2>3, <2>4, RowWritten
  <2> QED BY <2>4, <2>5 DEF n
<1> QED BY <1>2, <1>3

LEMMA CorrectRow ==
  ASSUME Typed, NEW s \in Slots, Correct(s), NEW id \in Ids, req[s].id = id
  PROVE  /\ \A i \in Ids : record[i] # None => record'[i] # None
         /\ \A i \in Ids \ {id} : record'[i] = record[i]
         /\ IF record[id] = None
              THEN UNCHANGED record
              ELSE Bytes(id)' = Minus(Bytes(id) + req[s].len, req[s].prev + MaxChunk)
<1> DEFINE n  == Minus(Bytes(id) + req[s].len, req[s].prev + MaxChunk)
           l  == record[id].sizes
<1>1. req[s].len \in 0..MaxChunk /\ req[s].prev \in 0..MaxChunk
  BY ChunkFields DEF Correct, ChunkPcs
<1>2. CASE record[id] = None
  <2>1. UNCHANGED record
    BY <1>2 DEF Correct, Counting
  <2> QED BY <1>2, <2>1
<1>3. CASE record[id] # None
  <2>1. record[id].sizes \in Lists(id, 1..MaxChunk) \cup {None}
        /\ Bytes(id) \in Nat /\ MaxChunk \in Nat
    BY <1>1, <1>3, BytesIsNat, ChunkAssumption
  <2>2. n \in Nat
    BY <1>1, <2>1 DEF Minus
  <2>3. record' = [record EXCEPT ![id].bytes = n]
    BY <1>3 DEF Correct, Counting
  <2> HIDE DEF n
  <2>4. record'[id] = [bytes |-> n, sizes |-> l] /\ \A i \in Ids \ {id} : record'[i] = record[i]
    <3>1. record'[id] = [record[id] EXCEPT !.bytes = n] /\ \A i \in Ids \ {id} : record'[i] = record[i]
      BY <2>3 DEF Typed
    <3>2. record[id] = [bytes |-> record[id].bytes, sizes |-> record[id].sizes]
      BY <1>3, RowFields
    <3> QED BY <3>1, <3>2
  <2>5. record'[id] # None /\ Bytes(id)' = n
    BY <1>1, <2>1, <2>2, <2>4, RowWritten
  <2> QED BY <1>3, <2>4, <2>5 DEF n
<1> QED BY <1>2, <1>3

LEMMA SizesRow ==
  ASSUME Typed, NEW s \in Slots, WriteSizes(s), NEW id \in Ids, req[s].id = id
  PROVE  \A i \in Ids : (record[i] # None => record'[i] # None) /\ Bytes(i)' = Bytes(i)
<1> DEFINE k   == req[s].index
           old == IF req[s].sizes = None THEN Empty ELSE req[s].sizes
           new == IF req[s].len = 0 THEN Drop(old, k) ELSE Put(old, k, req[s].len)
<1>1. /\ k \in DOMAIN Chunks[id] /\ req[s].len \in 0..MaxChunk
      /\ req[s].sizes \in Lists(id, 1..MaxChunk) \cup {None}
  BY ChunkFields DEF WriteSizes, ChunkPcs
<1>2. old \in Lists(id, 1..MaxChunk)
  BY <1>1, EmptyList
<1>3. new \in Lists(id, 1..MaxChunk)
  <2> HIDE DEF old
  <2>1. CASE req[s].len = 0
    BY <1>1, <1>2, <2>1, DropList
  <2>2. CASE req[s].len # 0
    <3>1. req[s].len \in 1..MaxChunk
      BY <1>1, <2>2, ChunkAssumption
    <3> QED BY <1>1, <1>2, <2>2, <3>1, PutList
  <2> QED BY <2>1, <2>2
<1>4. record' = record \/ (record[id] # None /\ record' = [record EXCEPT ![id].sizes = new])
  BY DEF WriteSizes
<1> HIDE DEF new
<1>5. CASE record' = record
  BY <1>5 DEF Bytes
<1>6. CASE record[id] # None /\ record' = [record EXCEPT ![id].sizes = new]
  <2>1. record[id].bytes \in Nat /\ Bytes(id) = record[id].bytes
    BY <1>1, <1>6 DEF Typed, Row, Bytes
  <2>2. /\ record'[id] = [bytes |-> record[id].bytes, sizes |-> new]
        /\ \A i \in Ids \ {id} : record'[i] = record[i]
    <3>1. record'[id] = [record[id] EXCEPT !.sizes = new] /\ \A i \in Ids \ {id} : record'[i] = record[i]
      BY <1>6 DEF Typed
    <3>2. record[id] = [bytes |-> record[id].bytes, sizes |-> record[id].sizes]
      BY <1>6, RowFields
    <3> QED BY <3>1, <3>2
  <2>3. record'[id] # None /\ Bytes(id)' = record[id].bytes
    BY <1>1, <1>3, <2>1, <2>2, RowWritten
  <2>4. \A i \in Ids \ {id} : Bytes(i)' = Bytes(i)
    BY <2>2 DEF Bytes
  <2> QED BY <2>1, <2>2, <2>3, <2>4
<1> QED BY <1>4, <1>5, <1>6

\* upload_chunk never removes a row.
LEMMA UploadRows ==
  ASSUME Typed, NEW s \in Slots, Upload(s)
  PROVE  \A i \in Ids : record[i] # None => record'[i] # None
<1>1. ASSUME NEW id \in Ids, NEW k \in DOMAIN Chunks[id], Reserve(s, id, k)
      PROVE  \A i \in Ids : record[i] # None => record'[i] # None
  BY <1>1, ReserveRow
<1>2. CASE Correct(s)
  <2>1. req[s].id \in Ids
    BY <1>2, ChunkFields DEF Correct, ChunkPcs
  <2> QED BY <1>2, <2>1, CorrectRow
<1>3. CASE WriteSizes(s)
  <2>1. req[s].id \in Ids
    BY <1>3, ChunkFields DEF WriteSizes, ChunkPcs
  <2> QED BY <1>3, <2>1, SizesRow
<1>4. CASE UNCHANGED record
  BY <1>4
<1> QED BY <1>1, <1>2, <1>3, <1>4
     DEF Upload, Truncate, CreateFails, Write, EndOfStream, Reject, ReadSizes

------------------------------------------------------------------------------
(* MergedIsComplete: a chunk of the wrong length is being written, an      *)
(* upload with chunks has its row, and what a merge has found is there     *)
(* until it has copied it.                                                 *)

Calm == Free({"crash", "disconnect", "truncate", "expire", "overlap"})

FilledAt(id, k) ==
  k \in DOMAIN tmp[id] =>
    \/ tmp[id][k] = Chunks[id][k]
    \/ \E s \in Slots : At(s, "writing") /\ req[s].id = id /\ req[s].index = k

Filled == \A id \in Ids : \A k \in DOMAIN Chunks[id] : FilledAt(id, k)

Rowed == \A id \in Ids : tmp[id] # Empty => record[id] # None

Ready(s) ==
  req[s] # None =>
    /\ Chunking(s) => record[req[s].id] # None
    /\ At(s, "checked") \/ At(s, "copying") =>
         req[s].chunks = DOMAIN Chunks[req[s].id] /\ DOMAIN tmp[req[s].id] = DOMAIN Chunks[req[s].id]
    /\ At(s, "copied") \/ At(s, "charging") =>
         req[s].id \in DOMAIN out /\ out[req[s].id] = SumFunction(Chunks[req[s].id])

AllComplete == \A id \in DOMAIN files : Complete(id)

Whole == Calm => Filled /\ Rowed /\ AllComplete /\ \A s \in Slots : Ready(s)

\* A chunk that a request does not touch is as it was.
LEMMA OthersFilled ==
  ASSUME Typed, Filled, NEW s \in Slots, Frame(s), Chunking(s), FilledAt(req[s].id, req[s].index)',
         req'[s] # None, SameChunk(s),
         \A id \in Ids \ {req[s].id} : tmp'[id] = tmp[id],
         \A k \in DOMAIN Chunks[req[s].id] \ {req[s].index} : SameLength(req[s].id, k)
  PROVE  Filled'
<1>0. \A t \in Slots \ {s} : req'[t] = req[t]
  BY DEF Frame, Typed
<1> SUFFICES ASSUME NEW id \in Ids, NEW k \in DOMAIN Chunks[id] PROVE FilledAt(id, k)'
  BY DEF Filled
<1>1. CASE id = req[s].id /\ k = req[s].index
  BY <1>1 DEF SameChunk
<1>2. CASE ~(id = req[s].id /\ k = req[s].index)
  <2>1. SameLength(id, k)
    BY <1>2 DEF SameLength
  <2>2. FilledAt(id, k)
    BY DEF Filled
  <2>3. ASSUME NEW w \in Slots, At(w, "writing"), req[w].id = id, req[w].index = k
        PROVE  At(w, "writing")' /\ req'[w].id = id /\ req'[w].index = k
    BY <1>0, <1>2, <2>3
  <2> QED BY <2>1, <2>2, <2>3 DEF FilledAt, SameLength
<1> QED BY <1>1, <1>2

LEMMA SameFilled ==
  ASSUME Typed, Filled, NEW s \in Slots, Frame(s), ~At(s, "writing"),
         \A id \in Ids : tmp'[id] \in {tmp[id], Empty}
  PROVE  Filled'
<1>0. \A t \in Slots \ {s} : req'[t] = req[t]
  BY DEF Frame, Typed
<1>1. ASSUME NEW id \in Ids, NEW k \in DOMAIN Chunks[id] PROVE FilledAt(id, k)'
  <2>1. FilledAt(id, k)
    BY DEF Filled
  <2>2. CASE tmp'[id] = tmp[id]
    BY <1>0, <2>1, <2>2 DEF FilledAt
  <2>3. CASE tmp'[id] = Empty
    BY <2>3 DEF FilledAt, Empty
  <2> QED BY <2>2, <2>3
<1> QED BY <1>1 DEF Filled

\* upload_chunk leaves what the other requests need.
LEMMA OthersReady ==
  ASSUME Typed, NEW s \in Slots, Frame(s), OthersKept(s), "overlap" \notin faults,
         NEW t \in Slots \ {s}, Ready(t),
         UNCHANGED out \/ (Joining(s) /\ Separate /\ \A id \in Ids \ {req[s].id} :
                             /\ id \in DOMAIN out' <=> id \in DOMAIN out
                             /\ id \in DOMAIN out => out'[id] = out[id]),
         req[t] # None => (record[req[t].id] # None => record'[req[t].id] # None) \/ Joining(t)
  PROVE  Ready(t)'
<1>0. req'[t] = req[t]
  BY DEF Frame, Typed
<1> SUFFICES ASSUME req[t] # None PROVE Ready(t)'
  BY <1>0 DEF Ready
<1>1. CASE Chunking(t)
  <2>1. record'[req[t].id] # None
    BY <1>1 DEF Ready, Chunking, Joining, ChunkRequest, MergeRequest, ChunkPcs, MergePcs
  <2>2. req[t].pc \in ChunkPcs
    BY <1>1 DEF Chunking, ChunkRequest
  <2> QED BY <1>0, <2>1, <2>2 DEF Ready, ChunkPcs
<1>2. CASE Joining(t)
  <2>1. tmp'[req[t].id] = tmp[req[t].id] /\ req[t].id \in Ids
    BY <1>2 DEF OthersKept, Joining
  <2>2. ~Chunking(t)' /\ ~Chunking(t)
    BY <1>0, <1>2 DEF Chunking, Joining, ChunkRequest, MergeRequest, ChunkPcs, MergePcs
  <2>3. Joining(s) /\ Separate => req[t].id # req[s].id
    BY <2>2 DEF Separate, Joining
  <2>4. req[t].id \in DOMAIN out =>
          req[t].id \in DOMAIN out' /\ out'[req[t].id] = out[req[t].id]
    BY <2>1, <2>3
  <2> QED BY <1>0, <2>1, <2>2, <2>4 DEF Ready
<1> QED BY <1>1, <1>2 DEF Typed

LEMMA UploadWhole ==
  ASSUME Typed, Typed', Separate, Written, Whole, NEW s \in Slots, Upload(s)
  PROVE  Whole'
<1>1. Frame(s) /\ OthersKept(s)
  BY UploadOthers
<1>2. \A i \in Ids : record[i] # None => record'[i] # None
  BY UploadRows
<1>3. UNCHANGED <<out, files>>
  BY DEF Upload, Reserve, Truncate, CreateFails, Write, EndOfStream, Reject, Correct, ReadSizes,
     WriteSizes
<1> SUFFICES ASSUME Calm PROVE Filled' /\ Rowed' /\ AllComplete' /\ \A t \in Slots : Ready(t)'
  BY <1>1 DEF Whole, Calm, Free, Frame
<1>4. Filled /\ Rowed /\ AllComplete /\ (\A t \in Slots : Ready(t)) /\ Known(s)
  BY DEF Whole, Written, Calm, Free
<1>5. AllComplete'
  BY <1>3, <1>4 DEF AllComplete, Complete
<1>6. ASSUME NEW t \in Slots \ {s} PROVE Ready(t)'
  <2>1. "overlap" \notin faults /\ Ready(t)
    BY <1>4 DEF Calm, Free
  <2>2. req[t] # None => req[t].id \in Ids
    BY DEF Typed, Chunking, Joining
  <2> QED BY <1>1, <1>2, <1>3, <2>1, <2>2, OthersReady
<1>7. Ready(s)'
  <2>1. ASSUME NEW id \in Ids, NEW k \in DOMAIN Chunks[id], Reserve(s, id, k) PROVE Ready(s)'
    <3>1. req'[s] = [pc |-> "reserved", id |-> id, index |-> k, len |-> 0, prev |-> 0,
                     sizes |-> None]
      BY <2>1, ReserveFacts
    <3>2. record'[id] # None
      BY <2>1, ReserveRow
    <3> QED BY <3>1, <3>2 DEF Ready
  <2>2. ASSUME Chunking(s), Chunking(s)', SameChunk(s) PROVE Ready(s)'
    <3>1. record'[req'[s].id] # None
      BY <1>2, <1>4, <2>2 DEF Ready, Chunking, SameChunk
    <3>2. req'[s].pc \in ChunkPcs
      BY <2>2 DEF Chunking, ChunkRequest
    <3> QED BY <3>1, <3>2 DEF Ready, ChunkPcs
  <2>3. CASE Truncate(s)
    BY <2>2, <2>3, TruncateFacts
  <2>4. CASE Write(s)
    BY <2>2, <2>4, WriteFacts
  <2>5. CASE EndOfStream(s)
    BY <2>2, <2>5, EndOfStreamFacts
  <2>6. CASE Reject(s)
    BY <2>2, <2>6, RejectFacts
  <2>7. CASE Correct(s)
    BY <2>2, <2>7, CorrectFacts
  <2>8. CASE ReadSizes(s)
    BY <2>2, <2>8, ReadSizesFacts
  <2>9. CASE CreateFails(s) \/ WriteSizes(s)
    BY <2>9 DEF CreateFails, WriteSizes, Done, Typed, Ready
  <2> QED BY <2>1, <2>3, <2>4, <2>5, <2>6, <2>7, <2>8, <2>9 DEF Upload
<1>8. Filled'
  <2>1. CASE Truncate(s)
    <3>1. /\ Frame(s) /\ Chunking(s) /\ Chunking(s)' /\ SameChunk(s)
          /\ req'[s] = [pc |-> "writing", id |-> req[s].id, index |-> req[s].index,
                        len |-> req[s].len, sizes |-> req[s].sizes,
                        prev |-> IF req[s].index \in DOMAIN tmp[req[s].id]
                                 THEN tmp[req[s].id][req[s].index] ELSE 0]
      BY <2>1, TruncateFacts
    <3>2. At(s, "writing")' /\ req'[s] # None
      BY <3>1 DEF Chunking
    <3>3. FilledAt(req[s].id, req[s].index)'
      BY <3>2 DEF FilledAt
    <3> QED BY <1>4, <2>1, <3>1, <3>2, <3>3, TruncateTmp, OthersFilled
  <2>2. CASE Write(s)
    <3>1. /\ Frame(s) /\ Chunking(s) /\ Chunking(s)' /\ SameChunk(s)
          /\ req'[s] = [pc |-> "writing", id |-> req[s].id, index |-> req[s].index,
                        len |-> req[s].len + 1, sizes |-> req[s].sizes, prev |-> req[s].prev]
      BY <2>2, WriteFacts
    <3>2. At(s, "writing")' /\ req'[s] # None
      BY <3>1 DEF Chunking
    <3>3. FilledAt(req[s].id, req[s].index)'
      BY <3>2 DEF FilledAt
    <3> QED BY <1>4, <2>2, <3>1, <3>2, <3>3, WriteTmp, OthersFilled
  <2>3. CASE EndOfStream(s)
    <3>1. /\ Frame(s) /\ Chunking(s) /\ Chunking(s)' /\ SameChunk(s)
      BY <2>3, EndOfStreamFacts
    <3>2. tmp[req[s].id][req[s].index] = Chunks[req[s].id][req[s].index] /\ UNCHANGED tmp
      BY <1>4, <2>3 DEF EndOfStream, Known, Calm, Free
    <3>3. FilledAt(req[s].id, req[s].index)'
      BY <3>1, <3>2 DEF FilledAt, SameChunk
    <3>4. req'[s] # None /\ \A k \in DOMAIN Chunks[req[s].id] : SameLength(req[s].id, k)
      BY <3>1, <3>2 DEF Chunking, SameLength
    <3> QED BY <1>4, <3>1, <3>2, <3>3, <3>4, OthersFilled
  <2>4. CASE Reject(s)
    <3>1. /\ Frame(s) /\ Chunking(s) /\ Chunking(s)' /\ SameChunk(s)
      BY <2>4, RejectFacts
    <3>2. req[s].index \notin DOMAIN tmp'[req[s].id]
      BY <2>4, RejectTmp
    <3>3. FilledAt(req[s].id, req[s].index)' /\ req'[s] # None
      BY <3>1, <3>2 DEF FilledAt, SameChunk, Chunking
    <3> QED BY <1>4, <2>4, <3>1, <3>3, RejectTmp, OthersFilled
  <2>5. CASE UNCHANGED tmp /\ ~At(s, "writing")
    BY <1>1, <1>4, <2>5, SameFilled
  <2> QED BY <2>1, <2>2, <2>3, <2>4, <2>5
       DEF Upload, Reserve, CreateFails, Correct, ReadSizes, WriteSizes
<1>9. Rowed'
  <2> SUFFICES ASSUME NEW id \in Ids, tmp'[id] # Empty PROVE record'[id] # None
    BY DEF Rowed
  <2>1. CASE tmp'[id] = tmp[id]
    BY <1>2, <1>4, <2>1 DEF Rowed
  <2>2. CASE tmp'[id] # tmp[id]
    <3>1. Truncate(s) \/ Write(s) \/ Reject(s)
      BY <2>2 DEF Upload, Reserve, CreateFails, EndOfStream, Correct, ReadSizes, WriteSizes
    <3>2. Chunking(s) /\ req[s].id = id
      <4>1. CASE Truncate(s)
        BY <2>2, <4>1, TruncateFacts, TruncateTmp
      <4>2. CASE Write(s)
        BY <2>2, <4>2, WriteFacts, WriteTmp
      <4>3. CASE Reject(s)
        BY <2>2, <4>3, RejectFacts, RejectTmp
      <4> QED BY <3>1, <4>1, <4>2, <4>3
    <3> QED BY <1>2, <1>4, <3>2 DEF Ready, Chunking
  <2> QED BY <2>1, <2>2
<1> QED BY <1>5, <1>6, <1>7, <1>8, <1>9

\* A merge finds the whole of an upload that has a row.
LEMMA CheckWhole ==
  ASSUME Typed, Separate, Whole, Calm, NEW s \in Slots, NEW id \in Ids, MergeCheck(s, id)
  PROVE  Ready(s)'
<1>1. /\ req[s] = None /\ tmp[id] # Empty /\ record[id] # None
      /\ DOMAIN tmp[id] = DOMAIN Chunks[id] /\ UNCHANGED <<tmp, record>>
  BY DEF MergeCheck, Mergeable, Whole, Rowed
<1>2. req'[s] = [pc |-> "checked", id |-> id, index |-> None, chunks |-> DOMAIN tmp[id]]
  BY DEF MergeCheck, Typed
<1> QED BY <1>1, <1>2 DEF Ready, Chunking, ChunkRequest, ChunkPcs

\* What it copies is the whole of it: no request writes to a chunk meanwhile.
LEMMA CopyWhole ==
  ASSUME Typed, Separate, Whole, Calm, NEW s \in Slots, MergeCopy(s)
  PROVE  /\ Step(s, "copied") /\ UNCHANGED tmp
         /\ out' = Put(out, req[s].id, SumFunction(Chunks[req[s].id]))
<1> DEFINE id == req[s].id
           D  == DOMAIN Chunks[req[s].id]
<1>1. id \in Ids /\ Joining(s) /\ req[s].chunks = D /\ DOMAIN tmp[id] = D
  BY MergeFields DEF MergeCopy, MergePcs, Whole, Ready
<1>2. \A k \in D : tmp[id][k] = Chunks[id][k]
  <2> SUFFICES ASSUME NEW k \in D, tmp[id][k] # Chunks[id][k] PROVE FALSE
    OBVIOUS
  <2>1. PICK w \in Slots : At(w, "writing") /\ req[w].id = id
    BY <1>1 DEF Whole, Filled, FilledAt
  <2>2. w # s /\ req[s] # None /\ req[w] # None /\ ~Chunking(s)
    BY <1>1, <2>1 DEF MergeCopy, Joining, Chunking, MergeRequest, ChunkRequest, ChunkPcs, MergePcs
  <2> QED BY <2>1, <2>2 DEF Separate, Calm, Free
<1>3. IsFiniteSet(D)
  BY <1>1, ChunkAssumption
<1> HIDE DEF D
<1>4. SumFunctionOnSet(tmp[id], D) = SumFunctionOnSet(Chunks[id], D)
  BY <1>2, <1>3, SumAgrees
<1>5. SumFunctionOnSet(tmp[id], D) = SumFunction(Chunks[id])
  BY <1>4 DEF SumFunction, D
<1> QED BY <1>1, <1>5 DEF MergeCopy

LEMMA MergeWhole ==
  ASSUME Typed, Typed', Separate, Written, Whole, NEW s \in Slots, Merge(s)
  PROVE  Whole'
<1>1. Frame(s) /\ OthersKept(s)
  BY MergeOthers
<1> SUFFICES ASSUME Calm PROVE Filled' /\ Rowed' /\ AllComplete' /\ \A t \in Slots : Ready(t)'
  BY <1>1 DEF Whole, Calm, Free, Frame
<1>2. Filled /\ Rowed /\ AllComplete /\ (\A t \in Slots : Ready(t)) /\ Known(s)
      /\ "overlap" \notin faults /\ (req[s] # None => req[s].id \in Ids)
  BY DEF Whole, Written, Calm, Free, Typed, Chunking, Joining
<1>3. (\E id \in Ids : MergeCheck(s, id)) \/ Joining(s)
  BY MergeFields
  DEF Merge, MergeCreate, MergeCopy, MergeBegin, MergeReject, MergeCommit, MergeFail, MergeClean,
      MergeForget, MergePcs
<1>4. \A id \in Ids : tmp'[id] = tmp[id] \/ (tmp'[id] = Empty /\ MergeClean(s))
  <2>1. UNCHANGED tmp \/ (MergeClean(s) /\ tmp' = [tmp EXCEPT ![req[s].id] = Empty])
    BY CopyWhole DEF Merge, MergeCheck, MergeCreate, MergeBegin, MergeReject,
                     MergeCommit, MergeFail, MergeClean, MergeForget
  <2> QED BY <2>1 DEF Typed
<1>5. UNCHANGED record \/ (MergeForget(s) /\ record' = [record EXCEPT ![req[s].id] = None])
  BY DEF Merge, MergeCheck, MergeCreate, MergeCopy, MergeBegin, MergeReject, MergeCommit,
         MergeFail, MergeClean, MergeForget
<1>6. UNCHANGED out \/ (Joining(s) /\ \A id \in Ids \ {req[s].id} :
                          /\ id \in DOMAIN out' <=> id \in DOMAIN out
                          /\ id \in DOMAIN out => out'[id] = out[id])
  <2>1. CASE MergeCreate(s) \/ MergeCopy(s) \/ MergeReject(s)
    <3>1. Joining(s)
      BY <2>1, MergeFields DEF MergeCreate, MergeCopy, MergeReject, MergePcs
    <3>2. UNCHANGED out \/ out' = Drop(out, req[s].id) \/ out' = Put(out, req[s].id, 0)
          \/ out' = Put(out, req[s].id, SumFunctionOnSet(tmp[req[s].id], req[s].chunks))
      BY <2>1 DEF MergeCreate, MergeCopy, MergeReject
    <3> QED BY <3>1, <3>2 DEF Put, Drop, Restrict
  <2>2. CASE UNCHANGED out
    BY <2>2
  <2> QED BY <2>1, <2>2 DEF Merge, MergeCheck, MergeBegin, MergeCommit, MergeFail, MergeClean,
             MergeForget
<1>7. Filled'
  <2>1. ~At(s, "writing")
    BY <1>3 DEF MergeCheck, Joining, MergeRequest, MergePcs
  <2> QED BY <1>1, <1>2, <1>4, <2>1, SameFilled
<1>8. Rowed'
  <2> SUFFICES ASSUME NEW id \in Ids, tmp'[id] # Empty, record'[id] = None PROVE FALSE
    BY DEF Rowed
  <2>1. tmp'[id] = tmp[id] /\ record[id] # None
    BY <1>2, <1>4 DEF Rowed
  <2>2. MergeForget(s) /\ req[s].id = id
    BY <1>5, <2>1 DEF Typed
  <2> QED BY <1>2, <2>1, <2>2 DEF MergeForget, Known
<1>9. ASSUME NEW t \in Slots \ {s} PROVE Ready(t)'
  <2>1. req[t] # None => (record[req[t].id] # None => record'[req[t].id] # None) \/ Joining(t)
    <3> SUFFICES ASSUME req[t] # None, Chunking(t), record[req[t].id] # None,
                        record'[req[t].id] = None
                 PROVE  FALSE
      BY DEF Typed
    <3>1. MergeForget(s) /\ req[t].id = req[s].id /\ req[s] # None
      BY <1>5 DEF Typed, Chunking, MergeForget
    <3>2. Chunking(s)
      BY <1>2, <3>1 DEF Separate
    <3> QED BY <3>1, <3>2 DEF MergeForget, Chunking, ChunkRequest, ChunkPcs
  <2> QED BY <1>1, <1>2, <1>6, <2>1, OthersReady
<1>10. Ready(s)'
  <2>1. ASSUME NEW id \in Ids, MergeCheck(s, id) PROVE Ready(s)'
    BY <2>1, CheckWhole
  <2>2. CASE Done(s)
    BY <2>2 DEF Done, Typed, Ready
  <2>3. ASSUME NEW pc \in {"merged", "cleaned"}, Step(s, pc), req[s] # None, req[s].pc \in MergePcs
        PROVE  Ready(s)'
    <3>1. Joining(s) /\ pc \in MergePcs
      BY <2>3, MergeFields DEF MergePcs
    <3>2. Joining(s)' /\ req'[s].pc = pc
      BY <2>3, <3>1, JoinExcept
    <3>3. ~Chunking(s)'
      BY <3>2 DEF Joining, Chunking, MergeRequest, ChunkRequest, ChunkPcs, MergePcs
    <3> QED BY <3>2, <3>3 DEF Ready
  <2>4. CASE MergeCreate(s)
    <3>1. CASE Step(s, "copying")
      <4>1. Joining(s) /\ At(s, "checked") /\ "copying" \in MergePcs /\ UNCHANGED tmp
        BY <2>4, MergeFields DEF MergeCreate, MergePcs
      <4>2. Joining(s)' /\ req'[s].pc = "copying" /\ req'[s].id = req[s].id
            /\ req'[s].chunks = req[s].chunks
        BY <3>1, <4>1, JoinExcept
      <4>3. ~Chunking(s)'
        BY <4>2 DEF Joining, Chunking, MergeRequest, ChunkRequest, ChunkPcs, MergePcs
      <4> QED BY <1>2, <4>1, <4>2, <4>3 DEF Ready
    <3> QED BY <2>2, <2>4, <3>1 DEF MergeCreate
  <2>5. CASE MergeCopy(s)
    <3>1. Step(s, "copied") /\ out' = Put(out, req[s].id, SumFunction(Chunks[req[s].id]))
      BY <2>5, CopyWhole
    <3>2. Joining(s) /\ "copied" \in MergePcs
      BY <2>5, MergeFields DEF MergeCopy, MergePcs
    <3>3. Joining(s)' /\ req'[s].pc = "copied" /\ req'[s].id = req[s].id
      BY <3>1, <3>2, JoinExcept
    <3>4. ~Chunking(s)'
      BY <3>3 DEF Joining, Chunking, MergeRequest, ChunkRequest, ChunkPcs, MergePcs
    <3> QED BY <3>1, <3>3, <3>4 DEF Ready, Put
  <2>6. CASE MergeBegin(s)
    <3>1. Joining(s) /\ At(s, "copied") /\ "charging" \in MergePcs /\ UNCHANGED out
          /\ Step(s, "charging")
      BY <2>6, MergeFields DEF MergeBegin, MergePcs
    <3>2. Joining(s)' /\ req'[s].pc = "charging" /\ req'[s].id = req[s].id
      BY <3>1, JoinExcept
    <3>3. ~Chunking(s)'
      BY <3>2 DEF Joining, Chunking, MergeRequest, ChunkRequest, ChunkPcs, MergePcs
    <3> QED BY <1>2, <3>1, <3>2, <3>3 DEF Ready
  <2>7. CASE MergeCommit(s) \/ MergeClean(s)
    BY <2>3, <2>7 DEF MergeCommit, MergeClean, MergePcs
  <2>8. CASE MergeReject(s) \/ MergeFail(s) \/ MergeForget(s)
    BY <2>2, <2>8 DEF MergeReject, MergeFail, MergeForget
  <2> QED BY <2>1, <2>4, <2>5, <2>6, <2>7, <2>8 DEF Merge
<1>11. AllComplete'
  <2>1. CASE MergeCommit(s)
    <3>1. files' = Put(files, req[s].id, out[req[s].id]) /\ out[req[s].id] = SumFunction(Chunks[req[s].id])
      BY <1>2, <2>1 DEF MergeCommit, Ready
    <3> QED BY <1>2, <3>1 DEF AllComplete, Complete, Put
  <2>2. CASE UNCHANGED files
    BY <1>2, <2>2 DEF AllComplete, Complete
  <2> QED BY <2>1, <2>2 DEF Merge, MergeCheck, MergeCreate, MergeCopy, MergeBegin, MergeReject,
             MergeFail, MergeClean, MergeForget
<1> QED BY <1>7, <1>8, <1>9, <1>10, <1>11

LEMMA OthersWhole ==
  ASSUME Typed, Whole, Calm,
         \/ UNCHANGED vars
         \/ \E id \in Ids : SweepChunks(id)
  PROVE  Whole'
<1>1. UNCHANGED vars
  BY DEF Calm, Free, SweepChunks
<1> QED BY <1>1 DEF vars, Whole, Calm, Free, Filled, FilledAt, Rowed, Ready, Chunking, AllComplete, Complete

LEMMA WholeNext ==
  ASSUME Typed, Typed', Separate, Written, Whole, [Next]_vars
  PROVE  Whole'
<1> SUFFICES ASSUME Calm' PROVE Whole'
  BY DEF Whole
<1>1. UNCHANGED faults
  <2>1. ASSUME NEW s \in Slots, Upload(s) \/ Merge(s) \/ Disconnect(s) PROVE UNCHANGED faults
    <3>1. Frame(s)
      BY <2>1, UploadOthers, MergeOthers
    <3> QED BY <3>1 DEF Frame
  <2> QED BY <2>1 DEF Next, vars, ExpireRow, SweepChunks, Crash
<1>2. Calm
  BY <1>1 DEF Calm, Free
<1>3. ~(\E s \in Slots : Disconnect(s)) /\ ~Crash /\ ~(\E id \in Ids : ExpireRow(id))
  BY <1>2 DEF Calm, Free, Disconnect, Crash, ExpireRow
<1> QED BY <1>2, <1>3, UploadWhole, MergeWhole, OthersWhole DEF Next

\* What is registered is the whole file, whatever the order of the chunks, the
\* chunks that were sent again or rejected, and the merges that failed in between.
THEOREM WholeFile == Spec => []MergedIsComplete
<1>1. Init => Separate /\ Written /\ Whole
  BY DEF Init, Separate, Written, Known, Whole, Filled, FilledAt, Rowed, AllComplete, Ready, Empty
<1>2. Typed /\ QuotaInv /\ [Next]_vars => Typed'
  BY UploadKeepsTypes, MergeKeepsTypes, OthersKeepTypes DEF Next, QuotaInv
<1>3. QuotaInv /\ [Next]_vars => QuotaInv'
  BY UploadKeepsQuota, MergeKeepsQuota, OthersKeepQuota DEF Next
<1>4. Typed /\ Typed' /\ Separate /\ [Next]_vars => Separate'
  BY SeparateNext
<1>5. Typed /\ Separate /\ Written /\ [Next]_vars => Written'
  BY WrittenNext
<1>6. Typed /\ Typed' /\ Separate /\ Written /\ Whole /\ [Next]_vars => Whole'
  BY WholeNext
<1>7. Whole => MergedIsComplete
  BY DEF Whole, Calm, AllComplete, MergedIsComplete
<1> QED BY TypedInit, QuotaInvInit, <1>1, <1>2, <1>3, <1>4, <1>5, <1>6, <1>7, PTL DEF Spec

------------------------------------------------------------------------------
(* The cap: only a reservation adds to the rows.                           *)

CapHolds == Pending <= Cap

LEMMA PendingAdds ==
  ASSUME Typed, NEW id \in Ids, NEW n \in Int, Bytes(id)' = Bytes(id) + n,
         \A i \in Ids \ {id} : Bytes(i)' = Bytes(i)
  PROVE  Pending' = Pending + n
<1> DEFINE f == [i \in Ids |-> Bytes(i)]
           g == [i \in Ids |-> Bytes(i)']
<1>1. \A i \in Ids : f[i] \in Int
  BY BytesIsNat
<1>2. g[id] = f[id] + n /\ \A i \in Ids \ {id} : g[i] = f[i]
  OBVIOUS
<1>3. Pending = SumFunctionOnSet(f, Ids) /\ Pending' = SumFunctionOnSet(g, Ids)
  BY DEF Pending, SumFunction
<1> HIDE DEF f, g
<1>4. SumFunctionOnSet(g, Ids) = SumFunctionOnSet(f, Ids) - f[id] + g[id]
  <2>1. g[id] \in Int
    BY <1>1, <1>2
  <2>2. IsFiniteSet(Ids) /\ (\A i \in Ids : f[i] \in Int) /\ \A i \in Ids \ {id} : g[i] = f[i]
    BY <1>1, <1>2, ChunkAssumption
  <2> QED BY <2>1, <2>2, SumChange
<1>5. SumFunctionOnSet(f, Ids) \in Int
  BY <1>1, SumIsInt, ChunkAssumption
<1> QED BY <1>1, <1>2, <1>3, <1>4, <1>5

LEMMA PendingFalls ==
  ASSUME Typed, Typed', \A i \in Ids : Bytes(i)' <= Bytes(i)
  PROVE  Pending' <= Pending
<1> DEFINE f == [i \in Ids |-> Bytes(i)]
           g == [i \in Ids |-> Bytes(i)']
<1>1. \A i \in Ids : f[i] \in Int
  BY BytesIsNat
<1>2. \A i \in Ids : g[i] \in Int
  <2>1. \A i \in Ids : Bytes(i)' \in Nat
    BY DEF Typed, Bytes, Row
  <2> QED BY <2>1
<1>3. \A i \in Ids : g[i] <= f[i]
  OBVIOUS
<1>4. Pending = SumFunctionOnSet(f, Ids) /\ Pending' = SumFunctionOnSet(g, Ids)
  BY DEF Pending, SumFunction
<1> HIDE DEF f, g
<1>5. SumFunctionOnSet(g, Ids) <= SumFunctionOnSet(f, Ids)
  BY <1>1, <1>2, <1>3, SumMonotonic, ChunkAssumption
<1> QED BY <1>4, <1>5

LEMMA PendingIsNat == Typed => Pending \in Nat
<1> SUFFICES ASSUME Typed PROVE Pending \in Nat
  OBVIOUS
<1> DEFINE f == [i \in Ids |-> Bytes(i)]
<1>1. \A i \in Ids : f[i] \in Nat
  BY BytesIsNat
<1>2. Pending = SumFunctionOnSet(f, Ids)
  BY DEF Pending, SumFunction
<1> HIDE DEF f
<1> QED BY <1>1, <1>2, SumIsNat, ChunkAssumption

LEMMA CapNext ==
  ASSUME Typed, Typed', CapHolds, [Next]_vars
  PROVE  CapHolds'
<1>1. ASSUME NEW s \in Slots, NEW id \in Ids, NEW k \in DOMAIN Chunks[id], Reserve(s, id, k)
      PROVE  CapHolds'
  <2>1. Bytes(id)' = Bytes(id) + MaxChunk /\ \A i \in Ids \ {id} : Bytes(i)' = Bytes(i)
    BY <1>1, ReserveRow DEF Bytes
  <2>2. MaxChunk \in Int
    BY ChunkAssumption
  <2>3. Pending' = Pending + MaxChunk
    BY <2>1, <2>2, PendingAdds
  <2> QED BY <1>1, <2>3 DEF Reserve, CapHolds
<1>2. ASSUME \A i \in Ids : Bytes(i)' <= Bytes(i) PROVE CapHolds'
  <2>1. Pending' <= Pending /\ Pending \in Nat /\ Pending' \in Nat
    <3>1. (Typed => Pending \in Nat)'
      BY PendingIsNat, PTL
    <3> QED BY <1>2, <3>1, PendingFalls, PendingIsNat
  <2> QED BY <2>1, ChunkAssumption DEF CapHolds
<1>3. \A i \in Ids : Bytes(i) \in Nat
  BY BytesIsNat
<1>4. CASE UNCHANGED record
  BY <1>2, <1>3, <1>4 DEF Bytes
<1>5. ASSUME NEW s \in Slots, Correct(s) PROVE CapHolds'
  <2>1. PICK id \in Ids : req[s].id = id
    BY <1>5, ChunkFields DEF Correct, ChunkPcs
  <2>2. req[s].len \in 0..MaxChunk /\ req[s].prev \in 0..MaxChunk /\ MaxChunk \in Nat
    BY <1>5, ChunkFields, ChunkAssumption DEF Correct, ChunkPcs
  <2>3. \A i \in Ids \ {id} : Bytes(i)' = Bytes(i)
    BY <1>5, <2>1, CorrectRow DEF Bytes
  <2>4. Bytes(id)' = Bytes(id) \/ Bytes(id)' = Minus(Bytes(id) + req[s].len, req[s].prev + MaxChunk)
    BY <1>5, <2>1, CorrectRow DEF Bytes
  <2>5. Bytes(id)' <= Bytes(id)
    BY <1>3, <2>2, <2>4 DEF Minus
  <2> QED BY <1>2, <1>3, <2>3, <2>5
<1>6. ASSUME NEW s \in Slots, WriteSizes(s) PROVE CapHolds'
  <2>1. req[s].id \in Ids
    BY <1>6, ChunkFields DEF WriteSizes, ChunkPcs
  <2>2. \A i \in Ids : Bytes(i)' = Bytes(i)
    BY <1>6, <2>1, SizesRow
  <2> QED BY <1>2, <1>3, <2>2
<1>7. ASSUME NEW id, record' = [record EXCEPT ![id] = None] PROVE CapHolds'
  <2>1. \A i \in Ids : Bytes(i)' = Bytes(i) \/ Bytes(i)' = 0
    BY <1>7 DEF Typed, Bytes
  <2> QED BY <1>2, <1>3, <2>1
<1>8. ASSUME NEW s \in Slots, Merge(s) \/ Disconnect(s) PROVE CapHolds'
  BY <1>4, <1>7, <1>8 DEF Merge, MergeCheck, MergeCreate, MergeCopy, MergeBegin, MergeReject,
     MergeCommit, MergeFail, MergeClean, MergeForget, Disconnect
<1>9. ASSUME NEW s \in Slots, Upload(s) PROVE CapHolds'
  BY <1>1, <1>4, <1>5, <1>6, <1>9 DEF Upload, Truncate, CreateFails, Write, EndOfStream, Reject,
     ReadSizes
<1> QED BY <1>4, <1>7, <1>8, <1>9 DEF Next, vars, ExpireRow, SweepChunks, Crash

------------------------------------------------------------------------------
(* What the row of an upload owes to a chunk of it: its length, or while a *)
(* request works on it the reservation and the length it had before.       *)

Working(s, id, k) ==
  /\ req[s] # None /\ req[s].pc \in {"reserved", "writing", "written"}
  /\ req[s].id = id /\ req[s].index = k

Before(s, id, k) == IF req[s].pc = "reserved" THEN Length(id, k) ELSE req[s].prev

Owed(id, k) ==
  IF \E s \in Slots : Working(s, id, k)
    THEN MaxChunk + Before(CHOOSE s \in Slots : Working(s, id, k), id, k)
    ELSE Length(id, k)

Due(id) == SumFunctionOnSet([k \in DOMAIN Chunks[id] |-> Owed(id, k)], DOMAIN Chunks[id])

\* Separate requests: one of them works on a chunk at most.
Single ==
  \A id \in Ids : \A k \in DOMAIN Chunks[id] : \A s, t \in Slots :
    Working(s, id, k) /\ Working(t, id, k) => s = t

LEMMA SeparateIsSingle ==
  ASSUME Separate, "overlap" \notin faults
  PROVE  Single
  BY DEF Separate, Single, Working

LEMMA LengthIsNat ==
  ASSUME Typed, NEW id \in Ids, NEW k
  PROVE  Length(id, k) \in 0..MaxChunk
<1>1. \A i \in DOMAIN tmp[id] : tmp[id][i] \in 0..MaxChunk
  BY ListFacts DEF Typed
<1>2. 0 \in 0..MaxChunk
  BY ChunkAssumption
<1> QED BY <1>1, <1>2 DEF Length

OwedIs ==
  \A id \in Ids : \A k \in DOMAIN Chunks[id] :
    /\ Length(id, k) \in 0..MaxChunk
    /\ Owed(id, k) \in Nat /\ Length(id, k) <= Owed(id, k)
    /\ \A s \in Slots : Working(s, id, k) =>
         Before(s, id, k) \in 0..MaxChunk /\ Owed(id, k) = MaxChunk + Before(s, id, k)
    /\ (\A s \in Slots : ~Working(s, id, k)) => Owed(id, k) = Length(id, k)

LEMMA OwedFacts == Typed /\ Single => OwedIs
<1> SUFFICES ASSUME Typed, Single, NEW id \in Ids, NEW k \in DOMAIN Chunks[id]
             PROVE  /\ Length(id, k) \in 0..MaxChunk
                    /\ Owed(id, k) \in Nat /\ Length(id, k) <= Owed(id, k)
                    /\ \A s \in Slots : Working(s, id, k) =>
                         Before(s, id, k) \in 0..MaxChunk /\ Owed(id, k) = MaxChunk + Before(s, id, k)
                    /\ (\A s \in Slots : ~Working(s, id, k)) => Owed(id, k) = Length(id, k)
  BY DEF OwedIs
<1>1. Length(id, k) \in 0..MaxChunk /\ MaxChunk \in Nat
  BY LengthIsNat, ChunkAssumption
<1>2. \A s \in Slots : Working(s, id, k) => Before(s, id, k) \in 0..MaxChunk
  BY <1>1, ChunkFields DEF Working, Before, ChunkPcs
<1>3. \A s \in Slots : Working(s, id, k) => Owed(id, k) = MaxChunk + Before(s, id, k)
  <2> SUFFICES ASSUME NEW s \in Slots, Working(s, id, k)
               PROVE  Owed(id, k) = MaxChunk + Before(s, id, k)
    OBVIOUS
  <2>1. (CHOOSE t \in Slots : Working(t, id, k)) = s
    BY DEF Single
  <2> QED BY <2>1 DEF Owed
<1>4. (\A s \in Slots : ~Working(s, id, k)) => Owed(id, k) = Length(id, k)
  BY DEF Owed
<1>5. Owed(id, k) \in Nat /\ Length(id, k) <= Owed(id, k)
  BY <1>1, <1>2, <1>3, <1>4
<1> QED BY <1>1, <1>2, <1>3, <1>4, <1>5

\* The chunks on disk are part of what is owed.
LEMMA DiskIsSum ==
  ASSUME Typed, NEW id \in Ids
  PROVE  Disk(id) = SumFunctionOnSet([k \in DOMAIN Chunks[id] |-> Length(id, k)], DOMAIN Chunks[id])
<1> DEFINE D == DOMAIN Chunks[id]
           g == tmp[id]
           E == DOMAIN g
           f == [k \in D |-> Length(id, k)]
<1>1. E \subseteq D /\ IsFiniteSet(D) /\ \A k \in E : g[k] \in 0..MaxChunk
  BY ListFacts, ChunkAssumption DEF Typed
<1>2. \A k \in D \cap E : g[k] \in Int /\ f[k] = g[k]
  BY <1>1, ChunkAssumption DEF Length
<1>3. \A k \in D \ E : f[k] = 0
  BY DEF Length
<1>4. D \cap E = E /\ IsFiniteSet(D)
  BY <1>1
<1> HIDE DEF D, E, f, g
<1>5. SumFunctionOnSet(f, D) = SumFunctionOnSet(g, D \cap E)
  BY <1>2, <1>3, <1>4, SumSupport
<1> QED BY <1>4, <1>5 DEF Disk, SumFunction, D, E, f, g

LEMMA DiskWithinDue == Typed /\ OwedIs => \A id \in Ids : Disk(id) \in Nat /\ Disk(id) <= Due(id)
<1> SUFFICES ASSUME Typed, OwedIs, NEW id \in Ids PROVE Disk(id) \in Nat /\ Disk(id) <= Due(id)
  OBVIOUS
<1> DEFINE D == DOMAIN Chunks[id]
           f == [k \in D |-> Length(id, k)]
           g == [k \in D |-> Owed(id, k)]
<1>1. IsFiniteSet(D) /\ \A k \in D : f[k] \in Nat /\ g[k] \in Nat /\ f[k] <= g[k]
  BY ChunkAssumption DEF OwedIs
<1>2. Disk(id) = SumFunctionOnSet(f, D) /\ Due(id) = SumFunctionOnSet(g, D)
  BY DiskIsSum DEF Due
<1> HIDE DEF D, f, g
<1>3. SumFunctionOnSet(f, D) <= SumFunctionOnSet(g, D)
  BY <1>1, SumMonotonic
<1>4. SumFunctionOnSet(f, D) \in Nat
  BY <1>1, SumIsNat
<1> QED BY <1>2, <1>3, <1>4

DueNat == \A id \in Ids : Due(id) \in Nat

LEMMA DueIsNat == OwedIs => DueNat
<1> SUFFICES ASSUME OwedIs, NEW id \in Ids PROVE Due(id) \in Nat
  BY DEF DueNat
<1> DEFINE D == DOMAIN Chunks[id]
           g == [k \in D |-> Owed(id, k)]
<1>1. IsFiniteSet(D) /\ \A k \in D : g[k] \in Nat
  BY ChunkAssumption DEF OwedIs
<1>2. Due(id) = SumFunctionOnSet(g, D)
  BY DEF Due
<1> HIDE DEF D, g
<1> QED BY <1>1, <1>2, SumIsNat

\* Without a request that works on its chunks, an upload owes what is on disk.
LEMMA DueIsDisk ==
  ASSUME Typed, OwedIs, NEW id \in Ids, \A s \in Slots : \A k \in DOMAIN Chunks[id] : ~Working(s, id, k)
  PROVE  Due(id) = Disk(id)
<1>1. \A k \in DOMAIN Chunks[id] : Owed(id, k) = Length(id, k)
  BY DEF OwedIs
<1> QED BY <1>1, DiskIsSum DEF Due

\* One chunk of one upload owes something else.
LEMMA DueChanges ==
  ASSUME OwedIs, OwedIs', NEW id \in Ids, NEW k \in DOMAIN Chunks[id],
         \A j \in DOMAIN Chunks[id] \ {k} : Owed(id, j)' = Owed(id, j)
  PROVE  Due(id)' = Due(id) - Owed(id, k) + Owed(id, k)' /\ Owed(id, k) <= Due(id)
<1> DEFINE D == DOMAIN Chunks[id]
           f == [j \in D |-> Owed(id, j)]
           g == [j \in D |-> Owed(id, j)']
<1>1. IsFiniteSet(D) /\ (\A j \in D : f[j] \in Nat /\ g[j] \in Nat)
  BY ChunkAssumption DEF OwedIs
<1>2. \A j \in D \ {k} : g[j] = f[j]
  OBVIOUS
<1>3. Due(id) = SumFunctionOnSet(f, D) /\ Due(id)' = SumFunctionOnSet(g, D)
  BY DEF Due
<1>4. f[k] = Owed(id, k) /\ g[k] = Owed(id, k)' /\ k \in D
  OBVIOUS
<1> HIDE DEF D, f, g
<1>5. SumFunctionOnSet(g, D) = SumFunctionOnSet(f, D) - f[k] + g[k]
  <2>1. g[k] \in Int /\ \A j \in D : f[j] \in Int
    BY <1>1, <1>4
  <2> QED BY <1>1, <1>2, <1>4, <2>1, SumChange
<1>6. f[k] <= SumFunctionOnSet(f, D)
  BY <1>1, <1>4, SumBounds
<1> QED BY <1>3, <1>4, <1>5, <1>6

LEMMA DueFalls ==
  ASSUME OwedIs, OwedIs', NEW id \in Ids, \A k \in DOMAIN Chunks[id] : Owed(id, k)' <= Owed(id, k)
  PROVE  Due(id)' <= Due(id)
<1> DEFINE D == DOMAIN Chunks[id]
           f == [j \in D |-> Owed(id, j)]
           g == [j \in D |-> Owed(id, j)']
<1>1. IsFiniteSet(D) /\ (\A j \in D : f[j] \in Int /\ g[j] \in Int /\ g[j] <= f[j])
  BY ChunkAssumption DEF OwedIs
<1>2. Due(id) = SumFunctionOnSet(f, D) /\ Due(id)' = SumFunctionOnSet(g, D)
  BY DEF Due
<1> HIDE DEF D, f, g
<1>3. SumFunctionOnSet(g, D) <= SumFunctionOnSet(f, D)
  BY <1>1, SumMonotonic
<1> QED BY <1>2, <1>3

LEMMA DueSame ==
  ASSUME OwedIs, OwedIs', NEW id \in Ids, \A k \in DOMAIN Chunks[id] : Owed(id, k)' = Owed(id, k)
  PROVE  Due(id)' = Due(id)
<1>1. \A k \in DOMAIN Chunks[id] : Owed(id, k)' <= Owed(id, k) /\ Owed(id, k) <= Owed(id, k)'
  BY DEF OwedIs
<1> DEFINE D == DOMAIN Chunks[id]
           f == [j \in D |-> Owed(id, j)]
           g == [j \in D |-> Owed(id, j)']
<1>2. f = g
  OBVIOUS
<1> QED BY <1>2 DEF Due

\* A chunk on which nobody begins, ends or works otherwise
LEMMA OwedSame ==
  ASSUME OwedIs, OwedIs', NEW id \in Ids, NEW k \in DOMAIN Chunks[id],
         Length(id, k)' = Length(id, k),
         \A t \in Slots : Working(t, id, k) => Working(t, id, k)' /\ Before(t, id, k)' = Before(t, id, k),
         \A t \in Slots : Working(t, id, k)' => Working(t, id, k)
  PROVE  Owed(id, k)' = Owed(id, k)
<1>1. ASSUME NEW t \in Slots, Working(t, id, k) PROVE Owed(id, k)' = Owed(id, k)
  BY <1>1 DEF OwedIs
<1>2. CASE \A t \in Slots : ~Working(t, id, k)
  BY <1>2 DEF OwedIs
<1> QED BY <1>1, <1>2

------------------------------------------------------------------------------
(* A request on a chunk changes the row by what it changes of the debt.    *)

Slack(id) == Bytes(id) - Due(id)

\* It leaves the other chunks alone.
LEMMA OwnDue ==
  ASSUME Typed, OwedIs, OwedIs', NEW s \in Slots, Frame(s), NEW id \in Ids, NEW k \in DOMAIN Chunks[id],
         req[s] # None => req[s].id = id /\ req[s].index = k,
         req'[s] # None => req'[s].id = id /\ req'[s].index = k,
         \A i \in Ids \ {id} : tmp'[i] = tmp[i],
         \A j \in DOMAIN Chunks[id] \ {k} : SameLength(id, j)
  PROVE  /\ \A i \in Ids \ {id} : Due(i)' = Due(i)
         /\ Due(id)' = Due(id) - Owed(id, k) + Owed(id, k)' /\ Owed(id, k) <= Due(id)
<1>0. \A t \in Slots \ {s} : req'[t] = req[t]
  BY DEF Frame, Typed
<1>1. ASSUME NEW i \in Ids, NEW j \in DOMAIN Chunks[i], i # id \/ j # k
      PROVE  Owed(i, j)' = Owed(i, j)
  <2>1. Length(i, j)' = Length(i, j)
    BY <1>1 DEF Length, SameLength
  <2>2. ~Working(s, i, j) /\ ~Working(s, i, j)'
    BY <1>1 DEF Working
  <2>3. ASSUME NEW t \in Slots, Working(t, i, j)
        PROVE  Working(t, i, j)' /\ Before(t, i, j)' = Before(t, i, j)
    <3>1. req'[t] = req[t]
      BY <1>0, <2>2, <2>3
    <3> QED BY <2>1, <2>3, <3>1 DEF Working, Before
  <2>4. ASSUME NEW t \in Slots, Working(t, i, j)' PROVE Working(t, i, j)
    <3>1. req'[t] = req[t]
      BY <1>0, <2>2, <2>4
    <3> QED BY <2>4, <3>1 DEF Working
  <2> QED BY <2>1, <2>3, <2>4, OwedSame
<1>2. \A i \in Ids \ {id} : Due(i)' = Due(i)
  BY <1>1, DueSame
<1> QED BY <1>1, <1>2, DueChanges

SizedIs == \A id \in Ids : Bytes(id) \in Nat /\ Due(id) \in Nat

LEMMA Sized == OwedIs /\ Typed => SizedIs
  BY DueIsNat, BytesIsNat DEF DueNat, SizedIs

LEMMA SlackKept ==
  ASSUME Typed, Typed', OwedIs, OwedIs', NEW id \in Ids, NEW k \in DOMAIN Chunks[id],
         \A i \in Ids \ {id} : Due(i)' = Due(i) /\ Bytes(i)' = Bytes(i),
         Due(id)' = Due(id) - Owed(id, k) + Owed(id, k)',
         Bytes(id)' = Bytes(id) - Owed(id, k) + Owed(id, k)'
  PROVE  \A i \in Ids : Slack(i)' = Slack(i)
<1>1. \A i \in Ids \ {id} : Slack(i)' = Slack(i)
  BY DEF Slack
<1>2. Bytes(id) \in Nat /\ Due(id) \in Nat /\ Owed(id, k) \in Nat /\ Owed(id, k)' \in Nat
  BY Sized DEF SizedIs, OwedIs
<1>3. Slack(id)' = Slack(id)
  BY <1>2 DEF Slack
<1> QED BY <1>1, <1>3

\* No other request works on the chunk of a request.
LEMMA NobodyElse ==
  ASSUME Typed, Separate', "overlap" \notin faults, NEW s \in Slots, Frame(s),
         NEW id \in Ids, NEW k \in DOMAIN Chunks[id],
         req'[s] # None, req'[s].id = id, req'[s].index = k, ~Working(s, id, k)'
  PROVE  \A t \in Slots : ~Working(t, id, k)'
  BY DEF Separate, Working, Frame

LEMMA ReserveSlack ==
  ASSUME Typed, Typed', Separate, Separate', OwedIs, OwedIs', "overlap" \notin faults,
         NEW s \in Slots, NEW id \in Ids, NEW k \in DOMAIN Chunks[id], Reserve(s, id, k)
  PROVE  \A i \in Ids : Slack(i)' = Slack(i)
<1>1. /\ Frame(s) /\ req[s] = None
      /\ req'[s] = [pc |-> "reserved", id |-> id, index |-> k, len |-> 0, prev |-> 0,
                    sizes |-> None]
      /\ Chunking(s)'
  BY ReserveFacts
<1>2. req'[s] # None /\ req'[s].id = id /\ req'[s].index = k /\ req'[s].pc = "reserved" /\ UNCHANGED tmp
  BY <1>1 DEF Chunking, Reserve
<1>3. /\ \A i \in Ids \ {id} : Due(i)' = Due(i)
      /\ Due(id)' = Due(id) - Owed(id, k) + Owed(id, k)' /\ Owed(id, k) <= Due(id)
  BY <1>1, <1>2, OwnDue DEF SameLength
<1>4. Owed(id, k) = Length(id, k)
  <2>1. \A t \in Slots : ~Working(t, id, k)
    BY DEF Reserve, Admitted, Working
  <2> QED BY <2>1 DEF OwedIs
<1>5. Owed(id, k)' = MaxChunk + Length(id, k)
  <2>1. Working(s, id, k)' /\ Before(s, id, k)' = Length(id, k)
    BY <1>2 DEF Working, Before, Length
  <2> QED BY <2>1 DEF OwedIs
<1>6. Bytes(id)' = Bytes(id) + MaxChunk /\ \A i \in Ids \ {id} : Bytes(i)' = Bytes(i)
  BY ReserveRow DEF Bytes
<1>7. Bytes(id)' = Bytes(id) - Owed(id, k) + Owed(id, k)'
  BY <1>4, <1>5, <1>6, BytesIsNat, ChunkAssumption DEF OwedIs
<1> QED BY <1>3, <1>6, <1>7, SlackKept

LEMMA CorrectSlack ==
  ASSUME Typed, Typed', Separate, Separate', Written, OwedIs, OwedIs', "overlap" \notin faults,
         NEW s \in Slots, Correct(s), \A i \in Ids : Due(i) <= Bytes(i)
  PROVE  \A i \in Ids : Slack(i)' = Slack(i)
<1>1. PICK id \in Ids : req[s].id = id
  BY ChunkFields DEF Correct, ChunkPcs
<1>2. PICK k \in DOMAIN Chunks[id] : req[s].index = k
  BY <1>1, ChunkFields DEF Correct, ChunkPcs
<1>3. req[s] # None /\ req[s].pc = "written" /\ req[s].len \in 0..MaxChunk /\ req[s].prev \in 0..MaxChunk
      /\ UNCHANGED tmp
  BY ChunkFields DEF Correct, ChunkPcs
<1>4. /\ Frame(s) /\ Chunking(s)'
      /\ req'[s] = [pc |-> "counted", id |-> req[s].id, index |-> req[s].index,
                    len |-> req[s].len, sizes |-> req[s].sizes, prev |-> 0]
  BY CorrectFacts
<1>5. req'[s] # None /\ req'[s].id = id /\ req'[s].index = k /\ req'[s].pc = "counted"
  BY <1>1, <1>2, <1>4 DEF Chunking
<1>6. /\ \A i \in Ids \ {id} : Due(i)' = Due(i)
      /\ Due(id)' = Due(id) - Owed(id, k) + Owed(id, k)' /\ Owed(id, k) <= Due(id)
  BY <1>1, <1>2, <1>3, <1>4, <1>5, OwnDue DEF SameLength
<1>7. Owed(id, k) = MaxChunk + req[s].prev
  <2>1. Working(s, id, k) /\ Before(s, id, k) = req[s].prev
    BY <1>1, <1>2, <1>3 DEF Working, Before
  <2> QED BY <2>1 DEF OwedIs
<1>8. Owed(id, k)' = req[s].len
  <2>1. \A t \in Slots : ~Working(t, id, k)'
    BY <1>4, <1>5, NobodyElse DEF Working
  <2>2. Length(id, k)' = Length(id, k)
    BY <1>3 DEF Length
  <2>3. Length(id, k) = req[s].len
    BY <1>1, <1>2, <1>3 DEF Written, Known
  <2> QED BY <2>1, <2>2, <2>3 DEF OwedIs
<1>9. Bytes(id) \in Nat /\ Due(id) \in Nat /\ MaxChunk \in Nat /\ Due(id) <= Bytes(id)
      /\ MaxChunk + req[s].prev <= Bytes(id) /\ MaxChunk # 0
  <2>1. Bytes(id) \in Nat /\ Due(id) \in Nat /\ MaxChunk \in Nat /\ Due(id) <= Bytes(id) /\ MaxChunk # 0
    BY Sized, ChunkAssumption DEF SizedIs
  <2> QED BY <1>3, <1>6, <1>7, <2>1
<1>10. record[id] # None
  BY <1>3, <1>9 DEF Bytes
<1>11. /\ \A i \in Ids \ {id} : record'[i] = record[i]
       /\ Bytes(id)' = Minus(Bytes(id) + req[s].len, req[s].prev + MaxChunk)
  BY <1>1, <1>10, CorrectRow
<1>12. \A i \in Ids \ {id} : Bytes(i)' = Bytes(i)
  BY <1>11 DEF Bytes
<1>13. Bytes(id)' = Bytes(id) + req[s].len - (req[s].prev + MaxChunk)
  BY <1>3, <1>9, <1>11 DEF Minus
<1>14. Bytes(id)' = Bytes(id) - Owed(id, k) + Owed(id, k)'
  BY <1>3, <1>7, <1>8, <1>9, <1>13
<1> QED BY <1>6, <1>12, <1>14, SlackKept

\* The other steps of upload_chunk leave the row as it is.
LEMMA QuietSlack ==
  ASSUME Typed, Typed', Separate, Separate', Written, OwedIs, OwedIs', "overlap" \notin faults,
         NEW s \in Slots,
         Truncate(s) \/ Write(s) \/ EndOfStream(s) \/ Reject(s) \/ ReadSizes(s) \/ WriteSizes(s)
  PROVE  \A i \in Ids : Slack(i)' = Slack(i)
<1>1. PICK id \in Ids : req[s].id = id
  BY ChunkFields DEF Truncate, Write, EndOfStream, Reject, ReadSizes, WriteSizes, ChunkPcs
<1>2. PICK k \in DOMAIN Chunks[id] : req[s].index = k
  BY <1>1, ChunkFields DEF Truncate, Write, EndOfStream, Reject, ReadSizes, WriteSizes, ChunkPcs
<1>3. req[s] # None
  BY DEF Truncate, Write, EndOfStream, Reject, ReadSizes, WriteSizes
<1>4. \A i \in Ids : Bytes(i)' = Bytes(i)
  <2>1. CASE WriteSizes(s)
    BY <1>1, <2>1, SizesRow
  <2>2. CASE UNCHANGED record
    BY <2>2 DEF Bytes
  <2> QED BY <2>1, <2>2 DEF Truncate, Write, EndOfStream, Reject, ReadSizes
<1>5. Frame(s) /\ (req'[s] # None => req'[s].id = id /\ req'[s].index = k)
      /\ (\A i \in Ids \ {id} : tmp'[i] = tmp[i])
      /\ (\A j \in DOMAIN Chunks[id] \ {k} : SameLength(id, j))
      /\ Owed(id, k)' = Owed(id, k)
  <2>1. CASE Truncate(s)
    <3>1. /\ Frame(s) /\ Chunking(s)'
          /\ req'[s] = [pc |-> "writing", id |-> req[s].id, index |-> req[s].index,
                        len |-> req[s].len, sizes |-> req[s].sizes,
                        prev |-> IF req[s].index \in DOMAIN tmp[req[s].id]
                                 THEN tmp[req[s].id][req[s].index] ELSE 0]
      BY <2>1, TruncateFacts
    <3>2. /\ req'[s] # None /\ req'[s].id = id /\ req'[s].index = k /\ req'[s].pc = "writing"
          /\ req'[s].prev = Length(id, k) /\ req[s].pc = "reserved"
      BY <1>1, <1>2, <2>1, <3>1 DEF Chunking, Length, Truncate
    <3>3. Working(s, id, k) /\ Before(s, id, k) = Length(id, k)
          /\ Working(s, id, k)' /\ Before(s, id, k)' = Length(id, k)
      BY <1>1, <1>2, <1>3, <3>2 DEF Working, Before
    <3>4. Owed(id, k)' = Owed(id, k)
      BY <3>3 DEF OwedIs
    <3> QED BY <1>1, <1>2, <2>1, <3>1, <3>2, <3>4, TruncateTmp
  <2>2. CASE Write(s)
    <3>1. /\ Frame(s) /\ Chunking(s)'
          /\ req'[s] = [pc |-> "writing", id |-> req[s].id, index |-> req[s].index,
                        len |-> req[s].len + 1, sizes |-> req[s].sizes, prev |-> req[s].prev]
      BY <2>2, WriteFacts
    <3>2. /\ req'[s] # None /\ req'[s].id = id /\ req'[s].index = k /\ req'[s].pc = "writing"
          /\ req'[s].prev = req[s].prev /\ req[s].pc = "writing"
      BY <1>1, <1>2, <2>2, <3>1 DEF Chunking, Write
    <3>3. Working(s, id, k) /\ Before(s, id, k) = req[s].prev
          /\ Working(s, id, k)' /\ Before(s, id, k)' = req[s].prev
      BY <1>1, <1>2, <1>3, <3>2 DEF Working, Before
    <3>4. Owed(id, k)' = Owed(id, k)
      BY <3>3 DEF OwedIs
    <3> QED BY <1>1, <1>2, <2>2, <3>1, <3>2, <3>4, WriteTmp
  <2>3. CASE EndOfStream(s)
    <3>1. /\ Frame(s) /\ Chunking(s)'
          /\ req'[s] = [pc |-> "written", id |-> req[s].id, index |-> req[s].index,
                        len |-> req[s].len, sizes |-> req[s].sizes, prev |-> req[s].prev]
      BY <2>3, EndOfStreamFacts
    <3>2. /\ req'[s] # None /\ req'[s].id = id /\ req'[s].index = k /\ req'[s].pc = "written"
          /\ req'[s].prev = req[s].prev /\ req[s].pc = "writing" /\ UNCHANGED tmp
      BY <1>1, <1>2, <2>3, <3>1 DEF Chunking, EndOfStream
    <3>3. Working(s, id, k) /\ Before(s, id, k) = req[s].prev
          /\ Working(s, id, k)' /\ Before(s, id, k)' = req[s].prev
      BY <1>1, <1>2, <1>3, <3>2 DEF Working, Before
    <3>4. Owed(id, k)' = Owed(id, k)
      BY <3>3 DEF OwedIs
    <3> QED BY <3>1, <3>2, <3>4 DEF SameLength
  <2>4. CASE Reject(s)
    <3>1. /\ Frame(s) /\ Chunking(s)'
          /\ req'[s] = [pc |-> "written", id |-> req[s].id, index |-> req[s].index,
                        len |-> 0, sizes |-> req[s].sizes, prev |-> req[s].prev]
      BY <2>4, RejectFacts
    <3>2. /\ req'[s] # None /\ req'[s].id = id /\ req'[s].index = k /\ req'[s].pc = "written"
          /\ req'[s].prev = req[s].prev /\ req[s].pc = "writing"
      BY <1>1, <1>2, <2>4, <3>1 DEF Chunking, Reject
    <3>3. Working(s, id, k) /\ Before(s, id, k) = req[s].prev
          /\ Working(s, id, k)' /\ Before(s, id, k)' = req[s].prev
      BY <1>1, <1>2, <1>3, <3>2 DEF Working, Before
    <3>4. Owed(id, k)' = Owed(id, k)
      BY <3>3 DEF OwedIs
    <3> QED BY <1>1, <1>2, <2>4, <3>1, <3>2, <3>4, RejectTmp
  <2>5. CASE ReadSizes(s) \/ WriteSizes(s)
    <3>1. Frame(s) /\ UNCHANGED tmp /\ req[s].pc \in {"counted", "sizing"}
          /\ (req'[s] # None => req'[s].id = id /\ req'[s].index = k /\ req'[s].pc = "sizing")
      <4>1. CASE ReadSizes(s)
        <5>1. /\ Frame(s) /\ SameChunk(s) /\ req[s].pc = "counted"
              /\ req'[s] = [pc |-> "sizing", id |-> req[s].id, index |-> req[s].index,
                            len |-> req[s].len, prev |-> req[s].prev,
                            sizes |-> IF record[req[s].id] = None THEN None
                                      ELSE record[req[s].id].sizes]
          BY <4>1, ReadSizesFacts
        <5>2. req'[s].pc = "sizing" /\ req'[s].id = id /\ req'[s].index = k
          BY <1>1, <1>2, <5>1
        <5> QED BY <4>1, <5>1, <5>2 DEF ReadSizes
      <4>2. CASE WriteSizes(s)
        BY <4>2, DoneFacts DEF WriteSizes, Typed
      <4> QED BY <2>5, <4>1, <4>2
    <3>2. \A t \in Slots \ {s} : req'[t] = req[t]
      BY <3>1 DEF Frame, Typed
    <3>3. \A t \in Slots : ~Working(t, id, k) /\ ~Working(t, id, k)'
      <4>1. ~Working(s, id, k) /\ ~Working(s, id, k)'
        BY <3>1 DEF Working
      <4>2. \A t \in Slots \ {s} : ~Working(t, id, k)
        BY <1>1, <1>2, <1>3 DEF Working, Separate
      <4>3. \A t \in Slots \ {s} : ~Working(t, id, k)'
        BY <3>2, <4>2 DEF Working
      <4> QED BY <4>1, <4>2, <4>3
    <3>4. Length(id, k)' = Length(id, k)
      BY <3>1 DEF Length
    <3>5. Owed(id, k)' = Owed(id, k)
      BY <3>3, <3>4 DEF OwedIs
    <3> QED BY <3>1, <3>5 DEF SameLength
  <2> QED BY <2>1, <2>2, <2>3, <2>4, <2>5
<1>6. /\ \A i \in Ids \ {id} : Due(i)' = Due(i)
      /\ Due(id)' = Due(id) - Owed(id, k) + Owed(id, k)' /\ Owed(id, k) <= Due(id)
  BY <1>1, <1>2, <1>5, OwnDue
<1>7. Bytes(id)' = Bytes(id) - Owed(id, k) + Owed(id, k)'
  BY <1>4, <1>5, BytesIsNat DEF OwedIs
<1> QED BY <1>4, <1>6, <1>7, SlackKept

------------------------------------------------------------------------------
(* PendingCovered and ExactWhenIdle                                        *)

Covered == Free({"expire", "overlap"}) => \A id \in Ids : Due(id) <= Bytes(id)

\* A merge that registered its file has its chunks and its row still to remove.
Leaving(id) == \E s \in Slots : (At(s, "merged") \/ At(s, "cleaned")) /\ req[s].id = id

Exact ==
  Free({"crash", "disconnect", "create", "expire", "overlap"}) =>
    \A id \in Ids : Bytes(id) = Due(id) \/ Leaving(id)

\* A request that goes, or that does not work on a chunk, leaves a debt that is
\* no larger, and the same when no other goes.
LEMMA OwedFalls ==
  ASSUME OwedIs, OwedIs', NEW id \in Ids, tmp'[id] = tmp[id],
         \A t \in Slots : \A k \in DOMAIN Chunks[id] :
           Working(t, id, k)' => Working(t, id, k) /\ req'[t] = req[t]
  PROVE  Due(id)' <= Due(id) /\ Due(id)' \in Nat
<1>1. ASSUME NEW k \in DOMAIN Chunks[id] PROVE Owed(id, k)' <= Owed(id, k)
  <2>1. Length(id, k)' = Length(id, k)
    BY DEF Length
  <2>2. CASE \A t \in Slots : ~Working(t, id, k)'
    <3>1. Owed(id, k)' = Length(id, k) /\ Length(id, k) <= Owed(id, k)
      BY <2>1, <2>2 DEF OwedIs
    <3> QED BY <3>1
  <2>3. ASSUME NEW t \in Slots, Working(t, id, k)' PROVE Owed(id, k)' <= Owed(id, k)
    <3>1. Working(t, id, k) /\ Before(t, id, k)' = Before(t, id, k)
      BY <2>1, <2>3 DEF Before
    <3>2. Owed(id, k)' = Owed(id, k) /\ Owed(id, k) \in Nat
      BY <2>3, <3>1 DEF OwedIs
    <3> QED BY <3>2
  <2> QED BY <2>2, <2>3
<1>2. (OwedIs => DueNat)'
  BY DueIsNat, PTL
<1> QED BY <1>1, <1>2, DueFalls DEF DueNat

LEMMA OwedStays ==
  ASSUME OwedIs, OwedIs', NEW id \in Ids, tmp'[id] = tmp[id],
         \A t \in Slots : \A k \in DOMAIN Chunks[id] :
           /\ Working(t, id, k)' => Working(t, id, k)
           /\ Working(t, id, k) => Working(t, id, k)' /\ req'[t] = req[t]
  PROVE  Due(id)' = Due(id)
<1>1. ASSUME NEW k \in DOMAIN Chunks[id] PROVE Owed(id, k)' = Owed(id, k)
  <2>1. Length(id, k)' = Length(id, k)
    BY DEF Length
  <2>2. ASSUME NEW t \in Slots, Working(t, id, k)
        PROVE  Working(t, id, k)' /\ Before(t, id, k)' = Before(t, id, k)
    BY <2>1, <2>2 DEF Before
  <2> QED BY <2>1, <2>2, OwedSame
<1> QED BY <1>1, DueSame

\* An upload without chunks on which nobody works owes nothing.
EmptyOwesNothing ==
  \A id \in Ids :
    tmp[id] = Empty /\ (\A s \in Slots : \A k \in DOMAIN Chunks[id] : ~Working(s, id, k)) => Due(id) = 0

LEMMA NothingDue == Typed /\ OwedIs => EmptyOwesNothing
<1> SUFFICES ASSUME Typed, OwedIs, NEW id \in Ids, tmp[id] = Empty,
                    \A s \in Slots : \A k \in DOMAIN Chunks[id] : ~Working(s, id, k)
             PROVE  Due(id) = 0
  BY DEF EmptyOwesNothing
<1>1. Due(id) = Disk(id)
  BY DueIsDisk
<1>2. Disk(id) = SumFunctionOnSet(Empty, {})
  BY DEF Disk, SumFunction, Empty
<1> QED BY <1>1, <1>2, SumEmpty

LEMMA NobodyAtMerge ==
  ASSUME Typed, Separate, "overlap" \notin faults, NEW s \in Slots, Joining(s)
  PROVE  \A t \in Slots : \A k : ~Working(t, req[s].id, k)
<1>1. ~Chunking(s) /\ req[s].pc \in MergePcs
  BY DEF Joining, Chunking, MergeRequest, ChunkRequest, ChunkPcs, MergePcs
<1> QED BY <1>1 DEF Separate, Working, MergePcs, Joining

\* What a merge does to what is due
LEMMA MergeDue ==
  ASSUME Typed, Typed', Separate, OwedIs, OwedIs', "overlap" \notin faults, NEW s \in Slots, Merge(s)
  PROVE  \A id \in Ids :
           /\ tmp'[id] = tmp[id] => Due(id)' = Due(id)
           /\ tmp'[id] # tmp[id] => Due(id)' = 0 /\ req[s].id = id /\ (MergeCopy(s) \/ MergeClean(s))
<1>1. Frame(s)
  BY MergeOthers
<1>2. (req[s] = None \/ Joining(s)) /\ (\A id \in Ids : \A k : ~Working(s, id, k) /\ ~Working(s, id, k)')
  <2>1. CASE req[s] = None /\ \E id \in Ids : MergeCheck(s, id)
    <3>1. req'[s].pc = "checked"
      BY <2>1 DEF MergeCheck, Typed
    <3> QED BY <2>1, <3>1 DEF Working
  <2>2. CASE req[s] # None /\ req[s].pc \in MergePcs
    <3>1. Joining(s)
      BY <2>2, MergeFields
    <3>2. Done(s) \/ \E pc \in MergePcs : Step(s, pc)
      BY <2>2 DEF Merge, MergeCheck, MergeCreate, MergeCopy, MergeBegin, MergeReject, MergeCommit,
                  MergeFail, MergeClean, MergeForget, MergePcs
    <3>3. req'[s] = None \/ req'[s].pc \in MergePcs
      <4>1. CASE Done(s)
        BY <4>1 DEF Done, Typed
      <4>2. ASSUME NEW pc \in MergePcs, Step(s, pc) PROVE req'[s].pc \in MergePcs
        BY <3>1, <4>2, JoinExcept
      <4> QED BY <3>2, <4>1, <4>2
    <3> QED BY <2>2, <3>1, <3>3 DEF Working, MergePcs
  <2> QED BY <2>1, <2>2 DEF Merge, MergeCheck, MergeCreate, MergeCopy, MergeBegin, MergeReject,
             MergeCommit, MergeFail, MergeClean, MergeForget, MergePcs
<1>3. \A t \in Slots \ {s} : req'[t] = req[t]
  BY <1>1 DEF Frame, Typed
<1>4. \A t \in Slots : \A id \in Ids : \A k \in DOMAIN Chunks[id] :
        /\ Working(t, id, k)' => Working(t, id, k)
        /\ Working(t, id, k) => Working(t, id, k)' /\ req'[t] = req[t]
  BY <1>2, <1>3 DEF Working
<1> SUFFICES ASSUME NEW id \in Ids
             PROVE  /\ tmp'[id] = tmp[id] => Due(id)' = Due(id)
                    /\ tmp'[id] # tmp[id] => Due(id)' = 0 /\ req[s].id = id
                                             /\ (MergeCopy(s) \/ MergeClean(s))
  OBVIOUS
<1>5. CASE tmp'[id] = tmp[id]
  BY <1>4, <1>5, OwedStays
<1>6. CASE tmp'[id] # tmp[id]
  <2>1. (MergeCopy(s) \/ MergeClean(s)) /\ tmp' = [tmp EXCEPT ![req[s].id] = Empty] /\ req[s] # None
    BY <1>6 DEF Merge, MergeCheck, MergeCreate, MergeCopy, MergeBegin, MergeReject, MergeCommit,
                MergeFail, MergeClean, MergeForget
  <2>2. tmp'[id] = Empty /\ req[s].id = id
    BY <1>6, <2>1 DEF Typed
  <2>3. \A t \in Slots : \A k \in DOMAIN Chunks[id] : ~Working(t, id, k)'
    BY <1>2, <1>4, <2>1, <2>2, NobodyAtMerge
  <2>4. (Typed /\ OwedIs => EmptyOwesNothing)'
    BY NothingDue, PTL
  <2> QED BY <1>6, <2>1, <2>2, <2>3, <2>4 DEF EmptyOwesNothing
<1> QED BY <1>5, <1>6

LEMMA MergeCovered ==
  ASSUME Typed, Typed', Separate, Written, OwedIs, OwedIs', Covered, NEW s \in Slots, Merge(s),
         Free({"expire", "overlap"})
  PROVE  \A id \in Ids : /\ Due(id)' <= Bytes(id)'
                         /\ tmp'[id] = tmp[id] => Bytes(id)' - Due(id)' = Bytes(id) - Due(id)
                                                  \/ Due(id)' = Bytes(id)'
<1> SUFFICES ASSUME NEW id \in Ids
             PROVE  /\ Due(id)' <= Bytes(id)'
                    /\ tmp'[id] = tmp[id] => Bytes(id)' - Due(id)' = Bytes(id) - Due(id)
                                             \/ Due(id)' = Bytes(id)'
  OBVIOUS
<1>1. "overlap" \notin faults /\ Due(id) <= Bytes(id) /\ Due(id) \in Nat /\ Bytes(id) \in Nat
  BY Sized DEF SizedIs, Free, Covered
<1>2. /\ tmp'[id] = tmp[id] => Due(id)' = Due(id)
      /\ tmp'[id] # tmp[id] => Due(id)' = 0
  BY <1>1, MergeDue
<1>3. CASE record'[id] = record[id]
  <2>1. Bytes(id)' = Bytes(id)
    BY <1>3 DEF Bytes
  <2> QED BY <1>1, <1>2, <2>1
<1>4. CASE record'[id] # record[id]
  <2>1. MergeForget(s) /\ record' = [record EXCEPT ![req[s].id] = None] /\ UNCHANGED tmp
        /\ req[s] # None /\ req[s].pc = "cleaned"
    BY <1>4 DEF Merge, MergeCheck, MergeCreate, MergeCopy, MergeBegin, MergeReject, MergeCommit,
                MergeFail, MergeClean, MergeForget
  <2>2. req[s].id = id /\ record'[id] = None
    BY <1>4, <2>1 DEF Typed
  <2>3. tmp[id] = Empty
    BY <1>1, <2>1, <2>2 DEF Written, Known
  <2>4. \A t \in Slots : \A k \in DOMAIN Chunks[id] : ~Working(t, id, k)
    BY <1>1, <2>1, <2>2, NobodyAtMerge, MergeFields DEF MergePcs
  <2>5. Due(id) = 0
    BY <2>3, <2>4, NothingDue DEF EmptyOwesNothing
  <2>6. Bytes(id)' = 0
    BY <2>2 DEF Bytes
  <2> QED BY <1>2, <2>1, <2>5, <2>6
<1> QED BY <1>3, <1>4

\* Requests that end with their connection, their file or their process
LEMMA GoneCovered ==
  ASSUME Typed, Typed', Separate, OwedIs, OwedIs', Covered, Free({"expire", "overlap"}),
         UNCHANGED record,
         Crash \/ \E s \in Slots : CreateFails(s) \/ Disconnect(s)
  PROVE  \A id \in Ids : Due(id)' <= Bytes(id)'
<1> SUFFICES ASSUME NEW id \in Ids PROVE Due(id)' <= Bytes(id)'
  OBVIOUS
<1>1. "overlap" \notin faults /\ Due(id) <= Bytes(id) /\ Due(id) \in Nat /\ Bytes(id) \in Nat
      /\ Bytes(id)' = Bytes(id)
  BY Sized DEF SizedIs, Free, Covered, Bytes
<1>0. \A t \in Slots : req'[t] = None \/ req'[t] = req[t]
  BY DEF Crash, CreateFails, Disconnect, Done, Typed
<1>2. \A t \in Slots : \A k \in DOMAIN Chunks[id] :
        Working(t, id, k)' => Working(t, id, k) /\ req'[t] = req[t]
  BY <1>0 DEF Working
<1>3. CASE tmp'[id] = tmp[id]
  <2>1. Due(id)' <= Due(id) /\ Due(id)' \in Nat
    BY <1>2, <1>3, OwedFalls
  <2> QED BY <1>1, <2>1
<1>4. CASE tmp'[id] # tmp[id]
  <2>1. PICK s \in Slots : At(s, "copying") /\ tmp' = [tmp EXCEPT ![req[s].id] = Empty]
    BY <1>4 DEF Crash, CreateFails, Disconnect
  <2>2. Joining(s)
    BY <2>1, MergeFields DEF MergePcs
  <2>3. tmp'[id] = Empty /\ req[s].id = id
    BY <1>4, <2>1 DEF Typed
  <2>4. \A t \in Slots : \A k \in DOMAIN Chunks[id] : ~Working(t, id, k)'
    BY <1>1, <1>2, <2>2, <2>3, NobodyAtMerge
  <2>5. (Typed /\ OwedIs => EmptyOwesNothing)'
    BY NothingDue, PTL
  <2> QED BY <1>1, <2>3, <2>4, <2>5 DEF EmptyOwesNothing
<1> QED BY <1>3, <1>4

LEMMA UploadSlack ==
  ASSUME Typed, Typed', Separate, Separate', Written, OwedIs, OwedIs', Covered, NEW s \in Slots,
         Upload(s), ~CreateFails(s), Free({"expire", "overlap"})
  PROVE  \A id \in Ids : Bytes(id)' - Due(id)' = Bytes(id) - Due(id)
<1>1. "overlap" \notin faults /\ \A id \in Ids : Due(id) <= Bytes(id)
  BY DEF Free, Covered
<1>2. \A id \in Ids : Slack(id)' = Slack(id)
  <2>1. ASSUME NEW id \in Ids, NEW k \in DOMAIN Chunks[id], Reserve(s, id, k)
        PROVE  \A i \in Ids : Slack(i)' = Slack(i)
    BY <1>1, <2>1, ReserveSlack
  <2>2. CASE Correct(s)
    BY <1>1, <2>2, CorrectSlack
  <2>3. CASE Truncate(s) \/ Write(s) \/ EndOfStream(s) \/ Reject(s) \/ ReadSizes(s) \/ WriteSizes(s)
    BY <1>1, <2>3, QuietSlack
  <2> QED BY <2>1, <2>2, <2>3 DEF Upload
<1> QED BY <1>2 DEF Slack

LEMMA CoveredNext ==
  ASSUME Typed, Typed', Separate, Separate', Written, OwedIs, OwedIs', Covered, [Next]_vars,
         Free({"expire", "overlap"})
  PROVE  \A id \in Ids : Due(id)' <= Bytes(id)'
<1>1. \A id \in Ids : Due(id) <= Bytes(id) /\ Due(id) \in Nat /\ Bytes(id) \in Nat
  BY Sized DEF SizedIs, Covered
<1>2. ASSUME NEW s \in Slots, Upload(s), ~CreateFails(s) PROVE \A id \in Ids : Due(id)' <= Bytes(id)'
  <2>1. \A id \in Ids : Bytes(id)' - Due(id)' = Bytes(id) - Due(id)
    BY <1>2, UploadSlack
  <2>2. (OwedIs /\ Typed => SizedIs)'
    BY Sized, PTL
  <2> QED BY <1>1, <2>1, <2>2 DEF SizedIs
<1>3. ASSUME NEW s \in Slots, Merge(s) PROVE \A id \in Ids : Due(id)' <= Bytes(id)'
  BY <1>3, MergeCovered
<1>4. CASE Crash \/ \E s \in Slots : CreateFails(s) \/ Disconnect(s)
  BY <1>4, GoneCovered DEF Crash, CreateFails, Disconnect
<1>5. CASE UNCHANGED vars
  <2>1. \A id \in Ids : Due(id)' = Due(id) /\ Bytes(id)' = Bytes(id)
    <3>1. \A id \in Ids : \A k : Owed(id, k)' = Owed(id, k)
      BY <1>5 DEF vars, Owed, Length, Working, Before
    <3> QED BY <1>5, <3>1, DueSame DEF vars, Bytes
  <2> QED BY <1>1, <2>1
<1>6. ~(\E id \in Ids : ExpireRow(id) \/ SweepChunks(id))
  BY DEF Free, ExpireRow, SweepChunks
<1> QED BY <1>2, <1>3, <1>4, <1>5, <1>6 DEF Next

LEMMA LeavingStays ==
  ASSUME Typed, NEW s \in Slots, req' = [req EXCEPT ![s] = req'[s]],
         NEW id \in Ids, Leaving(id), ~(At(s, "merged") /\ req[s].id = id), ~(At(s, "cleaned") /\ req[s].id = id)
  PROVE  Leaving(id)'
<1>1. PICK t \in Slots : (At(t, "merged") \/ At(t, "cleaned")) /\ req[t].id = id
  BY DEF Leaving
<1>2. t # s /\ req'[t] = req[t]
  BY <1>1 DEF Typed
<1> QED BY <1>1, <1>2 DEF Leaving

LEMMA MergeExact ==
  ASSUME Typed, Typed', KeepInv, Separate, Written, OwedIs, OwedIs', Covered, Exact, NEW s \in Slots, Merge(s),
         Free({"crash", "disconnect", "create", "expire", "overlap"})
  PROVE  \A id \in Ids : Bytes(id)' = Due(id)' \/ Leaving(id)'
<1> SUFFICES ASSUME NEW id \in Ids PROVE Bytes(id)' = Due(id)' \/ Leaving(id)'
  OBVIOUS
<1>0. Frame(s) /\ "overlap" \notin faults /\ Free({"expire", "overlap"})
      /\ (Bytes(id) = Due(id) \/ Leaving(id)) /\ Bytes(id) \in Nat /\ Due(id) \in Nat
  BY MergeOthers, Sized DEF SizedIs, Free, Exact
<1>1. CASE MergeForget(s) /\ req[s].id = id
  <2>1. Joining(s) /\ tmp[id] = Empty /\ record'[id] = None /\ UNCHANGED tmp
    BY <1>0, <1>1, MergeFields DEF MergeForget, MergePcs, Written, Known, Typed
  <2>2. Due(id) = 0
    <3>1. \A t \in Slots : \A k \in DOMAIN Chunks[id] : ~Working(t, id, k)
      BY <1>0, <1>1, <2>1, NobodyAtMerge
    <3> QED BY <2>1, <3>1, NothingDue DEF EmptyOwesNothing
  <2>3. Due(id)' = Due(id)
    BY <1>0, <2>1, MergeDue
  <2> QED BY <2>1, <2>2, <2>3 DEF Bytes
<1>2. CASE MergeClean(s) /\ req[s].id = id
  <2>1. Joining(s) /\ Step(s, "cleaned") /\ "cleaned" \in MergePcs
    BY <1>2, MergeFields DEF MergeClean, MergePcs
  <2>2. req'[s].pc = "cleaned" /\ req'[s].id = id /\ Joining(s)'
    BY <1>2, <2>1, JoinExcept
  <2> QED BY <2>2 DEF Leaving, Joining
<1>3. CASE ~(MergeForget(s) /\ req[s].id = id) /\ ~(MergeClean(s) /\ req[s].id = id)
  <2>1. ~MergeCopy(s) \/ UNCHANGED tmp
    BY <1>0 DEF KeepInv, ChunksThere, MergeCopy
  <2>2. tmp'[id] = tmp[id]
    <3>1. tmp'[id] # tmp[id] => req[s].id = id /\ (MergeCopy(s) \/ MergeClean(s))
      BY <1>0, MergeDue
    <3> QED BY <1>3, <2>1, <3>1
  <2>3. Due(id)' = Due(id)
    BY <1>0, <2>2, MergeDue
  <2>4. record'[id] = record[id]
    <3>1. UNCHANGED record \/ (MergeForget(s) /\ record' = [record EXCEPT ![req[s].id] = None])
      BY DEF Merge, MergeCheck, MergeCreate, MergeCopy, MergeBegin, MergeReject, MergeCommit,
             MergeFail, MergeClean, MergeForget
    <3> QED BY <1>3, <3>1 DEF Typed
  <2>5. ASSUME Leaving(id) PROVE Leaving(id)'
    <3>1. ~(At(s, "merged") /\ req[s].id = id) /\ ~(At(s, "cleaned") /\ req[s].id = id)
      BY <1>3 DEF Merge, MergeCheck, MergeCreate, MergeCopy, MergeBegin, MergeReject, MergeCommit,
                  MergeFail, MergeClean, MergeForget
    <3> QED BY <1>0, <2>5, <3>1, LeavingStays DEF Frame
  <2> QED BY <1>0, <2>3, <2>4, <2>5 DEF Bytes
<1> QED BY <1>1, <1>2, <1>3

LEMMA ExactNext ==
  ASSUME Typed, Typed', KeepInv, Separate, Separate', Written, OwedIs, OwedIs', Covered, Exact,
         [Next]_vars, Free({"crash", "disconnect", "create", "expire", "overlap"})
  PROVE  \A id \in Ids : Bytes(id)' = Due(id)' \/ Leaving(id)'
<1>0. Free({"expire", "overlap"}) /\ \A id \in Ids : Bytes(id) = Due(id) \/ Leaving(id)
  BY DEF Free, Exact
<1>1. ASSUME NEW s \in Slots, Upload(s), NEW id \in Ids PROVE Bytes(id)' = Due(id)' \/ Leaving(id)'
  <2>1. ~CreateFails(s)
    BY DEF Free, CreateFails
  <2>2. Bytes(id)' - Due(id)' = Bytes(id) - Due(id)
    BY <1>0, <1>1, <2>1, UploadSlack
  <2>3. (OwedIs /\ Typed => SizedIs)'
    BY Sized, PTL
  <2>4. Bytes(id) = Due(id) => Bytes(id)' = Due(id)'
    BY <2>2, <2>3, Sized DEF SizedIs
  <2>5. ASSUME Leaving(id) PROVE Leaving(id)'
    <3>1. ~At(s, "merged") /\ ~At(s, "cleaned")
      BY <1>1 DEF Upload, Reserve, Truncate, CreateFails, Write, EndOfStream, Reject, Correct,
                  ReadSizes, WriteSizes
    <3>2. req' = [req EXCEPT ![s] = req'[s]]
      BY <1>1, UploadOthers DEF Frame
    <3> QED BY <2>5, <3>1, <3>2, LeavingStays
  <2> QED BY <1>0, <2>4, <2>5
<1>2. ASSUME NEW s \in Slots, Merge(s) PROVE \A id \in Ids : Bytes(id)' = Due(id)' \/ Leaving(id)'
  BY <1>2, MergeExact
<1>3. CASE UNCHANGED vars
  <2>1. \A id \in Ids : Due(id)' = Due(id) /\ Bytes(id)' = Bytes(id)
    <3>1. \A id \in Ids : \A k : Owed(id, k)' = Owed(id, k)
      BY <1>3 DEF vars, Owed, Length, Working, Before
    <3> QED BY <1>3, <3>1, DueSame DEF vars, Bytes
  <2> QED BY <1>0, <1>3, <2>1 DEF Leaving, vars
<1>4. ~(\E id \in Ids : ExpireRow(id) \/ SweepChunks(id)) /\ ~Crash /\ ~(\E s \in Slots : Disconnect(s))
  BY DEF Free, ExpireRow, SweepChunks, Crash, Disconnect
<1> QED BY <1>1, <1>2, <1>3, <1>4 DEF Next

\* The faults of a behaviour are chosen at the start.
LEMMA SameFaults ==
  ASSUME Typed, Separate, [Next]_vars
  PROVE  UNCHANGED faults
<1>1. ASSUME NEW s \in Slots, Upload(s) \/ Merge(s) \/ Disconnect(s) PROVE UNCHANGED faults
  <2>1. Frame(s)
    BY <1>1, UploadOthers, MergeOthers
  <2> QED BY <2>1 DEF Frame
<1> QED BY <1>1 DEF Next, vars, ExpireRow, SweepChunks, Crash

\* The pending sum covers the chunks on disk.
LEMMA DiskWithinPending ==
  ASSUME Typed, OwedIs, \A id \in Ids : Due(id) <= Bytes(id)
  PROVE  OnDisk <= Pending
<1> DEFINE f == [id \in Ids |-> Disk(id)]
           g == [id \in Ids |-> Bytes(id)]
<1>1. \A id \in Ids : Disk(id) \in Nat /\ Disk(id) <= Due(id) /\ Due(id) \in Nat /\ Bytes(id) \in Nat
  BY DiskWithinDue, Sized DEF SizedIs
<1>2. \A id \in Ids : f[id] \in Int /\ g[id] \in Int /\ f[id] <= g[id]
  BY <1>1
<1>3. OnDisk = SumFunctionOnSet(f, Ids) /\ Pending = SumFunctionOnSet(g, Ids)
  BY DEF OnDisk, Pending, SumFunction
<1> HIDE DEF f, g
<1>4. SumFunctionOnSet(f, Ids) <= SumFunctionOnSet(g, Ids)
  BY <1>2, SumMonotonic, ChunkAssumption
<1> QED BY <1>3, <1>4

Balanced == ("overlap" \notin faults => Single) /\ Covered /\ Exact

LEMMA BalancedInit == Init => CapHolds /\ Balanced
<1> SUFFICES ASSUME Init PROVE CapHolds /\ Balanced
  OBVIOUS
<1>1. Typed /\ Single
  BY TypedInit DEF Init, Single, Working
<1>2. OwedIs
  BY <1>1, OwedFacts
<1>3. \A id \in Ids : Bytes(id) = 0 /\ Due(id) = 0
  <2>1. \A id \in Ids : Due(id) = 0
    BY <1>1, <1>2, NothingDue DEF EmptyOwesNothing, Init, Working
  <2> QED BY <2>1 DEF Init, Bytes
<1>4. Pending <= Cap
  <2> DEFINE g == [id \in Ids |-> Bytes(id)]
             h == [id \in Ids |-> 0]
  <2>1. g = h
    BY <1>3
  <2>2. \A id \in Ids : h[id] = 0
    OBVIOUS
  <2>3. Pending = SumFunctionOnSet(h, Ids)
    BY <2>1 DEF Pending, SumFunction
  <2> HIDE DEF h
  <2>4. SumFunctionOnSet(h, Ids) = SumFunctionOnSet(h, Ids \cap {})
    BY <2>2, SumSupport, ChunkAssumption
  <2>5. Ids \cap {} = {}
    OBVIOUS
  <2>6. SumFunctionOnSet(h, {}) = 0
    BY SumEmpty
  <2> QED BY <2>3, <2>4, <2>5, <2>6, ChunkAssumption
<1> QED BY <1>1, <1>3, <1>4 DEF CapHolds, Balanced, Covered, Exact

LEMMA BalancedNext ==
  ASSUME Typed, Typed', KeepInv, Separate, Separate', Written, Balanced, [Next]_vars
  PROVE  Balanced'
<1>0. UNCHANGED faults
  BY SameFaults
<1>1. ("overlap" \notin faults => Single)'
  <2>1. (Separate /\ "overlap" \notin faults => Single)'
    BY DEF Separate, Single, Working
  <2> QED BY <2>1
<1>2. "overlap" \notin faults => OwedIs /\ OwedIs'
  <2>1. (Typed /\ Single => OwedIs)'
    BY OwedFacts, PTL
  <2> QED BY <1>0, <1>1, <2>1, OwedFacts DEF Balanced
<1>3. Covered'
  <2> SUFFICES ASSUME Free({"expire", "overlap"}) PROVE \A id \in Ids : Due(id)' <= Bytes(id)'
    BY <1>0 DEF Covered, Free
  <2>1. "overlap" \notin faults
    BY DEF Free
  <2> QED BY <1>2, <2>1, CoveredNext DEF Balanced
<1>4. Exact'
  <2> SUFFICES ASSUME Free({"crash", "disconnect", "create", "expire", "overlap"})
               PROVE  \A id \in Ids : Bytes(id)' = Due(id)' \/ Leaving(id)'
    BY <1>0 DEF Exact, Free
  <2>1. "overlap" \notin faults
    BY DEF Free
  <2> QED BY <1>2, <2>1, ExactNext DEF Balanced
<1> QED BY <1>1, <1>3, <1>4 DEF Balanced

ChunkInv == Typed /\ QuotaInv /\ KeepInv /\ Separate /\ Written /\ CapHolds /\ Balanced

LEMMA ChunkInvariant == Spec => []ChunkInv
<1>1. Init => ChunkInv
  BY TypedInit, QuotaInvInit, KeepInvInit, BalancedInit DEF ChunkInv, Init, Separate, Written, Known
<1>2. ChunkInv /\ [Next]_vars => ChunkInv'
  <2> SUFFICES ASSUME ChunkInv, [Next]_vars PROVE ChunkInv'
    OBVIOUS
  <2>1. Typed'
    BY UploadKeepsTypes, MergeKeepsTypes, OthersKeepTypes DEF Next, ChunkInv, QuotaInv
  <2>2. QuotaInv'
    BY UploadKeepsQuota, MergeKeepsQuota, OthersKeepQuota DEF Next, ChunkInv
  <2>3. KeepInv'
    BY UploadKeepsChunks, MergeKeepsChunks, OthersKeepChunks DEF Next, ChunkInv
  <2>4. Separate'
    BY <2>1, SeparateNext DEF ChunkInv
  <2>5. Written'
    BY WrittenNext DEF ChunkInv
  <2>6. CapHolds'
    BY <2>1, CapNext DEF ChunkInv
  <2>7. Balanced'
    BY <2>1, <2>4, BalancedNext DEF ChunkInv
  <2> QED BY <2>1, <2>2, <2>3, <2>4, <2>5, <2>6, <2>7 DEF ChunkInv
<1> QED BY <1>1, <1>2, PTL DEF Spec

\* The chunks on disk are always counted, and what is counted is within the cap:
\* upload_chunk reserves before it writes and corrects after.
THEOREM PendingIsCovered == Spec => []PendingCovered
<1>1. ChunkInv => PendingCovered
  <2> SUFFICES ASSUME ChunkInv, Free({"expire", "overlap"}) PROVE OnDisk <= Pending /\ Pending <= Cap
    BY DEF PendingCovered
  <2>1. OwedIs
    BY OwedFacts DEF ChunkInv, Balanced, Free
  <2>2. OnDisk <= Pending
    BY <2>1, DiskWithinPending DEF ChunkInv, Balanced, Covered
  <2> QED BY <2>2 DEF ChunkInv, CapHolds
<1> QED BY <1>1, ChunkInvariant, PTL

\* No reservation leaks: when nothing runs the rows count what is on disk.
THEOREM ExactAtRest == Spec => []ExactWhenIdle
<1>1. ChunkInv => ExactWhenIdle
  <2> SUFFICES ASSUME ChunkInv, Idle, Free({"crash", "disconnect", "create", "expire", "overlap"}),
                      NEW id \in Ids
               PROVE  Bytes(id) = Disk(id)
    BY DEF ExactWhenIdle
  <2>1. Typed /\ OwedIs /\ Exact
    BY OwedFacts DEF ChunkInv, Balanced, Free
  <2>2. Bytes(id) = Due(id)
    BY <2>1 DEF Exact, Leaving, Idle
  <2>3. Due(id) = Disk(id)
    BY <2>1, DueIsDisk DEF Idle, Working
  <2> QED BY <2>2, <2>3
<1> QED BY <1>1, ChunkInvariant, PTL
==============================================================================
