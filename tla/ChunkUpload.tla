----------------------------- MODULE ChunkUpload -----------------------------
(***************************************************************************)
(* The chunked uploads of one user (handlers/upload.rs): upload_chunk      *)
(* reserves room, streams a chunk to tmp/{user}/{identifier}/{index} and   *)
(* replaces the reservation by what it wrote; merge_chunks joins the       *)
(* chunks, charges the quota and registers the file.  The rows of table    *)
(* upload_chunks and their chunks are swept by tasks/cleanup.rs.           *)
(*                                                                         *)
(* A step is what happens between two awaits that matter: one file         *)
(* operation or one transaction.  The transaction of merge_chunks is       *)
(* deferred: it takes its snapshot with the SELECT of the quota, and a     *)
(* write over a snapshot that another commit made old is refused.          *)
(***************************************************************************)
EXTENDS Naturals, FiniteSets, Functions

CONSTANTS
  Ids,        \* identifiers of uploads; each has a target of its own
  Chunks,     \* Chunks[id]: the length of each chunk of the file, by index
  Slots,      \* requests in flight
  MaxChunk,   \* MAX_CHUNK_SIZE_BYTES
  Cap,        \* PENDING_CHUNKS_CAP_BYTES
  MB,         \* bytes in a unit of quota
  Quota,      \* quota_mb
  MaxBreaks,  \* bound of the model on the faults that break a sequence of requests
  FaultSets,  \* the sets of faults a behaviour may meet
  None        \* no row, no request, no list of lengths

FaultKinds == {"crash", "disconnect", "truncate", "create", "expire", "overlap"}

\* What a chunk of an upload may be mapped to, for those chunks that are there
Lists(id, lengths) == UNION {[K -> lengths] : K \in SUBSET DOMAIN Chunks[id]}

Row(id) == [bytes : Nat, sizes : Lists(id, 1..MaxChunk) \cup {None}]

\* What the handlers of upload_chunk and of merge_chunks hold
ChunkPcs == {"reserved", "writing", "written", "counted", "sizing"}
MergePcs == {"checked", "copying", "copied", "charging", "merged", "cleaned"}

ChunkRequest(id) ==
  [pc : ChunkPcs, id : {id}, index : DOMAIN Chunks[id], len : 0..MaxChunk,
   prev : 0..MaxChunk, sizes : Lists(id, 1..MaxChunk) \cup {None}]
MergeRequest(id) ==
  [pc : MergePcs, id : {id}, index : {None}, chunks : SUBSET DOMAIN Chunks[id]]

ASSUME ChunkAssumption ==
  /\ MaxBreaks \in Nat
  /\ MaxChunk \in Nat \ {0} /\ MB \in Nat \ {0} /\ Cap \in Nat /\ Quota \in Nat
  /\ IsFiniteSet(Ids)
  /\ \A id \in Ids :
       /\ Range(Chunks[id]) \subseteq 1..MaxChunk
       /\ IsFiniteSet(DOMAIN Chunks[id]) /\ None \notin DOMAIN Chunks[id]
       /\ None \notin Row(id) \cup ChunkRequest(id) \cup MergeRequest(id)
  /\ FaultSets \subseteq SUBSET FaultKinds

VARIABLES
  tmp,     \* tmp[id]: length of the chunk files, by index
  record,  \* record[id]: row of upload_chunks: bytes_received, chunk_sizes
  out,     \* the length of the target of each upload that has one on disk
  files,   \* the length of the file of each upload that is registered
  used,    \* used_mb
  req,     \* req[s]: what the handler in slot s holds
  stale,   \* slots whose transaction has an old snapshot
  faults,  \* the faults that may happen
  breaks   \* crashes, dropped and overlapping requests, expired rows so far

vars == <<tmp, record, out, files, used, req, stale, faults, breaks>>

------------------------------------------------------------------------------
Empty    == << >>
Ceil(n)  == (n + MB - 1) \div MB          \* bytes_to_mb_ceil
Minus(a, b) == IF a > b THEN a - b ELSE 0   \* MAX(0, ...)

Put(f, k, v) == [i \in DOMAIN f \cup {k} |-> IF i = k THEN v ELSE f[i]]
Drop(f, k)   == Restrict(f, DOMAIN f \ {k})

Bytes(id)   == IF record[id] = None THEN 0 ELSE record[id].bytes
Pending     == SumFunction([id \in Ids |-> Bytes(id)])
Disk(id)    == SumFunction(tmp[id])

At(s, pc) == req[s] # None /\ req[s].pc = pc
Step(s, pc) == req' = [req EXCEPT ![s].pc = pc]
Done(s)   == req' = [req EXCEPT ![s] = None]

\* A commit makes old the snapshots of the transactions that are open.
Commits(s) == stale' = {t \in Slots \ {s} : t \in stale \/ At(t, "charging")}

\* UPDATE upload_chunks SET bytes_received: no row, no effect
Counting(id, n) ==
  record' = IF record[id] = None THEN record ELSE [record EXCEPT ![id].bytes = n]

Break == breaks < MaxBreaks /\ breaks' = breaks + 1

\* Requests for one chunk, and a merge and anything else of its upload, only
\* meet when the client gives up on a request that goes on.
Admitted(id, index) ==
  IF \A s \in Slots : req[s] # None /\ req[s].id = id =>
                        index # None /\ req[s].index \notin {None, index}
    THEN UNCHANGED breaks
    ELSE "overlap" \in faults /\ Break

------------------------------------------------------------------------------
(* upload_chunk                                                            *)

\* Mutant of Reserve: no room for the chunk itself is asked for.
ReserveOverCap(s, id, k) ==
  /\ req[s] = None /\ Admitted(id, k)
  /\ Pending <= Cap
  /\ record' = [record EXCEPT ![id] =
       IF @ = None THEN [bytes |-> MaxChunk, sizes |-> None]
                   ELSE [bytes |-> @.bytes + MaxChunk, sizes |-> @.sizes]]
  /\ req' = [req EXCEPT ![s] =
       [pc |-> "reserved", id |-> id, index |-> k, len |-> 0, prev |-> 0, sizes |-> None]]
  /\ Commits(s)
  /\ UNCHANGED <<tmp, out, files, used, faults>>

\* One write transaction: the sum, the row, the reservation.
Reserve(s, id, k) ==
  /\ req[s] = None /\ Admitted(id, k)
  /\ Pending + MaxChunk <= Cap
  /\ record' = [record EXCEPT ![id] =
       IF @ = None THEN [bytes |-> MaxChunk, sizes |-> None]
                   ELSE [bytes |-> @.bytes + MaxChunk, sizes |-> @.sizes]]
  /\ req' = [req EXCEPT ![s] =
       [pc |-> "reserved", id |-> id, index |-> k, len |-> 0, prev |-> 0, sizes |-> None]]
  /\ Commits(s)
  /\ UNCHANGED <<tmp, out, files, used, faults>>

\* Mutant of Truncate: the old length is read after the file was truncated.
TruncateThenMeasure(s) ==
  /\ At(s, "reserved")
  /\ tmp' = [tmp EXCEPT ![req[s].id] = Put(@, req[s].index, 0)]
  /\ Step(s, "writing")
  /\ UNCHANGED <<record, out, files, used, stale, faults, breaks>>

\* The length of an older chunk is read before File::create truncates it.
Truncate(s) ==
  LET id == req[s].id  k == req[s].index IN
  /\ At(s, "reserved")
  /\ req' = [req EXCEPT ![s].pc = "writing",
                        ![s].prev = IF k \in DOMAIN tmp[id] THEN tmp[id][k] ELSE 0]
  /\ tmp' = [tmp EXCEPT ![id] = Put(@, k, 0)]
  /\ UNCHANGED <<record, out, files, used, stale, faults, breaks>>

\* File::create fails: the handler returns with its reservation in the row.
CreateFails(s) ==
  /\ "create" \in faults /\ At(s, "reserved")
  /\ Done(s)
  /\ UNCHANGED <<tmp, record, out, files, used, stale, faults, breaks>>

\* The handler writes at its own offset, whoever removed or truncated the file.
Write(s) ==
  LET id == req[s].id  k == req[s].index  n == req[s].len + 1 IN
  /\ At(s, "writing") /\ req[s].len < Chunks[id][k]
  /\ req' = [req EXCEPT ![s].len = n]
  /\ tmp' = [tmp EXCEPT ![id] =
       [i \in DOMAIN @ |-> IF i = k /\ @[i] < n THEN n ELSE @[i]]]
  /\ UNCHANGED <<record, out, files, used, stale, faults, breaks>>

\* while let Ok(Some(chunk)): a stream that breaks ends like one that is complete
EndOfStream(s) ==
  /\ At(s, "writing") /\ req[s].len > 0
  /\ "truncate" \in faults \/ req[s].len = Chunks[req[s].id][req[s].index]
  /\ Step(s, "written")
  /\ UNCHANGED <<tmp, record, out, files, used, stale, faults, breaks>>

\* Too long, empty, forbidden, or a failing write: the file goes first.
Reject(s) ==
  /\ At(s, "writing")
  /\ tmp' = [tmp EXCEPT ![req[s].id] = Drop(@, req[s].index)]
  /\ req' = [req EXCEPT ![s].pc = "written", ![s].len = 0]
  /\ UNCHANGED <<record, out, files, used, stale, faults, breaks>>

\* The reservation and the old length out, the new length in; after a rejection
\* (rollback_chunk_counter) the new length is 0.
Correct(s) ==
  LET id == req[s].id IN
  /\ At(s, "written")
  /\ Counting(id, Minus(Bytes(id) + req[s].len, req[s].prev + MaxChunk))
  /\ req' = [req EXCEPT ![s].pc = "counted", ![s].prev = 0]
  /\ Commits(s)
  /\ UNCHANGED <<tmp, out, files, used, faults, breaks>>

ReadSizes(s) ==
  LET id == req[s].id IN
  /\ At(s, "counted")
  /\ req' = [req EXCEPT ![s].pc = "sizing",
                        ![s].sizes = IF record[id] = None THEN None ELSE record[id].sizes]
  /\ UNCHANGED <<tmp, record, out, files, used, stale, faults, breaks>>

\* Mutant of WriteSizes: a rejected chunk keeps an entry.
WriteSizesOfRejected(s) ==
  LET id  == req[s].id
      k   == req[s].index
      old == IF req[s].sizes = None THEN Empty ELSE req[s].sizes
  IN  /\ At(s, "sizing")
      /\ record' = IF record[id] = None THEN record ELSE [record EXCEPT ![id].sizes = Put(old, k, req[s].len)]
      /\ Done(s)
      /\ Commits(s)
      /\ UNCHANGED <<tmp, out, files, used, faults, breaks>>

\* A rejected chunk is only taken out of a list that is there.
WriteSizes(s) ==
  LET id  == req[s].id
      k   == req[s].index
      old == IF req[s].sizes = None THEN Empty ELSE req[s].sizes
      new == IF req[s].len = 0 THEN Drop(old, k) ELSE Put(old, k, req[s].len)
  IN  /\ At(s, "sizing")
      /\ record' = IF record[id] = None \/ (req[s].len = 0 /\ req[s].sizes = None)
                     THEN record ELSE [record EXCEPT ![id].sizes = new]
      /\ Done(s)
      /\ Commits(s)
      /\ UNCHANGED <<tmp, out, files, used, faults, breaks>>

------------------------------------------------------------------------------
(* merge_chunks                                                            *)

\* Without a row nothing is known of the total; a chunk without a recorded
\* length is not compared.  A row whose chunk_sizes is NULL is an error.
Mergeable(id) ==
  /\ tmp[id] # Empty
  /\ record[id] # None =>
       /\ DOMAIN tmp[id] = DOMAIN Chunks[id]
       /\ record[id].sizes # None
       /\ \A k \in DOMAIN tmp[id] \cap DOMAIN record[id].sizes : tmp[id][k] = record[id].sizes[k]

\* Mutant of MergeCheck: the set of chunks is not compared with the total.
MergeCheckAnySet(s, id) ==
  /\ req[s] = None /\ Admitted(id, None)
  /\ tmp[id] # Empty
  /\ id \notin DOMAIN files \cup DOMAIN out
  /\ used + Ceil(Disk(id)) <= Quota
  /\ req' = [req EXCEPT ![s] = [pc |-> "checked", id |-> id, index |-> None, chunks |-> DOMAIN tmp[id]]]
  /\ UNCHANGED <<tmp, record, out, files, used, stale, faults>>

\* The checks before the first write; a failing one ends the request.
MergeCheck(s, id) ==
  /\ req[s] = None /\ Admitted(id, None)
  /\ Mergeable(id)
  /\ id \notin DOMAIN files \cup DOMAIN out
  /\ used + Ceil(Disk(id)) <= Quota
  /\ req' = [req EXCEPT ![s] = [pc |-> "checked", id |-> id, index |-> None, chunks |-> DOMAIN tmp[id]]]
  /\ UNCHANGED <<tmp, record, out, files, used, stale, faults>>

\* O_EXCL: an existing target ends the request.
MergeCreate(s) ==
  LET id == req[s].id IN
  /\ At(s, "checked")
  /\ IF id \in DOMAIN out THEN Done(s) /\ UNCHANGED out
                         ELSE out' = Put(out, id, 0) /\ Step(s, "copying")
  /\ UNCHANGED <<tmp, record, files, used, stale, faults, breaks>>

\* Mutant of MergeCopy: the chunks go before the quota is checked again.
MergeCopyAndClean(s) ==
  LET id == req[s].id IN
  /\ At(s, "copying")
  /\ out' = Put(out, id, Disk(id))
  /\ tmp' = [tmp EXCEPT ![id] = Empty]
  /\ Step(s, "copied")
  /\ UNCHANGED <<record, files, used, stale, faults, breaks>>

\* A chunk that cannot be read: MergeCleanup removes the target and all chunks.
MergeCopy(s) ==
  LET id == req[s].id IN
  /\ At(s, "copying")
  /\ IF req[s].chunks \subseteq DOMAIN tmp[id]
       THEN /\ out' = Put(out, id, SumFunctionOnSet(tmp[id], req[s].chunks))
            /\ Step(s, "copied")
            /\ UNCHANGED tmp
       ELSE /\ out' = Drop(out, id)
            /\ tmp' = [tmp EXCEPT ![id] = Empty]
            /\ Done(s)
  /\ UNCHANGED <<record, files, used, stale, faults, breaks>>

\* Mutant of MergeBegin: relies on the check before the copy.
MergeBeginUnchecked(s) ==
  /\ At(s, "copied")
  /\ Step(s, "charging")
  /\ stale' = stale \ {s}
  /\ UNCHANGED <<tmp, record, out, files, used, faults, breaks>>

\* The transaction reads used_mb: its snapshot is this state.
MergeBegin(s) ==
  /\ At(s, "copied")
  /\ used + Ceil(out[req[s].id]) <= Quota
  /\ Step(s, "charging")
  /\ UNCHANGED <<tmp, record, out, files, used, stale, faults, breaks>>

\* Over quota, or a forbidden type: the target goes, the chunks stay.
MergeReject(s) ==
  /\ At(s, "copied") \/ At(s, "charging")
  /\ At(s, "copied") => used + Ceil(out[req[s].id]) > Quota
  /\ out' = Drop(out, req[s].id)
  /\ Done(s)
  /\ stale' = stale \ {s}
  /\ UNCHANGED <<tmp, record, files, used, faults, breaks>>

\* Mutant of MergeCommit: the charge rounds down.
MergeCommitFloor(s) ==
  LET id == req[s].id IN
  /\ At(s, "charging") /\ s \notin stale /\ id \notin DOMAIN files
  /\ files' = Put(files, id, out[id])
  /\ used' = used + out[id] \div MB
  /\ Step(s, "merged")
  /\ Commits(s)
  /\ UNCHANGED <<tmp, record, out, faults, breaks>>

\* INSERT INTO files, adjust_user_used_mb_tx, COMMIT
MergeCommit(s) ==
  LET id == req[s].id IN
  /\ At(s, "charging") /\ s \notin stale /\ id \notin DOMAIN files
  /\ files' = Put(files, id, out[id])
  /\ used' = used + Ceil(out[id])
  /\ Step(s, "merged")
  /\ Commits(s)
  /\ UNCHANGED <<tmp, record, out, faults, breaks>>

\* The INSERT meets an old snapshot or the UNIQUE key: `?` leaves the target.
MergeFail(s) ==
  /\ At(s, "charging") /\ (s \in stale \/ req[s].id \in DOMAIN files)
  /\ Done(s)
  /\ stale' = stale \ {s}
  /\ UNCHANGED <<tmp, record, out, files, used, faults, breaks>>

MergeClean(s) ==
  /\ At(s, "merged")
  /\ tmp' = [tmp EXCEPT ![req[s].id] = Empty]
  /\ Step(s, "cleaned")
  /\ UNCHANGED <<record, out, files, used, stale, faults, breaks>>

MergeForget(s) ==
  /\ At(s, "cleaned")
  /\ record' = [record EXCEPT ![req[s].id] = None]
  /\ Done(s)
  /\ Commits(s)
  /\ UNCHANGED <<tmp, out, files, used, faults, breaks>>

------------------------------------------------------------------------------
(* Faults and background tasks.                                            *)

\* The process dies; the disk and the committed transactions stay.
Crash ==
  /\ "crash" \in faults
  /\ req' = [s \in Slots |-> None]
  /\ stale' = {}
  /\ Break
  /\ UNCHANGED <<tmp, record, out, files, used, faults>>

\* The client goes and the handler is dropped where it awaits: while it copies,
\* MergeCleanup is armed.
Disconnect(s) ==
  LET id == req[s].id IN
  /\ "disconnect" \in faults /\ req[s] # None
  /\ IF At(s, "copying")
       THEN /\ out' = Drop(out, id)
            /\ tmp' = [tmp EXCEPT ![id] = Empty]
       ELSE UNCHANGED <<out, tmp>>
  /\ Done(s)
  /\ stale' = stale \ {s}
  /\ Break
  /\ UNCHANGED <<record, files, used, faults>>

\* spawn_chunk_rows_cleanup: by the age of the row, whatever its upload does
ExpireRow(id) ==
  /\ "expire" \in faults /\ record[id] # None
  /\ Break
  /\ record' = [record EXCEPT ![id] = None]
  /\ stale' = {t \in Slots : t \in stale \/ At(t, "charging")}
  /\ UNCHANGED <<tmp, out, files, used, req, faults>>

\* clean_expired_temp_chunks_in: an old directory without a row
SweepChunks(id) ==
  /\ "expire" \in faults /\ tmp[id] # Empty
  /\ record[id] = None
  /\ \A s \in Slots : req[s] # None => req[s].id # id
  /\ tmp' = [tmp EXCEPT ![id] = Empty]
  /\ UNCHANGED <<record, out, files, used, req, stale, faults, breaks>>

------------------------------------------------------------------------------
Init ==
  /\ tmp = [id \in Ids |-> Empty]
  /\ record = [id \in Ids |-> None]
  /\ out = Empty
  /\ files = Empty
  /\ used = 0
  /\ req = [s \in Slots |-> None]
  /\ stale = {}
  /\ faults \in FaultSets
  /\ breaks = 0

Upload(s) ==
  \/ \E id \in Ids : \E k \in DOMAIN Chunks[id] : Reserve(s, id, k)
  \/ Truncate(s) \/ CreateFails(s) \/ Write(s) \/ EndOfStream(s) \/ Reject(s)
  \/ Correct(s) \/ ReadSizes(s) \/ WriteSizes(s)

Merge(s) ==
  \/ \E id \in Ids : MergeCheck(s, id)
  \/ MergeCreate(s) \/ MergeCopy(s) \/ MergeBegin(s) \/ MergeReject(s)
  \/ MergeCommit(s) \/ MergeFail(s) \/ MergeClean(s) \/ MergeForget(s)

Next ==
  \/ \E s \in Slots : Upload(s) \/ Merge(s) \/ Disconnect(s)
  \/ \E id \in Ids : ExpireRow(id) \/ SweepChunks(id)
  \/ Crash

Spec == Init /\ [][Next]_vars

------------------------------------------------------------------------------
(* Properties.                                                             *)

Partial(f, S, T) == DOMAIN f \subseteq S /\ Range(f) \subseteq T

TypeOK ==
  /\ \A id \in Ids : tmp[id] \in Lists(id, 0..MaxChunk) /\ record[id] \in Row(id) \cup {None}
  /\ Partial(out, Ids, Nat) /\ Partial(files, Ids, Nat)
  /\ used \in Nat
  /\ \A s \in Slots : req[s] # None => \E id \in Ids : req[s] \in ChunkRequest(id) \cup MergeRequest(id)
  /\ stale \subseteq {s \in Slots : At(s, "charging")}
  /\ faults \in FaultSets /\ breaks \in 0..MaxBreaks

Idle == \A s \in Slots : req[s] = None

OnDisk == SumFunction([id \in Ids |-> Disk(id)])

Free(kinds) == faults \cap kinds = {}

\* The chunks on disk never exceed what the rows count, and the rows never more
\* than the cap: the check and the reservation are one transaction and a reservation stands for a
\* chunk until its length is known (upload_chunk, P1-4 and H1).
PendingCovered ==
  Free({"expire", "overlap"}) => OnDisk <= Pending /\ Pending <= Cap

\* When nothing runs the rows count just what is on disk, whatever chunks were
\* sent again or rejected: no reservation leaks (rollback_chunk_counter).
ExactWhenIdle ==
  Idle /\ Free({"crash", "disconnect", "create", "expire", "overlap"}) =>
    \A id \in Ids : Bytes(id) = Disk(id)

\* used_mb is the rounded size of the registered files: two merges of one upload
\* never both register it, no charge is lost (transaction of merge_chunks).
UsedIsExact == used = SumFunction([id \in DOMAIN files |-> Ceil(files[id])])

\* Merges that run at once stay within the quota together, though each of them
\* looks at it before it copies (second check of merge_chunks).
WithinQuota == used <= Quota

\* A merge that does not register its file keeps the chunks to try again, and
\* the sweep keeps those that have a row (M10, P2-15).
ChunksKeptUntilRegistered ==
  [][\A id \in Ids :
       /\ Free({"disconnect", "overlap"})
       /\ tmp[id] # Empty /\ tmp'[id] = Empty
       /\ \A s \in Slots : req[s] # None /\ req[s].id = id => req[s].index = None
       => id \in DOMAIN files \/ record[id] = None]_vars

Complete(id) == files[id] = SumFunction(Chunks[id])

\* What merge_chunks registers is the whole file, in whatever order the chunks
\* came and however the lists of lengths overwrote each other.
MergedIsComplete ==
  Free({"crash", "disconnect", "truncate", "expire", "overlap"}) =>
    \A id \in DOMAIN files : Complete(id)
==============================================================================
