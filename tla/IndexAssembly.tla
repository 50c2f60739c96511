--------------------------- MODULE IndexAssembly ---------------------------
(***************************************************************************)
(* One archive of a backup session: the assignments that concurrent        *)
(* requests put into the map of its writer, the index that fixed_close or  *)
(* dynamic_close makes of them, and what the collector and the size        *)
(* reports read out of that index.                                         *)
(*                                                                         *)
(* An index is its header fields and its entries.  A checksum is a value   *)
(* that identifies the entries it was computed from, so it is modelled by  *)
(* those entries.  The client is external and well-formed: it computes the *)
(* checksum from the archive it has, assigns only chunks it has uploaded   *)
(* or found in the previous index, each by a valid digest at the offset of *)
(* a chunk, and closes when its requests are answered.  The archive may    *)
(* have changed its size since the index that it reuses was made.          *)
(***************************************************************************)
EXTENDS Integers, Sequences, FiniteSets, Sums

CONSTANTS
  Digest,     \* chunk digests
  ChunkSize,  \* ChunkSize[d]: size of a chunk of a dynamic archive
  Chunksize,  \* of a fixed archive
  DiskSize,   \* of a fixed archive; its last chunk may be partial
  BaseSizes,  \* sizes that an index to be reused may state
  MaxChunks,  \* bound: chunks of a dynamic archive
  Zero,       \* an entry that was never written
  Handler     \* requests of the session under way at a time

ASSUME IndexAssumption ==
  /\ ChunkSize \in [Digest -> Nat \ {0}] /\ Zero \notin Digest
  /\ Chunksize \in Nat \ {0} /\ DiskSize \in Nat /\ MaxChunks \in Nat
  /\ BaseSizes \subseteq Nat

BlocksOf(n) == {i \in 0 .. n : i * Chunksize < n}
ImagesOf(n) == [1 .. Cardinality(BlocksOf(n)) -> Digest]
Blocks == BlocksOf(DiskSize)
Images == ImagesOf(DiskSize)
Streams == UNION {[1 .. n -> Digest] : n \in 0 .. MaxChunks}
Kinds == {"fixed", "reuse", "dynamic"}

VARIABLES
  kind,      \* fixed_index without or with reuse-csum, or dynamic_index
  image,     \* the client's archive, as the digests of its chunks
  baseSize,  \* size in the header of the index named by reuse-csum
  base,      \* entries of that index
  prev,      \* digests of the previous index, if the client has one
  usable,    \* digests the client may assign
  sizes,     \* KnownChunksSizes and DynamicChunkSizes: digests of known size
  unsent,    \* assignments the client has still to send
  handling,  \* handling[q]: assignments that request q has still to store
  assigned,  \* Assignments of the writer: offset -> digest
  raced,     \* history: two requests wrote the map at the same time
  status,    \* of the writer
  object     \* what was stored, if status is "stored"

archive == <<kind, image, baseSize, base, prev>>
indexVars ==
  <<archive, usable, sizes, unsent, handling, assigned, raced, status, object>>

-----------------------------------------------------------------------------
(* The client's side. *)

Offset(i) == (i - 1) * Chunksize
Start(i)  == SumOver([j \in DOMAIN image |-> ChunkSize[image[j]]], 1 .. i - 1)
Total     == IF kind = "dynamic" THEN Start(Len(image) + 1) ELSE DiskSize

\* The entries the client expects, and so their checksum.
Expected ==
  IF kind = "dynamic"
  THEN [i \in 1 .. Len(image) |-> [end |-> Start(i + 1), digest |-> image[i]]]
  ELSE image

Where(i) == IF kind = "dynamic" THEN Start(i) ELSE Offset(i)

\* A block that the reused index already holds.
Reused(i) == kind = "reuse" /\ i \in DOMAIN base /\ image[i] = base[i]

\* With reuse-csum, the other blocks are sent, and maybe some of these.
IndexInit ==
  /\ kind \in Kinds
  /\ image \in IF kind = "dynamic" THEN Streams ELSE Images
  /\ baseSize \in IF kind = "reuse" THEN BaseSizes ELSE {0}
  /\ base \in IF kind = "reuse" THEN ImagesOf(baseSize) ELSE {<<>>}
  /\ prev \in SUBSET Digest /\ usable = {} /\ sizes = {}
  /\ \E sent \in SUBSET DOMAIN image :
       /\ \A i \in DOMAIN image \ sent : Reused(i)
       /\ unsent = {<<Where(i), image[i]>> : i \in sent}
  /\ handling = [q \in Handler |-> {}]
  /\ assigned = <<>>
  /\ raced = FALSE /\ status = "open" /\ object = <<>>

Open == status = "open"

-----------------------------------------------------------------------------
(* Chunks. *)

\* GET previous: the index, and the sizes of its chunks if they can be read.
Previous(known) ==
  /\ Open /\ prev \ usable # {}
  /\ usable' = usable \cup prev
  /\ sizes' = IF known THEN sizes \cup prev ELSE sizes
  /\ UNCHANGED <<archive, unsent, handling, assigned, raced, status, object>>

\* The chunk is stored; the size of a dynamic one is kept.
UploadChunk(d) ==
  /\ Open /\ d \notin usable
  /\ usable' = usable \cup {d}
  /\ sizes' = IF kind = "dynamic" THEN sizes \cup {d} ELSE sizes
  /\ UNCHANGED <<archive, unsent, handling, assigned, raced, status, object>>

-----------------------------------------------------------------------------
(* PUT fixed_index and PUT dynamic_index. *)

SendBatch(q, batch) ==
  /\ Open /\ handling[q] = {} /\ batch # {}
  /\ \A a \in batch : a[2] \in usable
  /\ unsent' = unsent \ batch
  /\ handling' = [handling EXCEPT ![q] = batch]
  /\ UNCHANGED <<archive, usable, sizes, assigned, raced, status, object>>

Put(f, a) == [o \in DOMAIN f \cup {a[1]} |-> IF o = a[1] THEN a[2] ELSE f[o]]

Store(q, a) ==
  /\ Open /\ a \in handling[q]
  /\ assigned' = Put(assigned, a)
  /\ handling' = [handling EXCEPT ![q] = @ \ {a}]
  /\ UNCHANGED <<archive, usable, sizes, unsent, raced, status, object>>

\* Two requests write the map at once.  Where the runtime does not notice, any
\* entries may be lost.
Clash(q1, q2, a1, a2) ==
  /\ Open /\ q1 # q2 /\ a1 \in handling[q1] /\ a2 \in handling[q2]
  /\ LET all == Put(Put(assigned, a1), a2) IN
     \E S \in SUBSET DOMAIN all : assigned' = [o \in S |-> all[o]]
  /\ handling' = [handling EXCEPT ![q1] = @ \ {a1}, ![q2] = @ \ {a2}]
  /\ raced' = TRUE
  /\ UNCHANGED <<archive, usable, sizes, unsent, status, object>>

\* Where it does, the process ends ("concurrent map writes").
ClashNoticed(q1, q2) ==
  /\ Open /\ q1 # q2 /\ handling[q1] # {} /\ handling[q2] # {}
  /\ raced' = TRUE /\ status' = "aborted"
  /\ UNCHANGED <<archive, usable, sizes, unsent, handling, assigned, object>>

-----------------------------------------------------------------------------
(* fixed_close and dynamic_close. *)

Closing(k) ==
  /\ Open /\ kind = k
  /\ unsent = {} /\ \A q \in Handler : handling[q] = {}
  /\ UNCHANGED <<archive, usable, sizes, unsent, handling, assigned, raced>>

IndexObject(entries, size) ==
  [kind |-> kind, csum |-> Expected, meta |-> Expected, size |-> size, entries |-> entries]

Stored(entries, size) == status' = "stored" /\ object' = IndexObject(entries, size)
Ended(s)              == status' = s /\ object' = object

\* Mutant: only the number of assignments is looked at, not their offsets.
TooFew == Cardinality(DOMAIN assigned) = 0

Hole == \E i \in Blocks : i * Chunksize \notin DOMAIN assigned

\* As many entries as assignments; the ones of the blocks are filled in.
FixedEntries ==
  [k \in 1 .. Cardinality(DOMAIN assigned) |->
     IF k - 1 \in Blocks /\ Offset(k) \in DOMAIN assigned THEN assigned[Offset(k)] ELSE Zero]

FixedClose   == Closing("fixed") /\ ~Hole /\ Stored(FixedEntries, DiskSize)
FixedRefused == Closing("fixed") /\ Hole /\ Ended("refused")

\* The reused index, with the size in its header, and the assignments of its blocks
\* written over its entries: the ones beyond its size are not looked up.
ReusedEntries ==
  [k \in DOMAIN base |-> IF Offset(k) \in DOMAIN assigned THEN assigned[Offset(k)] ELSE base[k]]

ReuseClose == Closing("reuse") /\ Stored(ReusedEntries, baseSize)

\* Mutant: an entry holds the offset at which its chunk begins.
BeginOffset(o) == o

EndOffset(o) == o + ChunkSize[assigned[o]]

\* The offsets in ascending order.
Sorted(S) ==
  CHOOSE s \in [1 .. Cardinality(S) -> S] : \A i, j \in DOMAIN s : i < j => s[i] < s[j]

DynamicEntries ==
  LET keys == Sorted(DOMAIN assigned)
  IN  [i \in DOMAIN keys |-> [end |-> EndOffset(keys[i]), digest |-> assigned[keys[i]]]]

SizeMissing == \E o \in DOMAIN assigned : assigned[o] \notin sizes

DynamicClose  == Closing("dynamic") /\ ~SizeMissing /\ Stored(DynamicEntries, 0)
DynamicPanics == Closing("dynamic") /\ SizeMissing /\ Ended("panicked")

\* The reused index cannot be read, or the new one not be written.
CloseFails == (\E k \in Kinds : Closing(k)) /\ Ended("refused")

-----------------------------------------------------------------------------
IndexNext ==
  \/ \E known \in BOOLEAN : Previous(known)
  \/ \E d \in Digest : UploadChunk(d)
  \/ \E q \in Handler :
       \/ \E batch \in SUBSET unsent : SendBatch(q, batch)
       \/ \E a \in handling[q] : Store(q, a)
  \/ \E q1, q2 \in Handler :
       \/ \E a1 \in handling[q1], a2 \in handling[q2] : Clash(q1, q2, a1, a2)
       \/ ClashNoticed(q1, q2)
  \/ FixedClose \/ FixedRefused \/ ReuseClose \/ DynamicClose \/ DynamicPanics \/ CloseFails

IndexSpec == IndexInit /\ [][IndexNext]_indexVars

-----------------------------------------------------------------------------
(* Readers of a stored index. *)

\* compareSum
SumMatches(o) == o.csum = o.entries /\ o.csum = o.meta

LastEnd(o) == IF o.entries = <<>> THEN 0 ELSE o.entries[Len(o.entries)].end

\* parseIndex
Digests(o)     == IF o.kind = "dynamic" THEN [i \in DOMAIN o.entries |-> o.entries[i].digest]
                                        ELSE o.entries
LogicalSize(o) == IF o.kind = "dynamic" THEN LastEnd(o) ELSE o.size

\* fixedArchiveSize and dynamicArchiveSize, which read no other entry and no checksum.
ReportedSize(o) == IF o.kind = "dynamic" THEN LastEnd(o) ELSE o.size

-----------------------------------------------------------------------------
(* Properties. *)

\* Besides ranges: what is assigned is at the offset the client has given it.
IndexTypeOK ==
  /\ kind \in Kinds
  /\ image \in Images \cup Streams 
  /\ baseSize \in BaseSizes \cup {0} /\ base \in ImagesOf(baseSize) \cup {<<>>}
  /\ prev \subseteq Digest /\ usable \subseteq Digest /\ sizes \subseteq usable
  /\ raced \in BOOLEAN
  /\ status \in {"open", "stored", "refused", "panicked", "aborted"}
  /\ (status = "stored") <=> object # <<>>
  /\ LET all == {<<Where(i), image[i]>> : i \in DOMAIN image} IN
     /\ unsent \subseteq all
     /\ \A q \in Handler : handling[q] \subseteq all
     /\ \A o \in DOMAIN assigned : <<o, assigned[o]>> \in all

Sound(o) == SumMatches(o) /\ Digests(o) = image /\ LogicalSize(o) = Total /\ ReportedSize(o) = Total

\* The archive does not have the size that the reused index states.
Resized == kind = "reuse" /\ baseSize # DiskSize

Agrees(o) == \A i \in DOMAIN o.entries \cap DOMAIN image : o.entries[i] = image[i]

\* However the assignments are spread over requests, in whatever order these are
\* handled, and whichever chunks were reused: an index that is acknowledged is the
\* client's, passes the collector's checksum and states the size of the archive.  If
\* the reused index is of another size, that much is not promised: it still holds the
\* client's chunk in every block that both sizes have.  Nothing is promised when two
\* requests wrote the map at the same moment.
StoredAsMeant ==
  status = "stored" /\ ~raced => IF Resized THEN Agrees(object) ELSE Sound(object)

\* Even then a fixed index that reuses none is not stored with an entry missing.
NoHoleStored == status = "stored" /\ kind = "fixed" => Sound(object)
=============================================================================
