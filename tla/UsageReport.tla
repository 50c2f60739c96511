----------------------------- MODULE UsageReport -----------------------------
(***************************************************************************)
(* The sizes that the list of snapshots shows: the report the collector    *)
(* computes from its mark phase, and the list the proxy decorates with the *)
(* encryption modes, the logical sizes (both looked up by a pool of        *)
(* workers) and the figures of the report.                                 *)
(*                                                                         *)
(* Go ranges over a map in any order: each iteration is a step that takes  *)
(* any element that is left.                                               *)
(***************************************************************************)
EXTENDS Integers, Sequences, FiniteSets, Sums

CONSTANTS
  Snap,      \* snapshots in the listing
  Index,     \* their index objects
  Owner,     \* Owner[i]: snapshotOfIndex
  Chunk,     \* chunk digests
  Bytes,     \* Bytes[c]: size of the chunk object
  Logical,   \* Logical[i]: size of the archive, as the index states it
  Worker     \* at most sizeLookupConcurrency

ASSUME UsageAssumption ==
  /\ IsFiniteSet(Snap) /\ IsFiniteSet(Index) /\ IsFiniteSet(Chunk)
  /\ Owner \in [Index -> Snap] /\ Index \cap Snap = {} /\ Worker # {}
  /\ Bytes \in [Chunk -> Nat] /\ Logical \in [Index -> Nat]

Modes   == {"logical", "referenced", "exclusive"}
Options == {"encryption", "archivesize", "gcstats"}   \* -report... of the proxy

VARIABLES
  refs,      \* refs[i]: chunks the index points at
  late,      \* snapshots taken since the collector ran
  mode,      \* snapshotSizeMode
  options,   \* the reports that are turned on
  stage,     \* of the collector, then of the list
  todo,      \* elements of the map the collector ranges over that are left
  usage,     \* perSnapshot of the report
  total,     \* ChunkBytes of the report
  jobs,      \* jobs that have not been handed to a worker yet
  busy,      \* busy[w]: the job of w, as a set of at most one
  found,     \* sizes: what the workers have written
  crypt,     \* snapshots whose encryption modes were applied
  size       \* Size of each snapshot in the list

config    == <<refs, late, mode, options>>
reportVars == <<todo, usage, total>>
poolVars  == <<jobs, busy, found, crypt>>
usageVars      == <<config, stage, reportVars, poolVars, size>>

Archives(s) == {i \in Index : Owner[i] = s}
Marked == {i \in Index : Owner[i] \notin late}              \* archiveSizes
Known  == {c \in Chunk : \E i \in Marked : c \in refs[i]}   \* knownChunks
Owners(c) == {Owner[i] : i \in {j \in Marked : c \in refs[j]}}

Nothing == [logical |-> 0, referenced |-> 0, exclusive |-> 0]

\* main refuses a mode other than logical without the report of the collector.
Accepted(m, O) == m # "logical" => "gcstats" \in O

UsageInit ==
  /\ refs \in [Index -> SUBSET Chunk] /\ late \in SUBSET Snap
  /\ mode \in Modes /\ options \in SUBSET Options /\ Accepted(mode, options)
  /\ stage = "archives" /\ todo = Marked
  /\ usage = <<>> /\ total = 0
  /\ jobs = {} /\ busy = [w \in Worker |-> {}] /\ found = [i \in Index |-> 0]
  /\ crypt = {} /\ size = [s \in Snap |-> 0]

-----------------------------------------------------------------------------
(* computeUsageStats *)

Get(u, s) == IF s \in DOMAIN u THEN u[s] ELSE Nothing

\* get(name), with the figures added to it, for the snapshots in S.
Add(u, S, figures) ==
  [s \in DOMAIN u \cup S |->
     IF s \in S THEN [f \in Modes |-> Get(u, s)[f] + figures[f]] ELSE u[s]]

CountArchive(i) ==
  /\ stage = "archives" /\ i \in todo
  /\ usage' = Add(usage, {Owner[i]}, [Nothing EXCEPT !.logical = Logical[i]])
  /\ todo' = todo \ {i}
  /\ UNCHANGED <<config, stage, total, poolVars, size>>

\* Mutant: the references of a chunk are counted, and not the snapshots they are in.
OneReference(c) == Cardinality({i \in Marked : c \in refs[i]}) = 1

OneOwner(c) == Cardinality(Owners(c)) = 1

CountChunk(c) ==
  /\ stage = "chunks" /\ c \in todo
  /\ total' = total + Bytes[c]
  /\ usage' = Add(usage, Owners(c),
                  [Nothing EXCEPT !.referenced = Bytes[c],
                                  !.exclusive = IF OneOwner(c) THEN Bytes[c] ELSE 0])
  /\ todo' = todo \ {c}
  /\ UNCHANGED <<config, stage, poolVars, size>>

\* A loop is over; the next one begins.  At last the report is written.
NextLoop ==
  /\ stage \in {"archives", "chunks"} /\ todo = {}
  /\ IF stage = "archives" THEN stage' = "chunks" /\ todo' = Known
                           ELSE stage' = "listed" /\ todo' = {}
  /\ UNCHANGED <<config, usage, total, poolVars, size>>

-----------------------------------------------------------------------------
(* applyOptionalSnapshotReports *)

\* FillSnapshotCryptModes and FillArchiveSizes hand their jobs to workers over an
\* unbuffered channel, one job per snapshot and one per index, if they are turned on.
StartPool(from, to, J) ==
  /\ stage = from /\ stage' = to
  /\ jobs' = J
  /\ UNCHANGED <<config, reportVars, busy, found, crypt, size>>

CryptModes == StartPool("listed", "crypt", IF "encryption" \in options THEN Snap ELSE {})

Receive(w, j) ==
  /\ stage \in {"crypt", "sizes"} /\ j \in jobs /\ busy[w] = {}
  /\ jobs' = jobs \ {j}
  /\ busy' = [busy EXCEPT ![w] = {j}]
  /\ UNCHANGED <<config, stage, reportVars, found, crypt, size>>

\* A lookup may fail: the snapshot keeps what the listing says, the size is 0.
LookUp(w, ok) ==
  /\ busy[w] # {}
  /\ busy' = [busy EXCEPT ![w] = {}]
  /\ crypt' = IF ok THEN crypt \cup (busy[w] \cap Snap) ELSE crypt
  /\ found' = [i \in Index |-> IF ok /\ i \in busy[w] THEN Logical[i] ELSE found[i]]
  /\ UNCHANGED <<config, stage, reportVars, jobs, size>>

\* Mutant: the channel is not closed, and the workers go on waiting for jobs.
NeverClosed == FALSE

\* close(jobs); wg.Wait()
Waited == jobs = {} /\ \A w \in Worker : busy[w] = {}

ArchiveSizes ==
  Waited /\ StartPool("crypt", "sizes", IF "archivesize" \in options THEN Index ELSE {})

AddSizes ==
  /\ stage = "sizes" /\ Waited
  /\ stage' = "report"
  /\ size' = [s \in Snap |-> SumOver(found, Archives(s))]
  /\ UNCHANGED <<config, reportVars, poolVars>>

\* Mutant: a snapshot that the report does not know gets a figure of 0.
OrNothing(s) == Get(usage, s)[mode]

Figure(s) == IF s \in DOMAIN usage THEN usage[s][mode] ELSE size[s]

\* ApplySnapshotSizeMode, with the report of the collector ...
ApplyMode ==
  /\ stage = "report" /\ "gcstats" \in options /\ mode # "logical"
  /\ stage' = "shown"
  /\ size' = [s \in Snap |-> Figure(s)]
  /\ UNCHANGED <<config, reportVars, poolVars>>

\* ... which may be turned off, absent or unreadable.
KeepSizes ==
  /\ stage = "report" /\ stage' = "plain"
  /\ UNCHANGED <<config, reportVars, poolVars, size>>

-----------------------------------------------------------------------------
ListDone == stage \in {"shown", "plain"}

UsageNext ==
  \/ \E i \in Index : CountArchive(i)
  \/ \E c \in Chunk : CountChunk(c)
  \/ NextLoop \/ AddSizes
  \/ \E w \in Worker : (\E j \in jobs : Receive(w, j)) \/ (\E ok \in BOOLEAN : LookUp(w, ok))
  \/ CryptModes \/ ArchiveSizes \/ ApplyMode \/ KeepSizes

\* Goroutines are scheduled and the object store answers every lookup.
UsageFairness == WF_usageVars(UsageNext)

UsageSpec == UsageInit /\ [][UsageNext]_usageVars /\ UsageFairness

-----------------------------------------------------------------------------
(* Properties. *)

\* What a snapshot points at, and what a store without it would no longer hold.
Content(S) == UNION {refs[i] : i \in {j \in Marked : Owner[j] \in S}}
Retained   == Snap \ late
Freed(s)   == Content(Retained) \ Content(Retained \ {s})

\* Besides ranges: a job is in one place at a time.
UsageTypeOK ==
  /\ stage \in {"archives", "chunks", "listed", "crypt", "sizes", "report", "shown", "plain"}
  /\ DOMAIN usage \subseteq Retained
  /\ \A w1, w2 \in Worker : w1 # w2 => busy[w1] \cap busy[w2] = {}
  /\ \A w \in Worker : Cardinality(busy[w]) <= 1 /\ busy[w] \cap jobs = {}
  /\ \A i \in Index : found[i] \in {0, Logical[i]}

\* The report: exclusive is what deleting the snapshot would free, referenced what
\* it would cost alone, whichever indexes of a snapshot share a chunk and in
\* whatever order the maps are read; the shares never exceed what is stored.
ReportExact ==
  stage \notin {"archives", "chunks"} =>
    /\ total = SumOver(Bytes, Content(Retained))
    /\ \A s \in DOMAIN usage :
         /\ usage[s].exclusive  = SumOver(Bytes, Freed(s))
         /\ usage[s].referenced = SumOver(Bytes, Content({s}))
         /\ usage[s].logical    = SumOver(Logical, Archives(s))
    /\ SumOver([s \in DOMAIN usage |-> usage[s].exclusive], DOMAIN usage) <= total

\* The size shown for a snapshot is the one of the selected mode or, when the report
\* does not know it, the sum of what the lookups of all its archives have found: no
\* result of the pool is lost or read before it is there, and no figure of the report
\* replaces what was found.  An archive that was not looked up counts 0.
SizesShown ==
  ListDone =>
    \A s \in Snap :
      size[s] = IF stage = "shown" /\ s \in DOMAIN usage THEN usage[s][mode]
                ELSE SumOver(found, Archives(s))

\* "a snapshot taken since the last run has no entry. Both cases fall back to the
\* logical size rather than showing zero" (sizes.go): the size of a snapshot that the
\* report does not know is the logical one, if every lookup that is made succeeds.
FallsBackToLogical ==
  stage = "shown" /\ ("archivesize" \in options => found = Logical) =>
    \A s \in Snap \ DOMAIN usage : size[s] = SumOver(Logical, Archives(s))

\* The pools come to an end: every job is received and every result awaited.
ListEnds == <>ListDone
=============================================================================
