----------------------------- MODULE Retention -----------------------------
(***************************************************************************)
(* The arithmetic by which the collector decides that a snapshot has       *)
(* expired and that an unreferenced chunk is old enough to be removed, on  *)
(* machine words: unsigned for the retention, signed for the grace period. *)
(***************************************************************************)
EXTENDS Integers

CONSTANTS
  Half,    \* 2^63: a word has 2 * Half values
  Day,     \* 86400, in seconds
  Hour     \* time.Hour, in the unit of time.Duration

ASSUME WordAssumption ==
  /\ Half \in Nat /\ Day \in Nat /\ Hour \in Nat
  /\ 0 < Day /\ Day < Half /\ 0 < Hour /\ Hour < Half

Word     == 2 * Half
Uint(x)  == x % Word
Sint(x)  == ((x + Half) % Word) - Half
MaxUint  == Word - 1
MaxInt   == Half - 1

VARIABLES
  clock,    \* time.Now().Unix(), an int64
  stamp,  \* BackupTime of a snapshot, or the time at which a chunk was written
  limit   \* the -retention (days) or -chunkgrace (hours) flag, a uint

retentionVars == <<clock, stamp, limit>>

-----------------------------------------------------------------------------
\* Mutant: the guard against overflow is dropped.
NoDaysGuard(days)     == FALSE

DaysOverflow(days)    == days > MaxUint \div Day
Young(t, secs)        == t < 0 \/ Uint(t) < secs

SnapshotExpired(backupTime, t, days) ==
  IF DaysOverflow(days) THEN "error"
  ELSE LET secs == Uint(days * Day) IN
       IF Young(t, secs) THEN "kept"
       ELSE IF backupTime < Uint(Uint(t) - secs) THEN "expired" ELSE "kept"

\* Mutant: the guard against overflow is dropped.
NoHoursGuard(hours)   == FALSE

HoursOverflow(hours)  == hours > MaxInt \div Hour

\* hoursDuration; main ends with an error before anything is listed.
HoursDuration(hours)  == Sint(hours * Hour)

WithinGracePeriod(modified, t, grace) == grace > 0 /\ modified > t - grace

\* What the collector does with an unreferenced chunk.
ChunkVerdict(modified, t, hours) ==
  IF HoursOverflow(hours) THEN "error"
  ELSE IF WithinGracePeriod(modified, t, HoursDuration(hours)) THEN "kept" ELSE "removed"

-----------------------------------------------------------------------------
RetentionInit ==
  /\ clock \in -1 .. 0
  /\ stamp \in 0 .. MaxUint /\ limit \in 0 .. MaxUint

\* Time passes.
ClockTicks == clock < MaxInt /\ clock' = clock + 1 /\ UNCHANGED <<stamp, limit>>

RetentionNext == ClockTicks

RetentionSpec == RetentionInit /\ [][RetentionNext]_retentionVars

-----------------------------------------------------------------------------
(* Properties. *)

RetentionTypeOK == clock \in -1 .. MaxInt /\ stamp \in 0 .. MaxUint /\ limit \in 0 .. MaxUint

\* A snapshot expires exactly when, counted without any bound, it is older than
\* the retention; a retention that does not fit a word is refused and never wraps
\* around to a short one.
RetentionExact ==
  SnapshotExpired(stamp, clock, limit) =
    IF limit * Day > MaxUint THEN "error"
    ELSE IF stamp + limit * Day < clock THEN "expired" ELSE "kept"

\* The same for chunks: one that is younger than the grace period is never removed,
\* and a grace period that does not fit is refused, never made negative.
GraceExact ==
  ChunkVerdict(stamp, clock, limit) =
    IF limit * Hour > MaxInt THEN "error"
    ELSE IF limit > 0 /\ clock < stamp + limit * Hour THEN "kept" ELSE "removed"
=============================================================================
