---------------------------- MODULE KeepingProofs ----------------------------
(***************************************************************************)
(* What keeps a snapshot: its tags, for any number of requests and notes,  *)
(* and its age, for every width of the machine word.  Neither SerialTags   *)
(* nor ProtectionKept is inductive: both need to know what a copy was made *)
(* from, and which request the last promise belongs to.                    *)
(***************************************************************************)
EXTENDS Tags, Retention, TLAPS

-----------------------------------------------------------------------------
(* Tags. *)

Copied(r) == req[r].stage = "copied"

\* Unless requests overlapped, one copy is under way and it is of the current tags.
CopyCurrent ==
  ~overlapped =>
    /\ tags = intended
    /\ \A r \in Req : Copied(r) => req[r].copy = Apply(r, tags)
    /\ \A r, q \in Req : Copied(r) /\ Copied(q) => r = q

\* latest is a PUT protected; without overlap no other one is under way.
LatestOK ==
  /\ \A r, q \in latest : r = q
  /\ \A r \in latest : req[r].kind = "protect" /\ req[r].stage # "idle"
  /\ ~overlapped => \A r \in Req : Copied(r) /\ req[r].kind = "protect" => r \in latest

\* What the last PUT protected has answered, or is about to, is what is stored.
PromiseTrue ==
  ~overlapped /\ ~unstored =>
    /\ promised => Protected(tags) /\ \A r \in latest : ~Copied(r)
    /\ \A r \in latest : req[r].stage \in {"stored", "failed"} =>
         req[r].copy.protected = tags.protected

\* The collector has seen it.
CollectorSaw ==
  gc \in {"checked", "removed"} /\ ~keep /\ relied => overlapped \/ unstored

RemovedUnkept == gc = "removed" => ~keep

TagsInv == CopyCurrent /\ LatestOK /\ PromiseTrue /\ CollectorSaw /\ RemovedUnkept

-----------------------------------------------------------------------------
(* Type correctness. *)

LEMMA TagTypes ==
  /\ NoTags \in TagSet
  /\ \A t \in TagSet, n \in Note : SetNote(t, n) \in TagSet
  /\ \A t \in TagSet : Toggle(t) \in TagSet
  BY DEF NoTags, TagSet, SetNote, Toggle

LEMMA TagsStartTypeOK == TagsInit => TagsTypeOK
<1> SUFFICES ASSUME TagsInit PROVE TagsTypeOK
  OBVIOUS
<1>1. tags \in TagSet
  BY DEF TagsInit, TagSet
<1>2. req \in [Req -> [stage : Stage, kind : Kind, copy : TagSet]]
  BY TagTypes DEF TagsInit, Stage, Kind
<1> QED
  BY <1>1, <1>2 DEF TagsInit, TagsTypeOK

\* Every step of a request gives it a state of the right type.
LEMMA RequestTypes ==
  ASSUME TagsTypeOK, NEW r \in Req, Request(r)
  PROVE  TagsTypeOK'
<1>1. ASSUME NEW n \in Note, ReadForNote(r, n) PROVE TagsTypeOK'
  <2>1. SetNote(tags, n) \in TagSet
    BY TagTypes DEF TagsTypeOK
  <2> QED
    BY <1>1, <2>1 DEF TagsTypeOK, ReadForNote, Copy, Between, Stage, Kind
<1>2. ASSUME NEW n \in Note, ReadForNoteFails(r, n) PROVE TagsTypeOK'
  BY <1>2, TagTypes DEF TagsTypeOK, ReadForNoteFails, NilMap, tagHistory, Stage, Kind
<1>3. CASE ReadForProtect(r)
  <2>1. Toggle(tags) \in TagSet
    BY TagTypes DEF TagsTypeOK
  <2> QED
    BY <1>3, <2>1 DEF TagsTypeOK, ReadForProtect, Copy, Between, Stage, Kind
<1>4. CASE ReadForProtectFails(r)
  BY <1>4, TagTypes DEF TagsTypeOK, ReadForProtectFails, tagHistory, Stage, Kind
<1>5. CASE Written(r) \/ WriteTimed(r)
  <2>1. Apply(r, intended) \in TagSet
    <3>1. CASE req[r].kind = "note"
      BY <3>1 DEF TagsTypeOK, Apply, SetNote, TagSet
    <3>2. CASE req[r].kind # "note"
      BY <3>2, TagTypes DEF TagsTypeOK, Apply
    <3> QED
      BY <3>1, <3>2
  <2>2. tags' \in TagSet /\ intended' \in TagSet
    BY <1>5, <2>1 DEF TagsTypeOK, Written, WriteTimed, Write
  <2> QED
    BY <1>5, <2>2 DEF TagsTypeOK, Written, WriteTimed, Write, Stage, Kind
<1>6. CASE WriteFails(r)
  BY <1>6 DEF TagsTypeOK, WriteFails, Stage, Kind
<1>7. CASE Answer(r)
  BY <1>7 DEF TagsTypeOK, Answer, Stage, Kind, Protected
<1>8. CASE AnswerError(r)
  BY <1>8 DEF TagsTypeOK, AnswerError, tagHistory, Stage, Kind
<1> QED
  BY <1>1, <1>2, <1>3, <1>4, <1>5, <1>6, <1>7, <1>8 DEF Request

LEMMA CollectorTypes ==
  ASSUME TagsTypeOK, Collector
  PROVE  TagsTypeOK'
  BY DEF TagsTypeOK, Collector, GcList, GcRefresh, GcFatal, GcRemove, GcEnds, Authoritative,
         Protected, tagHistory

LEMMA TagsStepTypeOK == TagsTypeOK /\ [TagsNext]_tagVars => TagsTypeOK'
<1>1. CASE UNCHANGED tagVars
  BY <1>1 DEF TagsTypeOK, tagVars, tagHistory
<1> QED
  BY <1>1, RequestTypes, CollectorTypes DEF TagsNext

-----------------------------------------------------------------------------
(* The inductive invariant. *)

LEMMA InitTagsInv == TagsInit => TagsInv
  BY DEF TagsInit, TagsInv, CopyCurrent, LatestOK, PromiseTrue, CollectorSaw, RemovedUnkept, Copied

\* A request that has read the tags: alone, it has a copy of the current ones.
LEMMA NoteReadInv ==
  ASSUME TagsTypeOK, TagsInv, NEW r \in Req, NEW n \in Note, ReadForNote(r, n)
  PROVE  TagsInv'
<1>1. /\ req' = [req EXCEPT ![r] = [stage |-> "copied", kind |-> "note", copy |-> SetNote(tags, n)]]
      /\ req[r].stage = "idle" /\ req \in [Req -> [stage : Stage, kind : Kind, copy : TagSet]]
      /\ UNCHANGED <<tags, gc, keep, intended, unstored, latest, promised, relied>>
  BY DEF ReadForNote, Copy, TagsTypeOK
<1>2. ~overlapped' => ~overlapped /\ \A q \in Req \ {r} : ~Copied(q)
  BY DEF ReadForNote, Copy, Between, Copied
<1>3. r \notin latest
  BY <1>1 DEF TagsInv, LatestOK
<1>4. SetNote(tags, n) = SetNote(tags, SetNote(tags, n).note)
  BY DEF TagsTypeOK, SetNote, TagSet
<1>5. CopyCurrent'
  BY <1>1, <1>2, <1>4 DEF TagsInv, CopyCurrent, Copied, Apply
<1>6. LatestOK'
  BY <1>1, <1>2, <1>3 DEF TagsInv, LatestOK, Copied, TagsTypeOK
<1>7. PromiseTrue'
  BY <1>1, <1>2, <1>3 DEF TagsInv, PromiseTrue, Copied, TagsTypeOK, Protected
<1>8. CollectorSaw' /\ RemovedUnkept'
  BY <1>1, <1>2 DEF TagsInv, CollectorSaw, RemovedUnkept
<1> QED
  BY <1>5, <1>6, <1>7, <1>8 DEF TagsInv

LEMMA ProtectReadInv ==
  ASSUME TagsTypeOK, TagsInv, NEW r \in Req, ReadForProtect(r)
  PROVE  TagsInv'
<1>1. /\ req' = [req EXCEPT ![r] = [stage |-> "copied", kind |-> "protect", copy |-> Toggle(tags)]]
      /\ req[r].stage = "idle" /\ req \in [Req -> [stage : Stage, kind : Kind, copy : TagSet]]
      /\ latest' = {r} /\ promised' = FALSE
      /\ UNCHANGED <<tags, gc, keep, intended, unstored, relied>>
  BY DEF ReadForProtect, Copy, TagsTypeOK
<1>2. ~overlapped' => ~overlapped /\ \A q \in Req \ {r} : ~Copied(q)
  BY DEF ReadForProtect, Copy, Between, Copied
<1>3. CopyCurrent'
  BY <1>1, <1>2 DEF TagsInv, CopyCurrent, Copied, Apply
<1>4. LatestOK'
  BY <1>1, <1>2 DEF LatestOK, Copied
<1>5. PromiseTrue'
  BY <1>1 DEF PromiseTrue, Copied
<1>6. CollectorSaw' /\ RemovedUnkept'
  BY <1>1, <1>2 DEF TagsInv, CollectorSaw, RemovedUnkept
<1> QED
  BY <1>3, <1>4, <1>5, <1>6 DEF TagsInv

\* The end of a request that has written nothing.
LEMMA EndInv ==
  ASSUME TagsTypeOK, TagsInv, NEW r \in Req,
         \/ \E n \in Note : ReadForNoteFails(r, n)
         \/ ReadForProtectFails(r) \/ WriteFails(r) \/ AnswerError(r)
  PROVE  TagsInv'
<1>1. /\ UNCHANGED <<tags, gc, keep, intended, overlapped, latest, promised, relied>>
      /\ unstored => unstored'
      /\ req \in [Req -> [stage : Stage, kind : Kind, copy : TagSet]]
  BY DEF TagsTypeOK, ReadForNoteFails, ReadForProtectFails, WriteFails, AnswerError, tagHistory
<1>2. \A q \in Req \ {r} : req'[q] = req[q]
  BY <1>1 DEF ReadForNoteFails, NilMap, ReadForProtectFails, WriteFails, AnswerError
<1>3. req'[r].stage \in {"aborted", "error", "failed"}
  BY <1>1 DEF ReadForNoteFails, NilMap, ReadForProtectFails, WriteFails, AnswerError
<1>4. CopyCurrent'
  BY <1>1, <1>2, <1>3 DEF TagsInv, CopyCurrent, Copied, Apply
<1>5. r \in latest => req'[r].kind = "protect" /\ req'[r].stage = "failed" /\ unstored'
  BY <1>1 DEF TagsInv, LatestOK, ReadForNoteFails, ReadForProtectFails, WriteFails, AnswerError
<1>6. LatestOK'
  BY <1>1, <1>2, <1>3, <1>5 DEF TagsInv, LatestOK, Copied, TagsTypeOK
<1>7. PromiseTrue'
  BY <1>1, <1>2, <1>3, <1>5 DEF TagsInv, PromiseTrue, Copied, Protected, TagsTypeOK
<1>8. CollectorSaw' /\ RemovedUnkept'
  BY <1>1 DEF TagsInv, CollectorSaw, RemovedUnkept
<1> QED
  BY <1>4, <1>6, <1>7, <1>8 DEF TagsInv

\* A write: alone, it does to the tags what the request means.
LEMMA WriteInv ==
  ASSUME TagsTypeOK, TagsInv, NEW r \in Req, NEW stage \in {"stored", "failed"}, Write(r, stage)
  PROVE  TagsInv'
<1>1. /\ req[r].stage = "copied" /\ tags' = req[r].copy /\ intended' = Apply(r, intended)
      /\ req' = [req EXCEPT ![r].stage = stage]
      /\ req \in [Req -> [stage : Stage, kind : Kind, copy : TagSet]]
      /\ UNCHANGED <<gc, keep, overlapped, unstored, latest, promised, relied>>
  BY DEF Write, TagsTypeOK
<1>2. /\ \A q \in Req \ {r} : req'[q] = req[q]
      /\ req'[r].stage = stage /\ req'[r].kind = req[r].kind /\ req'[r].copy = req[r].copy
  BY <1>1
<1>3. ~overlapped => tags' = intended' /\ \A q \in Req : ~Copied(q)'
  BY <1>1, <1>2 DEF TagsInv, CopyCurrent, Copied
<1>4. CopyCurrent'
  BY <1>1, <1>3 DEF CopyCurrent
<1>5. LatestOK'
  BY <1>1, <1>2, <1>3 DEF TagsInv, LatestOK, Copied, TagsTypeOK
<1>6. ~overlapped /\ req[r].kind = "note" => tags'.protected = tags.protected
  BY <1>1 DEF TagsInv, CopyCurrent, Copied, Apply, SetNote, TagsTypeOK, TagSet
<1>7. ~overlapped /\ req[r].kind = "protect" => r \in latest
  BY <1>1 DEF TagsInv, LatestOK, Copied
<1>8. PromiseTrue'
  <2> SUFFICES ASSUME ~overlapped, ~unstored
               PROVE  /\ promised => Protected(tags') /\ \A q \in latest : ~Copied(q)'
                      /\ \A q \in latest : req'[q].stage \in {"stored", "failed"} =>
                           req'[q].copy.protected = tags'.protected
    BY <1>1 DEF PromiseTrue
  <2>1. CASE req[r].kind = "note"
    <3>1. r \notin latest
      BY <2>1 DEF TagsInv, LatestOK
    <3> QED
      BY <1>1, <1>2, <1>3, <1>6, <2>1, <3>1 DEF TagsInv, PromiseTrue, Protected, TagsTypeOK
  <2>2. CASE req[r].kind = "protect"
    <3>1. r \in latest /\ ~promised /\ \A q \in latest : q = r
      BY <1>1, <1>7, <2>2 DEF TagsInv, PromiseTrue, LatestOK, Copied
    <3> QED
      BY <1>1, <1>2, <1>3, <3>1 DEF TagsTypeOK
  <2> QED
    BY <1>1, <2>1, <2>2 DEF Kind
<1>9. CollectorSaw' /\ RemovedUnkept'
  BY <1>1 DEF TagsInv, CollectorSaw, RemovedUnkept
<1> QED
  BY <1>4, <1>5, <1>8, <1>9 DEF TagsInv

\* The answer makes a promise that is kept already.
LEMMA AnswerInv ==
  ASSUME TagsTypeOK, TagsInv, NEW r \in Req, Answer(r)
  PROVE  TagsInv'
<1>1. /\ req[r].stage \in {"stored", "failed"}
      /\ req' = [req EXCEPT ![r].stage = "ok"]
      /\ req \in [Req -> [stage : Stage, kind : Kind, copy : TagSet]]
      /\ promised' = IF r \in latest THEN Protected(req[r].copy) ELSE promised
      /\ UNCHANGED <<tags, gc, keep, intended, overlapped, unstored, latest, relied>>
  BY DEF Answer, TagsTypeOK
<1>2. /\ \A q \in Req \ {r} : req'[q] = req[q]
      /\ req'[r].stage = "ok" /\ req'[r].kind = req[r].kind /\ req'[r].copy = req[r].copy
  BY <1>1
<1>3. CopyCurrent'
  BY <1>1, <1>2 DEF TagsInv, CopyCurrent, Copied, Apply
<1>4. LatestOK'
  BY <1>1, <1>2 DEF TagsInv, LatestOK, Copied, TagsTypeOK
<1>5. PromiseTrue'
  <2>1. CASE r \in latest
    <3>1. \A q \in latest : q = r
      BY <2>1 DEF TagsInv, LatestOK
    <3> QED
      BY <1>1, <1>2, <2>1, <3>1 DEF TagsInv, PromiseTrue, Copied, Protected
  <2>2. CASE r \notin latest
    BY <1>1, <1>2, <2>2 DEF TagsInv, PromiseTrue, Copied, Protected, TagsTypeOK
  <2> QED
    BY <2>1, <2>2
<1>6. CollectorSaw' /\ RemovedUnkept'
  BY <1>1 DEF TagsInv, CollectorSaw, RemovedUnkept
<1> QED
  BY <1>3, <1>4, <1>5, <1>6 DEF TagsInv

LEMMA CollectorInv ==
  ASSUME TagsTypeOK, TagsInv, Collector
  PROVE  TagsInv'
<1>1. UNCHANGED <<tags, req, intended, overlapped, unstored, latest, promised>>
  BY DEF Collector, GcList, GcRefresh, GcFatal, GcRemove, GcEnds, tagHistory
<1>2. CopyCurrent' /\ LatestOK' /\ PromiseTrue'
  BY <1>1 DEF TagsInv, CopyCurrent, LatestOK, PromiseTrue, Copied, Apply, Protected
<1>3. CollectorSaw' /\ RemovedUnkept'
  <2>1. CASE GcRefresh
    BY <1>1, <2>1 DEF TagsInv, PromiseTrue, CollectorSaw, RemovedUnkept, GcRefresh, Authoritative
  <2>2. CASE GcRemove
    BY <1>1, <2>2 DEF TagsInv, CollectorSaw, RemovedUnkept, GcRemove, tagHistory
  <2>3. CASE GcList \/ GcFatal \/ GcEnds
    BY <1>1, <2>3 DEF CollectorSaw, RemovedUnkept, GcList, GcFatal, GcEnds
  <2> QED
    BY <2>1, <2>2, <2>3 DEF Collector
<1> QED
  BY <1>2, <1>3 DEF TagsInv

LEMMA NextTagsInv == TagsTypeOK /\ TagsInv /\ [TagsNext]_tagVars => TagsInv'
<1> SUFFICES ASSUME TagsTypeOK, TagsInv, [TagsNext]_tagVars PROVE TagsInv'
  OBVIOUS
<1>1. CASE UNCHANGED tagVars
  BY <1>1 DEF TagsInv, CopyCurrent, LatestOK, PromiseTrue, CollectorSaw, RemovedUnkept, Copied,
              Apply, Protected, tagVars, tagHistory
<1>2. ASSUME NEW r \in Req, Request(r) PROVE TagsInv'
  <2>1. CASE Written(r) \/ WriteTimed(r)
    BY <2>1, WriteInv DEF Written, WriteTimed
  <2> QED
    BY <1>2, <2>1, NoteReadInv, ProtectReadInv, EndInv, AnswerInv DEF Request
<1> QED
  BY <1>1, <1>2, CollectorInv DEF TagsNext

-----------------------------------------------------------------------------
\* Type correctness of the tags, the requests on them and the collector.
THEOREM TagsTypeCorrect == TagsSpec => []TagsTypeOK
  BY TagsStartTypeOK, TagsStepTypeOK, PTL DEF TagsSpec

LEMMA TagsInductive == TagsSpec => []TagsInv
  BY TagsStartTypeOK, TagsStepTypeOK, InitTagsInv, NextTagsInv, PTL DEF TagsSpec

\* PUT notes and PUT protected: requests that do not overlap take effect one after
\* the other, whichever reads and writes fail, for any number of requests.
THEOREM TagsAreSerial == TagsSpec => []SerialTags
<1>1. TagsInv => SerialTags
  BY DEF TagsInv, CopyCurrent, SerialTags
<1> QED
  BY TagsInductive, <1>1, PTL

\* refreshExpiredSnapshotProtection: a protection that was written and acknowledged,
\* with no other request in between, keeps the snapshot from being removed.
THEOREM ProtectionIsKept == TagsSpec => []ProtectionKept
<1>1. TagsInv => ProtectionKept
  BY DEF TagsInv, CollectorSaw, RemovedUnkept, ProtectionKept, Violated
<1> QED
  BY TagsInductive, <1>1, PTL

-----------------------------------------------------------------------------
(* Retention. *)

\* A product of factors that only grow only grows.
LEMMA Monotone ==
  ASSUME NEW a \in Nat, NEW b \in Nat, NEW c \in Nat, a <= b
  PROVE  a * c <= b * c
  OBVIOUS

\* What integer division means.
LEMMA Division ==
  ASSUME NEW m \in Nat, NEW d \in Nat, 0 < d
  PROVE  /\ m \div d \in Nat
         /\ (m \div d) * d <= m
         /\ m < (m \div d + 1) * d
  OBVIOUS

\* The guard against overflow, written with a division, is the one meant.
LEMMA Guard ==
  ASSUME NEW m \in Nat, NEW d \in Nat, 0 < d, NEW x \in Nat
  PROVE  x > m \div d <=> x * d > m
<1> DEFINE q == m \div d
<1>1. q \in Nat /\ q * d <= m /\ m < (q + 1) * d
  BY Division
<1>2. CASE x > q
  <2>1. (q + 1) * d <= x * d
    BY <1>1, <1>2, Monotone
  <2> QED
    BY <1>1, <1>2, <2>1
<1>3. CASE x <= q
  <2>1. x * d <= q * d
    BY <1>1, <1>3, Monotone
  <2> QED
    BY <1>1, <1>3, <2>1
<1> QED
  BY <1>1, <1>2, <1>3

\* Words: a number that fits is unchanged by the conversion.
LEMMA Fits ==
  ASSUME NEW x \in Nat
  PROVE  /\ x < Word => Uint(x) = x
         /\ x < Half => Sint(x) = x
<1>1. Half \in Nat /\ 0 < Half /\ Word = 2 * Half
  BY WordAssumption DEF Word
<1>2. ASSUME NEW y \in Nat, NEW w \in Nat, y < w PROVE y % w = y
  BY <1>2
<1>3. x < Word => Uint(x) = x
  BY <1>1, <1>2 DEF Uint
<1>4. ASSUME x < Half PROVE Sint(x) = x
  <2>1. x + Half \in Nat /\ x + Half < Word /\ Word \in Nat
    BY <1>1, <1>4
  <2>2. (x + Half) % Word = x + Half
    BY <1>2, <2>1
  <2> QED
    BY <1>1, <2>2 DEF Sint
<1> QED
  BY <1>3, <1>4

LEMMA Constants ==
  /\ Day \in Nat /\ 0 < Day /\ Hour \in Nat /\ 0 < Hour
  /\ Half \in Nat /\ 0 < Half
  /\ Word = 2 * Half /\ MaxUint = Word - 1 /\ MaxInt = Half - 1
  /\ MaxUint \in Nat /\ MaxInt \in Nat
  BY WordAssumption DEF Word, MaxUint, MaxInt

LEMMA Ranges ==
  ASSUME RetentionTypeOK
  PROVE  /\ stamp \in Nat /\ limit \in Nat /\ clock \in Int
         /\ -1 <= clock /\ clock < Half /\ stamp < Word /\ limit < Word
  BY Constants DEF RetentionTypeOK

LEMMA Products ==
  ASSUME NEW x \in Nat
  PROVE  /\ x * Day \in Nat /\ x * Hour \in Nat
         /\ x * Hour > 0 <=> x > 0
<1>1. x * Day \in Nat /\ x * Hour \in Nat
  BY Constants
<1>2. CASE x > 0
  <2>1. 1 * Hour <= x * Hour
    BY <1>2, Monotone, Constants
  <2> QED
    BY <1>1, <1>2, <2>1, Constants
<1>3. CASE x = 0
  <2>1. x * Hour = 0
    BY <1>3, Constants
  <2> QED
    BY <1>1, <1>3, <2>1
<1> QED
  BY <1>2, <1>3

\* snapshotExpired agrees with the arithmetic of unbounded integers.
LEMMA DaysExact ==
  ASSUME RetentionTypeOK
  PROVE  RetentionExact
<1> DEFINE secs == limit * Day
<1>1. stamp \in Nat /\ limit \in Nat /\ clock \in Int /\ clock < Half /\ secs \in Nat
  BY Ranges, Products
<1>2. DaysOverflow(limit) <=> secs > MaxUint
  BY <1>1, Guard, Constants DEF DaysOverflow
<1>3. CASE secs > MaxUint
  BY <1>2, <1>3 DEF RetentionExact, SnapshotExpired
<1>4. CASE secs <= MaxUint
  <2>1. Uint(secs) = secs
    BY <1>1, <1>4, Fits, Constants
  <2>2. clock >= 0 => Uint(clock) = clock
    BY <1>1, Fits, Constants
  <2>3. clock >= secs => Uint(clock - secs) = clock - secs
    <3>1. SUFFICES ASSUME clock >= secs PROVE Uint(clock - secs) = clock - secs
      OBVIOUS
    <3>2. clock - secs \in Nat /\ clock - secs < Word
      BY <1>1, <3>1, Constants
    <3> QED
      BY <3>2, Fits
  <2>4. Young(clock, secs) <=> clock < secs
    BY <1>1, <2>2 DEF Young
  <2>5. ~(secs > MaxUint) /\ ~DaysOverflow(limit)
    BY <1>1, <1>2, <1>4, Constants
  <2>6. CASE clock < secs
    <3>1. ~(stamp + secs < clock)
      BY <1>1, <2>6
    <3> QED
      BY <2>1, <2>4, <2>5, <2>6, <3>1 DEF RetentionExact, SnapshotExpired
  <2>7. CASE clock >= secs
    <3>1. Uint(Uint(clock) - secs) = clock - secs
      BY <1>1, <2>2, <2>3, <2>7
    <3>2. stamp < clock - secs <=> stamp + secs < clock
      BY <1>1
    <3>3. ~Young(clock, secs)
      BY <1>1, <2>4, <2>7
    <3> QED
      BY <2>1, <2>5, <3>1, <3>2, <3>3 DEF RetentionExact, SnapshotExpired
  <2> QED
    BY <1>1, <2>6, <2>7
<1> QED
  BY <1>1, <1>3, <1>4, Constants

\* The verdict on a chunk agrees with it too.
LEMMA HoursExact ==
  ASSUME RetentionTypeOK
  PROVE  GraceExact
<1> DEFINE grace == limit * Hour
<1>1. stamp \in Nat /\ limit \in Nat /\ clock \in Int /\ grace \in Nat
  BY Ranges, Products
<1>2. HoursOverflow(limit) <=> grace > MaxInt
  BY <1>1, Guard, Constants DEF HoursOverflow
<1>3. CASE grace > MaxInt
  BY <1>2, <1>3 DEF GraceExact, ChunkVerdict
<1>4. CASE grace <= MaxInt
  <2>1. HoursDuration(limit) = grace
    BY <1>1, <1>4, Fits, Constants DEF HoursDuration
  <2>2. WithinGracePeriod(stamp, clock, grace) <=> limit > 0 /\ clock < stamp + grace
    BY <1>1, Products DEF WithinGracePeriod
  <2>3. ~(grace > MaxInt) /\ ~HoursOverflow(limit)
    BY <1>1, <1>2, <1>4, Constants
  <2> QED
    BY <2>1, <2>2, <2>3 DEF GraceExact, ChunkVerdict
<1> QED
  BY <1>1, <1>3, <1>4, Constants

\* Type correctness: clock, times and flags are words of the machine, whatever was chosen.
THEOREM RetentionTypeCorrect == RetentionSpec => []RetentionTypeOK
<1>1. RetentionInit => RetentionTypeOK
  BY Constants DEF RetentionInit, RetentionTypeOK
<1>2. RetentionTypeOK /\ [RetentionNext]_retentionVars => RetentionTypeOK'
  BY Constants DEF RetentionTypeOK, RetentionNext, ClockTicks, retentionVars
<1> QED
  BY <1>1, <1>2, PTL DEF RetentionSpec

\* snapshotExpired: whatever the width of the word and the length of a day, no
\* retention wraps around and no snapshot is removed before its time.
THEOREM RetentionIsExact == RetentionSpec => []RetentionExact
  BY RetentionTypeCorrect, DaysExact, PTL

\* withinGracePeriod: the same for chunks and the grace period.
THEOREM GraceIsExact == RetentionSpec => []GraceExact
  BY RetentionTypeCorrect, HoursExact, PTL
=============================================================================
