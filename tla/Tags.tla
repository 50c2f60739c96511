-------------------------------- MODULE Tags --------------------------------
(***************************************************************************)
(* The tags of one snapshot's manifest: requests that set its note or      *)
(* switch its protection, and a collector that decides by the tags.        *)
(*                                                                         *)
(* S3 replaces a tag set as a whole, so a request reads the set, changes   *)
(* its copy and writes it back; nothing keeps two requests apart.          *)
(***************************************************************************)
EXTENDS Integers

CONSTANTS
  Req,     \* PUT requests
  Note,    \* notes they may carry
  NoNote   \* value of a note that was never set

ASSUME NotesAssumption == NoNote \notin Note

VARIABLES
  present,     \* the manifest exists
  tags,        \* its tags
  req,         \* req[r]: progress of r, what it does, its copy of the tags
  gc,          \* where the collector is
  keep,        \* Protected, as the collector knows it
  intended,    \* history: the tags if every request had been one step
  overlapped,  \* history: a request read the tags before another wrote its copy
  unstored,    \* history: PUT protected was answered 200 though nothing was written
  latest,      \* history: the PUT protected that was the last to read the tags
  promised,    \* history: it was answered, and has protected the snapshot
  relied       \* history: promised, when the collector read the tags

tagHistory == <<intended, overlapped, unstored, latest, promised, relied>>
tagVars    == <<present, tags, req, gc, keep, tagHistory>>

TagSet == [note : Note \cup {NoNote}, protected : {"absent", "true", "false"}]
NoTags == [note |-> NoNote, protected |-> "absent"]
Kind   == {"note", "protect"}
Stage  == {"idle", "copied", "stored", "failed", "ok", "error", "aborted"}

Protected(t) == t.protected = "true"

\* Besides ranges: a removed manifest was removed by the collector, and the answers
\* of a request belong to its kind.
TagsTypeOK ==
  /\ present \in BOOLEAN /\ tags \in TagSet
  /\ req \in [Req -> [stage : Stage, kind : Kind, copy : TagSet]]
  /\ gc \in {"idle", "listed", "checked", "removed", "fatal"}
  /\ keep \in BOOLEAN
  /\ intended \in TagSet
  /\ overlapped \in BOOLEAN /\ unstored \in BOOLEAN
  /\ latest \subseteq Req /\ promised \in BOOLEAN /\ relied \in BOOLEAN
  /\ ~present <=> gc = "removed"
  /\ \A r \in Req : req[r].stage = "aborted" => req[r].kind = "note"

TagsInit ==
  /\ present = TRUE
  /\ tags \in [note : {NoNote}, protected : {"absent", "false"}]
  /\ req = [r \in Req |-> [stage |-> "idle", kind |-> "note", copy |-> NoTags]]
  /\ gc = "idle" /\ keep = FALSE
  /\ intended = tags
  /\ overlapped = FALSE /\ unstored = FALSE
  /\ latest = {} /\ promised = FALSE /\ relied = FALSE

-----------------------------------------------------------------------------
SetNote(t, n) == [t EXCEPT !.note = n]

\* PUT protected ignores the value it is sent.
Toggle(t) == [t EXCEPT !.protected = IF @ = "true" THEN "false" ELSE "true"]

\* What r does to a tag set.
Apply(r, t) == IF req[r].kind = "note" THEN SetNote(t, req[r].copy.note) ELSE Toggle(t)

Between(r) == \E q \in Req \ {r} : req[q].stage = "copied"

Copy(r, k, t) ==
  /\ req' = [req EXCEPT ![r] = [stage |-> "copied", kind |-> k, copy |-> t]]
  /\ overlapped' = (overlapped \/ Between(r))

\* PUT notes: ReadTags, then the note is put into the map it has returned.
ReadForNote(r, n) ==
  /\ req[r].stage = "idle" /\ present
  /\ Copy(r, "note", SetNote(tags, n))
  /\ UNCHANGED <<present, tags, gc, keep, intended, unstored, latest, promised, relied>>

\* Mutant: tags that cannot be read are taken to be none.
StartsAnew(r, n) ==
  req' = [req EXCEPT ![r] = [stage |-> "copied", kind |-> "note", copy |-> SetNote(NoTags, n)]]

\* The error is not looked at, and the assignment to a nil map ends the request.
NilMap(r, n) ==
  req' = [req EXCEPT ![r] = [stage |-> "aborted", kind |-> "note", copy |-> NoTags]]

ReadForNoteFails(r, n) ==
  /\ req[r].stage = "idle"
  /\ NilMap(r, n)
  /\ UNCHANGED <<present, tags, gc, keep, tagHistory>>

\* PUT protected: from here on the client does not rely on an earlier answer.
ReadForProtect(r) ==
  /\ req[r].stage = "idle" /\ present
  /\ Copy(r, "protect", Toggle(tags))
  /\ latest' = {r} /\ promised' = FALSE
  /\ UNCHANGED <<present, tags, gc, keep, intended, unstored, relied>>

ReadForProtectFails(r) ==
  /\ req[r].stage = "idle"
  /\ req' = [req EXCEPT ![r] = [stage |-> "error", kind |-> "protect", copy |-> NoTags]]
  /\ UNCHANGED <<present, tags, gc, keep, tagHistory>>

\* PutObjectTagging.  The answer may be lost, after the tags were written.
Write(r, stage) ==
  /\ req[r].stage = "copied" /\ present
  /\ tags' = req[r].copy
  /\ intended' = Apply(r, intended)
  /\ req' = [req EXCEPT ![r].stage = stage]
  /\ UNCHANGED <<present, gc, keep, overlapped, unstored, latest, promised, relied>>

Written(r)    == Write(r, "stored")
WriteTimed(r) == Write(r, "failed")

\* The store refuses, a tag is too long for tags.NewTags, or the manifest is gone.
WriteFails(r) ==
  /\ req[r].stage = "copied"
  /\ req' = [req EXCEPT ![r].stage = "failed"]
  /\ unstored' = (unstored \/ req[r].kind = "protect")
  /\ UNCHANGED <<present, tags, gc, keep, intended, overlapped, latest, promised, relied>>

\* publishDataStoreCacheInvalidation, and 200.  PUT notes reports a failed write;
\* PUT protected logs it and answers 200 all the same.
Answer(r) ==
  /\ req[r].stage = "stored" \/ (req[r].stage = "failed" /\ req[r].kind = "protect")
  /\ req' = [req EXCEPT ![r].stage = "ok"]
  /\ promised' = IF r \in latest THEN Protected(req[r].copy) ELSE promised
  /\ UNCHANGED <<present, tags, gc, keep, intended, overlapped, unstored, latest, relied>>

AnswerError(r) ==
  /\ req[r].stage = "failed" /\ req[r].kind = "note"
  /\ req' = [req EXCEPT ![r].stage = "error"]
  /\ UNCHANGED <<present, tags, gc, keep, tagHistory>>

-----------------------------------------------------------------------------
(* A collector for which the snapshot has expired. *)

\* The listing carries the tags on some stores (WithMetadata), on others not.
GcList ==
  /\ gc = "idle" /\ gc' = "listed"
  /\ keep' \in {FALSE, Protected(tags)}
  /\ UNCHANGED <<present, tags, req, tagHistory>>

\* Mutant: what the listing says of the tags is trusted.
AsListed == keep

Authoritative == Protected(tags)

\* refreshExpiredSnapshotProtection
GcRefresh ==
  /\ gc = "listed" /\ gc' = "checked"
  /\ keep' = Authoritative
  /\ relied' = promised
  /\ UNCHANGED <<present, tags, req, intended, overlapped, unstored, latest, promised>>

\* Any error of the refresh, or of the plan, ends the run before it deletes.
GcFatal ==
  /\ gc \in {"listed", "checked"} /\ gc' = "fatal"
  /\ UNCHANGED <<present, tags, req, keep, tagHistory>>

GcRemove ==
  /\ gc = "checked" /\ ~keep
  /\ gc' = "removed" /\ present' = FALSE
  /\ UNCHANGED <<tags, req, keep, tagHistory>>

\* The run is over: the next one lists again.
GcEnds ==
  /\ gc = "fatal" \/ (gc = "checked" /\ keep)
  /\ gc' = "idle" /\ keep' = FALSE
  /\ UNCHANGED <<present, tags, req, tagHistory>>

-----------------------------------------------------------------------------
Request(r) ==
  \/ \E n \in Note : ReadForNote(r, n) \/ ReadForNoteFails(r, n)
  \/ ReadForProtect(r) \/ ReadForProtectFails(r)
  \/ Written(r) \/ WriteTimed(r) \/ WriteFails(r) \/ Answer(r) \/ AnswerError(r)

Collector == GcList \/ GcRefresh \/ GcFatal \/ GcRemove \/ GcEnds

TagsNext == Collector \/ \E r \in Req : Request(r)

TagsSpec == TagsInit /\ [][TagsNext]_tagVars

-----------------------------------------------------------------------------
(* Properties. *)

\* Unless two requests overlapped, the tags are what the requests that were written
\* make of them one after the other: setting a note never changes the protection,
\* nor the other way round, whichever reads and writes have failed.
SerialTags == ~overlapped => tags = intended

Violated == gc = "removed" /\ relied

\* The collector removes no snapshot whose protection was acknowledged before it
\* read the tags, unless the acknowledged write had failed, or another request had
\* overlapped and undone it.
ProtectionKept == Violated => overlapped \/ unstored

\* The comment of refreshExpiredSnapshotProtection: reading the authoritative tag
\* keeps a backup that the user explicitly protected from being deleted.  Here without
\* the exception for a write that failed.
KeptThoughWriteFailed == Violated => overlapped
=============================================================================
