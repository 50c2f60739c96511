------------------------------ MODULE MCParts ------------------------------
(***************************************************************************)
(* Small instances, for TLC, of the parts that share no state: the upgrade *)
(* of a connection, logins, the assembly of an index, the tags of a        *)
(* snapshot, its retention, and the sizes shown for it.  A behaviour is    *)
(* one of one part; the others are over from the beginning, and have no    *)
(* step left.                                                              *)
(***************************************************************************)
EXTENDS Upgrade, Tickets, IndexAssembly, Tags, UsageReport, Retention, TLC

CONSTANTS u1, la, lb, lc, d1, d2, s1, s2, i1, i2, i3, c1, c2

\* Two logins of one user whose key is known, and one that mistypes it.
MCUserOf == (la :> u1) @@ (lb :> u1) @@ (lc :> u1)

\* The two digests differ in a dynamic archive only: the first block of a fixed one
\* that reuses an index may be taken to be d1.
MCChunkSize == (d1 :> 1) @@ (d2 :> 2)

\* A snapshot with two archives, the second of which holds at most one chunk, and
\* one with one.  The report knows at least one of the two.  Encryption modes are
\* looked up if sizes are.
MCOwner   == (i1 :> s1) @@ (i2 :> s1) @@ (i3 :> s2)
MCBytes   == (c1 :> 1) @@ (c2 :> 2)
MCLogical == (i1 :> 3) @@ (i2 :> 4) @@ (i3 :> 5)

-----------------------------------------------------------------------------
UpgradeOver ==
  /\ phase = "closed" /\ sent = <<>> /\ wire = <<>>
  /\ buf = <<>> /\ stolen = <<>> /\ pending = <<>> /\ got = <<>>

TicketsOver ==
  /\ now = MaxTime
  /\ pc = [l \in Login |-> "idle"] /\ expire = [l \in Login |-> 0]
  /\ begun = [l \in Login |-> 0] /\ met = [l \in Login |-> {}]
  /\ conn = [u \in User |-> None] /\ auth = <<>> /\ sweep = Asleep

IndexOver ==
  /\ kind = "fixed" /\ image = <<>> /\ baseSize = 0 /\ base = <<>>
  /\ prev = {} /\ usable = {} /\ sizes = {}
  /\ unsent = {} /\ handling = [q \in Handler |-> {}] /\ assigned = <<>>
  /\ raced = FALSE /\ status = "refused" /\ object = <<>>

TagsOver ==
  /\ present = FALSE /\ tags = NoTags /\ gc = "removed" /\ keep = FALSE
  /\ req = [r \in Req |-> [stage |-> "error", kind |-> "note", copy |-> NoTags]]
  /\ intended = tags /\ overlapped = FALSE /\ unstored = FALSE
  /\ latest = {} /\ promised = FALSE /\ relied = FALSE

UsageOver ==
  /\ refs = [i \in Index |-> {}] /\ late = {} /\ mode = "logical"
  /\ options = {} /\ stage = "plain"
  /\ todo = {} /\ usage = <<>> /\ total = 0 /\ jobs = {} /\ busy = [w \in Worker |-> {}]
  /\ found = [i \in Index |-> 0] /\ crypt = {} /\ size = [s \in Snap |-> 0]

RetentionOver == clock = MaxInt /\ stamp = 0 /\ limit = 0

MCInit ==
  \/ /\ UpgradeInit
     /\ TicketsOver /\ IndexOver /\ TagsOver /\ UsageOver /\ RetentionOver
  \/ /\ TicketsInit
     /\ UpgradeOver /\ IndexOver /\ TagsOver /\ UsageOver /\ RetentionOver
  \/ /\ IndexInit /\ (kind = "reuse" => image[1] = d1)
     /\ UpgradeOver /\ TicketsOver /\ TagsOver /\ UsageOver /\ RetentionOver
  \/ /\ TagsInit
     /\ UpgradeOver /\ TicketsOver /\ IndexOver /\ UsageOver /\ RetentionOver
  \/ /\ UsageInit /\ refs[i2] \in {{}, {c2}} /\ late # Snap
     /\ "archivesize" \in options => "encryption" \in options
     /\ UpgradeOver /\ TicketsOver /\ IndexOver /\ TagsOver /\ RetentionOver
  \/ /\ RetentionInit
     /\ UpgradeOver /\ TicketsOver /\ IndexOver /\ TagsOver /\ UsageOver

MCNext ==
  \/ UpgradeNext /\ UNCHANGED <<ticketVars, indexVars, tagVars, usageVars, retentionVars>>
  \/ TicketsNext /\ UNCHANGED <<upgradeVars, indexVars, tagVars, usageVars, retentionVars>>
  \/ IndexNext /\ UNCHANGED <<upgradeVars, ticketVars, tagVars, usageVars, retentionVars>>
  \/ TagsNext /\ UNCHANGED <<upgradeVars, ticketVars, indexVars, usageVars, retentionVars>>
  \/ UsageNext /\ UNCHANGED <<upgradeVars, ticketVars, indexVars, tagVars, retentionVars>>
  \/ RetentionNext /\ UNCHANGED <<upgradeVars, ticketVars, indexVars, tagVars, usageVars>>

MCVars == <<upgradeVars, ticketVars, indexVars, tagVars, usageVars, retentionVars>>

MCSpec ==
  /\ MCInit /\ [][MCNext]_MCVars
  /\ UpgradeFairness /\ TicketsFairness /\ UsageFairness
=============================================================================
