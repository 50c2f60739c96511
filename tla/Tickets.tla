------------------------------- MODULE Tickets -------------------------------
(***************************************************************************)
(* Logins, the tickets they issue and the table of object store clients.   *)
(*                                                                         *)
(* A login runs in a goroutine of its own and answers with a ticket that   *)
(* holds a client of its user.  connectionList is a plain map that logins  *)
(* read and write unsynchronised; a client is entered in it before it has  *)
(* been tried, and taken out again when its listing of buckets fails.      *)
(* ticketGC removes the tickets that have expired.                         *)
(***************************************************************************)
EXTENDS Naturals

CONSTANTS
  User,
  Login,     \* login requests; each names the ticket and the client it makes
  UserOf,    \* UserOf[l]: username
  Good,      \* logins whose key the object store knows
  None,
  TTL,       \* TicketExpire
  LastLogin, \* bound: the latest time at which a login begins
  MaxTime    \* bound: the clock stops here

ASSUME TicketsAssumption ==
  /\ UserOf \in [Login -> User] /\ Good \subseteq Login /\ None \notin Login
  /\ TTL \in Nat /\ LastLogin \in Nat /\ MaxTime \in Nat
  /\ LastLogin + TTL < MaxTime

VARIABLES
  now,       \* the clock
  pc,        \* pc[l]: where the login is
  expire,    \* expire[l]: Expire of its TicketEntry
  conn,      \* connectionList
  auth,      \* s.Auth: the tickets stored, each with its Client
  sweep,     \* ticketGC: the time it read and the tickets it has yet to look at
  begun,     \* begun[l]: when the login began (history)
  met        \* met[l]: logins in progress at some moment at which l was (history)

loginHistory   == <<begun, met>>
loginVars == <<pc, expire, loginHistory>>
ticketVars == <<now, loginVars, conn, auth, sweep>>

Running == {"lookup", "new", "list", "drop", "attach"}
Active  == {l \in Login : pc[l] \in Running}
Asleep  == [at |-> 0, todo |-> {}]

TicketsInit ==
  /\ now = 0
  /\ pc = [l \in Login |-> "idle"] /\ expire = [l \in Login |-> 0]
  /\ begun = [l \in Login |-> 0] /\ met = [l \in Login |-> {}]
  /\ conn = [u \in User |-> None]
  /\ auth = <<>>
  /\ sweep = Asleep

-----------------------------------------------------------------------------
(* POST /access/ticket *)

Key(l) == UserOf[l]

Goto(l, p) == pc' = [pc EXCEPT ![l] = p]

\* Mutant: the ticket's time begins at 0.
NoOffset(t) == TTL

ExpireAt(t) == t + TTL

Begin(l) ==
  /\ pc[l] = "idle" /\ now <= LastLogin
  /\ Goto(l, "lookup")
  /\ expire' = [expire EXCEPT ![l] = ExpireAt(now)]
  /\ begun' = [begun EXCEPT ![l] = now]
  /\ met' = [k \in Login |-> IF k = l THEN Active
                             ELSE IF k \in Active THEN met[k] \cup {l} ELSE met[k]]
  /\ UNCHANGED <<now, conn, auth, sweep>>

Lookup(l) ==
  /\ pc[l] = "lookup"
  /\ Goto(l, IF conn[Key(l)] # None THEN "attach" ELSE "new")
  /\ UNCHANGED <<now, expire, loginHistory, conn, auth, sweep>>

NewClient(l) ==
  /\ pc[l] = "new"
  /\ conn' = [conn EXCEPT ![Key(l)] = l]
  /\ Goto(l, "list")
  /\ UNCHANGED <<now, expire, loginHistory, auth, sweep>>

Refused(l) ==
  /\ pc[l] = "new"
  /\ Goto(l, "refused")
  /\ UNCHANGED <<now, expire, loginHistory, conn, auth, sweep>>

\* The client is read from the table again: it may be another login's by now, or
\* gone, which panics.  A listing with a known key may fail too.
ListBuckets(l) ==
  /\ pc[l] = "list"
  /\ \/ conn[Key(l)] = None /\ Goto(l, "panicked")
     \/ conn[Key(l)] \in Good /\ Goto(l, "attach")
     \/ conn[Key(l)] # None /\ Goto(l, "drop")
  /\ UNCHANGED <<now, expire, loginHistory, conn, auth, sweep>>

\* Mutant: the client whose listing failed stays in the table.
KeptClient(l) == conn

Without(l) == [conn EXCEPT ![Key(l)] = None]

Drop(l) ==
  /\ pc[l] = "drop"
  /\ conn' = Without(l)
  /\ Goto(l, "refused")
  /\ UNCHANGED <<now, expire, loginHistory, auth, sweep>>

\* A Range that is under way may or may not come across a ticket that is new.
Attach(l) ==
  /\ pc[l] = "attach"
  /\ auth' = [k \in DOMAIN auth \cup {l} |-> IF k = l THEN conn[Key(l)] ELSE auth[k]]
  /\ \/ sweep.todo # {} /\ sweep' = [sweep EXCEPT !.todo = @ \cup {l}]
     \/ UNCHANGED sweep
  /\ Goto(l, "issued")
  /\ UNCHANGED <<now, expire, loginHistory, conn>>

\* The runtime aborts a process that reads and writes a map at the same time.
Reads(l)  == pc[l] \in {"lookup", "list", "attach"}
Writes(l) == pc[l] \in {"new", "drop"}

Abort ==
  /\ \E k, l \in Login : k # l /\ Writes(k) /\ (Writes(l) \/ Reads(l))
  /\ pc' = [l \in Login |-> IF l \in Active THEN "aborted" ELSE pc[l]]
  /\ conn' = [u \in User |-> None] /\ auth' = <<>> /\ sweep' = Asleep
  /\ UNCHANGED <<now, expire, loginHistory>>

-----------------------------------------------------------------------------
(* ticketGC *)

\* Mutant: the time is read before the loop, when the process starts.
AtStart == 0

Clock == now

\* A round that finds no ticket at all changes nothing.
Wake ==
  /\ sweep.todo = {} /\ DOMAIN auth # {}
  /\ sweep' = [at |-> Clock, todo |-> DOMAIN auth]
  /\ UNCHANGED <<now, loginVars, conn, auth>>

Expired(l) == expire[l] < sweep.at

Look(l) ==
  /\ l \in sweep.todo
  /\ sweep' = [sweep EXCEPT !.todo = @ \ {l}]
  /\ auth' = IF Expired(l) THEN [k \in DOMAIN auth \ {l} |-> auth[k]] ELSE auth
  /\ UNCHANGED <<now, loginVars, conn>>

Tick ==
  /\ now < MaxTime
  /\ now' = now + 1
  /\ UNCHANGED <<loginVars, conn, auth, sweep>>

-----------------------------------------------------------------------------
Step(l) ==
  \/ Lookup(l) \/ NewClient(l) \/ Refused(l) \/ ListBuckets(l) \/ Drop(l) \/ Attach(l)

TicketsNext ==
  \/ \E l \in Login : Begin(l) \/ Step(l) \/ Look(l)
  \/ Abort \/ Wake \/ Tick

\* The object store answers, time passes, and the sweep wakes and looks at every
\* ticket it has found.
TicketsFairness ==
  /\ \A l \in Login : WF_ticketVars(Step(l)) /\ WF_ticketVars(Look(l))
  /\ WF_ticketVars(Tick) /\ WF_ticketVars(Wake)

TicketsSpec == TicketsInit /\ [][TicketsNext]_ticketVars /\ TicketsFairness

-----------------------------------------------------------------------------
(* Properties. *)

\* Besides ranges: a client is only ever used for the user it was made for.
TicketsTypeOK ==
  /\ now \in 0..MaxTime
  /\ pc \in [Login -> Running \cup {"idle", "refused", "panicked", "issued", "aborted"}]
  /\ expire \in [Login -> 0..MaxTime] /\ begun \in [Login -> 0..MaxTime]
  /\ met \in [Login -> SUBSET Login]
  /\ conn \in [User -> Login \cup {None}]
  /\ DOMAIN auth \subseteq {l \in Login : pc[l] = "issued"}
  /\ sweep \in [at : 0..now, todo : SUBSET Login]
  /\ \A u \in User : conn[u] # None => UserOf[conn[u]] = u
  /\ \A l \in DOMAIN auth : auth[l] # None => UserOf[auth[l]] = UserOf[l]

\* A login that fails disturbs only the logins it overlaps: a ticket whose client is
\* missing or cannot list buckets belongs to a login during which another one of the
\* same user ran, with a key that cannot, or one that has not ended with a ticket.
FailureStaysLocal ==
  \A l \in DOMAIN auth :
    auth[l] \notin Good =>
      \E k \in met[l] : UserOf[k] = UserOf[l] /\ (k \notin Good \/ pc[k] # "issued")

\* A ticket works for as long as it was issued for: only a crash ends it earlier.
NeverEarly ==
  [][\A l \in DOMAIN auth :
       l \notin DOMAIN auth' => now > begun[l] + TTL \/ pc' # pc]_ticketVars

\* Every ticket is removed in the end, the ones issued during a sweep included.
AllExpire == <>[](DOMAIN auth = {})
=============================================================================
