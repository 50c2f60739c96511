------------------------------- MODULE Upgrade -------------------------------
(***************************************************************************)
(* The upgrade of a connection from HTTP/1.1 to the backup protocol.       *)
(*                                                                         *)
(* The client may send the first bytes of the new protocol at any moment.  *)
(* The HTTP/1.1 server reads ahead: what it finds behind the request goes  *)
(* to its buffer, and while a handler runs it reads one byte in the        *)
(* background, to notice a client that goes away.  hijackWithBuffered must *)
(* hand all of them to the HTTP/2 server, before what is still unread.     *)
(***************************************************************************)
EXTENDS Naturals, Sequences

CONSTANTS
  Byte,
  MaxSent    \* bound: bytes the client sends

ASSUME UpgradeAssumption == MaxSent \in Nat

VARIABLES
  phase,     \* "request", "handler", "hijacked", "serving" or "closed"
  sent,      \* what the client has sent of the new protocol
  wire,      \* of which nobody has read yet
  buf,       \* bufrw.Reader: what the HTTP/1.1 server has read ahead
  stolen,    \* the byte of the background read, or <<>>
  pending,   \* the bytes that prefixConn replays
  got        \* what the HTTP/2 server has read

upgradeVars == <<phase, sent, wire, buf, stolen, pending, got>>

UpgradeInit ==
  /\ phase = "request"
  /\ sent = <<>> /\ wire = <<>> /\ buf = <<>> /\ stolen = <<>>
  /\ pending = <<>> /\ got = <<>>

First(s, k) == SubSeq(s, 1, k)
Rest(s, k)  == SubSeq(s, k + 1, Len(s))

-----------------------------------------------------------------------------
Send(b) ==
  /\ phase # "closed" /\ Len(sent) < MaxSent
  /\ sent' = Append(sent, b) /\ wire' = Append(wire, b)
  /\ UNCHANGED <<phase, buf, stolen, pending, got>>

\* The request has been read, and k bytes behind it.
ReadRequest(k) ==
  /\ phase = "request" /\ k \in 0..Len(wire)
  /\ phase' = "handler"
  /\ buf' = First(wire, k) /\ wire' = Rest(wire, k)
  /\ UNCHANGED <<sent, stolen, pending, got>>

BackgroundRead ==
  /\ phase = "handler" /\ stolen = <<>> /\ wire # <<>>
  /\ stolen' = First(wire, 1) /\ wire' = Rest(wire, 1)
  /\ UNCHANGED <<phase, sent, buf, pending, got>>

\* Hijack ends the background read and puts its byte behind what is buffered.
Buffered == buf \o stolen

\* Mutant: the reader that Hijack returns is thrown away.
Discarded == <<>>

\* io.ReadFull(bufrw.Reader, pending); with nothing buffered the connection itself
\* is returned, which reads the same.
Pending == Buffered

Hijack ==
  /\ phase = "handler"
  /\ phase' = "hijacked"
  /\ pending' = Pending
  /\ buf' = <<>> /\ stolen' = <<>>
  /\ UNCHANGED <<sent, wire, got>>

\* The connection cannot be taken over: the handler returns.
HijackFails ==
  /\ phase = "handler"
  /\ phase' = "closed"
  /\ UNCHANGED <<sent, wire, buf, stolen, pending, got>>

\* beginDataStoreSession succeeds, and ServeConn begins to read; or it fails.
Serve ==
  /\ phase = "hijacked"
  /\ phase' = "serving"
  /\ UNCHANGED <<sent, wire, buf, stolen, pending, got>>

LockFails ==
  /\ phase = "hijacked"
  /\ phase' = "closed"
  /\ UNCHANGED <<sent, wire, buf, stolen, pending, got>>

\* Mutant: the bytes to replay are all there is to read.
NothingElse == TRUE

\* io.MultiReader goes on to the connection when the bytes to replay are used up.
FromPending == pending # <<>>

\* A read returns at most what is there, from one source.
Read(k) ==
  /\ phase = "serving"
  /\ IF FromPending
       THEN /\ k \in 1..Len(pending)
            /\ got' = got \o First(pending, k) /\ pending' = Rest(pending, k)
            /\ UNCHANGED wire
       ELSE /\ k \in 1..Len(wire)
            /\ got' = got \o First(wire, k) /\ wire' = Rest(wire, k)
            /\ UNCHANGED pending
  /\ UNCHANGED <<phase, sent, buf, stolen>>

ConnectionEnds ==
  /\ phase = "serving"
  /\ phase' = "closed"
  /\ UNCHANGED <<sent, wire, buf, stolen, pending, got>>

-----------------------------------------------------------------------------
ServerStep ==
  \/ \E k \in 0..MaxSent : ReadRequest(k) \/ Read(k)
  \/ Hijack \/ Serve

UpgradeNext ==
  \/ \E b \in Byte : Send(b)
  \/ ServerStep
  \/ BackgroundRead \/ HijackFails \/ LockFails \/ ConnectionEnds

\* Goroutines are scheduled, and the HTTP/2 server reads its connection for as long
\* as it has one.
UpgradeFairness == WF_upgradeVars(ServerStep)

UpgradeSpec == UpgradeInit /\ [][UpgradeNext]_upgradeVars /\ UpgradeFairness

-----------------------------------------------------------------------------
(* Properties. *)

UpgradeTypeOK ==
  /\ phase \in {"request", "handler", "hijacked", "serving", "closed"}
  /\ sent \in Seq(Byte) /\ wire \in Seq(Byte)
  /\ buf \in Seq(Byte) /\ stolen \in Seq(Byte) /\ pending \in Seq(Byte) /\ got \in Seq(Byte)
  /\ phase \in {"hijacked", "serving"} => buf = <<>> /\ stolen = <<>>
  /\ phase \in {"request", "handler"} => pending = <<>> /\ got = <<>>
  /\ phase = "request" => buf = <<>> /\ stolen = <<>>

\* No byte is lost, repeated or moved on its way through the readers.
Conserved == got \o pending \o buf \o stolen \o wire = sent

\* What the HTTP/2 server reads is a prefix of what the client sent, whoever reads
\* how much and when: the preface never arrives without its first byte.
InOrder == got = SubSeq(sent, 1, Len(got))

\* Everything arrives: the HTTP/2 server has read what the client has sent, again
\* and again, for as long as the connection lasts.
Arrives == []<>(got = sent \/ phase = "closed")
=============================================================================
