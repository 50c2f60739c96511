---------------------------- MODULE AccessProofs ----------------------------
(***************************************************************************)
(* How a client gets in.  The upgrade of its connection loses, repeats and *)
(* moves no byte, whatever the client sends.  Logins that run at the same  *)
(* time as a failing one of the same user may be disturbed by it, others   *)
(* are not, and a ticket lives as long as it was issued for.               *)
(***************************************************************************)
EXTENDS Upgrade, Tickets, SequenceTheorems, TLAPS

-----------------------------------------------------------------------------
(* The upgrade. *)

Bytes == Seq(Byte)

LEMMA Assoc ==
  ASSUME NEW s \in Bytes, NEW t \in Bytes, NEW u \in Bytes
  PROVE  (s \o t) \o u = s \o (t \o u) /\ s \o t \in Bytes
  BY ConcatAssociative, ConcatProperties DEF Bytes

LEMMA Five ==
  ASSUME NEW a \in Bytes, NEW b \in Bytes, NEW c \in Bytes, NEW d \in Bytes, NEW e \in Bytes
  PROVE  /\ a \o b \o c \o d \o e = a \o (b \o (c \o (d \o e)))
         /\ b \o (c \o (d \o e)) \in Bytes
<1> DEFINE ab == a \o b
           abc == ab \o c
           de == d \o e
           cde == c \o de
<1>3. ab \in Bytes /\ de \in Bytes
  BY Assoc
<1>4. abc \in Bytes /\ cde \in Bytes
  BY <1>3, Assoc
<1>5. (abc \o d) \o e = abc \o de
  <2> HIDE DEF abc
  <2> QED
    BY <1>4, ConcatAssociative DEF Bytes
<1>6. (ab \o c) \o de = ab \o (c \o de)
  <2>1. ab \in Seq(Byte) /\ c \in Seq(Byte) /\ de \in Seq(Byte)
    BY <1>3 DEF Bytes
  <2> HIDE DEF ab, de
  <2> QED
    BY <2>1, ConcatAssociative
<1>7. (a \o b) \o cde = a \o (b \o cde)
  <2> HIDE DEF cde
  <2> QED
    BY <1>4, ConcatAssociative DEF Bytes
<1>8. b \o cde \in Bytes
  BY <1>4, Assoc
<1> QED
  BY <1>5, <1>6, <1>7, <1>8

LEMMA WithoutBytes ==
  ASSUME NEW s \in Bytes
  PROVE  s \o <<>> = s /\ <<>> \o s = s
  BY ConcatEmptySeq DEF Bytes

LEMMA NoBytes == <<>> \in Bytes
  BY DEF Bytes

\* A read takes a sequence apart.
LEMMA Split ==
  ASSUME NEW s \in Bytes, NEW k \in 0..Len(s)
  PROVE  /\ First(s, k) \in Bytes /\ Rest(s, k) \in Bytes
         /\ First(s, k) \o Rest(s, k) = s
<1>1. Len(s) \in Nat
  BY DEF Bytes
<1>2. SubSeq(s, 1, k) \o SubSeq(s, k + 1, Len(s)) = SubSeq(s, 1, Len(s))
  <2>1. 1 \in 1..Len(s)+1 /\ k \in 1-1..Len(s) /\ Len(s) \in k..Len(s)
    BY <1>1
  <2> QED
    BY <2>1, ConcatAdjacentSubSeq DEF Bytes
<1>3. SubSeq(s, 1, Len(s)) = s
  BY SubSeqFull DEF Bytes
<1>4. SubSeq(s, 1, k) \in Seq(Byte) /\ SubSeq(s, k + 1, Len(s)) \in Seq(Byte)
  BY <1>1 DEF Bytes
<1> QED
  BY <1>2, <1>3, <1>4 DEF First, Rest, Bytes

LEMMA AppendConcat ==
  ASSUME NEW s \in Bytes, NEW t \in Bytes, NEW b \in Byte
  PROVE  /\ Append(s, b) \in Bytes
         /\ s \o Append(t, b) = Append(s \o t, b)
<1>1. <<b>> \in Bytes
  BY DEF Bytes
<1>2. Append(t, b) = t \o <<b>> /\ Append(s \o t, b) = (s \o t) \o <<b>>
  BY AppendIsConcat, ConcatProperties DEF Bytes
<1> QED
  BY <1>1, <1>2, Assoc, AppendProperties DEF Bytes

UpgradeInv == UpgradeTypeOK /\ Conserved

LEMMA ByteTypes ==
  ASSUME UpgradeTypeOK
  PROVE  /\ sent \in Bytes /\ wire \in Bytes /\ buf \in Bytes /\ stolen \in Bytes
         /\ pending \in Bytes /\ got \in Bytes
  BY DEF UpgradeTypeOK, Bytes

\* Until the hijack nothing is replayed or read; from then on nothing is buffered.
LEMMA Before ==
  ASSUME NEW b \in Bytes, NEW s \in Bytes, NEW w \in Bytes
  PROVE  <<>> \o <<>> \o b \o s \o w = b \o s \o w
  BY WithoutBytes, NoBytes

LEMMA After ==
  ASSUME NEW g \in Bytes, NEW p \in Bytes, NEW w \in Bytes
  PROVE  g \o p \o <<>> \o <<>> \o w = g \o p \o w
<1>1. g \o p \in Bytes
  BY Assoc
<1> QED
  BY <1>1, WithoutBytes

LEMMA UpgradeStart == UpgradeInit => UpgradeInv
<1> SUFFICES ASSUME UpgradeInit PROVE UpgradeInv
  OBVIOUS
<1>1. UpgradeTypeOK
  BY DEF UpgradeInit, UpgradeTypeOK
<1>2. Conserved
  BY WithoutBytes, NoBytes DEF UpgradeInit, Conserved
<1> QED
  BY <1>1, <1>2 DEF UpgradeInv

LEMMA SendInv ==
  ASSUME UpgradeInv, NEW b \in Byte, Send(b)
  PROVE  UpgradeInv'
<1> DEFINE read == got \o pending \o buf \o stolen
<1>1. read \in Bytes
  BY ByteTypes, Assoc DEF UpgradeInv
<1>2. read \o Append(wire, b) = Append(read \o wire, b)
  BY <1>1, ByteTypes, AppendConcat DEF UpgradeInv
<1>3. Conserved'
  BY <1>2 DEF UpgradeInv, Conserved, Send
<1>4. wire' \in Bytes /\ sent' \in Bytes
  BY ByteTypes, AppendConcat DEF UpgradeInv, Send
<1>5. UpgradeTypeOK'
  BY <1>4 DEF UpgradeInv, UpgradeTypeOK, Send, Bytes
<1> QED
  BY <1>3, <1>5 DEF UpgradeInv

LEMMA ReadRequestInv ==
  ASSUME UpgradeInv, NEW k \in 0..MaxSent, ReadRequest(k)
  PROVE  UpgradeInv'
<1>1. /\ buf = <<>> /\ stolen = <<>> /\ pending = <<>> /\ got = <<>>
      /\ k \in 0..Len(wire) /\ wire \in Bytes
  BY ByteTypes DEF UpgradeInv, UpgradeTypeOK, ReadRequest
<1>2. buf' \in Bytes /\ wire' \in Bytes /\ buf' \o wire' = wire
  BY <1>1, Split DEF ReadRequest
<1>3. UpgradeTypeOK'
  BY <1>1, <1>2 DEF UpgradeInv, UpgradeTypeOK, ReadRequest, Bytes
<1>4. <<>> \o <<>> \o buf' \o <<>> \o wire' = wire
  BY <1>2, Before, WithoutBytes, NoBytes
<1>5. wire = sent
  BY <1>1, Before, WithoutBytes, NoBytes DEF UpgradeInv, Conserved
<1>6. Conserved'
  BY <1>1, <1>4, <1>5 DEF Conserved, ReadRequest
<1> QED
  BY <1>3, <1>6 DEF UpgradeInv

LEMMA BackgroundReadInv ==
  ASSUME UpgradeInv, BackgroundRead
  PROVE  UpgradeInv'
<1>1. /\ stolen = <<>> /\ pending = <<>> /\ got = <<>>
      /\ wire \in Bytes /\ wire # <<>> /\ buf \in Bytes
  BY ByteTypes DEF UpgradeInv, UpgradeTypeOK, BackgroundRead
<1>2. 1 \in 0..Len(wire)
  BY <1>1, WithoutBytes DEF Bytes
<1>3. stolen' \in Bytes /\ wire' \in Bytes /\ stolen' \o wire' = wire
  BY <1>1, <1>2, Split DEF BackgroundRead
<1>4. UpgradeTypeOK'
  BY <1>1, <1>3 DEF UpgradeInv, UpgradeTypeOK, BackgroundRead, Bytes
<1>5. <<>> \o <<>> \o buf \o stolen' \o wire' = buf \o wire
  <2>1. (buf \o stolen') \o wire' = buf \o (stolen' \o wire')
    BY <1>1, <1>3, Assoc
  <2>2. <<>> \o <<>> \o buf \o stolen' \o wire' = buf \o stolen' \o wire'
    BY <1>1, <1>3, Before
  <2> QED
    BY <1>3, <2>1, <2>2
<1>6. buf \o wire = sent
  BY <1>1, Before, WithoutBytes, NoBytes DEF UpgradeInv, Conserved
<1>7. Conserved'
  BY <1>1, <1>5, <1>6 DEF Conserved, BackgroundRead
<1> QED
  BY <1>4, <1>7 DEF UpgradeInv

LEMMA HijackInv ==
  ASSUME UpgradeInv, Hijack
  PROVE  UpgradeInv'
<1>1. /\ pending = <<>> /\ got = <<>>
      /\ wire \in Bytes /\ buf \in Bytes /\ stolen \in Bytes
  BY ByteTypes DEF UpgradeInv, UpgradeTypeOK, Hijack
<1>2. pending' = buf \o stolen /\ pending' \in Bytes
  BY <1>1, Assoc DEF Hijack, Pending, Buffered
<1>3. UpgradeTypeOK'
  BY <1>1, <1>2 DEF UpgradeInv, UpgradeTypeOK, Hijack, Bytes
<1>4. <<>> \o pending' \o <<>> \o <<>> \o wire = buf \o stolen \o wire
  BY <1>1, <1>2, After, WithoutBytes, NoBytes
<1>5. buf \o stolen \o wire = sent
  BY <1>1, Before DEF UpgradeInv, Conserved
<1>6. Conserved'
  BY <1>1, <1>4, <1>5 DEF Conserved, Hijack
<1> QED
  BY <1>3, <1>6 DEF UpgradeInv

LEMMA ReadInv ==
  ASSUME UpgradeInv, NEW k \in 0..MaxSent, Read(k)
  PROVE  UpgradeInv'
<1>1. /\ buf = <<>> /\ stolen = <<>>
      /\ wire \in Bytes /\ pending \in Bytes /\ got \in Bytes
  BY ByteTypes DEF UpgradeInv, UpgradeTypeOK, Read
<1>2. got \o pending \o wire = sent
  BY <1>1, After DEF UpgradeInv, Conserved
<1>3. CASE FromPending
  <2>1. k \in 0..Len(pending)
    BY <1>3 DEF Read
  <2>2. /\ got' = got \o First(pending, k) /\ pending' = Rest(pending, k)
        /\ First(pending, k) \in Bytes /\ Rest(pending, k) \in Bytes
        /\ First(pending, k) \o Rest(pending, k) = pending
    BY <1>1, <1>3, <2>1, Split DEF Read
  <2>3. got' \in Bytes /\ pending' \in Bytes /\ got' \o pending' = got \o pending
    <3> DEFINE x == First(pending, k)
               y == Rest(pending, k)
    <3>1. x \in Bytes /\ y \in Bytes /\ x \o y = pending
      BY <2>2
    <3>2. (got \o x) \o y = got \o (x \o y) /\ got \o x \in Bytes
      BY <1>1, <3>1, Assoc
    <3> QED
      BY <2>2, <3>1, <3>2
  <2>4. UpgradeTypeOK'
    BY <1>1, <1>3, <2>3 DEF UpgradeInv, UpgradeTypeOK, Read, Bytes
  <2>5. got' \o pending' \o <<>> \o <<>> \o wire = sent
    BY <1>1, <1>2, <2>3, After
  <2>6. Conserved'
    BY <1>1, <1>3, <2>5 DEF Conserved, Read
  <2> QED
    BY <2>4, <2>6 DEF UpgradeInv
<1>4. CASE ~FromPending
  <2>1. k \in 0..Len(wire) /\ pending = <<>> /\ pending' = <<>>
    BY <1>4 DEF Read, FromPending
  <2>2. /\ got' = got \o First(wire, k) /\ wire' = Rest(wire, k)
        /\ First(wire, k) \in Bytes /\ Rest(wire, k) \in Bytes
        /\ First(wire, k) \o Rest(wire, k) = wire
    BY <1>1, <1>4, <2>1, Split DEF Read
  <2>3. got' \in Bytes /\ wire' \in Bytes /\ got' \o wire' = got \o wire
    <3> DEFINE x == First(wire, k)
               y == Rest(wire, k)
    <3>1. x \in Bytes /\ y \in Bytes /\ x \o y = wire
      BY <2>2
    <3>2. (got \o x) \o y = got \o (x \o y) /\ got \o x \in Bytes
      BY <1>1, <3>1, Assoc
    <3> QED
      BY <2>2, <3>1, <3>2
  <2>4. UpgradeTypeOK'
    BY <1>1, <1>4, <2>1, <2>3 DEF UpgradeInv, UpgradeTypeOK, Read, Bytes
  <2>5. got' \o <<>> \o <<>> \o <<>> \o wire' = sent
    <3>1. got \o <<>> = got /\ got' \o <<>> = got'
      BY <1>1, <2>3, WithoutBytes
    <3>2. got \o wire = sent
      BY <1>2, <2>1, <3>1
    <3> QED
      BY <2>3, <3>1, <3>2
  <2>6. Conserved'
    BY <1>1, <1>4, <2>1, <2>5 DEF Conserved, Read
  <2> QED
    BY <2>4, <2>6 DEF UpgradeInv
<1> QED
  BY <1>3, <1>4

\* A step that only moves the phase on.
LEMMA PhaseInv ==
  ASSUME UpgradeInv, HijackFails \/ Serve \/ LockFails \/ ConnectionEnds \/ UNCHANGED upgradeVars
  PROVE  UpgradeInv'
<1>1. UNCHANGED <<sent, wire, buf, stolen, pending, got>>
  BY DEF HijackFails, Serve, LockFails, ConnectionEnds, upgradeVars
<1>2. UpgradeTypeOK'
  BY <1>1 DEF UpgradeInv, UpgradeTypeOK, HijackFails, Serve, LockFails, ConnectionEnds, upgradeVars
<1>3. Conserved'
  BY <1>1 DEF UpgradeInv, Conserved
<1> QED
  BY <1>2, <1>3 DEF UpgradeInv

LEMMA UpgradeInductive == UpgradeSpec => []UpgradeInv
<1>1. UpgradeInv /\ [UpgradeNext]_upgradeVars => UpgradeInv'
  BY SendInv, ReadRequestInv, BackgroundReadInv, HijackInv, ReadInv, PhaseInv
     DEF UpgradeNext, ServerStep
<1> QED
  BY UpgradeStart, <1>1, PTL DEF UpgradeSpec

\* What the HTTP/2 server has read is where the stream begins.
LEMMA PrefixRead ==
  ASSUME UpgradeInv
  PROVE  InOrder
<1> DEFINE rest == pending \o (buf \o (stolen \o wire))
<1>1. rest \in Bytes /\ sent = got \o rest
  <2>1. /\ sent \in Bytes /\ wire \in Bytes /\ buf \in Bytes /\ stolen \in Bytes
        /\ pending \in Bytes /\ got \in Bytes
    BY ByteTypes DEF UpgradeInv
  <2>2. got \o pending \o buf \o stolen \o wire = got \o rest /\ rest \in Bytes
    BY <2>1, Five
  <2> QED
    BY <2>2 DEF UpgradeInv, Conserved
<1>2. CASE got = <<>>
  BY <1>2, SubSeqEmpty DEF InOrder
<1>3. CASE got # <<>>
  <2>1. Len(got) \in Nat /\ 1 \in 1..Len(got) /\ Len(got) \in 1..Len(got)
    BY <1>3, ByteTypes DEF UpgradeInv, Bytes
  <2>2. SubSeq(got \o rest, 1, Len(got)) = SubSeq(got, 1, Len(got))
    BY <1>1, <2>1, ByteTypes, SubSeqOfConcat1 DEF UpgradeInv, Bytes
  <2> QED
    BY <1>1, <2>2, ByteTypes, SubSeqFull DEF UpgradeInv, InOrder, Bytes
<1> QED
  BY <1>2, <1>3

\* Type correctness of the upgrade, and what its buffers hold in each phase.
THEOREM UpgradeTypeCorrect == UpgradeSpec => []UpgradeTypeOK
  BY UpgradeInductive, PTL DEF UpgradeInv

\* hijackWithBuffered: of the bytes that the HTTP/1.1 server has read ahead none is
\* lost, repeated or moved, however many they are and whenever they arrive.
THEOREM NothingLost == UpgradeSpec => []Conserved
  BY UpgradeInductive, PTL DEF UpgradeInv

\* The HTTP/2 server reads the client's stream from its first byte and in order.
THEOREM ReadInOrder == UpgradeSpec => []InOrder
<1>1. UpgradeInv => InOrder
  BY PrefixRead
<1> QED
  BY UpgradeInductive, <1>1, PTL

-----------------------------------------------------------------------------
(* Logins and tickets. *)

\* Two logins under way at the same time know of each other.
OverlapOK == \A l, k \in Active : k # l => k \in met[l]

\* A client in the table that cannot list buckets is one that is being tried.
TriedOK == \A u \in User : conn[u] \in Login \ Good => pc[conn[u]] \in {"list", "drop"}

\* Somebody of the same user has failed during the login l.
Undercut(l) == \E k \in met[l] : UserOf[k] = UserOf[l] /\ pc[k] = "refused"

\* A login that found a client and finds none when it takes it has been undercut.
AttachOK == \A l \in Login : pc[l] = "attach" /\ conn[UserOf[l]] = None => Undercut(l)

\* A ticket without a working client: the login was undercut, or the client is that of
\* a login it has met.
IssuedOK ==
  \A l \in DOMAIN auth :
    auth[l] \notin Good => Undercut(l) \/ (auth[l] \in met[l] /\ UserOf[auth[l]] = UserOf[l])

\* A ticket expires when its time is over, counted from the beginning of the login.
ExpireOK == \A l \in Login : pc[l] # "idle" => expire[l] = begun[l] + TTL

TicketsInv ==
  TicketsTypeOK /\ OverlapOK /\ TriedOK /\ AttachOK /\ IssuedOK /\ ExpireOK

-----------------------------------------------------------------------------
LEMMA TicketsStart == TicketsInit => TicketsInv
<1> SUFFICES ASSUME TicketsInit PROVE TicketsInv
  OBVIOUS
<1>1. TicketsTypeOK
  BY TicketsAssumption DEF TicketsInit, TicketsTypeOK, Asleep
<1>2. OverlapOK /\ TriedOK /\ AttachOK /\ IssuedOK /\ ExpireOK
  BY TicketsAssumption
  DEF TicketsInit, OverlapOK, TriedOK, AttachOK, IssuedOK, ExpireOK, Active, Running
<1> QED
  BY <1>1, <1>2 DEF TicketsInv

\* What moving one login changes.
LEMMA Gone ==
  ASSUME TicketsTypeOK, NEW l \in Login, NEW p, Goto(l, p)
  PROVE  pc'[l] = p /\ \A k \in Login : k # l => pc'[k] = pc[k]
BY DEF TicketsTypeOK, Goto

LEMMA BeginInv ==
  ASSUME TicketsInv, NEW l \in Login, Begin(l)
  PROVE  TicketsInv'
<1>1. pc'[l] = "lookup" /\ \A k \in Login : k # l => pc'[k] = pc[k]
  BY Gone DEF TicketsInv, Begin
<1>2. now \in 0 .. MaxTime /\ now + TTL \in 0 .. MaxTime /\ TTL \in Nat /\ now \in Nat
  BY TicketsAssumption DEF Begin, TicketsInv, TicketsTypeOK
<1>3. Active' = Active \cup {l} /\ l \notin Active
  BY <1>1 DEF Active, Running, Begin
<1>4. \A k \in Login : met[k] \subseteq met'[k] \/ k = l
  BY DEF Begin, TicketsInv, TicketsTypeOK
<1>5. TicketsTypeOK'
  <2>1. /\ pc' \in [Login -> Running \cup {"idle", "refused", "panicked", "issued", "aborted"}]
        /\ expire' \in [Login -> 0..MaxTime] /\ begun' \in [Login -> 0..MaxTime]
    BY <1>2 DEF Begin, TicketsInv, TicketsTypeOK, Goto, ExpireAt, Running
  <2>2. met' \in [Login -> SUBSET Login]
    BY DEF Begin, TicketsInv, TicketsTypeOK, Active
  <2>3. DOMAIN auth' \subseteq {k \in Login : pc'[k] = "issued"}
    BY <1>1 DEF Begin, TicketsInv, TicketsTypeOK
  <2> QED
    BY <2>1, <2>2, <2>3 DEF Begin, TicketsInv, TicketsTypeOK
<1>6. OverlapOK'
  BY <1>3 DEF Begin, TicketsInv, OverlapOK, Active, TicketsTypeOK
<1>7. TriedOK'
  BY <1>1 DEF Begin, TicketsInv, TriedOK, TicketsTypeOK
<1>8. \A k \in Login : k # l /\ Undercut(k) => Undercut(k)'
  <2> SUFFICES ASSUME NEW k \in Login, k # l, Undercut(k) PROVE Undercut(k)'
    OBVIOUS
  <2>1. PICK m \in met[k] : UserOf[m] = UserOf[k] /\ pc[m] = "refused"
    BY DEF Undercut
  <2>2. m \in Login /\ m \in met'[k] /\ pc'[m] = "refused"
    BY <1>1, <1>4, <2>1 DEF TicketsInv, TicketsTypeOK, Begin
  <2> QED
    BY <2>1, <2>2 DEF Undercut
<1>9. AttachOK'
  BY <1>1, <1>8 DEF Begin, TicketsInv, AttachOK
<1>10. IssuedOK'
  <2>1. \A k \in DOMAIN auth : k \in Login /\ k # l
    BY DEF Begin, TicketsInv, TicketsTypeOK
  <2> QED
    BY <1>4, <1>8, <2>1 DEF Begin, TicketsInv, IssuedOK
<1>11. ExpireOK'
  BY <1>1, <1>2 DEF Begin, TicketsInv, ExpireOK, TicketsTypeOK, ExpireAt
<1> QED
  BY <1>5, <1>6, <1>7, <1>9, <1>10, <1>11 DEF TicketsInv

\* A step of a login that changes neither the table nor the tickets, and does not
\* go where the client is taken unless there is one.
LEMMA MoveInv ==
  ASSUME TicketsInv, NEW l \in Login,
         NEW p \in {"new", "list", "drop", "attach", "refused", "panicked"}, Goto(l, p),
         pc[l] \in Running, p = "attach" => conn[UserOf[l]] # None,
         conn[UserOf[l]] = l /\ l \notin Good => p \in {"list", "drop"},
         UNCHANGED <<now, expire, loginHistory, conn, auth, sweep>>
  PROVE  TicketsInv'
<1>1. pc'[l] = p /\ \A k \in Login : k # l => pc'[k] = pc[k]
  BY Gone DEF TicketsInv
<1>2. UNCHANGED <<now, expire, begun, met, conn, auth, sweep>>
  BY DEF loginHistory
<1>3. pc[l] \notin {"idle", "issued", "refused"}
  BY DEF Running
<1>4. TicketsTypeOK'
  <2>1. pc' \in [Login -> Running \cup {"idle", "refused", "panicked", "issued", "aborted"}]
    BY DEF TicketsInv, TicketsTypeOK, Goto, Running
  <2>2. DOMAIN auth' \subseteq {k \in Login : pc'[k] = "issued"}
    BY <1>1, <1>2, <1>3 DEF TicketsInv, TicketsTypeOK
  <2> QED
    BY <1>2, <2>1, <2>2 DEF TicketsInv, TicketsTypeOK
<1>5. Active' \subseteq Active
  BY <1>1 DEF Active
<1>6. OverlapOK'
  BY <1>2, <1>5 DEF OverlapOK, TicketsInv
<1>7. TriedOK'
  <2> SUFFICES ASSUME NEW u \in User, conn[u] \in Login \ Good
               PROVE  pc'[conn[u]] \in {"list", "drop"}
    BY <1>2 DEF TriedOK
  <2>1. UserOf[conn[u]] = u
    BY TicketsAssumption DEF TicketsInv, TicketsTypeOK
  <2> QED
    BY <1>1, <2>1 DEF TriedOK, TicketsInv
<1>8. \A k \in Login : Undercut(k) => Undercut(k)'
  BY <1>1, <1>2, <1>3 DEF Undercut, TicketsInv, TicketsTypeOK
<1>9. AttachOK'
  BY <1>1, <1>2, <1>8 DEF AttachOK, TicketsInv
<1>10. IssuedOK'
  BY <1>2, <1>8 DEF IssuedOK, TicketsInv, TicketsTypeOK
<1>11. ExpireOK'
  BY <1>1, <1>2, <1>3 DEF ExpireOK, TicketsInv
<1> QED
  BY <1>4, <1>6, <1>7, <1>9, <1>10, <1>11 DEF TicketsInv

LEMMA LookupInv ==
  ASSUME TicketsInv, NEW l \in Login, Lookup(l) \/ Refused(l) \/ ListBuckets(l)
  PROVE  TicketsInv'
<1>1. UserOf[l] \in User /\ Good \subseteq Login /\ None \notin Login
  BY TicketsAssumption
<1>2. conn[UserOf[l]] = l /\ l \notin Good => pc[l] \in {"list", "drop"}
  BY <1>1 DEF TicketsInv, TriedOK
<1>3. CASE Lookup(l)
  BY <1>2, <1>3, MoveInv DEF Lookup, Running, Key
<1>4. CASE Refused(l)
  BY <1>2, <1>4, MoveInv DEF Refused, Running
<1>5. CASE ListBuckets(l)
  <2>1. CASE conn[UserOf[l]] = None /\ Goto(l, "panicked")
    BY <1>1, <1>5, <2>1, MoveInv DEF ListBuckets, Running
  <2>2. CASE conn[UserOf[l]] \in Good /\ Goto(l, "attach")
    BY <1>1, <1>5, <2>2, MoveInv DEF ListBuckets, Running
  <2>3. CASE conn[UserOf[l]] # None /\ Goto(l, "drop")
    BY <1>1, <1>5, <2>3, MoveInv DEF ListBuckets, Running
  <2> QED
    BY <1>5, <2>1, <2>2, <2>3 DEF ListBuckets, Key
<1> QED
  BY <1>3, <1>4, <1>5

LEMMA NewClientInv ==
  ASSUME TicketsInv, NEW l \in Login, NewClient(l)
  PROVE  TicketsInv'
<1>1. pc'[l] = "list" /\ \A k \in Login : k # l => pc'[k] = pc[k]
  BY Gone DEF TicketsInv, NewClient
<1>2. UNCHANGED <<now, expire, begun, met, auth, sweep>> /\ pc[l] = "new"
  BY DEF NewClient, loginHistory
<1>3. /\ UserOf[l] \in User /\ conn'[UserOf[l]] = l
      /\ \A u \in User : u # UserOf[l] => conn'[u] = conn[u]
  BY TicketsAssumption DEF NewClient, Key, TicketsInv, TicketsTypeOK
<1>4. TicketsTypeOK'
  <2>1. pc' \in [Login -> Running \cup {"idle", "refused", "panicked", "issued", "aborted"}]
    BY DEF TicketsInv, TicketsTypeOK, NewClient, Goto, Running
  <2>2. DOMAIN auth' \subseteq {k \in Login : pc'[k] = "issued"}
    BY <1>1, <1>2 DEF TicketsInv, TicketsTypeOK
  <2>3. conn' \in [User -> Login \cup {None}]
    BY <1>3 DEF TicketsInv, TicketsTypeOK, NewClient, Key
  <2>4. \A u \in User : conn'[u] # None => UserOf[conn'[u]] = u
    BY <1>3 DEF TicketsInv, TicketsTypeOK
  <2> QED
    BY <1>2, <2>1, <2>2, <2>3, <2>4 DEF TicketsInv, TicketsTypeOK
<1>5. Active' \subseteq Active
  BY <1>1, <1>2 DEF Active, Running
<1>6. OverlapOK'
  BY <1>2, <1>5 DEF OverlapOK, TicketsInv
<1>7. TriedOK'
  BY <1>1, <1>2, <1>3 DEF TriedOK, TicketsInv, TicketsTypeOK
<1>8. \A k \in Login : Undercut(k) => Undercut(k)'
  BY <1>1, <1>2 DEF Undercut, TicketsInv, TicketsTypeOK
<1>9. AttachOK'
  BY <1>1, <1>2, <1>3, <1>8, TicketsAssumption DEF AttachOK, TicketsInv
<1>10. IssuedOK'
  BY <1>2, <1>8 DEF IssuedOK, TicketsInv, TicketsTypeOK
<1>11. ExpireOK'
  BY <1>1, <1>2 DEF ExpireOK, TicketsInv
<1> QED
  BY <1>4, <1>6, <1>7, <1>9, <1>10, <1>11 DEF TicketsInv

\* The login that takes the client out of the table is refused, and every other one
\* that is about to take it has met it.
LEMMA DropInv ==
  ASSUME TicketsInv, NEW l \in Login, Drop(l)
  PROVE  TicketsInv'
<1>1. pc'[l] = "refused" /\ \A k \in Login : k # l => pc'[k] = pc[k]
  BY Gone DEF TicketsInv, Drop
<1>2. UNCHANGED <<now, expire, begun, met, auth, sweep>> /\ pc[l] = "drop"
  BY DEF Drop, loginHistory
<1>3. /\ UserOf[l] \in User /\ conn'[UserOf[l]] = None
      /\ \A u \in User : u # UserOf[l] => conn'[u] = conn[u]
  BY TicketsAssumption DEF Drop, Without, Key, TicketsInv, TicketsTypeOK
<1>4. TicketsTypeOK'
  <2>1. pc' \in [Login -> Running \cup {"idle", "refused", "panicked", "issued", "aborted"}]
    BY DEF TicketsInv, TicketsTypeOK, Drop, Goto, Running
  <2>2. DOMAIN auth' \subseteq {k \in Login : pc'[k] = "issued"}
    BY <1>1, <1>2 DEF TicketsInv, TicketsTypeOK
  <2>3. conn' \in [User -> Login \cup {None}]
    BY <1>3 DEF TicketsInv, TicketsTypeOK, Drop, Without, Key
  <2>4. \A u \in User : conn'[u] # None => UserOf[conn'[u]] = u
    BY <1>3 DEF TicketsInv, TicketsTypeOK
  <2> QED
    BY <1>2, <2>1, <2>2, <2>3, <2>4 DEF TicketsInv, TicketsTypeOK
<1>5. Active' \subseteq Active
  BY <1>1, <1>2 DEF Active, Running
<1>6. OverlapOK'
  BY <1>2, <1>5 DEF OverlapOK, TicketsInv
<1>7. TriedOK'
  <2> SUFFICES ASSUME NEW u \in User, conn'[u] \in Login \ Good
               PROVE  pc'[conn'[u]] \in {"list", "drop"}
    BY DEF TriedOK
  <2>1. u # UserOf[l] /\ conn'[u] = conn[u]
    BY <1>3, TicketsAssumption
  <2>2. conn[u] # l
    BY <2>1, TicketsAssumption DEF TicketsInv, TicketsTypeOK
  <2> QED
    BY <1>1, <2>1, <2>2 DEF TriedOK, TicketsInv
<1>8. \A k \in Login : Undercut(k) => Undercut(k)'
  BY <1>1, <1>2 DEF Undercut, TicketsInv, TicketsTypeOK
<1>9. AttachOK'
  <2> SUFFICES ASSUME NEW k \in Login, pc'[k] = "attach", conn'[UserOf[k]] = None
               PROVE  Undercut(k)'
    BY DEF AttachOK
  <2>1. k # l /\ pc[k] = "attach" /\ UserOf[k] \in User
    BY <1>1, TicketsAssumption
  <2>2. CASE UserOf[k] = UserOf[l]
    <3>1. k \in Active /\ l \in Active
      BY <1>2, <2>1 DEF Active, Running
    <3>2. l \in met'[k]
      BY <1>2, <2>1, <3>1 DEF OverlapOK, TicketsInv
    <3> QED
      BY <1>1, <2>2, <3>2 DEF Undercut
  <2>3. CASE UserOf[k] # UserOf[l]
    BY <1>3, <1>8, <2>1, <2>3 DEF AttachOK, TicketsInv
  <2> QED
    BY <2>2, <2>3
<1>10. IssuedOK'
  BY <1>2, <1>8 DEF IssuedOK, TicketsInv, TicketsTypeOK
<1>11. ExpireOK'
  BY <1>1, <1>2 DEF ExpireOK, TicketsInv
<1> QED
  BY <1>4, <1>6, <1>7, <1>9, <1>10, <1>11 DEF TicketsInv

LEMMA AttachInv ==
  ASSUME TicketsInv, NEW l \in Login, Attach(l)
  PROVE  TicketsInv'
<1>1. pc'[l] = "issued" /\ \A k \in Login : k # l => pc'[k] = pc[k]
  BY Gone DEF TicketsInv, Attach
<1>2. UNCHANGED <<now, expire, begun, met, conn>> /\ pc[l] = "attach"
  BY DEF Attach, loginHistory
<1>3. UserOf[l] \in User /\ conn[UserOf[l]] \in Login \cup {None}
  BY TicketsAssumption DEF TicketsInv, TicketsTypeOK
<1>4. /\ DOMAIN auth' = DOMAIN auth \cup {l} /\ auth'[l] = conn[UserOf[l]]
      /\ \A k \in DOMAIN auth : k # l => auth'[k] = auth[k]
  BY DEF Attach, Key
<1>5. TicketsTypeOK'
  <2>1. pc' \in [Login -> Running \cup {"idle", "refused", "panicked", "issued", "aborted"}]
    BY DEF TicketsInv, TicketsTypeOK, Attach, Goto, Running
  <2>2. DOMAIN auth' \subseteq {k \in Login : pc'[k] = "issued"}
    BY <1>1, <1>4 DEF TicketsInv, TicketsTypeOK
  <2>3. sweep' \in [at : 0 .. now', todo : SUBSET Login]
    BY <1>2 DEF TicketsInv, TicketsTypeOK, Attach
  <2>4. \A k \in DOMAIN auth' : auth'[k] # None => UserOf[auth'[k]] = UserOf[k]
    BY <1>3, <1>4 DEF TicketsInv, TicketsTypeOK
  <2> QED
    BY <1>2, <2>1, <2>2, <2>3, <2>4 DEF TicketsInv, TicketsTypeOK
<1>6. OverlapOK'
  <2>1. Active' \subseteq Active
    BY <1>1 DEF Active, Running
  <2> QED
    BY <1>2, <2>1 DEF OverlapOK, TicketsInv
<1>7. TriedOK'
  BY <1>1, <1>2 DEF TriedOK, TicketsInv, TicketsTypeOK
<1>8. \A k \in Login : Undercut(k) => Undercut(k)'
  BY <1>1, <1>2 DEF Undercut, TicketsInv, TicketsTypeOK
<1>9. AttachOK'
  BY <1>1, <1>2, <1>8 DEF AttachOK, TicketsInv
<1>10. IssuedOK'
  <2> SUFFICES ASSUME NEW k \in DOMAIN auth', auth'[k] \notin Good
               PROVE  Undercut(k)' \/ (auth'[k] \in met'[k] /\ UserOf[auth'[k]] = UserOf[k])
    BY DEF IssuedOK
  <2>1. CASE k # l
    BY <1>2, <1>4, <1>8, <2>1 DEF IssuedOK, TicketsInv, TicketsTypeOK
  <2>2. CASE k = l /\ conn[UserOf[l]] = None
    BY <1>2, <1>8, <2>2 DEF AttachOK, TicketsInv
  <2>3. CASE k = l /\ conn[UserOf[l]] # None
    <3>1. PICK m \in Login : m = conn[UserOf[l]] /\ m = auth'[l] /\ m \notin Good
      BY <1>3, <1>4, <2>3
    <3>2. pc[m] \in {"list", "drop"}
      BY <1>3, <3>1 DEF TriedOK, TicketsInv
    <3>3. UserOf[m] = UserOf[l]
      BY <1>3, <2>3, <3>1 DEF TicketsInv, TicketsTypeOK
    <3>4. m \in Active /\ l \in Active /\ m # l
      BY <1>2, <3>2 DEF Active, Running
    <3> QED
      BY <1>2, <2>3, <3>1, <3>3, <3>4 DEF OverlapOK, TicketsInv
  <2> QED
    BY <2>1, <2>2, <2>3
<1>11. ExpireOK'
  BY <1>1, <1>2 DEF ExpireOK, TicketsInv
<1> QED
  BY <1>5, <1>6, <1>7, <1>9, <1>10, <1>11 DEF TicketsInv

\* Steps that move no login forward: tickets are removed, time passes.
LEMMA SweepInv ==
  ASSUME TicketsInv, UNCHANGED <<loginVars, conn>>, now' \in 0 .. MaxTime, now <= now',
         DOMAIN auth' \subseteq DOMAIN auth, \A k \in DOMAIN auth' : auth'[k] = auth[k],
         sweep' \in [at : 0 .. now', todo : SUBSET Login]
  PROVE  TicketsInv'
<1>1. UNCHANGED <<pc, expire, begun, met, conn>>
  BY DEF loginVars, loginHistory
<1>2. TicketsTypeOK'
  BY <1>1 DEF TicketsInv, TicketsTypeOK
<1>3. OverlapOK' /\ TriedOK' /\ ExpireOK'
  BY <1>1 DEF TicketsInv, OverlapOK, Active, TriedOK, ExpireOK
<1>4. AttachOK' /\ IssuedOK'
  BY <1>1 DEF TicketsInv, AttachOK, IssuedOK, Undercut
<1> QED
  BY <1>2, <1>3, <1>4 DEF TicketsInv

LEMMA LookInv ==
  ASSUME TicketsInv, (\E l \in Login : Look(l)) \/ Wake \/ Tick
  PROVE  TicketsInv'
<1>1. now \in 0 .. MaxTime /\ MaxTime \in Nat
  BY TicketsAssumption DEF TicketsInv, TicketsTypeOK
<1>2. sweep \in [at : 0 .. now, todo : SUBSET Login]
  BY DEF TicketsInv, TicketsTypeOK
<1>3. ASSUME NEW l \in Login, Look(l) PROVE TicketsInv'
  <2>1. sweep' \in [at : 0 .. now, todo : SUBSET Login] /\ now' = now
    BY <1>2, <1>3 DEF Look
  <2>2. DOMAIN auth' \subseteq DOMAIN auth /\ \A k \in DOMAIN auth' : auth'[k] = auth[k]
    BY <1>3 DEF Look
  <2> QED
    BY <1>1, <1>3, <2>1, <2>2, SweepInv DEF Look
<1>4. CASE Wake
  <2>1. DOMAIN auth \subseteq Login
    BY DEF TicketsInv, TicketsTypeOK
  <2>2. sweep' \in [at : 0 .. now, todo : SUBSET Login] /\ now' = now
    BY <1>1, <1>4, <2>1 DEF Wake, Clock
  <2> QED
    BY <1>1, <1>4, <2>2, SweepInv DEF Wake
<1>5. CASE Tick
  <2>1. sweep' \in [at : 0 .. now', todo : SUBSET Login] /\ now' \in 0 .. MaxTime
    BY <1>1, <1>2, <1>5 DEF Tick
  <2> QED
    BY <1>1, <1>5, <2>1, SweepInv DEF Tick
<1> QED
  BY <1>3, <1>4, <1>5

LEMMA AbortInv ==
  ASSUME TicketsInv, Abort
  PROVE  TicketsInv'
<1>1. /\ pc' = [l \in Login |-> IF l \in Active THEN "aborted" ELSE pc[l]]
      /\ conn' = [u \in User |-> None] /\ auth' = <<>> /\ sweep' = Asleep
      /\ UNCHANGED <<now, expire, begun, met>>
  BY DEF Abort, loginHistory
<1>2. Active' = {}
  BY <1>1 DEF Active, Running
<1>3. now \in 0 .. MaxTime /\ MaxTime \in Nat
  BY TicketsAssumption DEF TicketsInv, TicketsTypeOK
<1>4. DOMAIN auth' = {}
  BY <1>1
<1>5. TicketsTypeOK'
  <2>1. pc' \in [Login -> Running \cup {"idle", "refused", "panicked", "issued", "aborted"}]
    BY <1>1 DEF TicketsInv, TicketsTypeOK
  <2>2. sweep' \in [at : 0 .. now', todo : SUBSET Login]
    BY <1>1, <1>3 DEF Asleep
  <2> QED
    BY <1>1, <1>4, <2>1, <2>2 DEF TicketsInv, TicketsTypeOK
<1>6. OverlapOK' /\ TriedOK' /\ IssuedOK'
  BY <1>1, <1>2, <1>4, TicketsAssumption DEF OverlapOK, TriedOK, IssuedOK
<1>7. AttachOK'
  <2>1. \A l \in Login : pc'[l] # "attach"
    BY <1>2 DEF Active, Running
  <2> QED
    BY <2>1 DEF AttachOK
<1>8. ExpireOK'
  BY <1>1 DEF ExpireOK, TicketsInv, Active, Running
<1> QED
  BY <1>5, <1>6, <1>7, <1>8 DEF TicketsInv

LEMMA TicketsStep == TicketsInv /\ [TicketsNext]_ticketVars => TicketsInv'
<1> SUFFICES ASSUME TicketsInv, [TicketsNext]_ticketVars PROVE TicketsInv'
  OBVIOUS
<1>1. CASE UNCHANGED ticketVars
  BY <1>1 DEF ticketVars, loginVars, loginHistory, TicketsInv, TicketsTypeOK, OverlapOK,
     Active, TriedOK, AttachOK, IssuedOK, Undercut, ExpireOK
<1>2. ASSUME NEW l \in Login, Begin(l) \/ Step(l) PROVE TicketsInv'
  BY <1>2, BeginInv, LookupInv, NewClientInv, DropInv, AttachInv DEF Step
<1> QED
  BY <1>1, <1>2, LookInv, AbortInv DEF TicketsNext

LEMMA TicketsInductive == TicketsSpec => []TicketsInv
BY TicketsStart, TicketsStep, PTL DEF TicketsSpec

-----------------------------------------------------------------------------
\* Type correctness: a client is only ever used for the user it was made for, whatever
\* the logins read from and write to the table in between.
THEOREM TicketsTypeCorrect == TicketsSpec => []TicketsTypeOK
<1>1. TicketsInv => TicketsTypeOK
  BY DEF TicketsInv
<1> QED
  BY <1>1, TicketsInductive, PTL

\* For any number of logins and users: a login that fails disturbs only the logins of
\* the same user that it overlaps.
THEOREM FailuresStayLocal == TicketsSpec => []FailureStaysLocal
<1>1. ASSUME TicketsInv PROVE FailureStaysLocal
  <2> SUFFICES ASSUME NEW l \in DOMAIN auth, auth[l] \notin Good
               PROVE  \E k \in met[l] : UserOf[k] = UserOf[l] /\ (k \notin Good \/ pc[k] # "issued")
    BY DEF FailureStaysLocal
  <2>1. CASE Undercut(l)
    BY <2>1 DEF Undercut
  <2>2. CASE auth[l] \in met[l] /\ UserOf[auth[l]] = UserOf[l]
    BY <2>2
  <2> QED
    BY <1>1, <2>1, <2>2 DEF TicketsInv, IssuedOK
<1> QED
  BY <1>1, TicketsInductive, PTL

\* No ticket is removed before its time is over, unless the process ends: the sweep
\* compares with a time it has read, and that is never ahead of the clock.
THEOREM TicketsLast == TicketsSpec => NeverEarly
<1> DEFINE Early == \A l \in DOMAIN auth :
                      l \notin DOMAIN auth' => now > begun[l] + TTL \/ pc' # pc
<1>1. ASSUME TicketsInv, [TicketsNext]_ticketVars PROVE [Early]_ticketVars
  <2> SUFFICES ASSUME TicketsNext, NEW l \in DOMAIN auth, l \notin DOMAIN auth', pc' = pc
               PROVE  now > begun[l] + TTL
    BY <1>1
  <2>1. l \in Login /\ pc[l] = "issued"
    BY <1>1 DEF TicketsInv, TicketsTypeOK
  <2>2. ASSUME NEW k \in Login, Look(k) PROVE now > begun[l] + TTL
    <3>1. k = l /\ Expired(l)
      BY <2>2 DEF Look
    <3>2. expire[l] = begun[l] + TTL /\ sweep.at \in 0 .. now /\ now \in Nat /\ begun[l] \in Nat
      BY <1>1, <2>1, TicketsAssumption DEF TicketsInv, TicketsTypeOK, ExpireOK
    <3> QED
      BY <3>1, <3>2, TicketsAssumption DEF Expired
  <2>3. CASE Abort
    <3>1. PICK k \in Login : Writes(k)
      BY <2>3 DEF Abort
    <3>2. pc[k] \in {"new", "drop"} /\ pc'[k] = "aborted"
      BY <2>3, <3>1 DEF Abort, Writes, Active, Running
    <3> QED
      BY <3>2
  <2>4. ASSUME NEW k \in Login, Attach(k) PROVE FALSE
    BY <2>4 DEF Attach
  <2> QED
    BY <2>2, <2>3, <2>4 DEF TicketsNext, Begin, Step, Lookup, NewClient, Refused, ListBuckets,
       Drop, Wake, Tick
<1> QED
  BY <1>1, TicketsInductive, PTL DEF TicketsSpec, NeverEarly
=============================================================================
