---------------------- MODULE EndpointSupervisorProofs ----------------------
(***************************************************************************)
(* What EndpointSupervisor checks on three adapters and three changes of   *)
(* the demand, for every set of keys, every adapter and every number of    *)
(* changes and failures: the bookkeeping of a connection is exact, its     *)
(* commands lead the venue to the demand, Live means confirmed, and no     *)
(* change of the demand is lost.                                           *)
(***************************************************************************)
EXTENDS EndpointSupervisor, FiniteSetTheorems, SequenceTheorems, TLAPS

-----------------------------------------------------------------------------
(* The inductive invariant *)

Command == [id : Nat, action : {"subscribe", "unsubscribe"}, topics : SUBSET Topics(Keys)]
Frame == [kind : {"ack", "reject"}, id : Nat]
Wire == [up : Seq(Command), down : Seq(Frame), subscribed : SUBSET Topics(Keys)]
Health == [state : {"Idle", "Connecting", "Live", "Backoff", "Stopped"},
           epoch : BOOLEAN, desired_subscriptions : Nat]

\* c has the fields of run_connection's local variables.
Shape(c) ==
    c = [desired |-> c.desired, queued |-> c.queued, pending |-> c.pending,
         known |-> c.known, next_id |-> c.next_id, live |-> c.live,
         deadline |-> c.deadline, idle_after |-> c.idle_after]

Conn(c) ==
    /\ Shape(c)
    /\ c.desired \subseteq Keys
    /\ c.queued \in Seq(Command)
    /\ c.next_id \in Nat
    /\ c.live \in BOOLEAN /\ c.deadline \in BOOLEAN

TypeOK ==
    /\ adapter \in Adapters
    /\ snapshot \subseteq Keys
    /\ unseen \in BOOLEAN
    /\ health \in Health

\* The local variables of run_connection exist only while it runs, and the
\* socket only while it is connected.
Scoped ==
    /\ pc \in {"check", "idle", "backoff", "stopped"} => conn = NoConn
    /\ pc = "connecting" => conn = [NoConn EXCEPT !.desired = conn.desired]
    /\ pc # "connected" => wire = NoWire

\* The commands in the queue have the last ids given out; those sent have
\* smaller ones.
FirstQueued(c) == c.next_id - Len(c.queued)

Numbered(c) ==
    /\ Len(c.queued) < c.next_id
    /\ \A i \in DOMAIN c.queued : c.queued[i].id = FirstQueued(c) + i - 1
    /\ \A id \in DOMAIN c.pending : id \in Nat \ {0} /\ id < FirstQueued(c)
    /\ c.known = DOMAIN c.pending \cup {c.queued[i].id : i \in DOMAIN c.queued}

\* No acknowledgement of id is on its way.
Unanswered(down, id) == \A n \in DOMAIN down : ~ (down[n].kind = "ack" /\ down[n].id = id)

\* Commands on their way have ids of their own, and one that will be
\* acknowledged is pending and has not been answered.
InFlight(c, w) ==
    /\ \A i \in DOMAIN w.up :
          /\ 0 < w.up[i].id /\ w.up[i].id < FirstQueued(c)
          /\ Acks(w.up[i]) # 0 => /\ w.up[i].id \in DOMAIN c.pending
                                  /\ Unanswered(w.down, w.up[i].id)
    /\ \A i, j \in DOMAIN w.up : i # j => w.up[i].id # w.up[j].id
    /\ \A n \in DOMAIN w.down : w.down[n].id < FirstQueued(c)

\* A command that was sent and will never be acknowledged.
Doomed(c, w) ==
    \E id \in DOMAIN c.pending : /\ \A i \in DOMAIN w.up : w.up[i].id # id
                                 /\ Unanswered(w.down, id)

Rejected(w) == \E n \in DOMAIN w.down : w.down[n].kind = "reject"

Leads(c, w, t) == Reaches(w.up \o c.queued, w.subscribed, t)

\* The commands lead the venue to every topic of the demand unless one of them
\* stays unacknowledged, and to no other topic unless one of them was refused.
Steered(c, w) ==
    /\ \A t \in Topics(c.desired) : Leads(c, w, t) \/ Doomed(c, w)
    /\ ~ Rejected(w) => \A t \in Topics(Keys) : t \in Topics(c.desired) <=> Leads(c, w, t)

\* The deadline and the live flag of a connection.
Timed(c) ==
    /\ DOMAIN c.pending # {} => c.deadline
    /\ ReadinessComplete(c) => ~ c.deadline
    /\ c.live => ReadinessComplete(c)

LiveFlag == Connected => conn.live = (health.state = "Live")

\* The count readiness looks at is that of the current demand, and only a
\* connection is ever live.
Published ==
    /\ ~ unseen /\ pc # "check" => health.desired_subscriptions = Cardinality(Wanted)
    /\ health.state = "Live" => pc \in {"connected", "exiting", "check"}

Sound(c, w) == Conn(c) /\ w \in Wire /\ Numbered(c) /\ InFlight(c, w)
Led(c, w) == Steered(c, w) /\ Timed(c)

IInv ==
    /\ TypeOK /\ Scoped
    /\ Sound(conn, wire)
    /\ Connected => Led(conn, wire)
    /\ LiveFlag /\ NoLostDemand /\ Published

-----------------------------------------------------------------------------
(* Sequences end to end *)

\* u is s followed by t.
Join(s, t, u) ==
    /\ Len(s) \in Nat /\ Len(t) \in Nat /\ Len(u) = Len(s) + Len(t)
    /\ DOMAIN s = 1 .. Len(s) /\ DOMAIN t = 1 .. Len(t)
    /\ \A i \in DOMAIN s : i \in DOMAIN u /\ u[i] = s[i]
    /\ \A i \in DOMAIN t : Len(s) + i \in DOMAIN u /\ u[Len(s) + i] = t[i]
    /\ \A n \in DOMAIN u : n \in DOMAIN s \/ \E i \in DOMAIN t : n = Len(s) + i

LEMMA Joined ==
    ASSUME NEW S, NEW s \in Seq(S), NEW t \in Seq(S)
    PROVE  s \o t \in Seq(S) /\ Join(s, t, s \o t)
<1>. DEFINE m == Len(s)
            l == Len(t)
            u == s \o t
<1>1. m \in Nat /\ l \in Nat /\ DOMAIN s = 1 .. m /\ DOMAIN t = 1 .. l
  BY LenProperties
<1>2. /\ u \in Seq(S) /\ Len(u) = m + l
      /\ \A i \in 1 .. (m + l) : u[i] = IF i <= m THEN s[i] ELSE t[i - m]
  BY ConcatProperties
<1>3. DOMAIN u = 1 .. (m + l)
  BY <1>2, LenProperties
<1>. HIDE DEF m, l, u
<1>4. \A i \in DOMAIN s : i \in DOMAIN u /\ u[i] = s[i]
  BY <1>1, <1>2, <1>3
<1>5. \A i \in DOMAIN t : m + i \in DOMAIN u /\ u[m + i] = t[i]
  <2>1. ASSUME NEW i \in 1 .. l
        PROVE  m + i \in 1 .. (m + l) /\ ~ (m + i <= m) /\ (m + i) - m = i
    BY <1>1
  <2>. QED
    BY <2>1, <1>1, <1>2, <1>3
<1>6. \A n \in DOMAIN u : n \in DOMAIN s \/ \E i \in DOMAIN t : n = m + i
  <2>1. ASSUME NEW n \in 1 .. (m + l), n \notin 1 .. m
        PROVE  n - m \in 1 .. l /\ n = m + (n - m)
    BY <2>1, <1>1
  <2>. QED
    BY <2>1, <1>1, <1>3, Zenon
<1>. QED
  BY <1>1, <1>2, <1>4, <1>5, <1>6 DEF m, l, u, Join

\* q is h followed by r.
Pop(q, h, r) ==
    /\ Len(q) \in Nat \ {0} /\ Len(r) = Len(q) - 1
    /\ DOMAIN q \subseteq Nat \ {0} /\ DOMAIN r \subseteq Nat \ {0}
    /\ 1 \in DOMAIN q /\ q[1] = h
    /\ \A i \in DOMAIN r : i + 1 \in DOMAIN q /\ r[i] = q[i + 1]
    /\ \A i \in DOMAIN q : i > 1 => i - 1 \in DOMAIN r /\ q[i] = r[i - 1]

LEMMA Popped ==
    ASSUME NEW S, NEW q \in Seq(S), q # <<>>
    PROVE  Head(q) \in S /\ Tail(q) \in Seq(S) /\ Pop(q, Head(q), Tail(q))
<1>. DEFINE m == Len(q)
            r == Tail(q)
<1>1. /\ m \in Nat \ {0} /\ DOMAIN q = 1 .. m
      /\ r \in Seq(S) /\ Len(r) = m - 1 /\ DOMAIN r = 1 .. (m - 1)
      /\ \A i \in 1 .. (m - 1) : r[i] = q[i + 1]
      /\ Head(q) = q[1] /\ Head(q) \in S
  BY HeadTailProperties, LenProperties, EmptySeq
<1>. HIDE DEF r, m
<1>2. \A i \in DOMAIN r : i + 1 \in DOMAIN q /\ r[i] = q[i + 1]
  BY <1>1
<1>3. ASSUME NEW i \in DOMAIN q, i > 1 PROVE i - 1 \in DOMAIN r /\ q[i] = r[i - 1]
  <2>1. i - 1 \in 1 .. (m - 1) /\ (i - 1) + 1 = i
    BY <1>1, <1>3
  <2>. QED
    BY <2>1, <1>1
<1>. QED
  BY <1>1, <1>2, <1>3 DEF Pop, r, m

LEMMA HeadFirst ==
    ASSUME NEW S, NEW q \in Seq(S), q # <<>>
    PROVE  <<Head(q)>> \in Seq(S) /\ <<Head(q)>> \o Tail(q) = q
<1>1. Head(q) \in S /\ Tail(q) = SubSeq(q, 2, Len(q)) /\ 1 \in 1 .. Len(q) /\ Head(q) = q[1]
      /\ Len(q) \in 1 .. Len(q)
  BY HeadTailProperties, TailIsSubSeq, EmptySeq
<1>2. SubSeq(q, 1, Len(q)) = <<q[1]>> \o SubSeq(q, 1 + 1, Len(q))
  BY <1>1, SubSeqRecursiveFirst
<1>3. SubSeq(q, 1, Len(q)) = q
  BY SubSeqFull
<1>. QED
  BY <1>1, <1>2, <1>3

LEMMA MovedAcross ==
    ASSUME NEW S, NEW p \in Seq(S), NEW q \in Seq(S), q # <<>>
    PROVE  Append(p, Head(q)) \o Tail(q) = p \o q
<1>1. Head(q) \in S /\ Tail(q) \in Seq(S)
  BY HeadTailProperties
<1>2. <<Head(q)>> \in Seq(S) /\ <<Head(q)>> \o Tail(q) = q
  BY HeadFirst
<1>3. Append(p, Head(q)) = p \o <<Head(q)>>
  BY <1>1, AppendIsConcat
<1>4. (p \o <<Head(q)>>) \o Tail(q) = p \o (<<Head(q)>> \o Tail(q))
  BY <1>1, <1>2, ConcatAssociative
<1>. QED
  BY <1>2, <1>3, <1>4

LEMMA TailJoined ==
    ASSUME NEW S, NEW p \in Seq(S), NEW q \in Seq(S), p # <<>>
    PROVE  /\ p \o q \in Seq(S) /\ p \o q # <<>>
           /\ Head(p \o q) = Head(p) /\ Tail(p \o q) = Tail(p) \o q
<1>. DEFINE u == p \o q
            v == Tail(p) \o q
<1>1. u \in Seq(S) /\ Join(p, q, u) /\ Pop(p, Head(p), Tail(p)) /\ Tail(p) \in Seq(S)
  BY Joined, Popped
<1>2. v \in Seq(S) /\ Join(Tail(p), q, v)
  BY <1>1, Joined, Zenon
<1>. HIDE DEF u, v
<1>3. Len(u) = Len(p) + Len(q) /\ Len(p) \in Nat \ {0} /\ Len(q) \in Nat
      /\ Len(v) = (Len(p) - 1) + Len(q)
  BY <1>1, <1>2 DEF Join, Pop
<1>4. u # <<>>
  BY <1>3, EmptySeq
<1>5. Pop(u, Head(u), Tail(u)) /\ Tail(u) \in Seq(S)
  BY <1>1, <1>4, Popped
<1>6. Head(u) = Head(p)
  BY <1>1, <1>5 DEF Join, Pop
<1>7. Tail(u) = v
  <2>1. Len(Tail(u)) = Len(v) /\ DOMAIN Tail(u) = 1 .. Len(Tail(u)) /\ DOMAIN v = 1 .. Len(v)
    BY <1>2, <1>3, <1>5, LenProperties DEF Pop
  <2>2. ASSUME NEW i \in DOMAIN v PROVE Tail(u)[i] = v[i]
    <3>1. i \in Nat \ {0} /\ Tail(u)[i] = u[i + 1] /\ i + 1 \in DOMAIN u
      BY <2>1, <1>5 DEF Pop
    <3>2. CASE i \in DOMAIN Tail(p)
      <4>1. i + 1 \in DOMAIN p /\ Tail(p)[i] = p[i + 1]
        BY <3>2, <1>1 DEF Pop
      <4>2. v[i] = Tail(p)[i]
        BY <3>2, <1>2 DEF Join
      <4>3. u[i + 1] = p[i + 1]
        BY <4>1, <1>1 DEF Join
      <4>. QED
        BY <3>1, <4>1, <4>2, <4>3
    <3>3. CASE i \notin DOMAIN Tail(p)
      <4>1. PICK j \in DOMAIN q : i = Len(Tail(p)) + j
        BY <3>3, <1>2 DEF Join
      <4>2. v[i] = q[j]
        BY <4>1, <1>2 DEF Join
      <4>3. i + 1 = Len(p) + j
        <5>1. Len(Tail(p)) = Len(p) - 1 /\ j \in Nat
          BY <1>1 DEF Pop, Join
        <5>. QED
          BY <5>1, <4>1, <1>3
      <4>4. u[i + 1] = q[j]
        BY <4>3, <1>1 DEF Join
      <4>. QED
        BY <3>1, <4>2, <4>4, Zenon
    <3>. QED
      BY <3>2, <3>3, Zenon
  <2>. QED
    BY <2>1, <2>2, <1>2, <1>5, SeqEqual
<1>. QED
  BY <1>1, <1>4, <1>6, <1>7 DEF u, v

\* It does not matter which two of three sequences are joined first.
Regroups(p, q, t) == (p \o q) \o t = p \o (q \o t)

LEMMA JoinedTwice ==
    ASSUME NEW S, NEW p \in Seq(S), NEW q \in Seq(S), NEW t \in Seq(S)
    PROVE  Regroups(p, q, t)
<1>. DEFINE u == p \o q
            v == u \o t
            e == q \o t
            x == p \o e
<1>1. u \in Seq(S) /\ Join(p, q, u) /\ e \in Seq(S) /\ Join(q, t, e)
  BY Joined, Zenon
<1>. HIDE DEF u, e
<1>2. v \in Seq(S) /\ Join(u, t, v) /\ x \in Seq(S) /\ Join(p, e, x)
  BY <1>1, Joined, Zenon
<1>. HIDE DEF v, x
<1>3. /\ Len(p) \in Nat /\ Len(q) \in Nat /\ Len(t) \in Nat
      /\ Len(u) = Len(p) + Len(q) /\ Len(v) = Len(u) + Len(t)
      /\ Len(e) = Len(q) + Len(t) /\ Len(x) = Len(p) + Len(e)
  BY <1>1, <1>2, Zenon DEF Join
<1>4. Len(x) = Len(v)
  BY <1>3
<1>5. ASSUME NEW i \in DOMAIN x PROVE v[i] = x[i]
  <2>1. CASE i \in DOMAIN p
    BY <2>1, <1>1, <1>2, Zenon DEF Join
  <2>2. CASE i \notin DOMAIN p
    <3>1. PICK j \in DOMAIN e : i = Len(p) + j
      BY <2>2, <1>2, Zenon DEF Join
    <3>2. x[i] = e[j]
      BY <3>1, <1>2, Zenon DEF Join
    <3>3. CASE j \in DOMAIN q
      BY <3>1, <3>2, <3>3, <1>1, <1>2, Zenon DEF Join
    <3>4. CASE j \notin DOMAIN q
      <4>1. PICK k \in DOMAIN t : j = Len(q) + k
        BY <3>4, <1>1, Zenon DEF Join
      <4>2. e[j] = t[k] /\ v[Len(u) + k] = t[k] /\ k \in 1 .. Len(t)
        BY <4>1, <1>1, <1>2, Zenon DEF Join
      <4>3. Len(u) + k = i
        BY <4>1, <4>2, <3>1, <1>3
      <4>. QED
        BY <4>2, <4>3, <3>2, Zenon
    <3>. QED
      BY <3>3, <3>4, Zenon
  <2>. QED
    BY <2>1, <2>2, Zenon
<1>. QED
  <2>1. v = x
    BY <1>2, <1>4, <1>5, SeqEqual, LenProperties
  <2>. QED
    BY <2>1, Zenon DEF u, v, e, x, Regroups

\* Two batches behind a queue that is behind what was sent.
Behind(up, q, b1, b2) ==
    /\ up \o ((q \o b1) \o b2) = ((up \o q) \o b1) \o b2
    /\ (q \o b1) \o b2 = <<>> => q = <<>>
    /\ b1 = <<>> /\ b2 = <<>> => (q \o b1) \o b2 = q

LEMMA TwoBatches ==
    ASSUME NEW S, NEW up \in Seq(S), NEW q \in Seq(S), NEW b1 \in Seq(S), NEW b2 \in Seq(S)
    PROVE  Behind(up, q, b1, b2)
<1>. DEFINE e == q \o b1
<1>1. (up \o q) \o b1 = up \o e
  <2>1. Regroups(up, q, b1)
    BY JoinedTwice, Zenon
  <2>. QED
    BY <2>1, Zenon DEF Regroups
<1>2. e \in Seq(S) /\ (e = <<>> => q = <<>>) /\ (b1 = <<>> => e = q)
  BY ConcatProperties, ConcatEqualIffEmpty, ConcatEmptySeq
<1>. HIDE DEF e
<1>3. Regroups(up, e, b2)
  BY <1>2, JoinedTwice, Zenon
<1>4. e \o b2 = <<>> => e = <<>>
  BY <1>2, ConcatEqualIffEmpty
<1>5. b2 = <<>> => e \o b2 = e
  BY <1>2, ConcatEmptySeq
<1>. QED
  BY <1>1, <1>2, <1>3, <1>4, <1>5 DEF e, Behind, Regroups

\* u is s with e at its end.
Grown(s, e, u) ==
    /\ \A i \in DOMAIN s : i \in DOMAIN u /\ u[i] = s[i]
    /\ \A i \in DOMAIN u : i \in DOMAIN s \/ (i = Len(s) + 1 /\ u[i] = e)
    /\ \E i \in DOMAIN u : u[i] = e

LEMMA Appended ==
    ASSUME NEW S, NEW s \in Seq(S), NEW e \in S
    PROVE  Append(s, e) \in Seq(S) /\ Grown(s, e, Append(s, e))
<1>. DEFINE m == Len(s)
            u == Append(s, e)
<1>1. /\ m \in Nat /\ DOMAIN s = 1 .. m
      /\ u \in Seq(S) /\ Len(u) = m + 1
      /\ \A i \in 1 .. m : u[i] = s[i]
      /\ u[m + 1] = e
  BY AppendProperties, LenProperties
<1>2. DOMAIN u = 1 .. (m + 1)
  BY <1>1, LenProperties
<1>. HIDE DEF m, u
<1>3. \A i \in DOMAIN s : i \in DOMAIN u /\ u[i] = s[i]
  BY <1>1, <1>2
<1>4. \A i \in DOMAIN u : i \in DOMAIN s \/ (i = m + 1 /\ u[i] = e)
  BY <1>1, <1>2
<1>5. \E i \in DOMAIN u : u[i] = e
  BY <1>1, <1>2
<1>. QED
  BY <1>1, <1>3, <1>4, <1>5 DEF Grown, m, u

-----------------------------------------------------------------------------
(* The commands of a set of keys *)

LEMMA TopicsFinite ==
    ASSUME adapter \in Adapters, NEW K \in SUBSET Keys
    PROVE  /\ IsFiniteSet(K) /\ Cardinality(K) \in Nat
           /\ IsFiniteSet(Topics(K)) /\ Cardinality(Topics(K)) \in Nat
           /\ Cardinality(Topics(K)) = Cardinality(K) * TopicsPerKey
<1>1. IsFiniteSet(K)
  BY SupervisorAssumption, FS_Subset, Zenon
<1>2. TopicsPerKey \in Nat \ {0}
  BY SupervisorAssumption DEF TopicsPerKey
<1>3. IsFiniteSet(1 .. TopicsPerKey) /\ Cardinality(1 .. TopicsPerKey) = TopicsPerKey
  BY <1>2, FS_Interval
<1>4. /\ IsFiniteSet(K \X (1 .. TopicsPerKey))
      /\ Cardinality(K \X (1 .. TopicsPerKey)) = Cardinality(K) * Cardinality(1 .. TopicsPerKey)
  BY <1>1, <1>3, FS_Product, Zenon
<1>. QED
  BY <1>1, <1>3, <1>4, FS_CardinalityType DEF Topics

\* A topic's place is below the number of topics, as its key counts itself out.
LEMMA PlaceBound ==
    ASSUME adapter \in Adapters, NEW K \in SUBSET Keys, NEW t \in Topics(K)
    PROVE  Place(K, t) \in Nat /\ Place(K, t) < Cardinality(Topics(K))
<1>. DEFINE before == {k \in K : k < t[1]}
            b == Cardinality(before)
            n == Cardinality(K)
            p == TopicsPerKey
<1>1. t[1] \in K /\ t[2] \in 1 .. p /\ p \in Nat \ {0}
  BY SupervisorAssumption DEF Topics, TopicsPerKey
<1>2. IsFiniteSet(K) /\ n \in Nat /\ Cardinality(Topics(K)) = n * p
  BY TopicsFinite
<1>3. before \subseteq K \ {t[1]}
  <2>1. PICK key \in Nat : key = t[1]
    BY <1>1, SupervisorAssumption, Zenon
  <2>2. \A k \in before : k # key
    BY <2>1
  <2>. QED
    BY <2>1, <2>2
<1>4. IsFiniteSet(K \ {t[1]}) /\ Cardinality(K \ {t[1]}) = n - 1
  BY <1>1, <1>2, FS_RemoveElement
<1>5. b \in Nat /\ b <= n - 1
  BY <1>2, <1>3, <1>4, FS_Subset, FS_CardinalityType
<1>6. Place(K, t) = b * p + t[2] - 1
  BY DEF Place
<1>. HIDE DEF b, n, p
<1>7. b * p + p <= n * p
  <2>1. (b + 1) * p <= n * p
    <3>1. PICK d \in Nat : n = (b + 1) + d
      <4>1. n - (b + 1) \in Nat
        BY <1>2, <1>5
      <4>. QED
        BY <4>1, <1>2, <1>5
    <3>2. n * p = (b + 1) * p + d * p
      BY <3>1, <1>1, <1>5
    <3>3. d * p \in Nat
      BY <1>1
    <3>. QED
      BY <3>1, <3>2, <3>3, <1>1, <1>5
  <2>. QED
    BY <2>1, <1>1, <1>2, <1>5
<1>8. b * p \in Nat /\ n * p \in Nat
  BY <1>1, <1>2, <1>5
<1>. QED
  BY <1>1, <1>2, <1>6, <1>7, <1>8

\* The commands of a set of keys: numbered from first, each topic of the keys in
\* exactly one of them and no other topic in any.
Batch(batch, action, K, first) ==
    /\ batch \in Seq(Command)
    /\ \A i \in DOMAIN batch : /\ batch[i].id = first + i - 1
                               /\ batch[i].action = action
                               /\ batch[i].topics \subseteq Topics(K)
    /\ \A t \in Topics(K) :
          \E i \in DOMAIN batch : /\ t \in batch[i].topics
                                  /\ \A j \in DOMAIN batch : t \in batch[j].topics => j = i

LEMMA CommandsBatch ==
    ASSUME adapter \in Adapters, NEW action \in {"subscribe", "unsubscribe"},
           NEW K \in SUBSET Keys, NEW first \in Nat \ {0}
    PROVE  /\ Batch(Commands(action, K, first), action, K, first)
           /\ K = {} => Commands(action, K, first) = <<>>
<1>. DEFINE c == TopicsPerCommand
            n == Cardinality(Topics(K))
            chunks == (n + c - 1) \div c
            chunk(i) == {t \in Topics(K) : Place(K, t) \div c = i - 1}
            command(i) == [id |-> first + i - 1, action |-> action, topics |-> chunk(i)]
            batch == Commands(action, K, first)
<1>1. c \in Nat \ {0} /\ n \in Nat
  BY SupervisorAssumption, TopicsFinite DEF TopicsPerCommand
<1>2. \A t \in Topics(K) : Place(K, t) \in Nat /\ Place(K, t) < n
  BY PlaceBound
<1>3. batch = [i \in 1 .. chunks |-> command(i)]
  BY DEF Commands
<1>4. Topics(K) \subseteq Topics(Keys)
  BY DEF Topics
<1>. HIDE DEF n, c, batch
<1>5. chunks \in Nat
  BY <1>1
<1>6. \A i \in 1 .. chunks : command(i) \in Command
  BY <1>4, <1>5 DEF Command
<1>. HIDE DEF chunks
<1>7. batch \in Seq(Command) /\ DOMAIN batch = 1 .. chunks
  <2>. HIDE DEF command
  <2>1. batch \in [1 .. chunks -> Command]
    BY <1>3, <1>6
  <2>. QED
    BY <2>1, <1>5, SeqDef
<1>8. \A i \in DOMAIN batch : /\ batch[i].id = first + i - 1
                              /\ batch[i].action = action
                              /\ batch[i].topics = chunk(i)
  BY <1>3, <1>7
<1>9. ASSUME NEW t \in Topics(K)
      PROVE  \E i \in DOMAIN batch : /\ t \in batch[i].topics
                                     /\ \A j \in DOMAIN batch : t \in batch[j].topics => j = i
  <2>. DEFINE q == Place(K, t) \div c
  <2>1. q \in Nat /\ q < chunks
    BY <1>1, <1>2 DEF chunks
  <2>2. t \in chunk(q + 1) /\ q + 1 \in 1 .. chunks
    BY <2>1, <1>5
  <2>3. \A j \in 1 .. chunks : t \in chunk(j) => j = q + 1
    BY <2>1, <1>5
  <2>4. PICK i \in DOMAIN batch : i = q + 1
    BY <2>2, <1>7
  <2>5. t \in batch[i].topics
    BY <2>2, <2>4, <1>8
  <2>6. \A j \in DOMAIN batch : t \in batch[j].topics => j = i
    BY <2>3, <2>4, <1>7, <1>8
  <2>. QED
    BY <2>5, <2>6
<1>10. Batch(batch, action, K, first)
  BY <1>7, <1>8, <1>9 DEF Batch
<1>11. ASSUME K = {} PROVE batch = <<>>
  <2>1. Topics(K) = {} /\ n = 0
    BY <1>11, FS_EmptySet DEF Topics, n
  <2>2. chunks = 0
    BY <2>1, <1>1 DEF chunks
  <2>. QED
    BY <2>2, <1>3
<1>. QED
  BY <1>10, <1>11 DEF batch

\* A command that no acknowledgement is expected for subscribes nothing.
LEMMA AcksType ==
    ASSUME adapter \in Adapters, NEW command \in Command
    PROVE  /\ Acks(command) \in Nat
           /\ Acks(command) = 0 /\ command.action = "subscribe" => command.topics = {}
<1>1. /\ IsFiniteSet(command.topics)
      /\ command.action \in {"subscribe", "unsubscribe"}
  BY TopicsFinite, FS_Subset DEF Command
<1>2. /\ Cardinality(command.topics) \in Nat
      /\ Cardinality(command.topics) = 0 => command.topics = {}
  BY <1>1, FS_CardinalityType, FS_EmptySet
<1>3. AckPerTopic \in BOOLEAN /\ UnsubscribeAcked \in BOOLEAN
  BY SupervisorAssumption DEF AckPerTopic, UnsubscribeAcked
<1>4. CASE command.action = "unsubscribe" /\ ~ UnsubscribeAcked
  BY <1>4 DEF Acks
<1>5. CASE ~ (command.action = "unsubscribe" /\ ~ UnsubscribeAcked) /\ AckPerTopic
  BY <1>5, <1>2 DEF Acks
<1>6. CASE ~ (command.action = "unsubscribe" /\ ~ UnsubscribeAcked) /\ ~ AckPerTopic
  BY <1>6 DEF Acks
<1>. QED
  BY <1>3, <1>4, <1>5, <1>6

\* e is c with the commands of K queued.
Enqueued(e, c, action, K) ==
    /\ Conn(e) /\ Numbered(e)
    /\ e.desired = c.desired /\ e.pending = c.pending /\ e.live = c.live
    /\ e.deadline = c.deadline /\ e.idle_after = c.idle_after
    /\ FirstQueued(e) = FirstQueued(c)
    /\ \E batch : /\ Batch(batch, action, K, c.next_id)
                  /\ e.queued = c.queued \o batch
                  /\ K = {} => batch = <<>>

\* queue_subscription_diff only appends to the queue, and keeps its numbering.
LEMMA EnqueueFields ==
    ASSUME adapter \in Adapters, NEW c, Conn(c), Numbered(c),
           NEW action \in {"subscribe", "unsubscribe"}, NEW K \in SUBSET Keys
    PROVE  Enqueued(Enqueue(c, action, K), c, action, K)
<1>. DEFINE batch == Commands(action, K, c.next_id)
            m == Len(c.queued)
            l == Len(batch)
            e == Enqueue(c, action, K)
<1>1. /\ Shape(c) /\ c.queued \in Seq(Command) /\ m \in Nat /\ c.next_id \in Nat \ {0}
      /\ m < c.next_id
  BY LenProperties DEF Conn, Numbered
<1>2. Batch(batch, action, K, c.next_id) /\ (K = {} => batch = <<>>)
  BY <1>1, CommandsBatch
<1>. HIDE DEF batch
<1>3. batch \in Seq(Command) /\ l \in Nat /\ DOMAIN batch = 1 .. l
  BY <1>2, LenProperties DEF Batch
<1>4. /\ Shape(e)
      /\ e.queued = c.queued \o batch
      /\ e.known = c.known \cup {batch[i].id : i \in 1 .. l}
      /\ e.next_id = c.next_id + l
      /\ e.desired = c.desired /\ e.pending = c.pending /\ e.live = c.live
      /\ e.deadline = c.deadline /\ e.idle_after = c.idle_after
  <2>1. e = [c EXCEPT !.queued = @ \o batch,
                      !.known = @ \cup {batch[i].id : i \in 1 .. l},
                      !.next_id = @ + l]
    BY DEF Enqueue, batch
  <2>. HIDE DEF e, l
  <2>. QED
    BY <2>1, <1>1, Zenon DEF Shape
<1>. HIDE DEF e
<1>5. /\ e.queued \in Seq(Command) /\ Len(e.queued) = m + l
      /\ DOMAIN c.queued = 1 .. m
      /\ \A i \in DOMAIN c.queued : i \in DOMAIN e.queued /\ e.queued[i] = c.queued[i]
      /\ \A i \in DOMAIN batch : m + i \in DOMAIN e.queued /\ e.queued[m + i] = batch[i]
      /\ \A n \in DOMAIN e.queued : n \in DOMAIN c.queued \/ \E i \in DOMAIN batch : n = m + i
  <2>. DEFINE q == c.queued
  <2>1. q \in Seq(Command) /\ m = Len(q) /\ l = Len(batch) /\ e.queued = q \o batch
    BY <1>1, <1>4
  <2>. HIDE DEF q, m, l
  <2>2. /\ e.queued \in Seq(Command) /\ Len(e.queued) = m + l
        /\ DOMAIN q = 1 .. m
        /\ \A i \in DOMAIN q : i \in DOMAIN e.queued /\ e.queued[i] = q[i]
        /\ \A i \in DOMAIN batch : m + i \in DOMAIN e.queued /\ e.queued[m + i] = batch[i]
        /\ \A n \in DOMAIN e.queued : n \in DOMAIN q \/ \E i \in DOMAIN batch : n = m + i
    <3>1. e.queued \in Seq(Command) /\ Join(q, batch, e.queued)
      BY <2>1, <1>3, Joined
    <3>. QED
      BY <2>1, <3>1 DEF Join
  <2>. QED
    BY <2>2 DEF q
<1>. HIDE DEF m, l
<1>6. FirstQueued(e) = FirstQueued(c) /\ FirstQueued(c) = c.next_id - m
  BY <1>1, <1>3, <1>4, <1>5 DEF FirstQueued, m
<1>7. Conn(e)
  BY <1>3, <1>4, <1>5 DEF Conn
<1>8. \A i \in DOMAIN e.queued : e.queued[i].id = FirstQueued(e) + i - 1
  <2>1. ASSUME NEW i \in DOMAIN c.queued PROVE e.queued[i].id = FirstQueued(e) + i - 1
    BY <1>5, <1>6 DEF Numbered
  <2>2. ASSUME NEW i \in DOMAIN batch PROVE e.queued[m + i].id = FirstQueued(e) + (m + i) - 1
    <3>1. batch[i].id = c.next_id + i - 1 /\ i \in Nat
      BY <1>2, <1>3 DEF Batch
    <3>2. e.queued[m + i].id = batch[i].id
      BY <1>5
    <3>3. FirstQueued(e) + (m + i) - 1 = c.next_id + i - 1
      BY <3>1, <1>1, <1>6
    <3>. QED
      BY <3>1, <3>2, <3>3
  <2>. QED
    BY <2>1, <2>2, <1>5
<1>9. {e.queued[i].id : i \in DOMAIN e.queued}
        = {c.queued[i].id : i \in DOMAIN c.queued} \cup {batch[i].id : i \in 1 .. l}
  BY <1>3, <1>5
<1>10. Numbered(e)
  <2>1. Len(e.queued) < e.next_id
    BY <1>1, <1>3, <1>4, <1>5
  <2>2. \A id \in DOMAIN e.pending : id \in Nat \ {0} /\ id < FirstQueued(e)
    BY <1>4, <1>6 DEF Numbered
  <2>3. e.known = DOMAIN e.pending \cup {e.queued[i].id : i \in DOMAIN e.queued}
    BY <1>4, <1>9, Zenon DEF Numbered
  <2>. QED
    BY <2>1, <2>2, <2>3, <1>8 DEF Numbered
<1>. QED
  BY <1>2, <1>4, <1>6, <1>7, <1>10, Zenon DEF Enqueued, e

-----------------------------------------------------------------------------
(* Where a line of commands leads *)

\* The commands of a batch decide for its topics and leave the others alone.
LEMMA ReachesBatch ==
    ASSUME NEW line \in Seq(Command), NEW batch, NEW action, NEW K, NEW first,
           Batch(batch, action, K, first), NEW subscribed, NEW t
    PROVE  /\ t \notin Topics(K) =>
                (Reaches(line \o batch, subscribed, t) <=> Reaches(line, subscribed, t))
           /\ t \in Topics(K) =>
                (Reaches(line \o batch, subscribed, t) <=> action = "subscribe")
<1>. DEFINE u == line \o batch
            m == Len(line)
<1>1. batch \in Seq(Command)
  BY DEF Batch
<1>2. Join(line, batch, u)
  BY <1>1, Joined
<1>. HIDE DEF u
<1>3. /\ m \in Nat /\ DOMAIN line = 1 .. m
      /\ \A i \in DOMAIN batch : i \in Nat \ {0}
      /\ \A i \in DOMAIN line : i \in DOMAIN u /\ u[i] = line[i]
      /\ \A i \in DOMAIN batch : m + i \in DOMAIN u /\ u[m + i] = batch[i]
      /\ \A n \in DOMAIN u : n \in DOMAIN line \/ \E i \in DOMAIN batch : n = m + i
  BY <1>2 DEF Join
<1>. HIDE DEF m
<1>4. ASSUME t \notin Topics(K)
      PROVE  Reaches(u, subscribed, t) <=> Reaches(line, subscribed, t)
  <2>1. \A i \in DOMAIN batch : t \notin u[m + i].topics
    BY <1>3, <1>4 DEF Batch
  <2>2. (\A i \in DOMAIN u : t \notin u[i].topics) <=> \A i \in DOMAIN line : t \notin line[i].topics
    BY <1>3, <2>1
  <2>3. ASSUME NEW i \in DOMAIN line
        PROVE  (\A j \in DOMAIN u : j > i => t \notin u[j].topics)
                 <=> \A j \in DOMAIN line : j > i => t \notin line[j].topics
    BY <1>3, <2>1
  <2>4. Reaches(u, subscribed, t) => Reaches(line, subscribed, t)
    BY <1>3, <2>1, <2>2, <2>3 DEF Reaches
  <2>5. Reaches(line, subscribed, t) => Reaches(u, subscribed, t)
    BY <1>3, <2>2, <2>3 DEF Reaches
  <2>. QED
    BY <2>4, <2>5
<1>5. ASSUME t \in Topics(K)
      PROVE  Reaches(u, subscribed, t) <=> action = "subscribe"
  <2>1. PICK b \in DOMAIN batch :
           t \in batch[b].topics /\ \A j \in DOMAIN batch : t \in batch[j].topics => j = b
    BY <1>5 DEF Batch
  <2>2. m + b \in DOMAIN u /\ t \in u[m + b].topics /\ u[m + b].action = action
    BY <2>1, <1>3 DEF Batch
  <2>3. \A j \in DOMAIN u : j > m + b => t \notin u[j].topics
    <3>1. ASSUME NEW j \in DOMAIN u, j > m + b PROVE t \notin u[j].topics
      <4>1. PICK i \in DOMAIN batch : j = m + i
        BY <3>1, <1>3
      <4>. QED
        BY <4>1, <3>1, <2>1, <1>3
    <3>. QED
      BY <3>1
  <2>4. ASSUME Reaches(u, subscribed, t) PROVE action = "subscribe"
    <3>1. PICK i \in DOMAIN u : /\ u[i].action = "subscribe" /\ t \in u[i].topics
                                /\ \A j \in DOMAIN u : j > i => t \notin u[j].topics
      BY <2>4, <2>2 DEF Reaches
    <3>2. i = m + b
      <4>1. i \notin DOMAIN line
        <5>1. ASSUME i \in DOMAIN line PROVE m + b > i
          BY <5>1, <1>3
        <5>. QED
          BY <5>1, <3>1, <2>2
      <4>2. PICK n \in DOMAIN batch : i = m + n
        BY <4>1, <1>3
      <4>. QED
        BY <4>2, <3>1, <2>1, <1>3
    <3>. QED
      BY <3>1, <3>2, <2>2
  <2>5. ASSUME action = "subscribe" PROVE Reaches(u, subscribed, t)
    BY <2>5, <2>2, <2>3 DEF Reaches
  <2>. QED
    BY <2>4, <2>5
<1>. QED
  BY <1>4, <1>5 DEF u

\* Applying the first command of a line does not change where the line leads,
\* and dropping it can only lose a topic that it subscribes.
LEMMA ReachesRest ==
    ASSUME NEW line \in Seq(Command), line # <<>>, NEW subscribed, NEW t
    PROVE  /\ Reaches(line, subscribed, t)
                <=> Reaches(Tail(line), Apply(subscribed, Head(line)), t)
           /\ Reaches(line, subscribed, t)
                /\ ~ (Head(line).action = "subscribe" /\ t \in Head(line).topics)
                => Reaches(Tail(line), subscribed, t)
<1>. DEFINE r == Tail(line)
            s == Apply(subscribed, Head(line))
<1>1. Head(line) = line[1]
  BY Popped DEF Pop
<1>2. /\ \A i \in DOMAIN r : i + 1 \in DOMAIN line /\ i + 1 > 1 /\ r[i] = line[i + 1]
      /\ \A i \in DOMAIN line : i > 1 => i - 1 \in DOMAIN r /\ line[i] = r[i - 1]
      /\ 1 \in DOMAIN line /\ DOMAIN line \subseteq Nat \ {0} /\ DOMAIN r \subseteq Nat
  BY Popped DEF Pop
<1>. HIDE DEF r
<1>3. t \in s <=> IF Head(line).action = "subscribe" THEN t \in subscribed \/ t \in line[1].topics
                  ELSE t \in subscribed /\ t \notin line[1].topics
  BY <1>1 DEF Apply
<1>4. (\A i \in DOMAIN line : i > 1 => t \notin line[i].topics)
        <=> \A i \in DOMAIN r : t \notin r[i].topics
  BY <1>2
<1>5. ASSUME NEW i \in DOMAIN r
      PROVE  (\A j \in DOMAIN line : j > i + 1 => t \notin line[j].topics)
               <=> \A j \in DOMAIN r : j > i => t \notin r[j].topics
  <2>1. ASSUME \A j \in DOMAIN line : j > i + 1 => t \notin line[j].topics,
               NEW j \in DOMAIN r, j > i
        PROVE  t \notin r[j].topics
    <3>1. j + 1 > i + 1
      BY <2>1, <1>2
    <3>. QED
      BY <3>1, <2>1, <1>2, Zenon
  <2>2. ASSUME \A j \in DOMAIN r : j > i => t \notin r[j].topics,
               NEW j \in DOMAIN line, j > i + 1
        PROVE  t \notin line[j].topics
    <3>1. i \in Nat /\ j \in Nat /\ j > i + 1
      BY <2>2, <1>2
    <3>2. j > 1 /\ j - 1 > i
      BY <3>1
    <3>. QED
      BY <3>2, <2>2, <1>2, Zenon
  <2>. QED
    BY <2>1, <2>2
<1>. DEFINE Last(i) == /\ line[i].action = "subscribe" /\ t \in line[i].topics
                       /\ \A j \in DOMAIN line : j > i => t \notin line[j].topics
            Later == \E i \in DOMAIN r : /\ r[i].action = "subscribe" /\ t \in r[i].topics
                                         /\ \A j \in DOMAIN r : j > i => t \notin r[j].topics
            None == \A i \in DOMAIN r : t \notin r[i].topics
<1>6. Later <=> \E i \in DOMAIN line : i > 1 /\ Last(i)
  <2>1. ASSUME NEW i \in DOMAIN r, r[i].action = "subscribe", t \in r[i].topics,
               \A j \in DOMAIN r : j > i => t \notin r[j].topics
        PROVE  Last(i + 1)
    BY <2>1, <1>2, <1>5
  <2>2. ASSUME NEW i \in DOMAIN line, i > 1, Last(i) PROVE Later
    <3>1. PICK n \in DOMAIN r : i = n + 1
      <4>1. i - 1 \in DOMAIN r /\ i = (i - 1) + 1
        BY <2>2, <1>2
      <4>. QED
        BY <4>1
    <3>2. r[n].action = "subscribe" /\ t \in r[n].topics
      BY <3>1, <2>2, <1>2, Zenon
    <3>3. \A j \in DOMAIN r : j > n => t \notin r[j].topics
      BY <3>1, <2>2, <1>5
    <3>. QED
      BY <3>2, <3>3
  <2>. HIDE DEF Last
  <2>. QED
    BY <2>1, <2>2, <1>2
<1>7. Last(1) <=> Head(line).action = "subscribe" /\ t \in line[1].topics /\ None
  BY <1>1, <1>4
<1>8. (\A i \in DOMAIN line : t \notin line[i].topics) <=> t \notin line[1].topics /\ None
  BY <1>2, <1>4
<1>9. Reaches(line, subscribed, t) <=>
        \/ t \in subscribed /\ t \notin line[1].topics /\ None
        \/ Last(1) \/ Later
  <2>1. (\E i \in DOMAIN line : Last(i)) <=> Last(1) \/ \E i \in DOMAIN line : i > 1 /\ Last(i)
    <3>. HIDE DEF Last
    <3>. QED
      BY <1>2
  <2>2. Reaches(line, subscribed, t) <=>
          \/ t \in subscribed /\ \A i \in DOMAIN line : t \notin line[i].topics
          \/ \E i \in DOMAIN line : Last(i)
    BY DEF Reaches
  <2>. HIDE DEF Last, Later, None
  <2>. QED
    BY <2>1, <2>2, <1>6, <1>8
<1>10. \A x : Reaches(r, x, t) <=> (t \in x /\ None) \/ Later
  BY DEF Reaches
<1>. HIDE DEF Last, Later, None, s
<1>11. /\ Reaches(line, subscribed, t) <=> Reaches(r, s, t)
       /\ Reaches(line, subscribed, t)
            /\ ~ (Head(line).action = "subscribe" /\ t \in Head(line).topics)
            => Reaches(r, subscribed, t)
  BY <1>1, <1>3, <1>7, <1>9, <1>10
<1>. QED
  BY <1>11 DEF r, s

-----------------------------------------------------------------------------
(* The socket *)

LEMMA WireFields ==
    ASSUME NEW w \in Wire
    PROVE  /\ w.up \in Seq(Command) /\ w.down \in Seq(Frame)
           /\ w.subscribed \in SUBSET Topics(Keys)
           /\ \A i \in DOMAIN w.up : w.up[i] \in Command /\ w.up[i].id \in Nat
           /\ \A n \in DOMAIN w.down : w.down[n].id \in Nat
<1>1. /\ w.up \in Seq(Command) /\ w.down \in Seq(Frame)
      /\ w.subscribed \in SUBSET Topics(Keys)
  BY DEF Wire
<1>2. (\A x \in Command : x.id \in Nat) /\ (\A x \in Frame : x.id \in Nat)
  BY DEF Command, Frame
<1>3. \A i \in DOMAIN w.up : w.up[i] \in Command
  BY <1>1, LenProperties
<1>4. \A n \in DOMAIN w.down : w.down[n] \in Frame
  BY <1>1, LenProperties
<1>. QED
  BY <1>1, <1>2, <1>3, <1>4

IsWire(w, up, down, subscribed) ==
    w \in Wire /\ w.up = up /\ w.down = down /\ w.subscribed = subscribed

LEMMA WireBuilt ==
    ASSUME NEW up \in Seq(Command), NEW down \in Seq(Frame),
           NEW subscribed \in SUBSET Topics(Keys)
    PROVE  IsWire([up |-> up, down |-> down, subscribed |-> subscribed], up, down, subscribed)
  BY DEF Wire, IsWire

-----------------------------------------------------------------------------
(* The steps of a connection *)

\* The state before a connection: nothing queued, sent or subscribed.
LEMMA FreshSound ==
    ASSUME adapter \in Adapters, NEW D \in SUBSET Keys,
           NEW c, c = [NoConn EXCEPT !.desired = D]
    PROVE  Sound(c, NoWire) /\ c.desired = D /\ c.queued = <<>> /\ c.next_id = 1
           /\ DOMAIN c.pending = {} /\ c.live = FALSE /\ c.deadline = FALSE
<1>1. /\ Shape(c) /\ c.desired = D /\ c.queued = <<>> /\ DOMAIN c.pending = {}
      /\ c.known = {} /\ c.next_id = 1 /\ c.live = FALSE /\ c.deadline = FALSE
  BY Zenon DEF NoConn, NoPending, Shape
<1>2. <<>> \in Seq(Command) /\ <<>> \in Seq(Frame) /\ Len(<<>>) = 0
  BY EmptySeq
<1>3. Conn(c)
  <2>1. c.desired \subseteq Keys /\ c.next_id \in Nat
    BY <1>1
  <2>. QED
    BY <1>1, <1>2, <2>1, Zenon DEF Conn
<1>4. NoWire \in Wire /\ NoWire.up = <<>> /\ NoWire.down = <<>>
  BY <1>2 DEF NoWire, Wire
<1>5. Numbered(c)
  BY <1>1, <1>2 DEF Numbered, FirstQueued
<1>6. InFlight(c, NoWire)
  BY <1>4 DEF InFlight
<1>. QED
  BY <1>1, <1>3, <1>4, <1>5, <1>6 DEF Sound

\* Nothing about the connection's variables depends on the socket it leaves.
LEMMA LeftSound ==
    ASSUME adapter \in Adapters, NEW c, NEW w, Sound(c, w)
    PROVE  Sound(c, NoWire)
<1>1. <<>> \in Seq(Command) /\ <<>> \in Seq(Frame)
  BY EmptySeq
<1>2. NoWire \in Wire /\ NoWire.up = <<>> /\ NoWire.down = <<>>
  BY <1>1 DEF NoWire, Wire
<1>. QED
  BY <1>2 DEF Sound, InFlight

LEMMA ConnectLeads ==
    ASSUME adapter \in Adapters, NEW D \in SUBSET Keys,
           NEW c, c = [NoConn EXCEPT !.desired = D],
           NEW e, e = Enqueue(c, "subscribe", D)
    PROVE  Sound(e, NoWire) /\ Led(e, NoWire) /\ e.live = FALSE /\ e.desired = D
<1>1. /\ Sound(c, NoWire) /\ c.desired = D /\ c.queued = <<>> /\ c.next_id = 1
      /\ DOMAIN c.pending = {} /\ c.live = FALSE /\ c.deadline = FALSE
  BY FreshSound, Zenon
<1>2. Conn(c) /\ Numbered(c) /\ InFlight(c, NoWire) /\ NoWire \in Wire
  BY <1>1 DEF Sound
<1>. Enqueued(e, c, "subscribe", D)
  BY <1>2, EnqueueFields
<1>3. /\ Conn(e) /\ Numbered(e)
      /\ e.desired = c.desired /\ e.pending = c.pending /\ e.live = c.live
      /\ e.deadline = c.deadline /\ FirstQueued(e) = FirstQueued(c)
  BY DEF Enqueued
<1>4. PICK batch : /\ Batch(batch, "subscribe", D, c.next_id)
                   /\ e.queued = c.queued \o batch
  BY Zenon DEF Enqueued
<1>5. Sound(e, NoWire)
  BY <1>2, <1>3 DEF Sound, InFlight
<1>6. Timed(e)
  BY <1>1, <1>3 DEF Timed
<1>7. \A t : Leads(e, NoWire, t) <=> t \in Topics(D)
  <2>1. <<>> \in Seq(Command)
    BY EmptySeq
  <2>2. batch \in Seq(Command)
    BY <1>4 DEF Batch
  <2>3. NoWire.up \o e.queued = <<>> \o batch
    BY <2>1, <2>2, <1>1, <1>4, ConcatEmptySeq, Zenon DEF NoWire
  <2>4. \A t : ~ Reaches(<<>>, {}, t)
    BY DEF Reaches
  <2>5. \A t : Reaches(<<>> \o batch, {}, t) <=> t \in Topics(D)
    BY <2>1, <2>4, <1>4, ReachesBatch, Zenon
  <2>. QED
    BY <2>3, <2>5 DEF Leads, NoWire
<1>8. Steered(e, NoWire)
  BY <1>1, <1>3, <1>7 DEF Steered
<1>. QED
  BY <1>1, <1>3, <1>5, <1>6, <1>8 DEF Led

\* The flags of a connection have no part in its commands.
LEMMA FlagsOnly ==
    ASSUME NEW c, NEW w, Sound(c, w), Steered(c, w), NEW d, Conn(d),
           d.desired = c.desired, d.queued = c.queued, d.pending = c.pending,
           d.known = c.known, d.next_id = c.next_id
    PROVE  Sound(d, w) /\ Steered(d, w)
<1>1. FirstQueued(d) = FirstQueued(c)
  BY DEF FirstQueued
<1>2. Numbered(d)
  BY <1>1 DEF Sound, Numbered
<1>3. InFlight(d, w)
  BY <1>1 DEF Sound, InFlight
<1>4. Steered(d, w)
  BY DEF Steered, Leads, Doomed
<1>. QED
  BY <1>2, <1>3, <1>4 DEF Sound

LEMMA GoLiveFields ==
    ASSUME NEW c, Conn(c)
    PROVE  LET d == GoLive(c) IN
           /\ Conn(d) /\ d.desired = c.desired /\ d.queued = c.queued /\ d.pending = c.pending
           /\ d.known = c.known /\ d.next_id = c.next_id /\ d.idle_after = c.idle_after
           /\ d.live = TRUE /\ d.deadline = FALSE
<1>. DEFINE d == GoLive(c)
<1>1. /\ Shape(d) /\ d.desired = c.desired /\ d.queued = c.queued /\ d.pending = c.pending
      /\ d.known = c.known /\ d.next_id = c.next_id /\ d.idle_after = c.idle_after
      /\ d.live = TRUE /\ d.deadline = FALSE
  <2>1. Shape(c) /\ d = [c EXCEPT !.deadline = FALSE, !.live = TRUE]
    BY DEF GoLive, Conn
  <2>. HIDE DEF d
  <2>. QED
    BY <2>1, Zenon DEF Shape
<1>. HIDE DEF d
<1>2. Conn(d)
  BY <1>1, Zenon DEF Conn
<1>. QED
  BY <1>1, <1>2 DEF d

\* s is c after its first command was sent.
Sent(s, c) ==
    /\ Conn(s) /\ Numbered(s)
    /\ s.queued = Tail(c.queued)
    /\ DOMAIN s.pending = DOMAIN c.pending
                            \cup (IF Acks(Head(c.queued)) = 0 THEN {} ELSE {Head(c.queued).id})
    /\ s.deadline = (c.deadline \/ Acks(Head(c.queued)) # 0)
    /\ s.desired = c.desired /\ s.live = c.live /\ s.idle_after = c.idle_after
    /\ FirstQueued(s) = FirstQueued(c) + 1
    /\ FirstQueued(c) = Head(c.queued).id /\ FirstQueued(c) \in Nat \ {0}

LEMMA MarkSentFields ==
    ASSUME adapter \in Adapters, NEW c, Conn(c), Numbered(c), c.queued # <<>>
    PROVE  Sent(MarkSent(c), c)
<1>. DEFINE q == c.queued
            r == Tail(c.queued)
            h == Head(c.queued)
            a == Acks(h)
            m == Len(q)
            f == FirstQueued(c)
            s == MarkSent(c)
            more == [id \in DOMAIN c.pending \cup {h.id} |->
                        IF id = h.id THEN a ELSE c.pending[id]]
<1>1. Shape(c) /\ q \in Seq(Command) /\ c.next_id \in Nat
      /\ c.deadline \in BOOLEAN /\ c.live \in BOOLEAN /\ c.desired \subseteq Keys
  BY DEF Conn
<1>2. h \in Command /\ r \in Seq(Command) /\ Pop(q, h, r)
  BY <1>1, Popped
<1>3. a \in Nat
  BY <1>2, AcksType
<1>4. /\ a = 0 => s = [c EXCEPT !.queued = r, !.known = @ \ {h.id}]
      /\ a # 0 => s = [c EXCEPT !.queued = r, !.pending = more, !.deadline = TRUE]
  BY <1>1 DEF MarkSent, Shape
<1>. HIDE DEF s, r, h, a, more
<1>5. /\ Shape(s) /\ s.queued = r /\ s.next_id = c.next_id
      /\ s.desired = c.desired /\ s.live = c.live /\ s.idle_after = c.idle_after
      /\ s.known = IF a = 0 THEN c.known \ {h.id} ELSE c.known
      /\ s.pending = IF a = 0 THEN c.pending ELSE more
      /\ s.deadline = IF a = 0 THEN c.deadline ELSE TRUE
  <2>1. CASE a = 0
    BY <2>1, <1>1, <1>4, Zenon DEF Shape
  <2>2. CASE a # 0
    BY <2>2, <1>1, <1>4, Zenon DEF Shape
  <2>. QED
    BY <2>1, <2>2, Zenon
<1>6. s.deadline = (c.deadline \/ a # 0) /\ s.deadline \in BOOLEAN
  <2>1. CASE a = 0
    BY <2>1, <1>1, <1>5
  <2>2. CASE a # 0
    BY <2>2, <1>1, <1>5, Zenon
  <2>. QED
    BY <2>1, <2>2
<1>7. Conn(s)
  <2>1. s.queued \in Seq(Command) /\ s.desired \subseteq Keys /\ s.next_id \in Nat
    BY <1>1, <1>2, <1>5
  <2>. QED
    BY <2>1, <1>1, <1>5, <1>6, Zenon DEF Conn
<1>8. DOMAIN s.pending = DOMAIN c.pending \cup (IF a = 0 THEN {} ELSE {h.id})
  BY <1>5 DEF more
<1>9. f = c.next_id - m /\ f \in Nat \ {0} /\ h.id = f
  BY <1>1, <1>2 DEF Numbered, FirstQueued, Pop
<1>10. FirstQueued(s) = f + 1
  BY <1>1, <1>2, <1>5, <1>9 DEF FirstQueued, Pop
<1>11. \A i \in DOMAIN r : i \in Nat \ {0} /\ r[i].id = f + i
  <2>1. \A i \in DOMAIN q : q[i].id = f + i - 1
    BY DEF Numbered
  <2>. HIDE DEF q, m, f
  <2>. QED
    BY <2>1, <1>2, <1>9 DEF Pop
<1>12. \A id \in DOMAIN c.pending : id \in Nat \ {0} /\ id < f
  BY DEF Numbered
<1>13. c.known = DOMAIN c.pending \cup {h.id} \cup {r[i].id : i \in DOMAIN r}
  <2>1. c.known = DOMAIN c.pending \cup {q[i].id : i \in DOMAIN q}
    BY DEF Numbered
  <2>. HIDE DEF q, m
  <2>2. {q[i].id : i \in DOMAIN q} = {h.id} \cup {r[i].id : i \in DOMAIN r}
    <3>1. \A i \in DOMAIN r : i + 1 \in DOMAIN q /\ r[i] = q[i + 1]
      BY <1>2 DEF Pop
    <3>2. 1 \in DOMAIN q /\ q[1] = h
      BY <1>2 DEF Pop
    <3>3. \A i \in DOMAIN q : i = 1 \/ \E j \in DOMAIN r : q[i] = r[j]
      <4>1. \A i \in DOMAIN q : i = 1 \/ i > 1
        BY <1>2 DEF Pop
      <4>. QED
        BY <4>1, <1>2 DEF Pop
    <3>. QED
      BY <3>1, <3>2, <3>3
  <2>. QED
    BY <2>1, <2>2
<1>14. Numbered(s)
  <2>. HIDE DEF f, m, q
  <2>1. Len(s.queued) < s.next_id
    BY <1>1, <1>2, <1>5, <1>9 DEF Pop, m
  <2>2. \A i \in DOMAIN s.queued : s.queued[i].id = FirstQueued(s) + i - 1
    BY <1>5, <1>9, <1>10, <1>11
  <2>3. \A id \in DOMAIN s.pending : id \in Nat \ {0} /\ id < FirstQueued(s)
    BY <1>8, <1>9, <1>10, <1>12
  <2>4. s.known = DOMAIN s.pending \cup {s.queued[i].id : i \in DOMAIN s.queued}
    <3>1. h.id \notin DOMAIN c.pending /\ h.id \notin {r[i].id : i \in DOMAIN r}
      BY <1>9, <1>11, <1>12
    <3>. QED
      BY <3>1, <1>5, <1>8, <1>13
  <2>. QED
    BY <2>1, <2>2, <2>3, <2>4 DEF Numbered
<1>. QED
  BY <1>5, <1>6, <1>7, <1>8, <1>9, <1>10, <1>14, Zenon DEF Sent, s, r, h, a

\* The pacer moves a command from the queue to the socket: the line of commands
\* stays the same, and the command is pending from then on.
LEMMA SendLeads ==
    ASSUME adapter \in Adapters, NEW c, NEW w, Sound(c, w), Led(c, w), c.queued # <<>>,
           NEW s, s = MarkSent(c),
           NEW x, x = [w EXCEPT !.up = Append(@, Head(c.queued))]
    PROVE  /\ Sound(s, x) /\ Steered(s, x)
           /\ s.desired = c.desired /\ s.live = FALSE /\ s.idle_after = c.idle_after
           /\ DOMAIN s.pending # {} => s.deadline
<1>. DEFINE q == c.queued
            h == Head(c.queued)
<1>1. Conn(c) /\ Numbered(c) /\ InFlight(c, w) /\ w \in Wire /\ Steered(c, w) /\ Timed(c)
  BY DEF Sound, Led
<1>2. Sent(s, c)
  BY <1>1, MarkSentFields
<1>3. w.up \in Seq(Command) /\ w.down \in Seq(Frame) /\ q \in Seq(Command) /\ h \in Command
  BY <1>1, HeadTailProperties, WireFields DEF Conn
<1>4. x \in Wire /\ x.up = Append(w.up, h) /\ x.down = w.down /\ x.subscribed = w.subscribed
  <2>. DEFINE u == Append(w.up, h)
  <2>1. u \in Seq(Command) /\ x = [w EXCEPT !.up = u]
    BY <1>3, AppendProperties
  <2>. HIDE DEF u
  <2>2. x \in Wire /\ x.up = u /\ x.down = w.down /\ x.subscribed = w.subscribed
    BY <2>1, <1>1, Zenon DEF Wire
  <2>. QED
    BY <2>2 DEF u
<1>5. /\ h.id = FirstQueued(c) /\ FirstQueued(s) = FirstQueued(c) + 1
      /\ FirstQueued(c) \in Nat \ {0}
      /\ DOMAIN c.pending \subseteq DOMAIN s.pending
      /\ Acks(h) # 0 => h.id \in DOMAIN s.pending
  BY <1>2 DEF Sent
<1>6. Grown(w.up, h, x.up)
  BY <1>3, <1>4, Appended
<1>. HIDE DEF h, q
<1>7. InFlight(s, x)
  <2>1. \A i \in DOMAIN w.up : w.up[i].id \in Nat
    BY <1>1, WireFields
  <2>2. \A n \in DOMAIN x.down : x.down[n].id < FirstQueued(c) /\ x.down[n].id \in Nat
    BY <1>1, <1>4, WireFields DEF InFlight
  <2>3. ASSUME NEW i \in DOMAIN x.up
        PROVE  /\ 0 < x.up[i].id /\ x.up[i].id < FirstQueued(s)
               /\ Acks(x.up[i]) # 0 => /\ x.up[i].id \in DOMAIN s.pending
                                       /\ Unanswered(x.down, x.up[i].id)
    <3>1. CASE i \in DOMAIN w.up /\ x.up[i] = w.up[i]
      <4>1. /\ 0 < w.up[i].id /\ w.up[i].id < FirstQueued(c)
            /\ Acks(w.up[i]) # 0 => /\ w.up[i].id \in DOMAIN c.pending
                                    /\ Unanswered(w.down, w.up[i].id)
        BY <3>1, <1>1, Zenon DEF InFlight
      <4>2. w.up[i].id < FirstQueued(s)
        BY <4>1, <3>1, <2>1, <1>5
      <4>. QED
        BY <4>1, <4>2, <3>1, <1>4, <1>5, Zenon
    <3>2. CASE x.up[i] = h
      <4>1. 0 < h.id /\ h.id < FirstQueued(s)
        BY <1>5
      <4>2. Unanswered(x.down, h.id)
        BY <2>2, <1>5 DEF Unanswered
      <4>. QED
        BY <3>2, <4>1, <4>2, <1>5
    <3>. QED
      BY <3>1, <3>2, <1>6 DEF Grown
  <2>4. ASSUME NEW i \in DOMAIN x.up, NEW j \in DOMAIN x.up, i # j
        PROVE  x.up[i].id # x.up[j].id
    BY <2>1, <2>4, <1>1, <1>5, <1>6 DEF InFlight, Grown
  <2>5. \A n \in DOMAIN x.down : x.down[n].id < FirstQueued(s)
    BY <2>2, <1>5
  <2>. QED
    BY <2>3, <2>4, <2>5 DEF InFlight
<1>8. Sound(s, x)
  BY <1>2, <1>4, <1>7 DEF Sound, Sent
<1>9. \A t : Leads(s, x, t) <=> Leads(c, w, t)
  <2>1. Append(w.up, h) \o Tail(q) = w.up \o q
    BY <1>3, <1>1, MovedAcross, Zenon DEF h, q
  <2>. QED
    BY <2>1, <1>2, <1>4, Zenon DEF Leads, Sent, h, q
<1>10. Doomed(c, w) => Doomed(s, x)
  <2>1. ASSUME NEW id \in DOMAIN c.pending, \A i \in DOMAIN w.up : w.up[i].id # id,
               Unanswered(w.down, id)
        PROVE  Doomed(s, x)
    <3>1. id # h.id
      BY <1>1, <1>5 DEF Numbered
    <3>2. \A i \in DOMAIN x.up : x.up[i].id # id
      BY <3>1, <2>1, <1>6 DEF Grown
    <3>. QED
      BY <3>2, <2>1, <1>4, <1>5 DEF Doomed
  <2>. QED
    BY <2>1 DEF Doomed
<1>11. Steered(s, x)
  <2>1. s.desired = c.desired /\ (Rejected(x) <=> Rejected(w))
    BY <1>2, <1>4 DEF Sent, Rejected
  <2>. QED
    BY <2>1, <1>1, <1>9, <1>10, Zenon DEF Steered
<1>12. c.live = FALSE
  BY <1>1 DEF Timed, ReadinessComplete, Conn
<1>13. DOMAIN s.pending # {} => s.deadline
  BY <1>1, <1>2, Zenon DEF Timed, Sent
<1>. QED
  BY <1>2, <1>8, <1>11, <1>12, <1>13 DEF Sent

\* d is c with the commands from its demand to next queued.
Diffed(d, c, next, removed, added) ==
    /\ Conn(d) /\ Numbered(d) /\ FirstQueued(d) = FirstQueued(c)
    /\ d.desired = next /\ d.pending = c.pending /\ d.deadline = c.deadline
    /\ d.live = (c.live /\ removed = {} /\ added = {})
    /\ \E b1, b2, n :
          /\ Batch(b1, "unsubscribe", removed, c.next_id) /\ (removed = {} => b1 = <<>>)
          /\ Batch(b2, "subscribe", added, n) /\ (added = {} => b2 = <<>>)
          /\ d.queued = (c.queued \o b1) \o b2

LEMMA DiffFields ==
    ASSUME adapter \in Adapters, NEW c, Conn(c), Numbered(c), NEW next \in SUBSET Keys,
           NEW removed \in SUBSET Keys, NEW added \in SUBSET Keys,
           NEW d, d = [ApplyDiff(c, removed, added) EXCEPT
                          !.desired = next, !.idle_after = (next = {})]
    PROVE  Diffed(d, c, next, removed, added)
<1>. DEFINE e1 == Enqueue(c, "unsubscribe", removed)
            e2 == Enqueue(e1, "subscribe", added)
<1>2. Enqueued(e1, c, "unsubscribe", removed)
  BY EnqueueFields
<1>. HIDE DEF e1
<1>3. Conn(e1) /\ Numbered(e1)
  BY <1>2 DEF Enqueued
<1>4. Enqueued(e2, e1, "subscribe", added)
  BY <1>3, EnqueueFields
<1>5. /\ Shape(d) /\ d.desired = next /\ d.queued = e2.queued /\ d.pending = e2.pending
      /\ d.known = e2.known /\ d.next_id = e2.next_id /\ d.deadline = e2.deadline
      /\ d.live = (e2.live /\ removed = {} /\ added = {})
  <2>1. Shape(e2)
    BY <1>4 DEF Enqueued, Conn
  <2>2. d = [[e2 EXCEPT !.live = @ /\ removed = {} /\ added = {}] EXCEPT
                !.desired = next, !.idle_after = (next = {})]
    BY DEF ApplyDiff, e1
  <2>. HIDE DEF e2
  <2>. QED
    BY <2>1, <2>2, Zenon DEF Shape
<1>. HIDE DEF e2
<1>6. /\ d.live = (c.live /\ removed = {} /\ added = {})
      /\ d.pending = c.pending /\ d.deadline = c.deadline
  BY <1>2, <1>4, <1>5 DEF Enqueued
<1>7. Conn(d)
  <2>1. d.queued \in Seq(Command) /\ d.next_id \in Nat /\ d.deadline \in BOOLEAN
    BY <1>4, <1>5, Zenon DEF Enqueued, Conn
  <2>2. d.live \in BOOLEAN
    BY <1>6, Zenon
  <2>. QED
    BY <2>1, <2>2, <1>5 DEF Conn
<1>8. FirstQueued(d) = FirstQueued(c) /\ Numbered(d)
  <2>1. FirstQueued(d) = FirstQueued(e2)
    BY <1>5 DEF FirstQueued
  <2>2. FirstQueued(e2) = FirstQueued(e1) /\ FirstQueued(e1) = FirstQueued(c) /\ Numbered(e2)
    BY <1>2, <1>4 DEF Enqueued
  <2>3. Numbered(d)
    <3>. HIDE DEF FirstQueued
    <3>1. Len(d.queued) < d.next_id
      BY <2>2, <1>5 DEF Numbered
    <3>2. \A i \in DOMAIN d.queued : d.queued[i].id = FirstQueued(d) + i - 1
      BY <2>1, <2>2, <1>5 DEF Numbered
    <3>3. \A id \in DOMAIN d.pending : id \in Nat \ {0} /\ id < FirstQueued(d)
      BY <2>1, <2>2, <1>5 DEF Numbered
    <3>4. d.known = DOMAIN d.pending \cup {d.queued[i].id : i \in DOMAIN d.queued}
      <4>1. e2.known = DOMAIN e2.pending \cup {e2.queued[i].id : i \in DOMAIN e2.queued}
        BY <2>2 DEF Numbered
      <4>. QED
        BY <4>1, <1>5
    <3>. QED
      BY <3>1, <3>2, <3>3, <3>4, Zenon DEF Numbered
  <2>. QED
    BY <2>1, <2>2, <2>3
<1>10. PICK b1 : /\ Batch(b1, "unsubscribe", removed, c.next_id)
                 /\ e1.queued = c.queued \o b1 /\ (removed = {} => b1 = <<>>)
  BY <1>2 DEF Enqueued
<1>11. PICK b2 : /\ Batch(b2, "subscribe", added, e1.next_id)
                 /\ d.queued = e1.queued \o b2 /\ (added = {} => b2 = <<>>)
  BY <1>4, <1>5 DEF Enqueued
<1>. QED
  BY <1>5, <1>6, <1>7, <1>8, <1>10, <1>11, Zenon DEF Diffed

\* A change of the demand: unsubscribing what is gone and subscribing what is
\* new, behind everything queued before, leads to the new demand.
LEMMA DiffLeads ==
    ASSUME NEW c, NEW w, Sound(c, w), Led(c, w), NEW next \in SUBSET Keys,
           NEW removed, removed = c.desired \ next, NEW added, added = next \ c.desired,
           NEW d, Diffed(d, c, next, removed, added)
    PROVE  Sound(d, w) /\ Led(d, w)
<1>1. Conn(c) /\ Numbered(c) /\ InFlight(c, w) /\ w \in Wire /\ Steered(c, w) /\ Timed(c)
  BY DEF Sound, Led
<1>2. /\ Conn(d) /\ Numbered(d) /\ FirstQueued(d) = FirstQueued(c)
      /\ d.desired = next /\ d.pending = c.pending /\ d.deadline = c.deadline
      /\ d.live = (c.live /\ removed = {} /\ added = {})
  BY DEF Diffed
<1>3. PICK b1, b2, n :
          /\ Batch(b1, "unsubscribe", removed, c.next_id) /\ (removed = {} => b1 = <<>>)
          /\ Batch(b2, "subscribe", added, n) /\ (added = {} => b2 = <<>>)
          /\ d.queued = (c.queued \o b1) \o b2
  BY Zenon DEF Diffed
<1>4. InFlight(d, w)
  BY <1>1, <1>2 DEF InFlight
<1>5. /\ w.up \in Seq(Command) /\ c.queued \in Seq(Command)
       /\ b1 \in Seq(Command) /\ b2 \in Seq(Command)
  BY <1>1, <1>3, WireFields DEF Conn, Batch
<1>11. Behind(w.up, c.queued, b1, b2)
  BY <1>5, TwoBatches
<1>6. Timed(d)
  <2>1. d.queued = <<>> => c.queued = <<>>
    BY <1>3, <1>11, Zenon DEF Behind
  <2>2. removed = {} /\ added = {} => d.queued = c.queued
    BY <1>3, <1>11, Zenon DEF Behind
  <2>. QED
    BY <2>1, <2>2, <1>1, <1>2, Zenon DEF Timed, ReadinessComplete
<1>7. \A t : Leads(d, w, t) <=>
                 \/ t \in Topics(added)
                 \/ t \notin Topics(removed) /\ Leads(c, w, t)
  <2>. DEFINE line == w.up \o c.queued
              line1 == line \o b1
  <2>1. line \in Seq(Command) /\ line1 \in Seq(Command)
    BY <1>5, ConcatProperties
  <2>2. w.up \o d.queued = line1 \o b2
    BY <1>3, <1>11, Zenon DEF Behind
  <2>. HIDE DEF line
  <2>3. \A t : Reaches(line1, w.subscribed, t) <=>
                  t \notin Topics(removed) /\ Reaches(line, w.subscribed, t)
    BY <2>1, <1>3, ReachesBatch
  <2>. HIDE DEF line1
  <2>4. \A t : Reaches(line1 \o b2, w.subscribed, t) <=>
                  t \in Topics(added) \/ Reaches(line1, w.subscribed, t)
    BY <2>1, <1>3, ReachesBatch
  <2>. QED
    BY <2>2, <2>3, <2>4, Zenon DEF Leads, line
<1>8. /\ \A t : t \in Topics(next) <=>
                    t \in Topics(added) \/ (t \notin Topics(removed) /\ t \in Topics(c.desired))
      /\ \A t \in Topics(Keys) : t \in Topics(removed) => t \notin Topics(next)
  BY DEF Topics
<1>9. Doomed(d, w) <=> Doomed(c, w)
  BY <1>2 DEF Doomed
<1>10. Steered(d, w)
  BY <1>1, <1>2, <1>7, <1>8, <1>9 DEF Steered
<1>. QED
  BY <1>1, <1>2, <1>4, <1>6, <1>10 DEF Sound, Led

\* a is c after an acknowledgement of id.
Acked(a, c, id) ==
    /\ Conn(a) /\ Numbered(a) /\ FirstQueued(a) = FirstQueued(c)
    /\ DOMAIN c.pending \ {id} \subseteq DOMAIN a.pending
    /\ a.queued = c.queued /\ a.desired = c.desired /\ a.live = c.live
    /\ a.idle_after = c.idle_after

LEMMA AcknowledgeFields ==
    ASSUME NEW c, Conn(c), Numbered(c), NEW id \in DOMAIN c.pending
    PROVE  Acked(Acknowledge(c, id), c, id)
<1>. DEFINE a == Acknowledge(c, id)
            p == [c.pending EXCEPT ![id] = @ - 1]
            r == [i \in DOMAIN c.pending \ {id} |-> c.pending[i]]
<1>1. Shape(c)
  BY DEF Conn
<1>2. \/ a = [c EXCEPT !.pending = p]
      \/ a = [c EXCEPT !.pending = r, !.known = @ \ {id}]
  BY <1>1 DEF Acknowledge, Shape
<1>3. DOMAIN p = DOMAIN c.pending /\ DOMAIN r = DOMAIN c.pending \ {id}
  OBVIOUS
<1>. HIDE DEF a, p, r
<1>4. /\ Shape(a) /\ a.queued = c.queued /\ a.desired = c.desired /\ a.live = c.live
      /\ a.idle_after = c.idle_after /\ a.next_id = c.next_id /\ a.deadline = c.deadline
      /\ \/ a.pending = p /\ a.known = c.known
         \/ a.pending = r /\ a.known = c.known \ {id}
  <2>1. CASE a = [c EXCEPT !.pending = p]
    BY <2>1, <1>1 DEF Shape
  <2>2. CASE a = [c EXCEPT !.pending = r, !.known = @ \ {id}]
    BY <2>2, <1>1, Zenon DEF Shape
  <2>. QED
    BY <2>1, <2>2, <1>2
<1>5. /\ DOMAIN c.pending \ {id} \subseteq DOMAIN a.pending
      /\ DOMAIN a.pending \subseteq DOMAIN c.pending
      /\ a.known = c.known \ (DOMAIN c.pending \ DOMAIN a.pending)
      /\ DOMAIN c.pending \ DOMAIN a.pending \subseteq {id}
  BY <1>3, <1>4
<1>6. Conn(a)
  BY <1>4, Zenon DEF Conn
<1>7. FirstQueued(a) = FirstQueued(c)
  BY <1>4 DEF FirstQueued
<1>8. Numbered(a)
  <2>1. \A i \in DOMAIN c.queued : i \in Nat \ {0} /\ FirstQueued(c) \in Nat
    BY LenProperties DEF Conn, Numbered, FirstQueued
  <2>2. id \notin {c.queued[i].id : i \in DOMAIN c.queued}
    BY <2>1 DEF Numbered
  <2>3. a.known = DOMAIN a.pending \cup {a.queued[i].id : i \in DOMAIN a.queued}
    <3>. DEFINE Q == {c.queued[i].id : i \in DOMAIN c.queued}
    <3>1. c.known = DOMAIN c.pending \cup Q /\ Q = {a.queued[i].id : i \in DOMAIN a.queued}
      BY <1>4 DEF Numbered
    <3>. HIDE DEF Q
    <3>. QED
      BY <3>1, <2>2, <1>5 DEF Q
  <2>4. \A i \in DOMAIN a.pending : i \in Nat \ {0} /\ i < FirstQueued(a)
    BY <1>5, <1>7 DEF Numbered
  <2>5. \A i \in DOMAIN a.queued : a.queued[i].id = FirstQueued(a) + i - 1
    BY <1>4, <1>7 DEF Numbered
  <2>6. Len(a.queued) < a.next_id
    BY <1>4 DEF Numbered
  <2>. QED
    BY <2>3, <2>4, <2>5, <2>6 DEF Numbered
<1>. QED
  BY <1>4, <1>5, <1>6, <1>7, <1>8 DEF Acked, a

\* An acknowledgement settles its own command and no other.
LEMMA AckLeads ==
    ASSUME NEW c, NEW w, Sound(c, w), Led(c, w), w.down # <<>>, Head(w.down).kind = "ack",
           NEW id \in DOMAIN c.pending, id = Head(w.down).id, NEW a, Acked(a, c, id),
           NEW x, x = [w EXCEPT !.down = Tail(@)]
    PROVE  Sound(a, x) /\ Steered(a, x) /\ a.live = FALSE /\ a.desired = c.desired
<1>1. Conn(c) /\ Numbered(c) /\ InFlight(c, w) /\ w \in Wire /\ Steered(c, w) /\ Timed(c)
  BY DEF Sound, Led
<1>2. w.down \in Seq(Frame)
  BY <1>1, WireFields
<1>3. Tail(w.down) \in Seq(Frame) /\ Pop(w.down, Head(w.down), Tail(w.down))
  BY <1>2, Popped
<1>4. x \in Wire /\ x.up = w.up /\ x.down = Tail(w.down) /\ x.subscribed = w.subscribed
  BY <1>1, <1>3, Zenon DEF Wire
<1>5. /\ \A n \in DOMAIN x.down : \E m \in DOMAIN w.down : x.down[n] = w.down[m]
      /\ \A m \in DOMAIN w.down : m = 1 \/ \E n \in DOMAIN x.down : x.down[n] = w.down[m]
      /\ 1 \in DOMAIN w.down /\ w.down[1].kind = "ack" /\ w.down[1].id = id
  <2>. DEFINE d == w.down
              e == Tail(w.down)
  <2>1. Pop(d, Head(d), e) /\ x.down = e
    BY <1>3, <1>4, Zenon
  <2>2. Head(d).kind = "ack" /\ Head(d).id = id
    OBVIOUS
  <2>. HIDE DEF d, e
  <2>3. \A m \in DOMAIN d : m = 1 \/ m > 1
    BY <2>1 DEF Pop
  <2>4. /\ \A n \in DOMAIN e : \E m \in DOMAIN d : e[n] = d[m]
        /\ \A m \in DOMAIN d : m = 1 \/ \E n \in DOMAIN e : e[n] = d[m]
        /\ 1 \in DOMAIN d /\ d[1] = Head(d)
    BY <2>1, <2>3, Zenon DEF Pop
  <2>. QED
    BY <2>1, <2>2, <2>4, Zenon DEF d
<1>6. \A other : Unanswered(w.down, other) => Unanswered(x.down, other) /\ other # id
  BY <1>5 DEF Unanswered
<1>7. InFlight(a, x)
  BY <1>1, <1>4, <1>5, <1>6 DEF InFlight, Acked
<1>8. Doomed(c, w) => Doomed(a, x)
  BY <1>4, <1>6 DEF Doomed, Acked
<1>9. Rejected(w) => Rejected(x)
  BY <1>5 DEF Rejected
<1>10. \A t : Leads(a, x, t) <=> Leads(c, w, t)
  BY <1>4 DEF Leads, Acked
<1>11. Steered(a, x)
  BY <1>1, <1>8, <1>9, <1>10, Zenon DEF Steered, Acked
<1>12. c.live = FALSE
  BY <1>1 DEF Timed, ReadinessComplete, Conn
<1>. QED
  BY <1>4, <1>7, <1>11, <1>12 DEF Sound, Acked

LEMMA FirstQueuedPositive ==
    ASSUME NEW c, Conn(c), Numbered(c)
    PROVE  0 < FirstQueued(c)
  BY LenProperties DEF Numbered, FirstQueued, Conn

\* What is on its way to the venue is h and then r.
Waiting(c, w, h, r) ==
    /\ h \in Command /\ r \in Seq(Command)
    /\ 0 < h.id /\ h.id < FirstQueued(c) /\ h.id \in Nat
    /\ Acks(h) # 0 => h.id \in DOMAIN c.pending /\ Unanswered(w.down, h.id)
    /\ \A i \in DOMAIN r : \E j \in DOMAIN w.up : r[i] = w.up[j]
    /\ \A i \in DOMAIN r : r[i].id # h.id
    /\ \A i, j \in DOMAIN r : i # j => r[i].id # r[j].id

LEMMA RestInFlight ==
    ASSUME adapter \in Adapters, NEW c, NEW w, Sound(c, w), w.up # <<>>
    PROVE  Waiting(c, w, Head(w.up), Tail(w.up))
<1>. DEFINE up == w.up
            h == Head(up)
            r == Tail(up)
<1>1. w \in Wire /\ InFlight(c, w)
  BY Zenon DEF Sound
<1>2. up \in Seq(Command)
  BY <1>1, WireFields, Zenon
<1>3. h \in Command /\ r \in Seq(Command) /\ Pop(up, h, r)
  BY <1>2, Popped, Zenon
<1>4. /\ \A i \in DOMAIN up :
            /\ 0 < up[i].id /\ up[i].id < FirstQueued(c)
            /\ Acks(up[i]) # 0 => up[i].id \in DOMAIN c.pending /\ Unanswered(w.down, up[i].id)
      /\ \A i, j \in DOMAIN up : i # j => up[i].id # up[j].id
  BY <1>1, Zenon DEF InFlight
<1>. HIDE DEF h, r, up
<1>5. 1 \in DOMAIN up /\ up[1] = h
  BY <1>3, Zenon DEF Pop
<1>6. \A i \in DOMAIN r : i \in Nat \ {0} /\ i + 1 \in DOMAIN up /\ r[i] = up[i + 1]
  BY <1>3, Zenon DEF Pop
<1>7. \A i \in DOMAIN r : i + 1 # 1
  BY <1>6
<1>8. \A i, j \in DOMAIN r : i # j => i + 1 # j + 1
  BY <1>6
<1>9. ASSUME NEW i \in DOMAIN r, NEW j \in DOMAIN r, i # j PROVE r[i].id # r[j].id
  <2>1. i + 1 \in DOMAIN up /\ j + 1 \in DOMAIN up /\ i + 1 # j + 1
    BY <1>6, <1>8, <1>9, Zenon
  <2>2. up[i + 1].id # up[j + 1].id
    BY <2>1, <1>4, Zenon
  <2>. QED
    BY <2>2, <1>6, Zenon
<1>10. \A i \in DOMAIN r : r[i].id # h.id
  BY <1>4, <1>5, <1>6, <1>7, Zenon
<1>11. h.id \in Nat
  BY <1>3 DEF Command
<1>12. /\ 0 < h.id /\ h.id < FirstQueued(c)
       /\ Acks(h) # 0 => h.id \in DOMAIN c.pending /\ Unanswered(w.down, h.id)
  <2>1. /\ 0 < up[1].id /\ up[1].id < FirstQueued(c)
        /\ Acks(up[1]) # 0 => up[1].id \in DOMAIN c.pending /\ Unanswered(w.down, up[1].id)
    BY <1>4, <1>5
  <2>. QED
    BY <2>1, <1>5
<1>13. \A i \in DOMAIN r : \E j \in DOMAIN up : r[i] = up[j]
  BY <1>6, Zenon
<1>14. \A i \in DOMAIN r : \E j \in DOMAIN w.up : r[i] = w.up[j]
  BY <1>13, Zenon DEF up
<1>15. Waiting(c, w, h, r)
  BY <1>3, <1>9, <1>10, <1>11, <1>12, <1>14 DEF Waiting
<1>. QED
  BY <1>15, Zenon DEF up, h, r

\* The line of commands less the first one.
LEMMA LeadsRest ==
    ASSUME NEW c, NEW w, Sound(c, w), w.up # <<>>, NEW t
    PROVE  /\ Leads(c, w, t) <=>
                Reaches(Tail(w.up) \o c.queued, Apply(w.subscribed, Head(w.up)), t)
           /\ Leads(c, w, t) /\ ~ (Head(w.up).action = "subscribe" /\ t \in Head(w.up).topics)
                => Reaches(Tail(w.up) \o c.queued, w.subscribed, t)
<1>. DEFINE line == w.up \o c.queued
<1>1. w.up \in Seq(Command) /\ c.queued \in Seq(Command)
  BY WireFields DEF Sound, Conn
<1>2. /\ line \in Seq(Command) /\ line # <<>>
      /\ Head(line) = Head(w.up) /\ Tail(line) = Tail(w.up) \o c.queued
  BY <1>1, TailJoined, Zenon
<1>. HIDE DEF line
<1>3. /\ Reaches(line, w.subscribed, t)
           <=> Reaches(Tail(line), Apply(w.subscribed, Head(line)), t)
      /\ Reaches(line, w.subscribed, t)
           /\ ~ (Head(line).action = "subscribe" /\ t \in Head(line).topics)
           => Reaches(Tail(line), w.subscribed, t)
  BY <1>2, ReachesRest
<1>. QED
  BY <1>2, <1>3, Zenon DEF Leads, line

\* The venue's answers to a command, the wire once it has applied the first one
\* on its way, and its other frames.
Answers(h) == [i \in 1 .. Acks(h) |-> [kind |-> "ack", id |-> h.id]]
Applied(w) ==
    [up |-> Tail(w.up), down |-> w.down \o Answers(Head(w.up)),
     subscribed |-> Apply(w.subscribed, Head(w.up))]
Refusal == [kind |-> "reject", id |-> 0]
Stray == [kind |-> "ack", id |-> 0]

\* The venue applies a command: the line leads where it led.
LEMMA ApplyLeads ==
    ASSUME adapter \in Adapters, NEW c, NEW w, Sound(c, w), Led(c, w), w.up # <<>>,
           NEW x, x = Applied(w)
    PROVE  Sound(c, x) /\ Led(c, x)
<1>. DEFINE h == Head(w.up)
            rest == Tail(w.up)
            acks == Answers(h)
            down == w.down \o acks
<1>1. Conn(c) /\ Numbered(c) /\ InFlight(c, w) /\ w \in Wire /\ Steered(c, w) /\ Timed(c)
  BY DEF Sound, Led
<1>2. /\ w.up \in Seq(Command) /\ w.down \in Seq(Frame)
      /\ w.subscribed \in SUBSET Topics(Keys)
  BY <1>1, WireFields
<1>3. /\ h \in Command /\ rest \in Seq(Command)
      /\ 0 < h.id /\ h.id < FirstQueued(c) /\ h.id \in Nat
      /\ \A i \in DOMAIN rest : \E j \in DOMAIN w.up : rest[i] = w.up[j]
      /\ \A i \in DOMAIN rest : rest[i].id # h.id
      /\ \A i, j \in DOMAIN rest : i # j => rest[i].id # rest[j].id
  <2>1. Waiting(c, w, h, rest)
    BY RestInFlight, Zenon
  <2>. HIDE DEF h, rest
  <2>. QED
    BY <2>1, Zenon DEF Waiting
<1>4. Acks(h) \in Nat
  BY <1>3, AcksType
<1>5. acks \in Seq(Frame) /\ \A i \in DOMAIN acks : acks[i].kind = "ack" /\ acks[i].id = h.id
  <2>1. acks \in [1 .. Acks(h) -> Frame]
    BY <1>3 DEF Frame, Answers
  <2>2. \A i \in DOMAIN acks : acks[i].kind = "ack" /\ acks[i].id = h.id
    BY DEF Answers
  <2>. HIDE DEF acks
  <2>. QED
    BY <2>1, <2>2, <1>4, SeqDef, Zenon
<1>6. Apply(w.subscribed, h) \in SUBSET Topics(Keys)
  BY <1>2, <1>3 DEF Apply, Command
<1>. HIDE DEF acks, h, rest
<1>7. down \in Seq(Frame) /\ Join(w.down, acks, down)
  BY <1>2, <1>5, Joined
<1>. DEFINE sub == Apply(w.subscribed, h)
<1>. HIDE DEF down, sub
<1>8. x \in Wire /\ x.up = rest /\ x.down = down /\ x.subscribed = sub
  <2>1. x = [up |-> rest, down |-> down, subscribed |-> sub]
    BY DEF Applied, rest, down, sub, acks, h
  <2>2. rest \in Seq(Command) /\ down \in Seq(Frame) /\ sub \in SUBSET Topics(Keys)
    BY <1>3, <1>6, <1>7 DEF sub
  <2>3. IsWire([up |-> rest, down |-> down, subscribed |-> sub], rest, down, sub)
    BY <2>2, WireBuilt, Zenon
  <2>. QED
    BY <2>1, <2>3, Zenon DEF IsWire
<1>9. \A n \in DOMAIN x.down : \/ \E m \in DOMAIN w.down : x.down[n] = w.down[m]
                               \/ x.down[n].kind = "ack" /\ x.down[n].id = h.id
  <2>1. ASSUME NEW n \in DOMAIN down
        PROVE  \/ \E m \in DOMAIN w.down : down[n] = w.down[m]
               \/ down[n].kind = "ack" /\ down[n].id = h.id
    <3>1. CASE n \in DOMAIN w.down
      BY <3>1, <1>7 DEF Join
    <3>2. CASE \E i \in DOMAIN acks : n = Len(w.down) + i
      BY <3>2, <1>5, <1>7 DEF Join
    <3>. QED
      BY <3>1, <3>2, <1>7 DEF Join
  <2>. QED
    BY <2>1, <1>8, Zenon
<1>10. \A m \in DOMAIN w.down : m \in DOMAIN x.down /\ x.down[m] = w.down[m]
  BY <1>7, <1>8, Zenon DEF Join
<1>11. \A id : Unanswered(w.down, id) /\ id # h.id => Unanswered(x.down, id)
  BY <1>9, Zenon DEF Unanswered
<1>12. InFlight(c, x)
  <2>1. ASSUME NEW i \in DOMAIN x.up
        PROVE  /\ 0 < x.up[i].id /\ x.up[i].id < FirstQueued(c)
               /\ Acks(x.up[i]) # 0 => /\ x.up[i].id \in DOMAIN c.pending
                                       /\ Unanswered(x.down, x.up[i].id)
    <3>1. PICK j \in DOMAIN w.up : x.up[i] = w.up[j]
      BY <1>3, <1>8, Zenon
    <3>2. x.up[i].id # h.id
      BY <1>3, <1>8
    <3>. QED
      BY <3>1, <3>2, <1>1, <1>11, Zenon DEF InFlight
  <2>2. \A i, j \in DOMAIN x.up : i # j => x.up[i].id # x.up[j].id
    BY <1>3, <1>8
  <2>3. \A n \in DOMAIN x.down : x.down[n].id < FirstQueued(c)
    BY <1>1, <1>3, <1>9, Zenon DEF InFlight
  <2>. QED
    BY <2>1, <2>2, <2>3, Zenon DEF InFlight
<1>13. Doomed(c, w) => Doomed(c, x)
  <2>1. \E j \in DOMAIN w.up : w.up[j] = h
    BY <1>2, Popped DEF Pop, h
  <2>2. ASSUME NEW id \in DOMAIN c.pending, \A i \in DOMAIN w.up : w.up[i].id # id,
               Unanswered(w.down, id)
        PROVE  (\A i \in DOMAIN x.up : x.up[i].id # id) /\ Unanswered(x.down, id)
    <3>1. id # h.id
      BY <2>1, <2>2
    <3>2. \A i \in DOMAIN x.up : \E j \in DOMAIN w.up : x.up[i] = w.up[j]
      BY <1>3, <1>8, Zenon
    <3>. QED
      BY <3>1, <3>2, <2>2, <1>11, Zenon
  <2>. QED
    BY <2>2, Zenon DEF Doomed
<1>14. Rejected(w) => Rejected(x)
  BY <1>10, Zenon DEF Rejected
<1>15. \A t : Leads(c, x, t) <=> Leads(c, w, t)
  BY <1>8, LeadsRest, Zenon DEF Leads, sub, h, rest
<1>16. Steered(c, x)
  BY <1>1, <1>13, <1>14, <1>15, Zenon DEF Steered
<1>. QED
  BY <1>1, <1>8, <1>12, <1>16 DEF Sound, Led

\* The venue refuses a command: if it was to be acknowledged it stays pending
\* for good, and otherwise it subscribed nothing.
LEMMA RejectLeads ==
    ASSUME adapter \in Adapters, NEW c, NEW w, Sound(c, w), Led(c, w), w.up # <<>>,
           NEW x \in Wire, x.up = Tail(w.up), x.subscribed = w.subscribed,
           Grown(w.down, Refusal, x.down)
    PROVE  Sound(c, x) /\ Led(c, x)
<1>. DEFINE h == Head(w.up)
<1>1. Conn(c) /\ Numbered(c) /\ InFlight(c, w) /\ w \in Wire /\ Steered(c, w) /\ Timed(c)
  BY Zenon DEF Sound, Led
<1>2. Refusal.kind = "reject" /\ Refusal.id = 0
  BY DEF Refusal
<1>3. \E n \in DOMAIN x.down : x.down[n] = Refusal
  BY Zenon DEF Grown
<1>6. /\ h \in Command /\ h.id < FirstQueued(c) /\ h.id \in Nat /\ 0 < h.id
      /\ Acks(h) # 0 => h.id \in DOMAIN c.pending /\ Unanswered(w.down, h.id)
      /\ \A i \in DOMAIN x.up : \E j \in DOMAIN w.up : x.up[i] = w.up[j]
      /\ \A i \in DOMAIN x.up : x.up[i].id # h.id
      /\ \A i, j \in DOMAIN x.up : i # j => x.up[i].id # x.up[j].id
  <2>1. Waiting(c, w, h, x.up)
    BY RestInFlight, Zenon
  <2>. QED
    BY <2>1, Zenon DEF Waiting
<1>7. \A id : Unanswered(w.down, id) => Unanswered(x.down, id)
  BY <1>2 DEF Unanswered, Grown
<1>. HIDE DEF h
<1>8. InFlight(c, x)
  <2>1. ASSUME NEW i \in DOMAIN x.up
        PROVE  /\ 0 < x.up[i].id /\ x.up[i].id < FirstQueued(c)
               /\ Acks(x.up[i]) # 0 => /\ x.up[i].id \in DOMAIN c.pending
                                       /\ Unanswered(x.down, x.up[i].id)
    BY <1>1, <1>6, <1>7, Zenon DEF InFlight
  <2>2. \A n \in DOMAIN x.down : x.down[n].id < FirstQueued(c)
    <3>1. 0 < FirstQueued(c)
      BY <1>1, FirstQueuedPositive, Zenon
    <3>. QED
      BY <3>1, <1>1, <1>2, Zenon DEF InFlight, Grown
  <2>. QED
    BY <2>1, <2>2, <1>6 DEF InFlight
<1>9. Doomed(c, w) => Doomed(c, x)
  BY <1>6, <1>7 DEF Doomed
<1>10. Rejected(x)
  BY <1>2, <1>3 DEF Rejected
<1>11. \A t \in Topics(c.desired) : Leads(c, x, t) \/ Doomed(c, x)
  <2>1. CASE Acks(h) # 0
    BY <2>1, <1>6, <1>7 DEF Doomed
  <2>2. CASE Acks(h) = 0
    <3>1. \A t : ~ (h.action = "subscribe" /\ t \in h.topics)
      BY <2>2, <1>6, AcksType
    <3>2. \A t : Leads(c, w, t) => Leads(c, x, t)
      BY <3>1, LeadsRest, Zenon DEF Leads, h
    <3>. QED
      BY <3>2, <1>1, <1>9, Zenon DEF Steered
  <2>. QED
    BY <2>1, <2>2
<1>. QED
  BY <1>1, <1>8, <1>10, <1>11 DEF Sound, Led, Steered

\* An acknowledgement of a request that was never sent is of no command.
LEMMA StrayLeads ==
    ASSUME NEW c, NEW w, Sound(c, w), Led(c, w),
           NEW x \in Wire, x.up = w.up, x.subscribed = w.subscribed,
           Grown(w.down, Stray, x.down)
    PROVE  Sound(c, x) /\ Led(c, x)
<1>1. Conn(c) /\ Numbered(c) /\ InFlight(c, w) /\ w \in Wire /\ Steered(c, w) /\ Timed(c)
  BY DEF Sound, Led
<1>2. Stray.kind = "ack" /\ Stray.id = 0
  BY DEF Stray
<1>5. 0 < FirstQueued(c)
  BY <1>1, FirstQueuedPositive, Zenon
<1>6. \A id : Unanswered(w.down, id) /\ id # 0 => Unanswered(x.down, id)
  BY <1>2 DEF Unanswered, Grown
<1>7. InFlight(c, x)
  <2>1. \A i \in DOMAIN w.up : w.up[i].id # 0
    <3>1. \A i \in DOMAIN w.up : 0 < w.up[i].id
      BY <1>1, Zenon DEF InFlight
    <3>. QED
      BY <3>1
  <2>2. \A n \in DOMAIN x.down : x.down[n].id < FirstQueued(c)
    BY <1>1, <1>2, <1>5 DEF InFlight, Grown
  <2>. QED
    BY <2>1, <2>2, <1>1, <1>6, Zenon DEF InFlight
<1>8. Doomed(c, w) => Doomed(c, x)
  BY <1>1, <1>6, Zenon DEF Doomed, Numbered
<1>9. Rejected(w) => Rejected(x)
  BY DEF Rejected, Grown
<1>10. \A t : Leads(c, x, t) <=> Leads(c, w, t)
  BY DEF Leads
<1>11. Steered(c, x)
  BY <1>1, <1>8, <1>9, <1>10 DEF Steered
<1>. QED
  BY <1>1, <1>7, <1>11 DEF Sound, Led

-----------------------------------------------------------------------------
(* One step of the task or the venue *)

\* The adapter never changes, so what holds of the connection and the socket a
\* step leaves behind holds in the next state.
LEMMA Rebuild ==
    ASSUME adapter' = adapter, NEW c, NEW w, conn' = c, wire' = w
    PROVE  /\ Sound(c, w) => Sound(conn, wire)'
           /\ Led(c, w) => Led(conn, wire)'
<1>1. Command' = Command /\ Frame' = Frame /\ Wire' = Wire
  BY DEF Command, Frame, Wire, Topics, TopicsPerKey
<1>2. \A k : Acks(k)' = Acks(k)
  BY DEF Acks, AckPerTopic, UnsubscribeAcked
<1>4. Conn(c) => Conn(conn)'
  BY <1>1 DEF Conn, Shape
<1>5. Numbered(c) => Numbered(conn)'
  BY DEF Numbered, FirstQueued
<1>6. InFlight(c, w) => InFlight(conn, wire)'
  BY <1>2 DEF InFlight, FirstQueued, Unanswered
<1>7. Sound(c, w) => Sound(conn, wire)'
  BY <1>1, <1>4, <1>5, <1>6 DEF Sound
<1>8. Steered(c, w) => Steered(conn, wire)'
  <2>1. \A t : Leads(c, w, t) <=> Leads(conn, wire, t)'
    BY DEF Leads, Reaches
  <2>2. Doomed(c, w) => Doomed(conn, wire)'
    BY DEF Doomed, Unanswered
  <2>3. Rejected(wire)' => Rejected(w)
    BY DEF Rejected
  <2>4. Topics(conn.desired)' = Topics(c.desired) /\ Topics(Keys)' = Topics(Keys)
    BY DEF Topics, TopicsPerKey
  <2>. QED
    BY <2>1, <2>2, <2>3, <2>4 DEF Steered
<1>9. Timed(c) => Timed(conn)'
  BY DEF Timed, ReadinessComplete
<1>. QED
  BY <1>7, <1>8, <1>9 DEF Led

\* run_connection returns, whatever for: its variables stay until the task has
\* looked at the result, the socket is gone.
LEMMA LeaveKeeps ==
    ASSUME IInv, NEW r, Leave(r), NEW c, NEW w, conn' = c, Sound(c, w),
           unseen' \in BOOLEAN, health' \in Health,
           ~ unseen' => health'.desired_subscriptions = Cardinality(Wanted)
    PROVE  IInv'
<1>1. /\ pc' = "exiting" /\ wire' = NoWire /\ adapter' = adapter /\ snapshot' = snapshot
  BY DEF Leave, environment
<1>2. adapter \in Adapters /\ snapshot \subseteq Keys
  BY DEF IInv, TypeOK
<1>3. Sound(conn, wire)'
  <2>1. Sound(c, NoWire)
    BY <1>2, LeftSound
  <2>. QED
    BY <2>1, <1>1, Rebuild
<1>4. TypeOK'
  BY <1>1, <1>2 DEF TypeOK, Health
<1>5. Scoped'
  BY <1>1 DEF Scoped, NoWire
<1>6. ~ Connected' /\ LiveFlag' /\ NoLostDemand'
  BY <1>1 DEF Connected, LiveFlag, NoLostDemand
<1>7. Published'
  <2>1. Wanted' = Wanted
    BY <1>1 DEF Wanted, Filter, Served
  <2>. QED
    BY <2>1, <1>1 DEF Published
<1>. QED
  BY <1>3, <1>4, <1>5, <1>6, <1>7 DEF IInv

\* The ways run_connection returns without touching its variables.
LEMMA LeavesKeep ==
    ASSUME IInv,
           \/ ConnectRefused \/ ConnectFails \/ StopConnected \/ Rotate \/ AckTimeout
           \/ ConnectionFails \/ RejectFrame
    PROVE  IInv'
<1>1. PICK r \in {"error", "idle", "rotate"} : Leave(r)
  BY DEF ConnectRefused, ConnectFails, StopConnected, Rotate, AckTimeout, ConnectionFails,
         RejectFrame
<1>2. pc \in {"connecting", "connected"} /\ conn' = conn /\ health' = health /\ unseen' = unseen
  BY DEF ConnectRefused, ConnectFails, StopConnected, Rotate, AckTimeout, ConnectionFails,
         RejectFrame
<1>3. PICK c : c = conn'
  OBVIOUS
<1>4. PICK w : w = wire
  OBVIOUS
<1>5. Sound(c, w)
  BY <1>2, <1>3, <1>4 DEF IInv
<1>6. unseen \in BOOLEAN /\ health \in Health
  BY DEF IInv, TypeOK
<1>7. ~ unseen => health.desired_subscriptions = Cardinality(Wanted)
  BY <1>2 DEF IInv, Published
<1>. QED
  BY <1>1, <1>2, <1>3, <1>5, <1>6, <1>7, LeaveKeeps

\* A step that leaves the task connected.
LEMMA ConnectedKeeps ==
    ASSUME IInv, NEW c, NEW w, conn' = c, wire' = w, Sound(c, w), Led(c, w),
           adapter' = adapter, snapshot' = snapshot, pc' = "connected",
           unseen' \in BOOLEAN, health' \in Health, c.live = (health'.state = "Live"),
           ~ unseen' => /\ c.desired = Wanted
                        /\ health'.desired_subscriptions = Cardinality(Wanted)
    PROVE  IInv'
<1>1. adapter \in Adapters /\ snapshot \subseteq Keys
  BY DEF IInv, TypeOK
<1>2. Sound(conn, wire)' /\ Led(conn, wire)'
  BY Rebuild
<1>3. TypeOK'
  BY <1>1 DEF TypeOK, Health
<1>4. Scoped'
  BY DEF Scoped
<1>5. LiveFlag'
  BY DEF LiveFlag
<1>6. Wanted' = Wanted
  BY DEF Wanted, Filter, Served
<1>7. NoLostDemand' /\ Published'
  BY <1>6 DEF NoLostDemand, Published
<1>. QED
  BY <1>2, <1>3, <1>4, <1>5, <1>7 DEF IInv

LEMMA NothingDesired ==
    NoConn = [NoConn EXCEPT !.desired = {}]
<1>1. Shape(NoConn) /\ NoConn.desired = {}
  BY Zenon DEF NoConn, NoPending, Shape
<1>2. ASSUME NEW c, Shape(c), c.desired = {}
      PROVE  c = [c EXCEPT !.desired = {}]
  BY <1>2 DEF Shape
<1>. QED
  BY <1>1, <1>2

LEMMA NothingSound ==
    ASSUME adapter \in Adapters
    PROVE  Sound(NoConn, NoWire)
  BY NothingDesired, FreshSound, Zenon

\* A step that leaves the task without a connection.
LEMMA RestKeeps ==
    ASSUME IInv, pc' \in {"check", "idle", "backoff", "stopped"}, conn' = NoConn, wire' = NoWire,
           adapter' = adapter, snapshot' = snapshot, unseen' \in BOOLEAN, health' \in Health,
           ~ unseen' /\ pc' = "idle" => Wanted = {},
           ~ unseen' /\ pc' # "check" => health'.desired_subscriptions = Cardinality(Wanted),
           health'.state = "Live" => pc' = "check"
    PROVE  IInv'
<1>1. adapter \in Adapters /\ snapshot \subseteq Keys
  BY DEF IInv, TypeOK
<1>2. Sound(conn, wire)'
  <2>1. Sound(NoConn, NoWire)
    BY <1>1, NothingSound
  <2>. QED
    BY <2>1, Rebuild
<1>3. TypeOK'
  BY <1>1 DEF TypeOK, Health
<1>4. Scoped'
  BY DEF Scoped, NoConn, NoWire, NoPending
<1>5. ~ Connected' /\ LiveFlag'
  BY DEF Connected, LiveFlag
<1>6. Wanted' = Wanted
  BY DEF Wanted, Filter, Served
<1>7. NoLostDemand' /\ Published'
  BY <1>6 DEF NoLostDemand, Published
<1>. QED
  BY <1>2, <1>3, <1>4, <1>5, <1>7 DEF IInv

LEMMA HealthFields ==
    ASSUME health \in Health,
           NEW s \in {"Idle", "Connecting", "Live", "Backoff", "Stopped"}, NEW e \in BOOLEAN,
           NEW n \in Nat
    PROVE  /\ LET h == [state |-> s, epoch |-> e, desired_subscriptions |-> n]
              IN  h \in Health /\ h.state = s /\ h.desired_subscriptions = n
           /\ LET h == [health EXCEPT !.state = s, !.epoch = e]
              IN  /\ h \in Health /\ h.state = s
                  /\ h.desired_subscriptions = health.desired_subscriptions
           /\ LET h == [health EXCEPT !.state = s]
              IN  /\ h \in Health /\ h.state = s
                  /\ h.desired_subscriptions = health.desired_subscriptions
  BY Zenon DEF Health

LEMMA WantedCounted ==
    ASSUME TypeOK
    PROVE  Wanted \subseteq Keys /\ Cardinality(Wanted) \in Nat
<1>1. Wanted \subseteq Keys
  BY DEF TypeOK, Wanted, Filter
<1>2. IsFiniteSet(Wanted)
  BY <1>1, SupervisorAssumption, FS_Subset, Zenon
<1>. QED
  BY <1>1, <1>2, FS_CardinalityType

LEMMA NoneWanted ==
    ASSUME TypeOK, Cardinality(Wanted) = 0
    PROVE  Wanted = {}
<1>1. IsFiniteSet(Wanted)
  BY WantedCounted, SupervisorAssumption, FS_Subset
<1>. QED
  BY <1>1, FS_EmptySet

LEMMA CheckKeeps ==
    ASSUME IInv, CheckDesired
    PROVE  IInv'
<1>1. /\ TypeOK /\ adapter \in Adapters /\ health \in Health /\ unseen \in BOOLEAN
      /\ conn = NoConn /\ wire = NoWire
  BY DEF IInv, TypeOK, Scoped, CheckDesired
<1>2. Wanted \subseteq Keys /\ Cardinality(Wanted) \in Nat
  BY <1>1, WantedCounted
<1>3. /\ adapter' = adapter /\ snapshot' = snapshot /\ unseen' = unseen /\ wire' = NoWire
      /\ Wanted' = Wanted
  BY <1>1 DEF CheckDesired, environment, Wanted, Filter, Served
<1>4. CASE Wanted = {}
  <2>1. /\ pc' = "idle" /\ conn' = NoConn
        /\ health' = [state |-> "Idle", epoch |-> FALSE, desired_subscriptions |-> 0]
    BY <1>1, <1>4 DEF CheckDesired
  <2>2. health' \in Health /\ health'.state = "Idle" /\ health'.desired_subscriptions = 0
    BY <2>1, <1>1, HealthFields, Zenon
  <2>3. Cardinality(Wanted) = 0
    BY <1>4, FS_EmptySet
  <2>. QED
    BY <2>1, <2>2, <2>3, <1>1, <1>3, <1>4, RestKeeps
<1>5. CASE Wanted # {}
  <2>1. /\ pc' = "connecting" /\ conn' = [NoConn EXCEPT !.desired = Wanted]
        /\ health' = [state |-> "Connecting", epoch |-> FALSE,
                      desired_subscriptions |-> Cardinality(Wanted)]
    BY <1>5 DEF CheckDesired
  <2>2. /\ health' \in Health /\ health'.state = "Connecting"
        /\ health'.desired_subscriptions = Cardinality(Wanted)
    BY <2>1, <1>1, <1>2, HealthFields, Zenon
  <2>3. PICK D \in SUBSET Keys : D = Wanted
    BY <1>2
  <2>4. PICK c : c = [NoConn EXCEPT !.desired = D]
    BY Zenon
  <2>5. Sound(c, NoWire) /\ c.desired = D
    BY <2>4, <1>1, FreshSound, Zenon
  <2>6. Sound(conn, wire)' /\ conn'.desired = Wanted
    BY <2>1, <2>3, <2>4, <2>5, <1>3, Rebuild
  <2>7. TypeOK'
    BY <2>2, <1>1, <1>3 DEF TypeOK, Health
  <2>8. Scoped'
    BY <2>1, <2>6, <1>3 DEF Scoped, NoWire, NoConn, NoPending
  <2>9. ~ Connected' /\ LiveFlag'
    BY <2>1 DEF Connected, LiveFlag
  <2>10. NoLostDemand' /\ Published'
    BY <2>1, <2>2, <2>6, <1>3 DEF NoLostDemand, Published
  <2>. QED
    BY <2>6, <2>7, <2>8, <2>9, <2>10 DEF IInv
<1>. QED
  BY <1>4, <1>5

LEMMA OutsideKeeps ==
    ASSUME IInv, WakeIdle \/ StopIdle \/ StopBackoff \/ Exit \/ Retry
    PROVE  IInv'
<1>1. health \in Health /\ unseen \in BOOLEAN
  BY DEF IInv, TypeOK
<1>2. adapter' = adapter /\ snapshot' = snapshot
  BY DEF WakeIdle, StopIdle, StopBackoff, Exit, Retry, environment
<1>3. conn' = NoConn /\ wire' = NoWire
  BY DEF IInv, Scoped, WakeIdle, StopIdle, StopBackoff, Exit, Retry, Stopped
<1>4. CASE WakeIdle
  BY <1>1, <1>2, <1>3, <1>4, RestKeeps, Zenon DEF WakeIdle, IInv, Published
<1>5. CASE StopIdle \/ StopBackoff
  <2>1. /\ pc' = "stopped" /\ unseen' = unseen /\ pc # "check"
        /\ health' = [health EXCEPT !.state = "Stopped", !.epoch = FALSE]
    BY <1>5 DEF StopIdle, StopBackoff, Stopped, SetHealthNoEpoch
  <2>2. /\ health' \in Health /\ health'.state = "Stopped"
        /\ health'.desired_subscriptions = health.desired_subscriptions
    BY <2>1, <1>1, HealthFields, Zenon
  <2>. QED
    BY <2>1, <2>2, <1>1, <1>2, <1>3, RestKeeps DEF IInv, Published
<1>6. CASE Exit
  <2>1. /\ pc = "exiting" /\ unseen' = unseen /\ pc' \in {"stopped", "check", "backoff"}
        /\ \/ pc' = "check" /\ health' = health
           \/ pc' = "stopped" /\ health' = [health EXCEPT !.state = "Stopped", !.epoch = FALSE]
           \/ pc' = "backoff" /\ health' = [health EXCEPT !.state = "Backoff", !.epoch = FALSE]
    BY <1>6 DEF Exit, SetHealthNoEpoch
  <2>2. /\ health' \in Health
        /\ health'.state = "Live" => pc' = "check"
        /\ health'.desired_subscriptions = health.desired_subscriptions
    <3>1. CASE pc' = "check" /\ health' = health
      BY <3>1, <1>1
    <3>2. CASE health' = [health EXCEPT !.state = "Stopped", !.epoch = FALSE]
      BY <3>2, <1>1, HealthFields, Zenon
    <3>3. CASE health' = [health EXCEPT !.state = "Backoff", !.epoch = FALSE]
      BY <3>3, <1>1, HealthFields, Zenon
    <3>. QED
      BY <3>1, <3>2, <3>3, <2>1
  <2>. QED
    BY <2>1, <2>2, <1>1, <1>2, <1>3, RestKeeps DEF IInv, Published
<1>7. CASE Retry
  <2>1. pc = "backoff" /\ pc' = "check" /\ unseen' = unseen /\ health' = health
    BY <1>7 DEF Retry
  <2>. QED
    BY <2>1, <1>1, <1>2, <1>3, RestKeeps
<1>. QED
  BY <1>4, <1>5, <1>6, <1>7

LEMMA ConnectKeeps ==
    ASSUME IInv, Connect
    PROVE  IInv'
<1>1. health \in Health /\ unseen \in BOOLEAN /\ adapter \in Adapters
  BY DEF IInv, TypeOK
<1>2. /\ pc = "connecting" /\ pc' = "connected" /\ unseen' = unseen /\ wire' = wire
      /\ adapter' = adapter /\ snapshot' = snapshot
      /\ conn' = Enqueue(conn, "subscribe", conn.desired)
      /\ health' = [health EXCEPT !.state = "Connecting", !.epoch = TRUE]
  BY DEF Connect, environment
<1>3. conn.desired \in SUBSET Keys /\ wire = NoWire /\ conn = [NoConn EXCEPT !.desired = conn.desired]
  BY <1>2 DEF IInv, Sound, Conn, Scoped
<1>4. PICK D \in SUBSET Keys : D = conn.desired
  BY <1>3
<1>5. PICK c : c = [NoConn EXCEPT !.desired = D]
  BY Zenon
<1>6. PICK e : e = Enqueue(c, "subscribe", D)
  OBVIOUS
<1>7. Sound(e, NoWire) /\ Led(e, NoWire) /\ e.live = FALSE /\ e.desired = D
  BY <1>1, <1>5, <1>6, ConnectLeads, Zenon
<1>8. conn' = e /\ wire' = NoWire
  BY <1>2, <1>3, <1>4, <1>5, <1>6
<1>9. /\ health' \in Health /\ health'.state = "Connecting"
      /\ health'.desired_subscriptions = health.desired_subscriptions
  BY <1>1, <1>2, HealthFields, Zenon
<1>10. ~ unseen => /\ D = Wanted
                   /\ health.desired_subscriptions = Cardinality(Wanted)
  BY <1>2, <1>4 DEF IInv, NoLostDemand, Published
<1>11. e.live = (health'.state = "Live")
  BY <1>7, <1>9, Zenon
<1>. QED
  BY <1>1, <1>2, <1>7, <1>8, <1>9, <1>10, <1>11, ConnectedKeeps

\* mark_live, or the deadline that stays armed, after a command was sent or
\* acknowledged.
LEMMA Settles ==
    ASSUME NEW s, NEW x, Sound(s, x), Steered(s, x), s.live = FALSE,
           DOMAIN s.pending # {} => s.deadline,
           NEW n, n = IF ReadinessComplete(s) THEN GoLive(s) ELSE s
    PROVE  /\ Sound(n, x) /\ Led(n, x) /\ n.desired = s.desired
           /\ n.live = TRUE <=> ReadinessComplete(s)
<1>1. CASE ReadinessComplete(s)
  <2>1. Conn(s)
    BY DEF Sound
  <2>2. /\ Conn(n) /\ n.desired = s.desired /\ n.queued = s.queued /\ n.pending = s.pending
        /\ n.known = s.known /\ n.next_id = s.next_id /\ n.live = TRUE /\ n.deadline = FALSE
    BY <2>1, <1>1, GoLiveFields, Zenon
  <2>3. Sound(n, x) /\ Steered(n, x)
    BY <2>2, FlagsOnly
  <2>4. Timed(n)
    BY <2>2, <1>1 DEF Timed, ReadinessComplete
  <2>. QED
    BY <2>2, <2>3, <2>4, <1>1 DEF Led
<1>2. CASE ~ ReadinessComplete(s)
  <2>1. Timed(s)
    BY <1>2 DEF Timed
  <2>. QED
    BY <2>1, <1>2 DEF Led
<1>. QED
  BY <1>1, <1>2, Zenon

LEMMA SendKeeps ==
    ASSUME IInv, SendCommand
    PROVE  IInv'
<1>1. health \in Health /\ unseen \in BOOLEAN /\ adapter \in Adapters
  BY DEF IInv, TypeOK
<1>2. pc = "connected" /\ conn.queued # <<>> /\ unseen' = unseen
  BY DEF SendCommand
<1>3. PICK c, w : c = conn /\ w = wire
  OBVIOUS
<1>4. PICK s : s = MarkSent(c)
  OBVIOUS
<1>5. PICK x : x = [w EXCEPT !.up = Append(@, Head(c.queued))]
  BY Zenon
<1>6. PICK n : n = IF ReadinessComplete(s) THEN GoLive(s) ELSE s
  OBVIOUS
<1>7. /\ conn' = n
      /\ health' = IF ReadinessComplete(s) THEN [health EXCEPT !.state = "Live"] ELSE health
      /\ \/ Leave("idle")
         \/ /\ wire' = x /\ pc' = "connected" /\ adapter' = adapter /\ snapshot' = snapshot
  BY <1>2, <1>3, <1>4, <1>5, <1>6 DEF SendCommand, SetHealth, environment
<1>8. Sound(c, w) /\ Led(c, w) /\ c.queued # <<>> /\ c.live = (health.state = "Live")
  BY <1>2, <1>3 DEF IInv, Connected, LiveFlag
<1>9. c.live = FALSE
  BY <1>8 DEF Led, Timed, ReadinessComplete, Sound, Conn
<1>10. /\ Sound(s, x) /\ Steered(s, x)
       /\ s.desired = c.desired /\ s.live = FALSE
       /\ DOMAIN s.pending # {} => s.deadline
  BY <1>1, <1>4, <1>5, <1>8, SendLeads, Zenon
<1>11. /\ Sound(n, x) /\ Led(n, x) /\ n.desired = c.desired
       /\ n.live = TRUE <=> ReadinessComplete(s)
  BY <1>6, <1>10, Settles, Zenon
<1>12. /\ health' \in Health
       /\ health'.desired_subscriptions = health.desired_subscriptions
       /\ health'.state = "Live" <=> ReadinessComplete(s)
  <2>1. CASE ReadinessComplete(s)
    BY <2>1, <1>1, <1>7, HealthFields, Zenon
  <2>2. CASE ~ ReadinessComplete(s)
    BY <2>2, <1>1, <1>7, <1>8, <1>9, Zenon
  <2>. QED
    BY <2>1, <2>2
<1>13. ~ unseen => /\ c.desired = Wanted
                   /\ health.desired_subscriptions = Cardinality(Wanted)
  BY <1>2, <1>3 DEF IInv, NoLostDemand, Published
<1>14. CASE Leave("idle")
  BY <1>1, <1>2, <1>7, <1>11, <1>12, <1>13, <1>14, LeaveKeeps
<1>15. CASE wire' = x /\ pc' = "connected" /\ adapter' = adapter /\ snapshot' = snapshot
  <2>1. n.live = (health'.state = "Live")
    <3>1. n.live \in BOOLEAN
      BY <1>11 DEF Sound, Conn
    <3>. QED
      BY <3>1, <1>11, <1>12
  <2>. QED
    BY <2>1, <1>1, <1>2, <1>7, <1>11, <1>12, <1>13, <1>15, ConnectedKeeps
<1>. QED
  BY <1>7, <1>14, <1>15

LEMMA ArmedFields ==
    ASSUME NEW c, Conn(c)
    PROVE  LET d == [c EXCEPT !.deadline = TRUE] IN
           /\ Conn(d) /\ d.desired = c.desired /\ d.queued = c.queued /\ d.pending = c.pending
           /\ d.known = c.known /\ d.next_id = c.next_id
           /\ d.live = c.live /\ d.deadline = TRUE
<1>. DEFINE d == [c EXCEPT !.deadline = TRUE]
<1>1. /\ Shape(d) /\ d.desired = c.desired /\ d.queued = c.queued /\ d.pending = c.pending
      /\ d.known = c.known /\ d.next_id = c.next_id
      /\ d.live = c.live /\ d.deadline = TRUE
  <2>1. Shape(c) /\ d = [c EXCEPT !.deadline = TRUE]
    BY DEF Conn
  <2>. HIDE DEF d
  <2>. QED
    BY <2>1, Zenon DEF Shape
<1>. HIDE DEF d
<1>2. Conn(d)
  BY <1>1, Zenon DEF Conn
<1>. QED
  BY <1>1, <1>2 DEF d

LEMMA AckKeeps ==
    ASSUME IInv, AckFrame
    PROVE  IInv'
<1>1. health \in Health /\ unseen \in BOOLEAN /\ adapter \in Adapters
  BY DEF IInv, TypeOK
<1>2. /\ pc = "connected" /\ unseen' = unseen
      /\ wire.down # <<>> /\ Head(wire.down).kind = "ack"
  BY DEF AckFrame
<1>3. PICK c, w : c = conn /\ w = wire
  OBVIOUS
<1>4. Sound(c, w) /\ Led(c, w) /\ c.live = (health.state = "Live")
  BY <1>2, <1>3 DEF IInv, Connected, LiveFlag
<1>5. ~ unseen => /\ c.desired = Wanted
                  /\ health.desired_subscriptions = Cardinality(Wanted)
  BY <1>2, <1>3 DEF IInv, NoLostDemand, Published
<1>6. PICK id : id = Head(w.down).id
  OBVIOUS
<1>7. CASE id \notin DOMAIN c.pending
  <2>1. Leave("error") /\ conn' = c /\ health' = health
    BY <1>2, <1>3, <1>6, <1>7 DEF AckFrame
  <2>. QED
    BY <2>1, <1>1, <1>2, <1>4, <1>5, LeaveKeeps
<1>8. CASE id \in DOMAIN c.pending
  <2>1. PICK a : a = Acknowledge(c, id)
    OBVIOUS
  <2>2. PICK x : x = [w EXCEPT !.down = Tail(@)]
    BY Zenon
  <2>3. c.live = FALSE
    BY <1>4, <1>8 DEF Led, Timed, ReadinessComplete, Sound, Conn
  <2>4. /\ conn' = IF ReadinessComplete(a) THEN GoLive(a) ELSE [a EXCEPT !.deadline = TRUE]
        /\ health' = IF ReadinessComplete(a) THEN [health EXCEPT !.state = "Live"] ELSE health
        /\ wire' = x /\ pc' = "connected" /\ adapter' = adapter /\ snapshot' = snapshot
    BY <2>1, <2>2, <2>3, <1>2, <1>3, <1>6, <1>8 DEF AckFrame, SetHealth, environment
  <2>5. Acked(a, c, id)
    BY <2>1, <1>4, <1>8, AcknowledgeFields DEF Sound
  <2>6. Sound(a, x) /\ Steered(a, x) /\ a.live = FALSE /\ a.desired = c.desired
    BY <2>2, <2>5, <1>2, <1>3, <1>4, <1>6, <1>8, AckLeads, Zenon
  <2>7. PICK d : d = [a EXCEPT !.deadline = TRUE]
    BY Zenon
  <2>8. /\ Conn(d) /\ d.desired = a.desired /\ d.queued = a.queued /\ d.pending = a.pending
        /\ d.known = a.known /\ d.next_id = a.next_id /\ d.live = FALSE /\ d.deadline = TRUE
    BY <2>6, <2>7, ArmedFields DEF Sound
  <2>9. Sound(d, x) /\ Steered(d, x)
    BY <2>6, <2>8, FlagsOnly
  <2>10. CASE ReadinessComplete(a)
    <3>1. PICK n : n = GoLive(a)
      OBVIOUS
    <3>2. DOMAIN a.pending # {} => a.deadline
      BY <2>10 DEF ReadinessComplete
    <3>3. Sound(n, x) /\ Led(n, x) /\ n.desired = c.desired /\ n.live = TRUE
      BY <3>1, <3>2, <2>6, <2>10, Settles, Zenon
    <3>4. /\ conn' = n /\ health' \in Health /\ health'.state = "Live"
          /\ health'.desired_subscriptions = health.desired_subscriptions
      BY <3>1, <2>4, <2>10, <1>1, HealthFields, Zenon
    <3>5. n.live = (health'.state = "Live")
      BY <3>3, <3>4, Zenon
    <3>. QED
      BY <3>3, <3>4, <3>5, <2>4, <1>1, <1>2, <1>5, ConnectedKeeps, Zenon
  <2>11. CASE ~ ReadinessComplete(a)
    <3>1. Led(d, x)
      BY <2>8, <2>9, <2>11 DEF Led, Timed, ReadinessComplete
    <3>2. conn' = d /\ health' = health
      BY <2>4, <2>7, <2>11
    <3>3. d.live = (health'.state = "Live")
      BY <3>2, <2>3, <2>8, <1>4, Zenon
    <3>. QED
      BY <3>1, <3>2, <3>3, <2>4, <2>6, <2>8, <2>9, <1>1, <1>2, <1>5, ConnectedKeeps, Zenon
  <2>. QED
    BY <2>10, <2>11
<1>. QED
  BY <1>7, <1>8

LEMMA DiffKeeps ==
    ASSUME IInv, DesiredChanged
    PROVE  IInv'
<1>1. TypeOK /\ health \in Health /\ adapter \in Adapters
  BY DEF IInv, TypeOK
<1>2. pc = "connected" /\ unseen' = FALSE
  BY DEF DesiredChanged
<1>3. PICK c, w : c = conn /\ w = wire
  OBVIOUS
<1>4. Sound(c, w) /\ Led(c, w) /\ c.live = (health.state = "Live")
  BY <1>2, <1>3 DEF IInv, Connected, LiveFlag
<1>5. Wanted \in SUBSET Keys /\ Cardinality(Wanted) \in Nat
  BY <1>1, WantedCounted
<1>6. PICK next \in SUBSET Keys : next = Wanted
  BY <1>5
<1>7. Conn(c) /\ Numbered(c) /\ c.desired \subseteq Keys
  BY <1>4 DEF Sound, Conn
<1>8. PICK removed \in SUBSET Keys : removed = c.desired \ next
  BY <1>7, Zenon
<1>9. PICK added \in SUBSET Keys : added = next \ c.desired
  BY Zenon
<1>10. PICK d : d = [ApplyDiff(c, removed, added) EXCEPT !.desired = next, !.idle_after = (next = {})]
  BY Zenon
<1>11. PICK counted : counted = [health EXCEPT !.desired_subscriptions = Cardinality(next)]
  BY Zenon
<1>12. PICK moved : moved = [counted EXCEPT !.state = "Connecting"]
  BY Zenon
<1>13. \/ Leave("error") /\ health' = counted /\ conn' = c
       \/ /\ conn' = d
          /\ health' = IF removed # {} \/ added # {} THEN moved ELSE counted
          /\ \/ Leave("idle")
             \/ wire' = w /\ pc' = "connected" /\ adapter' = adapter /\ snapshot' = snapshot
  BY <1>2, <1>3, <1>6, <1>8, <1>9, <1>10, <1>11, <1>12 DEF DesiredChanged, environment
<1>14. /\ counted \in Health /\ counted.state = health.state
       /\ counted.desired_subscriptions = Cardinality(Wanted)
       /\ moved \in Health /\ moved.state = "Connecting"
       /\ moved.desired_subscriptions = Cardinality(Wanted)
  <2>1. /\ counted \in Health /\ counted.state = health.state
        /\ counted.desired_subscriptions = Cardinality(Wanted)
    BY <1>1, <1>5, <1>6, <1>11 DEF Health
  <2>2. /\ moved \in Health /\ moved.state = "Connecting"
        /\ moved.desired_subscriptions = counted.desired_subscriptions
    BY <2>1, <1>12 DEF Health
  <2>. QED
    BY <2>1, <2>2
<1>15. Diffed(d, c, next, removed, added)
  BY <1>1, <1>7, <1>10, DiffFields, Zenon
<1>16. /\ Sound(d, w) /\ Led(d, w) /\ d.desired = next
       /\ d.live = (c.live /\ removed = {} /\ added = {})
  <2>1. Sound(d, w) /\ Led(d, w)
    BY <1>4, <1>8, <1>9, <1>15, DiffLeads
  <2>. QED
    BY <2>1, <1>15, Zenon DEF Diffed
<1>17. CASE Leave("error") /\ health' = counted /\ conn' = c
  BY <1>2, <1>4, <1>14, <1>17, LeaveKeeps, Zenon
<1>18. CASE /\ conn' = d
            /\ health' = IF removed # {} \/ added # {} THEN moved ELSE counted
            /\ Leave("idle")
  <2>1. health' \in Health /\ health'.desired_subscriptions = Cardinality(Wanted)
    BY <1>14, <1>18
  <2>. QED
    BY <2>1, <1>2, <1>16, <1>18, LeaveKeeps, Zenon
<1>19. CASE /\ conn' = d
            /\ health' = IF removed # {} \/ added # {} THEN moved ELSE counted
            /\ wire' = w /\ pc' = "connected" /\ adapter' = adapter /\ snapshot' = snapshot
  <2>1. health' \in Health /\ health'.desired_subscriptions = Cardinality(Wanted)
    BY <1>14, <1>19
  <2>2. d.live = (health'.state = "Live")
    BY <1>4, <1>14, <1>16, <1>19, Zenon
  <2>. QED
    BY <2>1, <2>2, <1>2, <1>6, <1>16, <1>19, ConnectedKeeps, Zenon
<1>. QED
  BY <1>13, <1>17, <1>18, <1>19

LEMMA VenueKeeps ==
    ASSUME IInv, VenueApplies \/ VenueRejects \/ VenueStrayAck
    PROVE  IInv'
<1>1. health \in Health /\ unseen \in BOOLEAN /\ adapter \in Adapters
  BY DEF IInv, TypeOK
<1>2. /\ pc = "connected" /\ pc' = "connected" /\ unseen' = unseen /\ conn' = conn
      /\ health' = health /\ adapter' = adapter /\ snapshot' = snapshot
  BY DEF VenueApplies, VenueRejects, VenueStrayAck, environment
<1>3. PICK c, w : c = conn /\ w = wire
  OBVIOUS
<1>4. Sound(c, w) /\ Led(c, w) /\ c.live = (health.state = "Live") /\ w \in Wire
  BY <1>2, <1>3 DEF IInv, Connected, LiveFlag, Sound
<1>5. ~ unseen => /\ c.desired = Wanted
                  /\ health.desired_subscriptions = Cardinality(Wanted)
  BY <1>2, <1>3 DEF IInv, NoLostDemand, Published
<1>6. PICK x : x = wire'
  OBVIOUS
<1>7. Sound(c, x) /\ Led(c, x)
  <2>1. CASE VenueApplies
    <3>1. /\ w.up # <<>>
          /\ x = Applied(w)
      BY <2>1, <1>3, <1>6 DEF VenueApplies, Applied, Answers
    <3>. QED
      BY <3>1, <1>1, <1>4, ApplyLeads, Zenon
  <2>2. CASE VenueRejects
    <3>1. /\ w.up # <<>>
          /\ x = [w EXCEPT !.up = Tail(@), !.down = Append(@, Refusal)]
      BY <2>2, <1>3, <1>6 DEF VenueRejects, Refusal
    <3>2. /\ w.up \in Seq(Command) /\ w.down \in Seq(Frame)
          /\ Tail(w.up) \in Seq(Command) /\ Refusal \in Frame
      BY <3>1, <1>4, WireFields, HeadTailProperties DEF Frame, Refusal
    <3>3. /\ Append(w.down, Refusal) \in Seq(Frame)
          /\ Grown(w.down, Refusal, Append(w.down, Refusal))
      BY <3>2, Appended
    <3>4. /\ x \in Wire /\ x.up = Tail(w.up) /\ x.subscribed = w.subscribed
          /\ Grown(w.down, Refusal, x.down)
      BY <3>1, <3>2, <3>3, <1>4, Zenon DEF Wire
    <3>. QED
      BY <3>1, <3>4, <1>1, <1>4, RejectLeads, Zenon
  <2>3. CASE VenueStrayAck
    <3>1. x = [w EXCEPT !.down = Append(@, Stray)]
      BY <2>3, <1>3, <1>6 DEF VenueStrayAck, Stray
    <3>2. w.down \in Seq(Frame) /\ Stray \in Frame
      BY <1>4, WireFields DEF Frame, Stray
    <3>3. Append(w.down, Stray) \in Seq(Frame) /\ Grown(w.down, Stray, Append(w.down, Stray))
      BY <3>2, Appended
    <3>4. /\ x \in Wire /\ x.up = w.up /\ x.subscribed = w.subscribed
          /\ Grown(w.down, Stray, x.down)
      BY <3>1, <3>3, <1>4, Zenon DEF Wire
    <3>. QED
      BY <3>4, <1>4, StrayLeads
  <2>. QED
    BY <2>1, <2>2, <2>3
<1>8. conn' = c /\ wire' = x /\ c.live = (health'.state = "Live")
  BY <1>2, <1>3, <1>4, <1>6
<1>. QED
  BY <1>1, <1>2, <1>5, <1>7, <1>8, ConnectedKeeps

\* A step of the environment: the task, its connection and its health entry
\* stay as they are, and a value it has not seen yet may have been published.
LEMMA DemandKeeps ==
    ASSUME IInv, UNCHANGED <<adapter, pc, conn, wire, health>>,
           \/ snapshot' = snapshot /\ unseen' = unseen
           \/ snapshot' \subseteq Keys /\ unseen' = TRUE
    PROVE  IInv'
<1>1. TypeOK'
  BY Zenon DEF IInv, TypeOK, Health
<1>2. PICK c, w : c = conn /\ w = wire
  OBVIOUS
<1>3. Sound(conn, wire)' /\ (Connected' => Led(conn, wire)')
  <2>1. Sound(c, w) /\ (Connected => Led(c, w))
    BY <1>2 DEF IInv
  <2>2. conn' = c /\ wire' = w /\ (Connected' <=> Connected)
    BY <1>2 DEF Connected
  <2>. QED
    BY <2>1, <2>2, Rebuild
<1>4. Scoped' /\ LiveFlag'
  BY DEF IInv, Scoped, LiveFlag, Connected, NoConn, NoWire, NoPending
<1>5. NoLostDemand' /\ Published'
  <2>1. CASE snapshot' = snapshot /\ unseen' = unseen
    <3>1. Wanted' = Wanted
      BY <2>1 DEF Wanted, Filter, Served
    <3>. QED
      BY <2>1, <3>1 DEF IInv, NoLostDemand, Published
  <2>2. CASE unseen' = TRUE
    BY <2>2 DEF IInv, NoLostDemand, Published
  <2>. QED
    BY <2>1, <2>2, Zenon
<1>. QED
  BY <1>1, <1>3, <1>4, <1>5 DEF IInv

\* One step of the task, of a stop, of a failure or of the venue.
LEMMA TaskKeeps ==
    ASSUME IInv, Task \/ Stop \/ Failure \/ VenueApplies
    PROVE  IInv'
<1>1. CASE CheckDesired
  BY <1>1, CheckKeeps
<1>2. CASE WakeIdle \/ StopIdle \/ StopBackoff \/ Exit \/ Retry
  BY <1>2, OutsideKeeps
<1>3. CASE Connect
  BY <1>3, ConnectKeeps
<1>4. CASE \/ ConnectRefused \/ ConnectFails \/ StopConnected \/ Rotate \/ AckTimeout
           \/ ConnectionFails \/ RejectFrame
  BY <1>4, LeavesKeep
<1>5. CASE SendCommand
  BY <1>5, SendKeeps
<1>6. CASE DesiredChanged
  BY <1>6, DiffKeeps
<1>7. CASE AckFrame
  BY <1>7, AckKeeps
<1>8. CASE VenueApplies \/ VenueRejects \/ VenueStrayAck
  BY <1>8, VenueKeeps
<1>. QED
  BY <1>1, <1>2, <1>3, <1>4, <1>5, <1>6, <1>7, <1>8 DEF Task, Advance, Stop, Failure

\* A task that has not run: it is about to look at the demand, or was never
\* spawned.
LEMMA FreshHolds ==
    ASSUME adapter \in Adapters, snapshot = {}, unseen = FALSE, pc \in {"check", "stopped"},
           conn = NoConn, wire = NoWire,
           NEW s \in {"Idle", "Stopped"},
           health = [state |-> s, epoch |-> FALSE, desired_subscriptions |-> 0]
    PROVE  IInv
<1>1. TypeOK /\ health.state = s /\ health.desired_subscriptions = 0
  BY Zenon DEF TypeOK, Health
<1>2. Sound(conn, wire)
  BY NothingSound
<1>3. Wanted = {} /\ Cardinality({}) = 0
  BY FS_EmptySet DEF Wanted, Filter
<1>4. Scoped /\ ~ Connected /\ LiveFlag /\ NoLostDemand /\ Published
  BY <1>1, <1>3 DEF Scoped, Connected, LiveFlag, NoLostDemand, Published
<1>. QED
  BY <1>1, <1>2, <1>4 DEF IInv

LEMMA InitHolds ==
    ASSUME Init
    PROVE  IInv
  BY FreshHolds, Zenon DEF Init

-----------------------------------------------------------------------------
(* The theorems *)

\* Every reachable state of supervise_endpoint satisfies the invariant, whatever
\* the keys, the adapters and the number of changes and failures.
THEOREM Invariance == Spec => []IInv
<1>1. Init => IInv
  BY InitHolds
<1>2. IInv /\ [Next]_vars => IInv'
  <2>1. ASSUME IInv, Task \/ Stop \/ Failure \/ VenueApplies
        PROVE  IInv'
    BY <2>1, TaskKeeps
  <2>2. ASSUME IInv, DemandChanges
        PROVE  IInv'
    BY <2>2, DemandKeeps, Zenon DEF DemandChanges
  <2>3. ASSUME IInv, CancelToken \/ UNCHANGED vars
        PROVE  IInv'
    <3>1. UNCHANGED <<adapter, pc, conn, wire, health, snapshot, unseen>>
      BY <2>3 DEF CancelToken, vars
    <3>. QED
      BY <2>3, <3>1, DemandKeeps
  <2>. QED
    BY <2>1, <2>2, <2>3 DEF Next, Terminated
<1>. QED
  BY <1>1, <1>2, PTL DEF Spec

\* A connection with nothing queued or pending has nothing left to subscribe: a
\* command still on its way is one the venue does not acknowledge.
LEMMA ReadyIsSubscribed ==
    ASSUME adapter \in Adapters, NEW c, NEW w, Sound(c, w), Steered(c, w), ReadinessComplete(c)
    PROVE  Topics(c.desired) \subseteq w.subscribed
<1>1. w \in Wire /\ InFlight(c, w) /\ c.queued = <<>> /\ DOMAIN c.pending = {}
  BY DEF Sound, ReadinessComplete
<1>2. /\ w.up \in Seq(Command)
      /\ \A i \in DOMAIN w.up : w.up[i] \in Command
  BY <1>1, WireFields
<1>3. w.up \o c.queued = w.up
  BY <1>1, <1>2, ConcatEmptySeq
<1>4. \A i \in DOMAIN w.up : Acks(w.up[i]) = 0
  BY <1>1 DEF InFlight
<1>5. \A i \in DOMAIN w.up : \A t : ~ (w.up[i].action = "subscribe" /\ t \in w.up[i].topics)
  BY <1>2, <1>4, AcksType
<1>6. ~ Doomed(c, w)
  BY <1>1 DEF Doomed
<1>7. \A t \in Topics(c.desired) : Reaches(w.up, w.subscribed, t)
  BY <1>3, <1>6 DEF Steered, Leads
<1>. QED
  BY <1>5, <1>7 DEF Reaches

LEMMA LiveSubscribed == IInv => LiveMeansSubscribed
<1>. SUFFICES ASSUME IInv, Connected, health.state = "Live"
              PROVE  ReadinessComplete(conn) /\ Topics(conn.desired) \subseteq wire.subscribed
  BY DEF LiveMeansSubscribed
<1>1. PICK c, w : c = conn /\ w = wire
  OBVIOUS
<1>2. adapter \in Adapters /\ Sound(c, w) /\ Steered(c, w) /\ Timed(c) /\ c.live
  BY <1>1, Zenon DEF IInv, TypeOK, Led, LiveFlag
<1>3. ReadinessComplete(c)
  BY <1>2 DEF Timed
<1>. QED
  BY <1>1, <1>2, <1>3, ReadyIsSubscribed

\* mark_live: whatever the venue answers and whenever the demand changes, an
\* endpoint that reports Live has every command confirmed and the venue
\* subscribed to all it serves.
THEOREM LiveIsSubscribed == Spec => []LiveMeansSubscribed
  BY LiveSubscribed, Invariance, PTL

\* An endpoint that readiness counts as ready, at an await and with nothing
\* unseen, is subscribed to all that is wanted.
LEMMA ReadyStreams ==
    ASSUME IInv, ready, ~ unseen, pc \notin {"check", "exiting"}
    PROVE  Topics(Wanted) \subseteq wire.subscribed
<1>1. CASE health.state = "Live"
  <2>1. pc = "connected"
    BY <1>1 DEF IInv, Published
  <2>. QED
    BY <2>1, <1>1, LiveSubscribed DEF IInv, NoLostDemand, LiveMeansSubscribed, Connected
<1>2. CASE health.desired_subscriptions = 0
  <2>1. Wanted = {}
    BY <1>2, NoneWanted DEF IInv, Published
  <2>. QED
    BY <2>1 DEF Topics
<1>. QED
  BY <1>1, <1>2 DEF ready

\* CommandState: the live flag agrees with the health entry and the known ids
\* are exactly those queued or pending, at every point of every connection.
THEOREM Bookkeeping == Spec => []BookkeepingExact
<1>1. IInv => BookkeepingExact
  BY DEF IInv, BookkeepingExact, LiveFlag, Sound, Numbered
<1>. QED
  BY <1>1, Invariance, PTL

\* The acknowledgement deadline is armed exactly as long as it is needed.
THEOREM DeadlineArmed == Spec => []DeadlineCoversPending
<1>1. IInv => DeadlineCoversPending
  BY DEF IInv, DeadlineCoversPending, Led, Timed
<1>. QED
  BY <1>1, Invariance, PTL

\* wait_for_desired and run_connection between them lose no published demand.
THEOREM DemandNotLost == Spec => []NoLostDemand
<1>1. IInv => NoLostDemand
  BY DEF IInv
<1>. QED
  BY <1>1, Invariance, PTL

\* queue_subscription_diff: for any number of changes while commands are still
\* paced out, the line of commands ends in the demand and nothing else.
THEOREM CommandsSteer == Spec => []CommandsReachDesired
<1>1. IInv => CommandsReachDesired
  <2>. SUFFICES ASSUME IInv, Connected,
                       \A i \in DOMAIN wire.down : wire.down[i].kind # "reject"
                PROVE  Target = Topics(conn.desired)
    BY DEF CommandsReachDesired
  <2>1. Steered(conn, wire) /\ conn.desired \subseteq Keys
    BY DEF IInv, Led, Sound, Conn
  <2>2. \A t \in Topics(Keys) : t \in Topics(conn.desired) <=> Leads(conn, wire, t)
    BY <2>1 DEF Steered, Rejected
  <2>3. Topics(conn.desired) \subseteq Topics(Keys)
    BY <2>1 DEF Topics
  <2>. QED
    BY <2>2, <2>3 DEF Target, Leads
<1>. QED
  BY <1>1, Invariance, PTL
=============================================================================
