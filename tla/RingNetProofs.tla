---------------------------- MODULE RingNetProofs ----------------------------
(***************************************************************************)
(* Theorems about the ring network (RingNet), for any numbers of messages  *)
(* and any terminals that send without end.                                *)
(***************************************************************************)
EXTENDS RingNet, FiniteSetTheorems, TLAPS

-----------------------------------------------------------------------------
(* What arrives at a queue in one cycle is one message or none. *)

LEMMA NoneAsSeq == SetToSeq({}) = <<>>
<1>1. <<>> \in [1 .. 0 -> {}] /\ IsInjective(<<>>) /\ \A f \in [1 .. 0 -> {}] : f = <<>>
  BY DEF IsInjective
<1>2. Cardinality({}) = 0
  BY FS_EmptySet
<1> QED BY <1>1, <1>2 DEF SetToSeq

LEMMA OneAsSeq == ASSUME NEW m PROVE SetToSeq({m}) = <<m>>
<1>1. Cardinality({m}) = 1
  BY FS_Singleton
<1>2. <<m>> \in [1 .. 1 -> {m}] /\ IsInjective(<<m>>)
  BY DEF IsInjective
<1>3. \A f \in [1 .. 1 -> {m}] : f = <<m>>
  OBVIOUS
<1> QED BY <1>1, <1>2, <1>3 DEF SetToSeq

-----------------------------------------------------------------------------
(* Which messages are where: a message waits in the queue of its domain,   *)
(* either at the terminal it comes from, or, with no hop left, at the port *)
(* of its destination that its source sends to.                            *)

NetTypeOK ==
  /\ q \in [Routers -> [Ports \X Domains -> Seq(Message)]]
  /\ sent \in [Routers -> Nat] /\ \A r \in Routers : sent[r] <= Sends[r]

Bounded ==
  \A r \in Routers, p \in Ports, d \in Domains : Len(q[r][<<p, d>>]) <= QueueSize

PortFrom(s) == IF s = 0 THEN 2 ELSE 0

Belongs(m, r, p, d) ==
  /\ d = TermDomain(m.src)
  /\ p = 1 => m.src = r
  /\ p # 1 => m.src = Other(r) /\ m.dest = r /\ p = PortFrom(m.src)

InPlace ==
  \A r \in Routers, p \in Ports, d \in Domains :
    \A k \in 1 .. Len(q[r][<<p, d>>]) : Belongs(q[r][<<p, d>>][k], r, p, d)

NetInv == NetTypeOK /\ Bounded /\ InPlace

LEMMA QueueIs ==
  ASSUME NetTypeOK, NEW r \in Routers, NEW p \in Ports, NEW d \in Domains
  PROVE  /\ q[r][<<p, d>>] \in Seq(Message)
         /\ Len(q[r][<<p, d>>]) \in Nat
         /\ q[r][<<p, d>>] # <<>> => Head(q[r][<<p, d>>]) = q[r][<<p, d>>][1] /\ Len(q[r][<<p, d>>]) > 0
<1>1. <<p, d>> \in Ports \X Domains
  OBVIOUS
<1>2. q[r][<<p, d>>] \in Seq(Message)
  BY <1>1 DEF NetTypeOK
<1> QED BY <1>2

(* The first message of a queue asks for the terminal if it has arrived,   *)
(* and else for its one way to the other router.                           *)
LEMMA RequestIs ==
  ASSUME NetInv, NEW r \in Routers, NEW p \in Ports, NEW d \in Domains,
         NEW o \in Requests(r, p, d)
  PROVE  LET m == Head(q[r][<<p, d>>])
         IN  /\ q[r][<<p, d>>] # <<>> /\ m \in Message /\ Belongs(m, r, p, d)
             /\ m.dest = r => o = 1
             /\ m.dest # r => p = 1 /\ o = 2 - PortFrom(r)
<1> DEFINE m == Head(q[r][<<p, d>>])
<1>1. q[r][<<p, d>>] # <<>>
  BY DEF Requests
<1>2. m = q[r][<<p, d>>][1] /\ 1 \in 1 .. Len(q[r][<<p, d>>]) /\ m \in Message
  BY <1>1, QueueIs DEF NetInv
<1>3. Belongs(m, r, p, d)
  BY <1>2 DEF NetInv, InPlace
<1>4. m.dest = r => o = 1
  BY <1>1 DEF Requests
<1>5. m.dest # r => p = 1 /\ o \in TermRequests(r)
  BY <1>1, <1>3 DEF Requests, Belongs
<1>6. o \in TermRequests(r) => o = 2 - PortFrom(r)
  BY DEF TermRequests, PortFrom, Routers
<1> QED BY <1>1, <1>2, <1>3, <1>4, <1>5, <1>6

(* A grant goes to one requester, whose domain the output then latches and *)
(* whose queue behind the link has room.                                   *)
LEMMA GrantIs ==
  ASSUME NEW r, NEW o, NEW dom, NEW rdy, NEW p \in Granted(r, o, dom, rdy)
  PROVE  /\ p \in Ports /\ o \in Requests(r, p, dom[p])
         /\ Granted(r, o, dom, rdy) = {p}
         /\ Latched(r, o, dom, rdy) = dom[p]
         /\ OutRdy(r, o, dom[p], rdy)
<1>1. /\ p \in Asking(r, o, dom) /\ p = Winner(r, o, Asking(r, o, dom))
      /\ OutRdy(r, o, out_domain[r][o], rdy)
      /\ OutRdy(r, o, Latched(r, o, dom, rdy), rdy)
  BY DEF Granted
<1>2. Latched(r, o, dom, rdy) = dom[p]
  BY <1>1 DEF Latched
<1>3. Granted(r, o, dom, rdy) = {p}
  BY <1>1 DEF Granted
<1> QED BY <1>1, <1>2, <1>3 DEF Asking


LEMMA GrantsAre ==
  ASSUME NEW dom, NEW rdy, NEW r \in Routers, NEW o \in Ports
  PROVE  /\ \A p : <<r, o, p>> \in Grants(dom, rdy) <=> p \in Granted(r, o, dom[r], rdy[r])
         /\ Winners(Grants(dom, rdy), r, o) = Granted(r, o, dom[r], rdy[r])
<1> DEFINE Of(r1, o1) == {<<r1, o1, p>> : p \in Granted(r1, o1, dom[r1], rdy[r1])}
<1>1. Grants(dom, rdy) = UNION {Of(r1, o1) : r1 \in Routers, o1 \in Ports}
  BY DEF Grants
<1>2. ASSUME NEW p PROVE <<r, o, p>> \in Grants(dom, rdy) <=> p \in Granted(r, o, dom[r], rdy[r])
  <2>1. ASSUME p \in Granted(r, o, dom[r], rdy[r]) PROVE <<r, o, p>> \in Grants(dom, rdy)
    <3>1. <<r, o, p>> \in Of(r, o)
      BY <2>1
    <3> HIDE DEF Of
    <3> QED BY <1>1, <3>1
  <2>2. ASSUME <<r, o, p>> \in Grants(dom, rdy) PROVE p \in Granted(r, o, dom[r], rdy[r])
    <3>1. PICK r1 \in Routers, o1 \in Ports : <<r, o, p>> \in Of(r1, o1)
      <4> HIDE DEF Of
      <4> QED BY <1>1, <2>2
    <3>2. PICK p1 \in Granted(r1, o1, dom[r1], rdy[r1]) : <<r, o, p>> = <<r1, o1, p1>>
      BY <3>1
    <3> QED BY <3>2
  <2> QED BY <2>1, <2>2
<1>3. Granted(r, o, dom[r], rdy[r]) \subseteq Ports
  BY DEF Granted, Asking
<1> QED BY <1>2, <1>3 DEF Winners

-----------------------------------------------------------------------------
(* One clock cycle, in which the inputs choose dom, the terminals offer    *)
(* in_msg, and take if rdy says so.                                        *)

Cycle(dom, in_msg, rdy) ==
  /\ dom \in [Routers -> [Ports -> Domains]]
  /\ \A r \in Routers : in_msg[r] \in Offers(r)
  /\ Move(Grants(dom, rdy), Latch(dom, rdy), dom, in_msg)

LEMMA NextIsCycle == NetNext => \E dom, in_msg, rdy : Cycle(dom, in_msg, rdy)
<1> SUFFICES ASSUME NetNext PROVE \E dom, in_msg, rdy : Cycle(dom, in_msg, rdy)
  OBVIOUS
<1>0. PICK rdy : RingTick(rdy)
  BY Zenon DEF NetNext
<1>1. PICK m0 \in Offers(0), m1 \in Offers(1),
           dom0 \in InputChoices(0), dom1 \in InputChoices(1) :
        NetTick(Both(dom0, dom1), Both(m0, m1), rdy)
  BY <1>0, Zenon DEF RingTick
<1>2. Both(dom0, dom1) \in [Routers -> [Ports -> Domains]]
  BY DEF Both, InputChoices
<1>3. \A r \in Routers : Both(m0, m1)[r] \in Offers(r)
  BY DEF Both, Routers
<1>4. Move(Grants(Both(dom0, dom1), rdy), Latch(Both(dom0, dom1), rdy),
           Both(dom0, dom1), Both(m0, m1))
  BY <1>1 DEF NetTick
<1> QED BY <1>2, <1>3, <1>4 DEF Cycle

LEMMA OfferIs ==
  ASSUME NetTypeOK, NEW r \in Routers, NEW m \in Offers(r), m # NoNetMsg
  PROVE  /\ m \in Message /\ m.src = r
         /\ m.num > 0 => sent[r] + 1 <= Sends[r]
<1>1. sent[r] \in Nat /\ Sends[r] \in Nat /\ Sends[0] \in Nat /\ Sends[1] \in Nat /\ sent[r] <= Sends[r]
  BY NetAssumption DEF NetTypeOK, Routers
<1>2. sent[r] < Sends[r] => sent[r] + 1 \in 0 .. Sends[0] + Sends[1]
  BY <1>1 DEF Routers
<1>3. CASE sent[r] < Sends[r] /\ m \in [src : {r}, dest : Routers, num : {sent[r] + 1}]
  <2>1. m.num = sent[r] + 1 /\ m.num \in 0 .. Sends[0] + Sends[1]
    BY <1>2, <1>3
  <2>2. m = [src |-> r, dest |-> m.dest, num |-> m.num] /\ m.dest \in Routers
    BY <1>3
  <2>3. m \in Message
    BY <2>1, <2>2, SMT DEF Message
  <2>4. m.src = r /\ sent[r] + 1 <= Sends[r]
    BY <1>1, <1>3
  <2> QED BY <2>3, <2>4
<1>4. CASE m \in [src : {r}, dest : {r}, num : {0}]
  <2>1. m.src = r /\ m.dest = r /\ m.num = 0 /\ 0 \in 0 .. Sends[0] + Sends[1]
    BY <1>1, <1>4
  <2>2. m = [src |-> r, dest |-> r, num |-> 0]
    BY <1>4
  <2>3. m \in Message
    BY <2>1, <2>2, SMT DEF Message
  <2> QED BY <2>1, <2>3
<1> QED BY <1>3, <1>4 DEF Offers

LEMMA LatchIs ==
  ASSUME NEW dom, NEW rdy, NEW r \in Routers, NEW o \in Ports
  PROVE  Latch(dom, rdy)[<<r, o>>] = Latched(r, o, dom[r], rdy[r])
  BY DEF Latch

(* What arrives at a queue is nothing, or one message that belongs there   *)
(* and has room.                                                           *)
LEMMA ArrivingIs ==
  ASSUME NetInv, NEW dom, NEW in_msg, NEW rdy, Cycle(dom, in_msg, rdy),
         NEW r \in Routers, NEW p \in Ports, NEW d \in Domains
  PROVE  LET a == Arriving(Grants(dom, rdy), Latch(dom, rdy), dom, in_msg, r, <<p, d>>)
         IN  \/ a = {}
             \/ \E m \in Message : /\ a = {m} /\ Belongs(m, r, p, d)
                                   /\ Len(q[r][<<p, d>>]) < QueueSize
<1> DEFINE a == Arriving(Grants(dom, rdy), Latch(dom, rdy), dom, in_msg, r, <<p, d>>)
<1>1. Len(q[r][<<p, d>>]) \in Nat /\ Len(q[r][<<p, d>>]) <= QueueSize
  BY QueueIs DEF NetInv, Bounded
<1>2. ~Full(r, p, d) => Len(q[r][<<p, d>>]) < QueueSize
  <2>1. ~Full(r, p, d) => Len(q[r][<<p, d>>]) # QueueSize
    BY Zenon DEF Full
  <2>2. QueueSize \in Nat
    BY DEF QueueSize
  <2> QED BY <1>1, <2>1, <2>2
<1>3. CASE p = 1 /\ d = TermDomain(r)
  <2>1. a = {in_msg[s] : s \in {r} \cap Entering(in_msg)}
    BY <1>3 DEF Arriving
  <2>2. CASE r \in Entering(in_msg)
    <3>1. in_msg[r] \in Message /\ in_msg[r].src = r
      BY <2>2, OfferIs DEF Entering, NetInv, Cycle
    <3>2. ~Full(r, p, d)
      BY <1>3, <2>2 DEF Entering
    <3>3. a = {in_msg[r]}
      BY <2>1, <2>2
    <3>4. Belongs(in_msg[r], r, p, d)
      BY <1>3, <3>1 DEF Belongs
    <3> QED BY <1>2, <3>1, <3>2, <3>3, <3>4
  <2>3. CASE r \notin Entering(in_msg)
    BY <2>1, <2>3
  <2> QED BY <2>2, <2>3
<1>4. CASE ~(p = 1 /\ d = TermDomain(r)) /\ p # 1 /\ d = Latch(dom, rdy)[<<Other(r), 2 - p>>]
  <2> DEFINE s == Other(r)
             o == 2 - p
  <2>1. s \in Routers /\ Other(s) = r /\ o \in Ports /\ o # 1 /\ 2 - o = p
    BY <1>4 DEF Routers, Ports, Other
  <2>2. a = {Head(q[s][<<p1, dom[s][p1]>>]) : p1 \in Granted(s, o, dom[s], rdy[s])}
    BY <1>4, <2>1, GrantsAre DEF Arriving, Shown
  <2>3. CASE Granted(s, o, dom[s], rdy[s]) = {}
    BY <2>2, <2>3
  <2>4. ASSUME NEW p1 \in Granted(s, o, dom[s], rdy[s])
        PROVE  \E m \in Message : a = {m} /\ Belongs(m, r, p, d) /\ Len(q[r][<<p, d>>]) < QueueSize
    <3>1. /\ p1 \in Ports /\ o \in Requests(s, p1, dom[s][p1])
          /\ Granted(s, o, dom[s], rdy[s]) = {p1}
          /\ Latched(s, o, dom[s], rdy[s]) = dom[s][p1]
          /\ OutRdy(s, o, dom[s][p1], rdy[s])
      BY <2>4, GrantIs
    <3>2. d = dom[s][p1]
      <4>1. d = Latch(dom, rdy)[<<s, o>>]
        BY <1>4
      <4> HIDE DEF s, o
      <4>2. Latch(dom, rdy)[<<s, o>>] = Latched(s, o, dom[s], rdy[s])
        BY <2>1, LatchIs
      <4> QED BY <3>1, <4>1, <4>2, Zenon
    <3> DEFINE m == Head(q[s][<<p1, d>>])
    <3>3. a = {m}
      <4>1. a = {Head(q[s][<<p2, dom[s][p2]>>]) : p2 \in {p1}}
        BY <2>2, <3>1, Zenon
      <4>2. a = {Head(q[s][<<p1, dom[s][p1]>>])}
        BY <4>1
      <4> QED BY <3>2, <4>2, Zenon
    <3>4. m \in Message /\ Belongs(m, s, p1, d) /\ m.dest # s /\ p1 = 1 /\ o = 2 - PortFrom(s)
      BY <2>1, <3>1, <3>2, RequestIs
    <3>5. m.src = s /\ m.dest = r /\ d = TermDomain(m.src)
      BY <2>1, <3>4 DEF Belongs, Message, Routers, Other
    <3>6. p = PortFrom(s)
      BY <2>1, <3>4 DEF PortFrom, Ports
    <3>7. Belongs(m, r, p, d)
      BY <1>4, <3>5, <3>6 DEF Belongs
    <3>8. ~Full(r, p, d)
      BY <2>1, <3>1, <3>2 DEF OutRdy, LinkRdy
    <3> QED BY <1>2, <3>3, <3>4, <3>7, <3>8
  <2> QED BY <2>3, <2>4
<1>5. CASE ~(p = 1 /\ d = TermDomain(r)) /\ ~(p # 1 /\ d = Latch(dom, rdy)[<<Other(r), 2 - p>>])
  BY <1>5 DEF Arriving
<1> QED BY <1>3, <1>4, <1>5

(* What leaves a queue is its first message. *)
Taken(dom, rdy, r, p, d) ==
  d = dom[r][p] /\ \E o \in Ports : p \in Granted(r, o, dom[r], rdy[r])

LEMMA RestIs ==
  ASSUME NetInv, NEW dom, NEW rdy, NEW r \in Routers, NEW p \in Ports, NEW d \in Domains
  PROVE  /\ Taken(dom, rdy, r, p, d) =>
              /\ q[r][<<p, d>>] # <<>>
              /\ Rest(Grants(dom, rdy), dom, r, <<p, d>>) = Tail(q[r][<<p, d>>])
         /\ ~Taken(dom, rdy, r, p, d) =>
              Rest(Grants(dom, rdy), dom, r, <<p, d>>) = q[r][<<p, d>>]
<1>1. Taken(dom, rdy, r, p, d) <=>
        d = dom[r][p] /\ \E o \in Ports : <<r, o, p>> \in Grants(dom, rdy)
  BY GrantsAre DEF Taken
<1>2. Taken(dom, rdy, r, p, d) => q[r][<<p, d>>] # <<>>
  BY GrantIs, RequestIs DEF Taken
<1> QED BY <1>1, <1>2 DEF Rest

LEMMA TailIs ==
  ASSUME NEW S, NEW s \in Seq(S), s # <<>>
  PROVE  /\ Tail(s) \in Seq(S) /\ Len(Tail(s)) = Len(s) - 1 /\ Len(s) \in Nat \ {0}
         /\ \A k \in 1 .. Len(s) - 1 : Tail(s)[k] = s[k + 1]
  OBVIOUS

LEMMA CatOne ==
  ASSUME NEW S, NEW s \in Seq(S), NEW m \in S
  PROVE  /\ s \o <<m>> \in Seq(S) /\ Len(s \o <<m>>) = Len(s) + 1 /\ Len(s) \in Nat
         /\ \A k \in 1 .. Len(s) : (s \o <<m>>)[k] = s[k]
         /\ (s \o <<m>>)[Len(s) + 1] = m
  OBVIOUS

LEMMA CatNone == ASSUME NEW S, NEW s \in Seq(S) PROVE s \o <<>> = s
  OBVIOUS

LEMMA NetInvStep ==
  ASSUME NetInv, NEW dom, NEW in_msg, NEW rdy, Cycle(dom, in_msg, rdy)
  PROVE  NetInv'
<1> DEFINE rest(r, p, d)   == Rest(Grants(dom, rdy), dom, r, <<p, d>>)
           coming(r, p, d) == Arriving(Grants(dom, rdy), Latch(dom, rdy), dom, in_msg, r, <<p, d>>)
           Fits(s, r, p, d) == /\ s \in Seq(Message) /\ Len(s) <= QueueSize
                               /\ \A k \in 1 .. Len(s) : Belongs(s[k], r, p, d)
<1>1. q' = [r \in Routers |-> [i \in Ports \X Domains |->
             Rest(Grants(dom, rdy), dom, r, i)
               \o SetToSeq(Arriving(Grants(dom, rdy), Latch(dom, rdy), dom, in_msg, r, i))]]
  BY DEF Cycle, Move
<1>2. ASSUME NEW r \in Routers, NEW p \in Ports, NEW d \in Domains
      PROVE  Fits(q'[r][<<p, d>>], r, p, d)
  <2>1. q'[r][<<p, d>>] = rest(r, p, d) \o SetToSeq(coming(r, p, d))
    BY <1>1
  <2>2. Fits(q[r][<<p, d>>], r, p, d) /\ Len(q[r][<<p, d>>]) \in Nat
    BY QueueIs DEF NetInv, Bounded, InPlace
  <2>3. Fits(rest(r, p, d), r, p, d) /\ Len(rest(r, p, d)) <= Len(q[r][<<p, d>>])
    <3>1. CASE rest(r, p, d) = q[r][<<p, d>>]
      BY <2>2, <3>1
    <3>2. CASE q[r][<<p, d>>] # <<>> /\ rest(r, p, d) = Tail(q[r][<<p, d>>])
      <4> DEFINE s == q[r][<<p, d>>]
      <4> HIDE DEF s
      <4>1. /\ Tail(s) \in Seq(Message) /\ Len(Tail(s)) = Len(s) - 1 /\ Len(s) \in Nat \ {0}
            /\ \A k \in 1 .. Len(s) - 1 : Tail(s)[k] = s[k + 1]
        BY <2>2, <3>2, TailIs DEF s
      <4>2. ASSUME NEW k \in 1 .. Len(s) - 1 PROVE Belongs(Tail(s)[k], r, p, d)
        <5>1. k + 1 \in 1 .. Len(s)
          BY <4>1
        <5> QED BY <2>2, <4>1, <5>1 DEF s
      <4>3. QueueSize \in Nat /\ Len(s) <= QueueSize
        BY <2>2 DEF QueueSize, s
      <4>4. Fits(Tail(s), r, p, d) /\ Len(Tail(s)) <= Len(s)
        BY <4>1, <4>2, <4>3
      <4> QED BY <3>2, <4>4 DEF s
    <3>3. \/ rest(r, p, d) = q[r][<<p, d>>]
          \/ q[r][<<p, d>>] # <<>> /\ rest(r, p, d) = Tail(q[r][<<p, d>>])
      BY RestIs
    <3> HIDE DEF rest, Fits
    <3> QED BY <3>1, <3>2, <3>3
  <2> DEFINE b == rest(r, p, d)
  <2> HIDE DEF rest, b
  <2>4. CASE coming(r, p, d) = {}
    <3>1. q'[r][<<p, d>>] = b
      BY <2>1, <2>3, <2>4, NoneAsSeq, CatNone DEF b
    <3> QED BY <2>3, <3>1 DEF b
  <2>5. ASSUME NEW m \in Message, coming(r, p, d) = {m}, Belongs(m, r, p, d),
               Len(q[r][<<p, d>>]) < QueueSize
        PROVE  Fits(q'[r][<<p, d>>], r, p, d)
    <3>1. q'[r][<<p, d>>] = b \o <<m>>
      BY <2>1, <2>5, OneAsSeq DEF b
    <3>2. /\ b \o <<m>> \in Seq(Message) /\ Len(b \o <<m>>) = Len(b) + 1 /\ Len(b) \in Nat
          /\ \A k \in 1 .. Len(b) : (b \o <<m>>)[k] = b[k]
          /\ (b \o <<m>>)[Len(b) + 1] = m
      BY <2>3, CatOne DEF b
    <3>3. Len(b) + 1 <= QueueSize
      BY <2>2, <2>3, <2>5, <3>2 DEF b, QueueSize
    <3>4. \A k \in 1 .. Len(b) + 1 : Belongs((b \o <<m>>)[k], r, p, d)
      <4>1. \A k \in 1 .. Len(b) + 1 : k \in 1 .. Len(b) \/ k = Len(b) + 1
        BY <3>2
      <4> QED BY <2>3, <2>5, <3>2, <4>1 DEF b
    <3> QED BY <3>1, <3>2, <3>3, <3>4
  <2> QED BY <2>4, <2>5, ArrivingIs
<1>3. q' \in [Routers -> [Ports \X Domains -> Seq(Message)]]
  <2>1. ASSUME NEW r \in Routers, NEW i \in Ports \X Domains
        PROVE  Rest(Grants(dom, rdy), dom, r, i)
                 \o SetToSeq(Arriving(Grants(dom, rdy), Latch(dom, rdy), dom, in_msg, r, i))
               \in Seq(Message)
    <3>1. i = <<i[1], i[2]>> /\ i[1] \in Ports /\ i[2] \in Domains
      OBVIOUS
    <3>2. q'[r][i] \in Seq(Message)
      BY <1>2, <3>1
    <3> QED BY <1>1, <3>2
  <2> QED BY <1>1, <2>1
<1>4. sent' \in [Routers -> Nat] /\ \A r \in Routers : sent'[r] <= Sends[r]
  <2>1. sent' = [r \in Routers |->
                  IF r \in Entering(in_msg) /\ in_msg[r].num > 0 THEN sent[r] + 1 ELSE sent[r]]
    BY DEF Cycle, Move
  <2>2. ASSUME NEW r \in Routers, r \in Entering(in_msg), in_msg[r].num > 0
        PROVE  sent[r] + 1 <= Sends[r]
    BY <2>2, OfferIs DEF Entering, Cycle, NetInv
  <2>3. ASSUME NEW r \in Routers PROVE sent'[r] \in Nat /\ sent'[r] <= Sends[r]
    BY <2>1, <2>2 DEF NetInv, NetTypeOK
  <2> QED BY <2>1, <2>3
<1> QED BY <1>2, <1>3, <1>4 DEF NetInv, NetTypeOK, Bounded, InPlace

LEMMA NetInvInit == ASSUME NetInit PROVE NetInv
<1>1. \A r \in Routers, p \in Ports, d \in Domains : q[r][<<p, d>>] = <<>>
  BY DEF NetInit
<1>2. Bounded /\ InPlace
  BY <1>1 DEF Bounded, InPlace, QueueSize
<1>3. NetTypeOK
  BY NetAssumption DEF NetInit, NetTypeOK
<1> QED BY <1>2, <1>3 DEF NetInv

LEMMA NetInvHolds == NetSpec => []NetInv
<1>1. NetInit => NetInv
  BY NetInvInit
<1>2. NetInv /\ [NetNext]_netVars => NetInv'
  <2> SUFFICES ASSUME NetInv, [NetNext]_netVars PROVE NetInv'
    OBVIOUS
  <2>1. CASE NetNext
    BY <2>1, NextIsCycle, NetInvStep
  <2>2. CASE UNCHANGED netVars
    BY <2>2 DEF netVars, netRegs, NetInv, NetTypeOK, Bounded, InPlace
  <2> QED BY <2>1, <2>2
<1> QED BY <1>1, <1>2, PTL DEF NetSpec

(* The queues of a domain hold that domain's messages only, however many   *)
(* messages the terminals send: the latch of an output, which still holds  *)
(* the domain of the last winner or its reset value when the next one is   *)
(* granted, never picks the other domain's queue.                          *)
THEOREM DomainsStayApart == NetSpec => []DomainsApart
<1>1. NetInv => DomainsApart
  BY DEF NetInv, InPlace, Belongs, DomainsApart
<1> QED BY <1>1, NetInvHolds, PTL

-----------------------------------------------------------------------------
(* Sequences, and the messages of a queue for one terminal. *)

LEMMA CatAssoc ==
  /\ \A s, t \in Seq(Message) : s \o t \in Seq(Message)
  /\ \A s, t, u \in Seq(Message) : (s \o t) \o u = s \o (t \o u)
<1> HIDE DEF Message
<1> QED OBVIOUS

LEMMA NoneCat == ASSUME NEW S, NEW s \in Seq(S) PROVE <<>> \o s = s
  OBVIOUS

LEMMA HeadOfCat ==
  \A s, t \in Seq(Message) : s # <<>> =>
    /\ s \o t # <<>> /\ Head(s \o t) = Head(s)
    /\ Tail(s \o t) = Tail(s) \o t /\ Tail(s) \in Seq(Message)
    /\ <<Head(s)>> \o Tail(s) = s
<1> HIDE DEF Message
<1> QED OBVIOUS

Picked(m, chosen) == IF m \in chosen THEN <<m>> ELSE <<>>

LEMMA PickedIs ==
  ASSUME NEW S, NEW m \in S, NEW chosen
  PROVE  Picked(m, chosen) \in Seq(S) /\ Len(Picked(m, chosen)) <= 1
<1>1. <<>> \in Seq(S) /\ Len(<<>>) = 0 /\ <<m>> \in Seq(S) /\ Len(<<m>>) = 1 /\ 0 <= 1 /\ 1 <= 1
  OBVIOUS
<1> QED BY <1>1, Zenon DEF Picked

LEMMA OneLong == ASSUME NEW S, NEW s \in Seq(S), Len(s) = 1 PROVE s = <<s[1]>> /\ s[1] \in S
<1>1. s = <<s[1]>>
  OBVIOUS
<1>2. s[1] \in S
  OBVIOUS
<1> QED BY <1>1, <1>2

LEMMA TwoLong ==
  ASSUME NEW S, NEW s \in Seq(S), Len(s) = 2
  PROVE  s = <<s[1], s[2]>> /\ s[1] \in S /\ s[2] \in S
<1>1. s = <<s[1], s[2]>>
  OBVIOUS
<1>2. \A k \in 1 .. Len(s) : s[k] \in S
  OBVIOUS
<1>3. 1 \in 1 .. Len(s) /\ 2 \in 1 .. Len(s)
  OBVIOUS
<1> QED BY <1>1, <1>2, <1>3

LEMMA CatPair == ASSUME NEW S, NEW a \in S, NEW b \in S PROVE <<a>> \o <<b>> = <<a, b>>
<1> DEFINE s == <<a>> \o <<b>>
<1>1. s \in Seq(S)
  OBVIOUS
<1>2. Len(s) = 2
  OBVIOUS
<1>3. s[1] = a /\ s[2] = b
  OBVIOUS
<1> HIDE DEF s
<1>4. s = <<s[1], s[2]>>
  BY <1>1, <1>2, TwoLong
<1> QED BY <1>3, <1>4 DEF s

(* No queue holds more than two messages. *)
LEMMA ShortSeq ==
  ASSUME NEW S, NEW s \in Seq(S), Len(s) <= 2
  PROVE  \/ s = <<>>
         \/ \E a \in S : s = <<a>>
         \/ \E a, b \in S : s = <<a, b>>
<1>1. \A n \in Nat : n <= 2 => n = 0 \/ n = 1 \/ n = 2
  OBVIOUS
<1>2. Len(s) \in Nat
  OBVIOUS
<1>3. Len(s) = 0 \/ Len(s) = 1 \/ Len(s) = 2
  BY <1>1, <1>2, Zenon
<1>4. CASE Len(s) = 0
  BY <1>4
<1>5. CASE Len(s) = 1
  BY <1>5, OneLong
<1>6. CASE Len(s) = 2
  BY <1>6, TwoLong
<1> QED BY <1>3, <1>4, <1>5, <1>6

LEMMA OnlyIs ==
  ASSUME NEW msgs, NEW n \in {0, 1, 2}, Len(msgs) = n, NEW chosen
  PROVE  /\ n = 0 => Only(msgs, chosen) = <<>>
         /\ n = 1 => Only(msgs, chosen) = <<>> \o Picked(msgs[1], chosen)
         /\ n = 2 => Only(msgs, chosen) =
                       (<<>> \o Picked(msgs[1], chosen)) \o Picked(msgs[2], chosen)
<1> DEFINE Def(f, k) == IF k = 0 THEN <<>> ELSE f[k - 1] \o Picked(msgs[k], chosen)
           g == [k \in 0 .. n |->
                  IF k = 0 THEN <<>>
                  ELSE IF k = 1 THEN <<>> \o Picked(msgs[1], chosen)
                  ELSE (<<>> \o Picked(msgs[1], chosen)) \o Picked(msgs[2], chosen)]
           upTo == CHOOSE f : f = [k \in 0 .. n |-> Def(f, k)]
<1>1. \A k \in 0 .. n : k = 0 \/ k = 1 \/ (k = 2 /\ n = 2)
  OBVIOUS
<1>2. g = [k \in 0 .. n |-> Def(g, k)]
  <2>1. ASSUME NEW k \in 0 .. n PROVE g[k] = Def(g, k)
    <3>1. CASE k = 0
      BY <3>1
    <3>2. CASE k = 1
      <4>1. g[0] = <<>> /\ g[k] = <<>> \o Picked(msgs[1], chosen)
        BY <3>2
      <4>2. k - 1 = 0 /\ k # 0
        BY <3>2
      <4> HIDE DEF g
      <4> QED BY <3>2, <4>1, <4>2
    <3>3. CASE k = 2 /\ n = 2
      <4>1. /\ g[1] = <<>> \o Picked(msgs[1], chosen)
            /\ g[k] = (<<>> \o Picked(msgs[1], chosen)) \o Picked(msgs[2], chosen)
        BY <3>3
      <4>2. k - 1 = 1 /\ k # 0
        BY <3>3
      <4> HIDE DEF g
      <4> QED BY <3>3, <4>1, <4>2
    <3> QED BY <1>1, <3>1, <3>2, <3>3
  <2> HIDE DEF Def
  <2> QED BY <2>1
<1>3. upTo = [k \in 0 .. n |-> Def(upTo, k)]
  <2> HIDE DEF g, Def
  <2> QED BY <1>2
<1>4. Only(msgs, chosen) = upTo[n]
  BY DEF Only, Picked
<1> HIDE DEF upTo
<1>5. upTo[0] = <<>> /\ \A k \in 1 .. n : upTo[k] = upTo[k - 1] \o Picked(msgs[k], chosen)
  BY <1>3
<1>6. 1 \in 1 .. n => upTo[1] = <<>> \o Picked(msgs[1], chosen)
  <2>1. 1 - 1 = 0
    OBVIOUS
  <2> QED BY <1>5, <2>1
<1>7. 2 \in 1 .. n => upTo[2] = (<<>> \o Picked(msgs[1], chosen)) \o Picked(msgs[2], chosen)
  <2>1. 2 - 1 = 1 /\ (2 \in 1 .. n => 1 \in 1 .. n)
    OBVIOUS
  <2> QED BY <1>5, <1>6, <2>1
<1>8. CASE n = 0
  BY <1>4, <1>5, <1>8
<1>9. CASE n = 1
  BY <1>4, <1>6, <1>9
<1>10. CASE n = 2
  BY <1>4, <1>7, <1>10
<1> QED BY <1>8, <1>9, <1>10

LEMMA OnlyOf ==
  ASSUME NEW S, NEW chosen
  PROVE  /\ Only(<<>>, chosen) = <<>>
         /\ \A a \in S : Only(<<a>>, chosen) = Picked(a, chosen)
         /\ \A a, b \in S : Only(<<a, b>>, chosen) = Picked(a, chosen) \o Picked(b, chosen)
<1>1. Only(<<>>, chosen) = <<>>
  <2>1. Len(<<>>) = 0
    OBVIOUS
  <2> QED BY <2>1, OnlyIs
<1>2. ASSUME NEW a \in S PROVE Only(<<a>>, chosen) = Picked(a, chosen)
  <2>1. Len(<<a>>) = 1 /\ <<a>>[1] = a
    OBVIOUS
  <2>2. Only(<<a>>, chosen) = <<>> \o Picked(a, chosen)
    BY <2>1, OnlyIs
  <2> QED BY <2>2, PickedIs, NoneCat
<1>3. ASSUME NEW a \in S, NEW b \in S
      PROVE  Only(<<a, b>>, chosen) = Picked(a, chosen) \o Picked(b, chosen)
  <2>1. Len(<<a, b>>) = 2 /\ <<a, b>>[1] = a /\ <<a, b>>[2] = b
    OBVIOUS
  <2>2. Only(<<a, b>>, chosen) = (<<>> \o Picked(a, chosen)) \o Picked(b, chosen)
    BY <2>1, OnlyIs
  <2> QED BY <2>2, PickedIs, NoneCat
<1> QED BY <1>1, <1>2, <1>3

LEMMA OnlySeq ==
  ASSUME NEW S, NEW msgs \in Seq(S), Len(msgs) <= 2, NEW chosen
  PROVE  Only(msgs, chosen) \in Seq(S) /\ Len(Only(msgs, chosen)) <= Len(msgs)
<1>1. ASSUME NEW a \in S, msgs = <<a>>
      PROVE  Only(msgs, chosen) \in Seq(S) /\ Len(Only(msgs, chosen)) <= Len(msgs)
  <2>1. Only(msgs, chosen) = Picked(a, chosen)
    BY <1>1, OnlyOf
  <2>2. Len(msgs) = 1
    BY <1>1
  <2> QED BY <2>1, <2>2, PickedIs, Zenon
<1>2. ASSUME NEW a \in S, NEW b \in S, msgs = <<a, b>>
      PROVE  Only(msgs, chosen) \in Seq(S) /\ Len(Only(msgs, chosen)) <= Len(msgs)
  <2>1. Only(msgs, chosen) = Picked(a, chosen) \o Picked(b, chosen)
    BY <1>2, OnlyOf
  <2>2. Len(msgs) = 2
    BY <1>2
  <2> DEFINE u == Picked(a, chosen)
             v == Picked(b, chosen)
  <2>3. u \in Seq(S) /\ v \in Seq(S) /\ Len(u) <= 1 /\ Len(v) <= 1
    BY PickedIs
  <2> HIDE DEF u, v
  <2>4. u \o v \in Seq(S) /\ Len(u \o v) <= 2
    BY <2>3
  <2> QED BY <2>1, <2>2, <2>4 DEF u, v
<1>3. CASE msgs = <<>>
  <2>1. <<>> \in Seq(S) /\ Len(<<>>) <= Len(<<>>)
    OBVIOUS
  <2>2. Only(msgs, chosen) = <<>>
    BY <1>3, OnlyOf, Zenon
  <2> QED BY <1>3, <2>1, <2>2, Zenon
<1> QED BY <1>1, <1>2, <1>3, ShortSeq, Zenon

LEMMA OnlyFirst ==
  ASSUME NEW S, NEW msgs \in Seq(S), Len(msgs) <= 2, msgs # <<>>, NEW chosen
  PROVE  Only(msgs, chosen) = Picked(Head(msgs), chosen) \o Only(Tail(msgs), chosen)
<1>1. ASSUME NEW a \in S, msgs = <<a>>
      PROVE  Only(msgs, chosen) = Picked(Head(msgs), chosen) \o Only(Tail(msgs), chosen)
  <2>1. Head(msgs) = a /\ Tail(msgs) = <<>>
    BY <1>1
  <2>2. Only(msgs, chosen) = Picked(a, chosen) /\ Only(<<>>, chosen) = <<>>
    BY <1>1, OnlyOf
  <2>3. Picked(a, chosen) \o <<>> = Picked(a, chosen)
    BY PickedIs, CatNone
  <2> QED BY <2>1, <2>2, <2>3, Zenon
<1>2. ASSUME NEW a \in S, NEW b \in S, msgs = <<a, b>>
      PROVE  Only(msgs, chosen) = Picked(Head(msgs), chosen) \o Only(Tail(msgs), chosen)
  <2>1. Head(msgs) = a /\ Tail(msgs) = <<b>>
    BY <1>2
  <2>2. Only(msgs, chosen) = Picked(a, chosen) \o Picked(b, chosen)
    BY <1>2, OnlyOf
  <2>3. Only(<<b>>, chosen) = Picked(b, chosen)
    BY OnlyOf
  <2> QED BY <2>1, <2>2, <2>3, Zenon
<1> QED BY <1>1, <1>2, ShortSeq, Zenon

LEMMA OnlyLast ==
  ASSUME NEW S, NEW msgs \in Seq(S), Len(msgs) < 2, NEW m \in S, NEW chosen
  PROVE  Only(msgs \o <<m>>, chosen) = Only(msgs, chosen) \o Picked(m, chosen)
<1>1. CASE msgs = <<>>
  <2>1. msgs \o <<m>> = <<m>>
    BY <1>1
  <2>2. Only(<<m>>, chosen) = Picked(m, chosen) /\ Only(<<>>, chosen) = <<>>
    BY OnlyOf
  <2>3. <<>> \o Picked(m, chosen) = Picked(m, chosen)
    BY PickedIs, NoneCat
  <2> QED BY <1>1, <2>1, <2>2, <2>3, Zenon
<1>2. ASSUME NEW a \in S, msgs = <<a>>
      PROVE  Only(msgs \o <<m>>, chosen) = Only(msgs, chosen) \o Picked(m, chosen)
  <2>1. msgs \o <<m>> = <<a, m>>
    BY <1>2, CatPair
  <2>2. Only(<<a, m>>, chosen) = Picked(a, chosen) \o Picked(m, chosen)
    BY OnlyOf
  <2>3. Only(<<a>>, chosen) = Picked(a, chosen)
    BY OnlyOf
  <2> QED BY <1>2, <2>1, <2>2, <2>3, Zenon
<1>3. ASSUME NEW a \in S, NEW b \in S, msgs = <<a, b>> PROVE FALSE
  BY <1>3
<1>4. Len(msgs) <= 2
  OBVIOUS
<1> QED BY <1>1, <1>2, <1>3, <1>4, ShortSeq

LEMMA OnlyAll ==
  ASSUME NEW S, NEW msgs \in Seq(S), Len(msgs) <= 2, NEW chosen,
         \A k \in 1 .. Len(msgs) : msgs[k] \in chosen
  PROVE  Only(msgs, chosen) = msgs
<1>1. ASSUME NEW a \in S, msgs = <<a>> PROVE Only(msgs, chosen) = msgs
  <2>1. a \in chosen
    BY <1>1
  <2> QED BY <1>1, <2>1, OnlyOf DEF Picked
<1>2. ASSUME NEW a \in S, NEW b \in S, msgs = <<a, b>> PROVE Only(msgs, chosen) = msgs
  <2>1. a \in chosen /\ b \in chosen
    BY <1>2
  <2>2. <<a>> \o <<b>> = <<a, b>>
    BY CatPair
  <2> QED BY <1>2, <2>1, <2>2, OnlyOf DEF Picked
<1>3. CASE msgs = <<>>
  BY <1>3, OnlyOf
<1> QED BY <1>1, <1>2, <1>3, ShortSeq

-----------------------------------------------------------------------------
(* The messages of a pair wait at their source, with others, and on their  *)
(* one way to the other router, alone.                                     *)

AtSource(s) == q[s][<<1, TermDomain(s)>>]
OnTheWay(s) == q[Other(s)][<<PortFrom(s), TermDomain(s)>>]

LEMMA RouterIs ==
  ASSUME NEW r \in Routers
  PROVE  /\ Other(r) \in Routers /\ Other(r) # r /\ Other(Other(r)) = r
         /\ TermDomain(r) \in Domains /\ 1 \in Ports
         /\ PortFrom(r) \in Ports /\ PortFrom(r) # 1
         /\ 2 - PortFrom(r) \in Ports /\ 2 - PortFrom(r) # 1
         /\ \A t \in Routers : t = r \/ t = Other(r)
  BY DEF Routers, Domains, Ports, Other, TermDomain, PortFrom

LEMMA WaitingIs ==
  ASSUME NetInv, NEW s \in Routers
  PROVE  /\ AtSource(s) \in Seq(Message) /\ Len(AtSource(s)) <= 2
         /\ OnTheWay(s) \in Seq(Message) /\ Len(OnTheWay(s)) <= 2
         /\ \A k \in 1 .. Len(OnTheWay(s)) : OnTheWay(s)[k] \in From(s)
<1>1. AtSource(s) \in Seq(Message) /\ OnTheWay(s) \in Seq(Message)
  BY RouterIs, QueueIs DEF NetInv, AtSource, OnTheWay
<1>2. Len(AtSource(s)) <= 2 /\ Len(OnTheWay(s)) <= 2
  BY RouterIs DEF NetInv, Bounded, AtSource, OnTheWay, QueueSize
<1>3. ASSUME NEW k \in 1 .. Len(OnTheWay(s)) PROVE OnTheWay(s)[k] \in From(s)
  <2>1. Belongs(OnTheWay(s)[k], Other(s), PortFrom(s), TermDomain(s))
    BY RouterIs DEF NetInv, InPlace, OnTheWay
  <2>2. OnTheWay(s)[k].src = s
    BY <2>1, RouterIs DEF Belongs
  <2>3. OnTheWay(s)[k] \in Message
    BY <1>1
  <2> QED BY <2>2, <2>3 DEF From
<1> QED BY <1>1, <1>2, <1>3

LEMMA OtherWaysEmpty ==
  ASSUME NetInv, NEW s \in Routers, NEW p \in Ports, NEW d \in Domains, p # 1,
         p # PortFrom(s) \/ d # TermDomain(s)
  PROVE  q[Other(s)][<<p, d>>] = <<>>
<1> DEFINE msgs == q[Other(s)][<<p, d>>]
<1>1. msgs \in Seq(Message)
  BY RouterIs, QueueIs DEF NetInv
<1>2. ASSUME 1 \in 1 .. Len(msgs) PROVE FALSE
  <2>1. Belongs(msgs[1], Other(s), p, d)
    BY <1>2, RouterIs DEF NetInv, InPlace
  <2> QED BY <2>1, RouterIs DEF Belongs
<1> HIDE DEF msgs
<1>3. msgs = <<>>
  BY <1>1, <1>2
<1> QED BY <1>3 DEF msgs

LEMMA InsideIs ==
  ASSUME NetInv, NEW s \in Routers, NEW t \in Routers
  PROVE  /\ s = t => Inside(s, t) = Only(AtSource(s), To(t))
         /\ s # t => Inside(s, t) = OnTheWay(s) \o Only(AtSource(s), To(t))
<1> DEFINE here(p, d) == Only(q[t][<<p, d>>], From(s))
           entry == Only(AtSource(s), To(t))
<1>1. Inside(s, t) = IF s = t THEN entry
                     ELSE here(0, 0) \o here(0, 1) \o here(2, 0) \o here(2, 1) \o entry
  BY DEF Inside, AtSource
<1>2. entry \in Seq(Message) /\ OnTheWay(s) \in Seq(Message)
  BY WaitingIs, OnlySeq
<1>3. ASSUME s # t
      PROVE  here(0, 0) \o here(0, 1) \o here(2, 0) \o here(2, 1) \o entry = OnTheWay(s) \o entry
  <2>1. t = Other(s) /\ 0 \in Ports /\ 2 \in Ports /\ 0 \in Domains /\ 1 \in Domains
    BY <1>3, RouterIs DEF Ports, Domains
  <2>2. Only(OnTheWay(s), From(s)) = OnTheWay(s) /\ Only(<<>>, From(s)) = <<>>
    BY WaitingIs, OnlyAll, OnlyOf
  <2>3. CASE s = 0
    <3>1. PortFrom(s) = 2 /\ TermDomain(s) = 0
      BY <2>3 DEF PortFrom, TermDomain
    <3>2. here(0, 0) = <<>> /\ here(0, 1) = <<>> /\ here(2, 1) = <<>>
      BY <2>1, <2>2, <3>1, OtherWaysEmpty
    <3>3. here(2, 0) = OnTheWay(s)
      BY <2>1, <2>2, <3>1 DEF OnTheWay
    <3> HIDE DEF here, entry
    <3>4. <<>> \o <<>> = <<>> /\ <<>> \o OnTheWay(s) = OnTheWay(s) /\ OnTheWay(s) \o <<>> = OnTheWay(s)
      BY <1>2
    <3> QED BY <3>2, <3>3, <3>4
  <2>4. CASE s = 1
    <3>1. PortFrom(s) = 0 /\ TermDomain(s) = 1
      BY <2>4 DEF PortFrom, TermDomain
    <3>2. here(0, 0) = <<>> /\ here(2, 0) = <<>> /\ here(2, 1) = <<>>
      BY <2>1, <2>2, <3>1, OtherWaysEmpty
    <3>3. here(0, 1) = OnTheWay(s)
      BY <2>1, <2>2, <3>1 DEF OnTheWay
    <3> HIDE DEF here, entry
    <3>4. <<>> \o OnTheWay(s) = OnTheWay(s) /\ OnTheWay(s) \o <<>> = OnTheWay(s)
      BY <1>2
    <3> QED BY <3>2, <3>3, <3>4
  <2> QED BY <2>3, <2>4 DEF Routers
<1> QED BY <1>1, <1>3

-----------------------------------------------------------------------------
(* What one cycle does to the messages of a pair. *)

(* The entry's first message goes on its way, to its own terminal, or stays. *)
Sets(dom, rdy, s)    == 1 \in Granted(s, 2 - PortFrom(s), dom[s], rdy[s])
Returns(dom, rdy, s) == 1 \in Granted(s, 1, dom[s], rdy[s])

LEMMA SourceGrants ==
  ASSUME NetInv, NEW dom, NEW rdy, dom \in [Routers -> [Ports -> Domains]], NEW s \in Routers
  PROVE  /\ \A o \in Ports : 1 \in Granted(s, o, dom[s], rdy[s]) =>
              /\ AtSource(s) # <<>> /\ Head(AtSource(s)) \in Message /\ Head(AtSource(s)).src = s
              /\ dom[s][1] = TermDomain(s)
              /\ Head(AtSource(s)).dest = s => o = 1
              /\ Head(AtSource(s)).dest # s => o = 2 - PortFrom(s)
         /\ Taken(dom, rdy, s, 1, TermDomain(s)) <=> Sets(dom, rdy, s) \/ Returns(dom, rdy, s)
<1>1. ASSUME NEW o \in Ports, 1 \in Granted(s, o, dom[s], rdy[s])
      PROVE  /\ AtSource(s) # <<>> /\ Head(AtSource(s)) \in Message /\ Head(AtSource(s)).src = s
             /\ dom[s][1] = TermDomain(s)
             /\ Head(AtSource(s)).dest = s => o = 1
             /\ Head(AtSource(s)).dest # s => o = 2 - PortFrom(s)
  <2> DEFINE d == dom[s][1]
             m == Head(q[s][<<1, d>>])
  <2>1. o \in Requests(s, 1, d)
    BY <1>1, GrantIs
  <2>2. d \in Domains /\ 1 \in Ports
    BY RouterIs
  <2>3. /\ q[s][<<1, d>>] # <<>> /\ m \in Message /\ Belongs(m, s, 1, d)
        /\ m.dest = s => o = 1
        /\ m.dest # s => o = 2 - PortFrom(s)
    BY <2>1, <2>2, RequestIs
  <2>4. m.src = s /\ d = TermDomain(s)
    BY <2>3 DEF Belongs
  <2> QED BY <2>3, <2>4 DEF AtSource
<1>2. Taken(dom, rdy, s, 1, TermDomain(s)) => Sets(dom, rdy, s) \/ Returns(dom, rdy, s)
  BY <1>1 DEF Taken, Sets, Returns
<1>3. Sets(dom, rdy, s) \/ Returns(dom, rdy, s) => Taken(dom, rdy, s, 1, TermDomain(s))
  BY <1>1, RouterIs DEF Taken, Sets, Returns
<1> QED BY <1>1, <1>2, <1>3

Entered(in_msg, s) == IF s \in Entering(in_msg) THEN <<in_msg[s]>> ELSE <<>>
SourceRest(dom, rdy, s) == Rest(Grants(dom, rdy), dom, s, <<1, TermDomain(s)>>)
WayRest(dom, rdy, s) ==
  Rest(Grants(dom, rdy), dom, Other(s), <<PortFrom(s), TermDomain(s)>>)

LEMMA SourceStep ==
  ASSUME NEW dom, NEW in_msg, NEW rdy, Cycle(dom, in_msg, rdy), NEW s \in Routers
  PROVE  AtSource(s)' = SourceRest(dom, rdy, s) \o Entered(in_msg, s)
<1> DEFINE i == <<1, TermDomain(s)>>
           a == Arriving(Grants(dom, rdy), Latch(dom, rdy), dom, in_msg, s, i)
<1>1. i \in Ports \X Domains
  BY RouterIs
<1>2. q'[s][i] = Rest(Grants(dom, rdy), dom, s, i) \o SetToSeq(a)
  BY <1>1 DEF Cycle, Move
<1>3. a = {in_msg[r] : r \in {s} \cap Entering(in_msg)}
  BY DEF Arriving
<1>4. s \in Entering(in_msg) => a = {in_msg[s]}
  BY <1>3
<1>5. s \notin Entering(in_msg) => a = {}
  BY <1>3
<1>6. SetToSeq(a) = Entered(in_msg, s)
  BY <1>4, <1>5, NoneAsSeq, OneAsSeq DEF Entered
<1>7. AtSource(s)' = q'[s][i]
  BY DEF AtSource, TermDomain
<1> QED BY <1>2, <1>6, <1>7 DEF SourceRest

LEMMA WayStep ==
  ASSUME NetInv, NEW dom, NEW in_msg, NEW rdy, Cycle(dom, in_msg, rdy), NEW s \in Routers
  PROVE  /\ Sets(dom, rdy, s) =>
              OnTheWay(s)' = WayRest(dom, rdy, s) \o <<Head(AtSource(s))>>
         /\ ~Sets(dom, rdy, s) => OnTheWay(s)' = WayRest(dom, rdy, s) \o <<>>
<1> DEFINE t == Other(s)
           o == 2 - PortFrom(s)
           i == <<PortFrom(s), TermDomain(s)>>
           a == Arriving(Grants(dom, rdy), Latch(dom, rdy), dom, in_msg, t, i)
<1>1. i \in Ports \X Domains /\ t \in Routers /\ o \in Ports /\ o # 1 /\ Other(t) = s
  BY RouterIs
<1>2. q'[t][i] = Rest(Grants(dom, rdy), dom, t, i) \o SetToSeq(a)
  BY <1>1 DEF Cycle, Move
<1>3. OnTheWay(s)' = q'[t][i]
  BY DEF OnTheWay, TermDomain, PortFrom, Other
<1>4. /\ TermDomain(s) = Latch(dom, rdy)[<<s, o>>] =>
             a = {Head(q[s][<<p, dom[s][p]>>]) : p \in Granted(s, o, dom[s], rdy[s])}
      /\ TermDomain(s) # Latch(dom, rdy)[<<s, o>>] => a = {}
  <2>1. i # <<1, TermDomain(t)>> /\ i[1] # 1 /\ i[1] = PortFrom(s) /\ i[2] = TermDomain(s)
    BY RouterIs
  <2>2. Winners(Grants(dom, rdy), s, o) = Granted(s, o, dom[s], rdy[s])
    BY <1>1, GrantsAre
  <2> QED BY <1>1, <2>1, <2>2 DEF Arriving, Shown
<1>5. ASSUME Sets(dom, rdy, s) PROVE a = {Head(AtSource(s))}
  <2>0. 1 \in Granted(s, o, dom[s], rdy[s])
    BY <1>5 DEF Sets
  <2>1. /\ Granted(s, o, dom[s], rdy[s]) = {1}
        /\ Latched(s, o, dom[s], rdy[s]) = dom[s][1]
    BY <2>0, GrantIs
  <2>2. dom[s][1] = TermDomain(s)
    BY <1>1, <1>5, SourceGrants DEF Sets, Cycle
  <2>3. Latch(dom, rdy)[<<s, o>>] = dom[s][1]
    <3>1. Latch(dom, rdy)[<<s, o>>] = Latched(s, o, dom[s], rdy[s])
      BY <1>1, LatchIs
    <3> QED BY <2>1, <3>1, Zenon
  <2> QED BY <1>4, <2>1, <2>2, <2>3 DEF AtSource
<1>6. ASSUME ~Sets(dom, rdy, s) PROVE a = {}
  <2>1. ASSUME NEW p \in Granted(s, o, dom[s], rdy[s]) PROVE FALSE
    <3>1. p \in Ports /\ o \in Requests(s, p, dom[s][p]) /\ dom[s][p] \in Domains
      BY GrantIs DEF Cycle
    <3>2. /\ Head(q[s][<<p, dom[s][p]>>]).dest = s => o = 1
          /\ Head(q[s][<<p, dom[s][p]>>]).dest # s => p = 1
      BY <3>1, RequestIs
    <3> QED BY <1>1, <1>6, <3>2 DEF Sets
  <2> QED BY <1>4, <2>1
<1>7. SetToSeq({}) = <<>> /\ \A m : SetToSeq({m}) = <<m>>
  BY NoneAsSeq, OneAsSeq
<1> QED BY <1>2, <1>3, <1>5, <1>6, <1>7 DEF WayRest

LEMMA SourceRestIs ==
  ASSUME NetInv, NEW dom, NEW rdy, dom \in [Routers -> [Ports -> Domains]], NEW s \in Routers
  PROVE  /\ SourceRest(dom, rdy, s) \in Seq(Message)
         /\ Len(SourceRest(dom, rdy, s)) <= Len(AtSource(s))
         /\ Sets(dom, rdy, s) \/ Returns(dom, rdy, s) =>
              AtSource(s) # <<>> /\ SourceRest(dom, rdy, s) = Tail(AtSource(s))
         /\ ~(Sets(dom, rdy, s) \/ Returns(dom, rdy, s)) => SourceRest(dom, rdy, s) = AtSource(s)
<1>1. TermDomain(s) \in Domains /\ 1 \in Ports
  BY RouterIs
<1>2. Taken(dom, rdy, s, 1, TermDomain(s)) <=> Sets(dom, rdy, s) \/ Returns(dom, rdy, s)
  BY SourceGrants
<1>3. /\ Taken(dom, rdy, s, 1, TermDomain(s)) =>
            AtSource(s) # <<>> /\ SourceRest(dom, rdy, s) = Tail(AtSource(s))
      /\ ~Taken(dom, rdy, s, 1, TermDomain(s)) => SourceRest(dom, rdy, s) = AtSource(s)
  BY <1>1, RestIs DEF SourceRest, AtSource
<1>4. AtSource(s) \in Seq(Message)
  BY WaitingIs
<1>5. AtSource(s) # <<>> => Tail(AtSource(s)) \in Seq(Message) /\ Len(Tail(AtSource(s))) <= Len(AtSource(s))
  BY <1>4, TailIs
<1>6. Len(AtSource(s)) <= Len(AtSource(s))
  BY <1>4
<1> QED BY <1>2, <1>3, <1>4, <1>5, <1>6, Zenon

(* What a terminal hands over for t, as a sequence. *)
ForPair(in_msg, s, t) ==
  IF s \in Entering(in_msg) /\ in_msg[s].dest = t THEN <<in_msg[s]>> ELSE <<>>

LEMMA PutIs ==
  ASSUME NetInv, NEW dom, NEW in_msg, NEW rdy, Cycle(dom, in_msg, rdy),
         NEW s \in Routers, NEW t \in Routers
  PROVE  /\ Only(AtSource(s)', To(t))
               = Only(SourceRest(dom, rdy, s), To(t)) \o ForPair(in_msg, s, t)
         /\ \/ ForPair(in_msg, s, t) = <<>> /\ Put(s, t)' = NoNetMsg
            \/ \E m \in Message : ForPair(in_msg, s, t) = <<m>> /\ Put(s, t)' = m
<1> DEFINE rest == SourceRest(dom, rdy, s)
<1>1. AtSource(s)' = rest \o Entered(in_msg, s)
  BY SourceStep
<1>2. rest \in Seq(Message) /\ Len(rest) <= Len(AtSource(s)) /\ Len(AtSource(s)) <= 2
      /\ AtSource(s) \in Seq(Message)
  BY SourceRestIs, WaitingIs DEF Cycle
<1>3. put'[s] = IF s \in Entering(in_msg) THEN in_msg[s] ELSE NoNetMsg
  BY DEF Cycle, Move
<1>4. Put(s, t)' = IF put'[s] # NoNetMsg /\ put'[s].dest = t THEN put'[s] ELSE NoNetMsg
  BY DEF Put
<1> HIDE DEF rest
<1>5. CASE s \notin Entering(in_msg)
  <2>1. Entered(in_msg, s) = <<>> /\ ForPair(in_msg, s, t) = <<>> /\ Put(s, t)' = NoNetMsg
    BY <1>3, <1>4, <1>5 DEF Entered, ForPair
  <2>2. rest \o <<>> = rest
    BY <1>2, CatNone
  <2>3. Len(rest) <= 2
    BY <1>2
  <2>4. Only(rest, To(t)) \in Seq(Message)
    BY <1>2, <2>3, OnlySeq
  <2>5. Only(rest, To(t)) \o <<>> = Only(rest, To(t))
    BY <2>4, CatNone
  <2> QED BY <1>1, <2>1, <2>2, <2>5, Zenon DEF rest
<1>6. CASE s \in Entering(in_msg)
  <2>1. in_msg[s] \in Message /\ in_msg[s] # NoNetMsg
    BY <1>6, OfferIs DEF Entering, NetInv, Cycle
  <2>2. Len(AtSource(s)) # 2
    BY <1>6 DEF Entering, Full, AtSource, QueueSize
  <2>3. Len(rest) < 2
    <3>1. Len(rest) \in Nat /\ Len(AtSource(s)) \in Nat
      BY <1>2
    <3>2. \A a, b \in Nat : a <= b /\ b <= 2 /\ b # 2 => a < 2
      OBVIOUS
    <3> QED BY <1>2, <2>2, <3>1, <3>2, Zenon
  <2>4. Entered(in_msg, s) = <<in_msg[s]>>
    BY <1>6 DEF Entered
  <2>5. Only(AtSource(s)', To(t)) = Only(rest, To(t)) \o Picked(in_msg[s], To(t))
    <3>1. Only(rest \o <<in_msg[s]>>, To(t)) = Only(rest, To(t)) \o Picked(in_msg[s], To(t))
      BY <1>2, <2>1, <2>3, OnlyLast, Zenon
    <3> QED BY <1>1, <2>4, <3>1, Zenon DEF rest
  <2>6. Picked(in_msg[s], To(t)) = ForPair(in_msg, s, t)
    BY <1>6, <2>1 DEF Picked, ForPair, To
  <2>7. CASE in_msg[s].dest = t
    <3>1. ForPair(in_msg, s, t) = <<in_msg[s]>> /\ Put(s, t)' = in_msg[s]
      BY <1>3, <1>4, <1>6, <2>1, <2>7 DEF ForPair
    <3> QED BY <2>1, <2>5, <2>6, <3>1, Zenon DEF rest
  <2>8. CASE in_msg[s].dest # t
    <3>1. ForPair(in_msg, s, t) = <<>> /\ Put(s, t)' = NoNetMsg
      BY <1>3, <1>4, <1>6, <2>1, <2>8 DEF ForPair
    <3> QED BY <2>5, <2>6, <3>1, Zenon DEF rest
  <2> QED BY <2>7, <2>8
<1> QED BY <1>5, <1>6

LEMMA GotIs ==
  ASSUME NetInv, NEW dom, NEW in_msg, NEW rdy, Cycle(dom, in_msg, rdy),
         NEW t \in Routers
  PROVE  /\ Granted(t, 1, dom[t], rdy[t]) = {} => got'[t] = NoNetMsg
         /\ \A p \in Granted(t, 1, dom[t], rdy[t]) :
              LET m == Head(q[t][<<p, dom[t][p]>>])
              IN  /\ got'[t] = m /\ m \in Message /\ m # NoNetMsg /\ m.dest = t
                  /\ Belongs(m, t, p, dom[t][p])
                  /\ p \in Ports /\ q[t][<<p, dom[t][p]>>] # <<>>
<1> DEFINE granted == Granted(t, 1, dom[t], rdy[t])
           shown == Shown(Grants(dom, rdy), dom, t, 1)
<1>1. shown = {Head(q[t][<<p, dom[t][p]>>]) : p \in granted}
  BY RouterIs, GrantsAre DEF Shown
<1>2. got'[t] = IF shown = {} THEN NoNetMsg ELSE CHOOSE m \in shown : TRUE
  BY DEF Cycle, Move
<1> HIDE DEF shown
<1>3. granted = {} => got'[t] = NoNetMsg
  BY <1>1, <1>2
<1>4. ASSUME NEW p \in granted
      PROVE  LET m == Head(q[t][<<p, dom[t][p]>>])
             IN  /\ got'[t] = m /\ m \in Message /\ m # NoNetMsg /\ m.dest = t
                 /\ Belongs(m, t, p, dom[t][p])
                 /\ p \in Ports /\ q[t][<<p, dom[t][p]>>] # <<>>
  <2> DEFINE d == dom[t][p]
             m == Head(q[t][<<p, d>>])
  <2>1. p \in Ports /\ 1 \in Requests(t, p, d) /\ granted = {p}
    BY <1>4, GrantIs
  <2>2. d \in Domains
    BY <2>1 DEF Cycle
  <2>3. /\ q[t][<<p, d>>] # <<>> /\ m \in Message /\ Belongs(m, t, p, d)
        /\ m.dest # t => 1 = 2 - PortFrom(t)
    BY <2>1, <2>2, RequestIs
  <2>4. m.dest = t
    BY <2>3, RouterIs
  <2>5. shown = {m}
    BY <1>1, <2>1
  <2>6. got'[t] = m
    BY <1>2, <2>5
  <2> QED BY <2>1, <2>3, <2>4, <2>6, NetAssumption
<1> QED BY <1>3, <1>4

(* The first message on the way is given to the terminal, or all stay. *)
Arrives(dom, rdy, s) == PortFrom(s) \in Granted(Other(s), 1, dom[Other(s)], rdy[Other(s)])

LEMMA WayLeaves ==
  ASSUME NetInv, NEW dom, NEW in_msg, NEW rdy, Cycle(dom, in_msg, rdy),
         NEW s \in Routers
  PROVE  /\ Arrives(dom, rdy, s) =>
              /\ OnTheWay(s) # <<>> /\ Got(s, Other(s))' = Head(OnTheWay(s))
              /\ WayRest(dom, rdy, s) = Tail(OnTheWay(s))
         /\ ~Arrives(dom, rdy, s) =>
              Got(s, Other(s))' = NoNetMsg /\ WayRest(dom, rdy, s) = OnTheWay(s)
<1> DEFINE t == Other(s)
           i == PortFrom(s)
           d == TermDomain(s)
           granted == Granted(t, 1, dom[t], rdy[t])
<1>1. /\ t \in Routers /\ t # s /\ Other(t) = s /\ d \in Domains
      /\ i \in Ports /\ i # 1 /\ 1 \in Ports
  BY RouterIs
<1>2. Got(s, t)' = IF got'[t] # NoNetMsg /\ got'[t].src = s THEN got'[t] ELSE NoNetMsg
  BY DEF Got, Other
<1>3. /\ Taken(dom, rdy, t, i, d) => WayRest(dom, rdy, s) = Tail(OnTheWay(s))
      /\ ~Taken(dom, rdy, t, i, d) => WayRest(dom, rdy, s) = OnTheWay(s)
  BY <1>1, RestIs DEF WayRest, OnTheWay
<1>4. ASSUME Arrives(dom, rdy, s)
      PROVE  /\ OnTheWay(s) # <<>> /\ Got(s, t)' = Head(OnTheWay(s))
             /\ WayRest(dom, rdy, s) = Tail(OnTheWay(s))
  <2>1. i \in granted
    BY <1>4 DEF Arrives
  <2> DEFINE m == Head(q[t][<<i, dom[t][i]>>])
  <2>2. /\ got'[t] = m /\ m \in Message /\ m # NoNetMsg
        /\ Belongs(m, t, i, dom[t][i]) /\ q[t][<<i, dom[t][i]>>] # <<>>
    BY <1>1, <2>1, GotIs
  <2>3. m.src = s /\ dom[t][i] = d
    BY <1>1, <2>2 DEF Belongs
  <2>4. OnTheWay(s) # <<>> /\ m = Head(OnTheWay(s))
    BY <2>2, <2>3 DEF OnTheWay
  <2>5. Taken(dom, rdy, t, i, d)
    BY <1>1, <2>1, <2>3 DEF Taken
  <2> QED BY <1>2, <1>3, <2>2, <2>3, <2>4, <2>5
<1>5. ASSUME ~Arrives(dom, rdy, s)
      PROVE  Got(s, t)' = NoNetMsg /\ WayRest(dom, rdy, s) = OnTheWay(s)
  <2>1. i \notin granted
    BY <1>5 DEF Arrives
  <2>2. ASSUME NEW p \in granted PROVE got'[t].src # s
    <3> DEFINE m == Head(q[t][<<p, dom[t][p]>>])
    <3>1. got'[t] = m /\ Belongs(m, t, p, dom[t][p])
      BY <1>1, GotIs
    <3>2. p # i
      BY <2>1
    <3> QED BY <1>1, <3>1, <3>2 DEF Belongs
  <2>3. Got(s, t)' = NoNetMsg
    <3>1. granted = {} => got'[t] = NoNetMsg
      BY <1>1, GotIs
    <3> QED BY <1>2, <2>2, <3>1
  <2>4. ASSUME Taken(dom, rdy, t, i, d) PROVE FALSE
    <3>1. PICK o \in Ports : i \in Granted(t, o, dom[t], rdy[t])
      BY <2>4 DEF Taken
    <3>2. d = dom[t][i]
      BY <2>4 DEF Taken
    <3>3. o \in Requests(t, i, d)
      BY <3>1, <3>2, GrantIs
    <3>4. Head(q[t][<<i, d>>]).dest # t => i = 1
      BY <1>1, <3>3, RequestIs
    <3>5. Head(q[t][<<i, d>>]).dest = t => o = 1
      BY <1>1, <3>3, RequestIs
    <3> QED BY <1>1, <2>1, <3>1, <3>4, <3>5
  <2> QED BY <1>3, <2>3, <2>4
<1> QED BY <1>4, <1>5

LEMMA OwnLeaves ==
  ASSUME NetInv, NEW dom, NEW in_msg, NEW rdy, Cycle(dom, in_msg, rdy),
         NEW s \in Routers
  PROVE  /\ Returns(dom, rdy, s) => Got(s, s)' = Head(AtSource(s))
         /\ ~Returns(dom, rdy, s) => Got(s, s)' = NoNetMsg
<1> DEFINE granted == Granted(s, 1, dom[s], rdy[s])
<1>1. Got(s, s)' = IF got'[s] # NoNetMsg /\ got'[s].src = s THEN got'[s] ELSE NoNetMsg
  BY DEF Got
<1>2. ASSUME Returns(dom, rdy, s) PROVE Got(s, s)' = Head(AtSource(s))
  <2>1. 1 \in granted
    BY <1>2 DEF Returns
  <2>2. dom[s][1] = TermDomain(s) /\ Head(AtSource(s)).src = s
    BY <2>1, RouterIs, SourceGrants DEF Cycle
  <2>3. got'[s] = Head(q[s][<<1, dom[s][1]>>]) /\ got'[s] # NoNetMsg
    BY <2>1, GotIs
  <2> QED BY <1>1, <2>2, <2>3 DEF AtSource
<1>3. ASSUME ~Returns(dom, rdy, s) PROVE Got(s, s)' = NoNetMsg
  <2>1. ASSUME NEW p \in granted PROVE got'[s].src # s
    <3> DEFINE m == Head(q[s][<<p, dom[s][p]>>])
    <3>1. got'[s] = m /\ Belongs(m, s, p, dom[s][p])
      BY GotIs
    <3>2. p # 1
      BY <1>3 DEF Returns
    <3> QED BY <3>1, <3>2, RouterIs DEF Belongs
  <2>2. granted = {} => got'[s] = NoNetMsg
    BY GotIs
  <2> QED BY <1>1, <2>1, <2>2
<1> QED BY <1>2, <1>3

(* What is left for t at the source. *)
LEMMA SourceKeeps ==
  ASSUME NetInv, NEW dom, NEW rdy, dom \in [Routers -> [Ports -> Domains]],
         NEW s \in Routers, NEW t \in Routers
  PROVE  LET forT == Only(AtSource(s), To(t))
             left == Only(SourceRest(dom, rdy, s), To(t))
         IN  /\ forT \in Seq(Message) /\ left \in Seq(Message)
             /\ IF (s = t /\ Returns(dom, rdy, s)) \/ (s # t /\ Sets(dom, rdy, s))
                THEN AtSource(s) # <<>> /\ Head(AtSource(s)) \in Message
                     /\ forT = <<Head(AtSource(s))>> \o left
                ELSE forT = left
<1> DEFINE a == AtSource(s)
           r == SourceRest(dom, rdy, s)
           forT == Only(a, To(t))
           left == Only(r, To(t))
<1>1. a \in Seq(Message) /\ r \in Seq(Message) /\ Len(r) <= Len(a) /\ Len(a) <= 2
  BY WaitingIs, SourceRestIs
<1>2. Len(r) <= 2
  <2>1. Len(r) \in Nat /\ Len(a) \in Nat
    BY <1>1
  <2>2. \A m, n \in Nat : m <= n /\ n <= 2 => m <= 2
    OBVIOUS
  <2> QED BY <1>1, <2>1, <2>2, Zenon
<1>3. forT \in Seq(Message) /\ left \in Seq(Message)
  BY <1>1, <1>2, OnlySeq
<1>4. /\ Sets(dom, rdy, s) \/ Returns(dom, rdy, s) =>
           /\ a # <<>> /\ r = Tail(a)
           /\ Head(a) \in Message
      /\ Returns(dom, rdy, s) => Head(a).dest = s
      /\ Sets(dom, rdy, s) => Head(a).dest # s
  <2>1. Sets(dom, rdy, s) \/ Returns(dom, rdy, s) => a # <<>> /\ r = Tail(a)
    BY SourceRestIs
  <2>2. /\ Sets(dom, rdy, s) \/ Returns(dom, rdy, s) => Head(a) \in Message
        /\ Returns(dom, rdy, s) => Head(a).dest = s
        /\ Sets(dom, rdy, s) => Head(a).dest # s
    BY RouterIs, SourceGrants DEF Sets, Returns
  <2> QED BY <2>1, <2>2
<1>5. a # <<>> => forT = Picked(Head(a), To(t)) \o Only(Tail(a), To(t))
  BY <1>1, OnlyFirst
<1>6. \A m \in Message : m \in To(t) <=> m.dest = t
  BY DEF To
<1>7. <<>> \o left = left
  BY <1>3, NoneCat
<1> HIDE DEF a, r, forT, left
<1>8. CASE Sets(dom, rdy, s) \/ Returns(dom, rdy, s)
  <2>1. a # <<>> /\ Head(a) \in Message /\ forT = Picked(Head(a), To(t)) \o left
    BY <1>4, <1>5, <1>8 DEF left
  <2>2. Head(a).dest = t => forT = <<Head(a)>> \o left
    BY <1>6, <2>1, Zenon DEF Picked
  <2>3. Head(a).dest # t => forT = left
    BY <1>6, <1>7, <2>1, Zenon DEF Picked
  <2>4. t = s \/ t = Other(s)
    BY RouterIs
  <2>5. Head(a).dest \in Routers
    BY <2>1 DEF Message
  <2>6. Head(a).dest # s /\ s # t => Head(a).dest = t
    BY <2>4, <2>5, RouterIs
  <2> QED BY <1>3, <1>4, <1>8, <2>1, <2>2, <2>3, <2>6, Zenon DEF a, r, forT, left
<1>9. CASE ~(Sets(dom, rdy, s) \/ Returns(dom, rdy, s))
  <2>1. r = a
    BY <1>9, SourceRestIs DEF r, a
  <2> QED BY <1>3, <1>9, <2>1, Zenon DEF a, r, forT, left
<1> QED BY <1>8, <1>9

InsideFits ==
  \A s, t \in Routers :
    /\ s = t => Inside(s, t) = Only(AtSource(s), To(t))
    /\ s # t => Inside(s, t) = OnTheWay(s) \o Only(AtSource(s), To(t))
    /\ Inside(s, t) \in Seq(Message) /\ Len(Inside(s, t)) <= 2 * QueueSize

LEMMA InsideBound == NetInv => InsideFits
<1> SUFFICES ASSUME NetInv, NEW s \in Routers, NEW t \in Routers
             PROVE  /\ s = t => Inside(s, t) = Only(AtSource(s), To(t))
                    /\ s # t => Inside(s, t) = OnTheWay(s) \o Only(AtSource(s), To(t))
                    /\ Inside(s, t) \in Seq(Message) /\ Len(Inside(s, t)) <= 2 * QueueSize
  BY DEF InsideFits
<1> DEFINE u == OnTheWay(s)
           v == Only(AtSource(s), To(t))
<1>1. u \in Seq(Message) /\ Len(u) <= 2 /\ v \in Seq(Message) /\ Len(v) <= Len(AtSource(s))
      /\ AtSource(s) \in Seq(Message) /\ Len(AtSource(s)) <= 2
  BY WaitingIs, OnlySeq
<1>2. s = t => Inside(s, t) = v
  BY InsideIs
<1>3. s # t => Inside(s, t) = u \o v
  BY InsideIs
<1> HIDE DEF u, v
<1>4. u \o v \in Seq(Message) /\ Len(u \o v) = Len(u) + Len(v)
      /\ Len(u) \in Nat /\ Len(v) \in Nat /\ Len(AtSource(s)) \in Nat
  BY <1>1
<1>5. \A k, l, n \in Nat : k <= 2 /\ l <= n /\ n <= 2 => l <= 2 * QueueSize /\ k + l <= 2 * QueueSize
  BY DEF QueueSize
<1>6. Len(v) <= 2 * QueueSize /\ Len(u) + Len(v) <= 2 * QueueSize
  BY <1>1, <1>4, <1>5, Zenon
<1> QED BY <1>1, <1>2, <1>3, <1>4, <1>6, Zenon DEF u, v

LEMMA InsideNext ==
  ASSUME NetInv', NEW s \in Routers, NEW t \in Routers
  PROVE  /\ s = t => Inside(s, t)' = Only(AtSource(s)', To(t))
         /\ s # t => Inside(s, t)' = OnTheWay(s)' \o Only(AtSource(s)', To(t))
         /\ Inside(s, t)' \in Seq(Message) /\ Len(Inside(s, t)') <= 2 * QueueSize
<1>1. InsideFits'
  BY InsideBound, PTL
<1> QED BY <1>1 DEF InsideFits

(* A pair makes a step of a queue: rest is what the cycle leaves of what   *)
(* was inside.                                                             *)
LEMMA PairStep ==
  ASSUME NetInv, NetInv', NEW dom, NEW in_msg, NEW rdy,
         Cycle(dom, in_msg, rdy), NEW s \in Routers, NEW t \in Routers,
         NEW rest \in Seq(Message),
         Inside(s, t)' = rest \o ForPair(in_msg, s, t),
         \/ Got(s, t)' = NoNetMsg /\ Inside(s, t) = rest
         \/ \E m \in Message : Got(s, t)' = m /\ Inside(s, t) = <<m>> \o rest
  PROVE  Pair(s, t)!Next
<1> DEFINE c == Inside(s, t)
<1>1. c \in Seq(Message) /\ Len(Inside(s, t)') <= 2 * QueueSize
  BY InsideBound, InsideNext DEF InsideFits
<1>2. CASE ForPair(in_msg, s, t) = <<>> /\ Put(s, t)' = NoNetMsg
  <2>1. Inside(s, t)' = rest
    BY <1>2, CatNone
  <2>2. CASE Got(s, t)' = NoNetMsg /\ c = rest
    BY <1>1, <1>2, <2>1, <2>2 DEF Pair!Next, Pair!Pass
  <2>3. ASSUME NEW m \in Message, Got(s, t)' = m, c = <<m>> \o rest PROVE Pair(s, t)!Next
    <3>1. c # <<>> /\ Head(c) = m /\ Tail(c) = rest
      BY <2>3
    <3> QED BY <1>1, <1>2, <2>1, <2>3, <3>1, Zenon DEF Pair!Next, Pair!Pass
  <2> QED BY <2>2, <2>3
<1>3. ASSUME NEW new \in Message, ForPair(in_msg, s, t) = <<new>>, Put(s, t)' = new
      PROVE  Pair(s, t)!Next
  <2>1. Inside(s, t)' = rest \o <<new>> /\ Append(c, new) = c \o <<new>>
    BY <1>1, <1>3
  <2>2. CASE Got(s, t)' = NoNetMsg /\ c = rest
    BY <1>1, <1>3, <2>1, <2>2 DEF Pair!Next, Pair!Pass
  <2>3. ASSUME NEW m \in Message, Got(s, t)' = m, c = <<m>> \o rest PROVE Pair(s, t)!Next
    <3>1. c # <<>> /\ Head(c) = m /\ Tail(c) = rest
      BY <2>3
    <3>2. /\ c \o <<new>> # <<>> /\ Head(c \o <<new>>) = m
          /\ Tail(c \o <<new>>) = rest \o <<new>>
      <4>1. <<new>> \in Seq(Message)
        BY <1>3
      <4> HIDE DEF c
      <4>2. /\ c \o <<new>> # <<>> /\ Head(c \o <<new>>) = Head(c)
            /\ Tail(c \o <<new>>) = Tail(c) \o <<new>>
        <5>1. c \in Seq(Message) /\ c # <<>>
          BY <1>1, <3>1
        <5> QED BY <4>1, <5>1, HeadOfCat, Zenon
      <4> QED BY <3>1, <4>2, Zenon
    <3>3. Pair(s, t)!Pass(Append(c, new))
      BY <1>1, <2>1, <2>3, <3>2, Zenon DEF Pair!Pass
    <3> QED BY <1>3, <3>3, Zenon DEF Pair!Next
  <2> QED BY <2>2, <2>3
<1> QED BY <1>2, <1>3, PutIs

LEMMA PairOfCycle ==
  ASSUME NetInv, NetInv', NEW dom, NEW in_msg, NEW rdy,
         Cycle(dom, in_msg, rdy), NEW s \in Routers, NEW t \in Routers
  PROVE  Pair(s, t)!Next
<1> DEFINE a == AtSource(s)
           r == SourceRest(dom, rdy, s)
           forT == Only(a, To(t))
           left == Only(r, To(t))
           new == ForPair(in_msg, s, t)
<1>1. /\ forT \in Seq(Message) /\ left \in Seq(Message)
      /\ (s = t /\ Returns(dom, rdy, s)) \/ (s # t /\ Sets(dom, rdy, s)) =>
           a # <<>> /\ Head(a) \in Message /\ forT = <<Head(a)>> \o left
      /\ ~((s = t /\ Returns(dom, rdy, s)) \/ (s # t /\ Sets(dom, rdy, s))) => forT = left
  BY SourceKeeps DEF Cycle
<1>2. Only(AtSource(s)', To(t)) = left \o new
  BY PutIs
<1>3. new \in Seq(Message)
  <2>1. new = <<>> \/ \E m \in Message : new = <<m>>
    BY PutIs
  <2>2. <<>> \in Seq(Message) /\ \A m \in Message : <<m>> \in Seq(Message)
    OBVIOUS
  <2> QED BY <2>1, <2>2, Zenon
<1>4. CASE s = t
  <2>1. Inside(s, t) = forT /\ Inside(s, t)' = left \o new
    BY <1>2, <1>4, InsideBound, InsideNext DEF InsideFits
  <2>2. /\ Returns(dom, rdy, s) => Got(s, t)' = Head(a)
        /\ ~Returns(dom, rdy, s) => Got(s, t)' = NoNetMsg
    BY <1>4, OwnLeaves
  <2>3. \/ Got(s, t)' = NoNetMsg /\ Inside(s, t) = left
        \/ \E m \in Message : Got(s, t)' = m /\ Inside(s, t) = <<m>> \o left
    BY <1>1, <1>4, <2>1, <2>2, Zenon
  <2> QED BY <1>1, <2>1, <2>3, PairStep
<1>5. CASE s # t
  <2> DEFINE w == OnTheWay(s)
             wr == WayRest(dom, rdy, s)
             rest == wr \o forT
  <2>1. t = Other(s)
    BY <1>5, RouterIs
  <2>2. /\ Arrives(dom, rdy, s) => w # <<>> /\ Got(s, t)' = Head(w) /\ wr = Tail(w)
        /\ ~Arrives(dom, rdy, s) => Got(s, t)' = NoNetMsg /\ wr = w
    BY <2>1, WayLeaves
  <2>3. w \in Seq(Message)
    BY WaitingIs
  <2>4. wr \in Seq(Message) /\ rest \in Seq(Message)
    <3>1. w # <<>> => Tail(w) \in Seq(Message)
      BY <2>3, TailIs
    <3>2. wr \in Seq(Message)
      BY <2>2, <2>3, <3>1, Zenon
    <3> HIDE DEF wr, forT
    <3> QED BY <1>1, <3>2, CatAssoc
  <2>5. Inside(s, t) = w \o forT
    BY <1>5, InsideBound DEF InsideFits
  <2>6. OnTheWay(s)' \o left = rest
    <3>1. CASE Sets(dom, rdy, s)
      <4>1. OnTheWay(s)' = wr \o <<Head(a)>>
        BY <3>1, WayStep
      <4>2. Head(a) \in Message /\ forT = <<Head(a)>> \o left
        BY <1>1, <1>5, <3>1
      <4>3. <<Head(a)>> \in Seq(Message)
        BY <4>2
      <4>4. (wr \o <<Head(a)>>) \o left = wr \o (<<Head(a)>> \o left)
        BY <1>1, <2>4, <4>3, CatAssoc, Zenon
      <4> QED BY <4>1, <4>2, <4>4, Zenon
    <3>2. CASE ~Sets(dom, rdy, s)
      <4>1. OnTheWay(s)' = wr \o <<>>
        BY <3>2, WayStep
      <4>2. wr \o <<>> = wr
        BY <2>4, CatNone, Zenon
      <4>3. forT = left
        BY <1>1, <1>5, <3>2, Zenon
      <4> QED BY <4>1, <4>2, <4>3, Zenon
    <3> QED BY <3>1, <3>2
  <2>7. OnTheWay(s)' \in Seq(Message)
    <3>1. <<>> \in Seq(Message) /\ \A m \in Message : <<m>> \in Seq(Message)
      OBVIOUS
    <3>2. Sets(dom, rdy, s) => Head(a) \in Message
      BY <1>1, <1>5, Zenon
    <3>3. /\ Sets(dom, rdy, s) => OnTheWay(s)' = wr \o <<Head(a)>>
          /\ ~Sets(dom, rdy, s) => OnTheWay(s)' = wr \o <<>>
      BY WayStep, Zenon
    <3>4. \A u \in Seq(Message) : wr \o u \in Seq(Message)
      BY <2>4, CatAssoc, Zenon
    <3> QED BY <3>1, <3>2, <3>3, <3>4, Zenon
  <2>8. Inside(s, t)' = rest \o new
    <3>1. Inside(s, t)' = OnTheWay(s)' \o (left \o new)
      BY <1>2, <1>5, InsideNext
    <3>2. OnTheWay(s)' \o (left \o new) = (OnTheWay(s)' \o left) \o new
      BY <1>1, <1>3, <2>7, CatAssoc, Zenon
    <3> QED BY <2>6, <3>1, <3>2, Zenon
  <2>9. \/ Got(s, t)' = NoNetMsg /\ Inside(s, t) = rest
        \/ \E m \in Message : Got(s, t)' = m /\ Inside(s, t) = <<m>> \o rest
    <3>1. CASE Arrives(dom, rdy, s)
      <4>1. w # <<>> /\ Got(s, t)' = Head(w) /\ wr = Tail(w)
        BY <2>2, <3>1
      <4>2. <<Head(w)>> \o Tail(w) = w
        BY <2>3, <4>1, HeadOfCat, <1>1, Zenon
      <4>3. Head(w) \in Message /\ <<Head(w)>> \in Seq(Message)
        BY <2>3, <4>1
      <4>4. (<<Head(w)>> \o wr) \o forT = <<Head(w)>> \o (wr \o forT)
        BY <1>1, <2>4, <4>3, CatAssoc, Zenon
      <4>5. Inside(s, t) = <<Head(w)>> \o rest
        BY <2>5, <4>1, <4>2, <4>4, Zenon
      <4> QED BY <4>1, <4>3, <4>5, Zenon
    <3>2. CASE ~Arrives(dom, rdy, s)
      BY <2>2, <2>5, <3>2, Zenon
    <3> QED BY <3>1, <3>2
  <2> QED BY <2>4, <2>8, <2>9, PairStep
<1> QED BY <1>4, <1>5

(* For each pair of terminals the network is a queue: what one hands over  *)
(* for the other comes out there once and in order, and no more than       *)
(* twice the entries of a queue are inside, whatever the messages of the   *)
(* other domain and of the other pairs do.                                 *)
THEOREM PairsAreQueues == NetSpec => PairsInOrder
<1>1. NetInit => \A s, t \in Routers : Pair(s, t)!Init
  <2> SUFFICES ASSUME NetInit, NEW s \in Routers, NEW t \in Routers PROVE Pair(s, t)!Init
    OBVIOUS
  <2>1. NetInv
    BY NetInvInit
  <2>2. AtSource(s) = <<>> /\ OnTheWay(s) = <<>>
    BY RouterIs DEF NetInit, AtSource, OnTheWay
  <2>3. Only(<<>>, To(t)) = <<>> /\ <<>> \o <<>> = <<>>
    BY OnlyOf
  <2>4. Inside(s, t) = <<>>
    BY <2>1, <2>2, <2>3, InsideIs, Zenon
  <2>5. Put(s, t) = NoNetMsg /\ Got(s, t) = NoNetMsg
    BY DEF NetInit, Put, Got
  <2> QED BY <2>4, <2>5 DEF Pair!Init
<1>2. NetInv /\ NetInv' /\ [NetNext]_netVars => [\A s, t \in Routers : Pair(s, t)!Next]_netVars
  BY NextIsCycle, PairOfCycle
<1> QED BY <1>1, <1>2, NetInvHolds, PTL DEF NetSpec, PairsInOrder
=============================================================================
