------------------------------- MODULE RingNet -------------------------------
(***************************************************************************)
(* plab4_net_RingNetAlt_Sep: two routers of plab4_net_RouterAlt_Sep, joined *)
(* by links that each carry the messages of both domains, one at a time.   *)
(* A demux puts what arrives into the input queue of its domain.  The      *)
(* control and the data queue of an input are written and read together    *)
(* and are one queue here; the queues are sequences, which VcQueueN shows  *)
(* them to be.  Each terminal sends Sends[r] messages, numbered, to any    *)
(* destinations, and takes messages in any cycles; some terminals may also *)
(* send themselves messages without end.                                   *)
(***************************************************************************)
EXTENDS Integers, SequencesExt

CONSTANTS
  Sends,    \* how many numbered messages each terminal sends
  Endless,  \* the terminals that also send without end
  NoNetMsg

Routers == {0, 1}

Ports   == 0 .. 2   \* 0 and 2 face the other router, 1 the terminal
Domains == {0, 1}
QueueSize == 2   \* p_num_msgs

(* num tells the messages of a source apart; those without end have 0. *)
Message == [src : Routers, dest : Routers, num : 0 .. Sends[0] + Sends[1]]

ASSUME NetAssumption ==
  /\ Sends \in [Routers -> Nat]
  /\ NoNetMsg \notin Message

VARIABLES
  q,           \* q[r][<<p, d>>]: the input queue of port p and domain d
  priority,    \* priority[r][o]: the round robin of output o
  out_domain,  \* out_domain[r][o]: the latch of output o
  sent,        \* how many numbered messages each terminal has handed over
  put, got,    \* what passed each terminal port at the last clock edge
  clk          \* changes at each clock edge

netRegs == <<q, priority, out_domain>>
netVars == <<netRegs, sent, put, got, clk>>

NetInit ==
  /\ q = [r \in Routers |-> [i \in Ports \X Domains |-> <<>>]]
  /\ priority = [r \in Routers |-> [o \in Ports |-> 0]]
  /\ out_domain = [r \in Routers |-> [o \in Ports |-> 0]]
  /\ sent = [r \in Routers |-> 0]
  /\ put = [r \in Routers |-> NoNetMsg] /\ got = put
  /\ clk = 0

-----------------------------------------------------------------------------
(* The input controls. *)

Other(r)      == 1 - r
TermDomain(r) == r % 2
FreeEntries(r, p) == 2 * QueueSize - Len(q[r][<<p, 0>>]) - Len(q[r][<<p, 1>>])
Full(r, p, d) == Len(q[r][<<p, d>>]) = QueueSize

(* By what is free in the ring: the other way if the first is congested. *)
TermRequestsAdaptive(r) ==
  IF FreeEntries(Other(r), 2) > FreeEntries(Other(r), 0) THEN {0} ELSE {2}

(* The terminal's way into the ring, if the queues that input shares the   *)
(* ring with have room.  The weights of the two ways are equal: there is   *)
(* one hop either way, and both num_free_chan are tied to 1.               *)
TermRequests(r) ==
  IF r % 2 = 0 THEN (IF FreeEntries(r, 2) > 1 THEN {0} ELSE {})
  ELSE (IF FreeEntries(r, 0) > 1 THEN {2} ELSE {})

(* The outputs the first message of a queue asks for: one or none. *)
Requests(r, p, d) ==
  IF q[r][<<p, d>>] = <<>>              THEN {}
  ELSE IF Head(q[r][<<p, d>>]).dest = r THEN {1}
  ELSE IF p = 1                         THEN TermRequests(r)
  ELSE {2 - p}

(* The choices of domain the arbiters of a router's inputs may make. *)
InDomains(r, p) ==
  IF p = 1 THEN {TermDomain(r)}
  ELSE LET asking == {d \in Domains : Requests(r, p, d) # {}}
       IN  IF asking = {} THEN {0} ELSE asking

-----------------------------------------------------------------------------
(* The links and the output controls. *)

(* What the demux behind output o answers for domain d. *)
LinkRdy(r, o, d) == ~Full(Other(r), 2 - o, d)

OutRdy(r, o, d, term_rdy) == IF o = 1 THEN term_rdy ELSE LinkRdy(r, o, d)

(* The first requester from the one with the priority on. *)
Winner(r, o, asking) ==
  CHOOSE p \in asking : \A other \in asking :
    (p - priority[r][o] + 3) % 3 <= (other - priority[r][o] + 3) % 3

Asking(r, o, dom) == {p \in Ports : o \in Requests(r, p, dom[p])}

(* The latch does not follow the winner in the same cycle. *)
LatchedLate(r, o, dom, term_rdy) == out_domain[r][o]

(* The output's wires go round once: the ready is that of the domain the   *)
(* latch holds, a winner changes the latch, and the grant stands if the    *)
(* queue of the winner's domain is ready as well.                          *)
Latched(r, o, dom, term_rdy) ==
  IF Asking(r, o, dom) # {} /\ OutRdy(r, o, out_domain[r][o], term_rdy)
  THEN dom[Winner(r, o, Asking(r, o, dom))] ELSE out_domain[r][o]

Granted(r, o, dom, term_rdy) ==
  {p \in Asking(r, o, dom) :
     /\ p = Winner(r, o, Asking(r, o, dom))
     /\ OutRdy(r, o, out_domain[r][o], term_rdy)
     /\ OutRdy(r, o, Latched(r, o, dom, term_rdy), term_rdy)}

(* The winner is the first in turn again. *)
NextPrioritySame(old, winners) == IF winners = {} THEN old ELSE CHOOSE p \in winners : TRUE

(* The winner is the last in turn next time. *)
NextPriority(old, winners) ==
  IF winners = {} THEN old ELSE ((CHOOSE p \in winners : TRUE) + 1) % 3

-----------------------------------------------------------------------------
(* One clock cycle.  dom: what the input arbiters choose; in_msg: what the *)
(* terminals offer; term_rdy: whether they take.                           *)

(* The settled wires are granted, triples of router, output and input, and *)
(* latch, the domain each output latches.                                  *)

Winners(granted, r, o) == {p \in Ports : <<r, o, p>> \in granted}

Entering(in_msg) == {r \in Routers : in_msg[r] # NoNetMsg /\ ~Full(r, 1, TermDomain(r))}

Shown(granted, dom, r, o) == {Head(q[r][<<p, dom[r][p]>>]) : p \in Winners(granted, r, o)}

(* Queue i of router r without what leaves it, and what comes in. *)
Rest(granted, dom, r, i) ==
  IF i[2] = dom[r][i[1]] /\ \E o \in Ports : <<r, o, i[1]>> \in granted
  THEN Tail(q[r][i]) ELSE q[r][i]

Arriving(granted, latch, dom, in_msg, r, i) ==
  IF i = <<1, TermDomain(r)>>
  THEN {in_msg[s] : s \in {r} \cap Entering(in_msg)}
  ELSE IF i[1] # 1 /\ i[2] = latch[<<Other(r), 2 - i[1]>>]
  THEN Shown(granted, dom, Other(r), 2 - i[1])
  ELSE {}

Move(granted, latch, dom, in_msg) ==
  /\ q' = [r \in Routers |-> [i \in Ports \X Domains |->
            Rest(granted, dom, r, i) \o SetToSeq(Arriving(granted, latch, dom, in_msg, r, i))]]
  /\ priority' = [r \in Routers |-> [o \in Ports |->
                   NextPriority(priority[r][o], Winners(granted, r, o))]]
  /\ out_domain' = [r \in Routers |-> [o \in Ports |-> latch[<<r, o>>]]]
  /\ put' = [r \in Routers |-> IF r \in Entering(in_msg) THEN in_msg[r] ELSE NoNetMsg]
  /\ got' = [r \in Routers |-> IF Shown(granted, dom, r, 1) = {} THEN NoNetMsg
                                ELSE CHOOSE m \in Shown(granted, dom, r, 1) : TRUE]
  /\ sent' = [r \in Routers |->
               IF r \in Entering(in_msg) /\ in_msg[r].num > 0 THEN sent[r] + 1 ELSE sent[r]]

Grants(dom, term_rdy) ==
  UNION {{<<r, o, p>> : p \in Granted(r, o, dom[r], term_rdy[r])} : r \in Routers, o \in Ports}
Latch(dom, term_rdy) ==
  [x \in Routers \X Ports |-> Latched(x[1], x[2], dom[x[1]], term_rdy[x[1]])]

NetTick(dom, in_msg, term_rdy) ==
  \E granted \in {Grants(dom, term_rdy)}, latch \in {Latch(dom, term_rdy)} :
    Move(granted, latch, dom, in_msg)

Offers(r) ==
  {NoNetMsg} \cup
  (IF sent[r] < Sends[r] THEN [src : {r}, dest : Routers, num : {sent[r] + 1}] ELSE {}) \cup
  (IF r \in Endless THEN [src : {r}, dest : {r}, num : {0}] ELSE {})

InputChoices(r) == {dom \in [Ports -> Domains] : \A p \in Ports : dom[p] \in InDomains(r, p)}

Both(x0, x1) == [r \in Routers |-> IF r = 0 THEN x0 ELSE x1]

RingTick(term_rdy) ==
  \E m0 \in Offers(0), m1 \in Offers(1), dom0 \in InputChoices(0), dom1 \in InputChoices(1) :
    NetTick(Both(dom0, dom1), Both(m0, m1), term_rdy)

NetNext ==
  /\ \E term_rdy \in [Routers -> BOOLEAN] : RingTick(term_rdy)
  /\ clk' = 1 - clk

NetSpec == NetInit /\ [][NetNext]_netVars

(* The clock runs, and a terminal that is shown messages takes one         *)
(* sometime.                                                               *)
Waiting(r) == \E p \in Ports, d \in Domains : 1 \in Requests(r, p, d)

Fairness ==
  /\ \A c \in {0, 1} : []<>(clk = c)
  /\ \A r \in Routers : []<>(Waiting(r) => got[r] # NoNetMsg)

NetFairSpec == NetSpec /\ Fairness

-----------------------------------------------------------------------------
(* Properties *)

From(s) == {m \in Message : m.src = s}
To(t)   == {m \in Message : m.dest = t}

(* Of a queue the messages in chosen, in their order. *)
Only(msgs, chosen) ==
  LET upTo[k \in 0 .. Len(msgs)] ==
        IF k = 0 THEN <<>>
        ELSE upTo[k - 1] \o (IF msgs[k] \in chosen THEN <<msgs[k]>> ELSE <<>>)
  IN  upTo[Len(msgs)]

(* The messages between a terminal and a destination, oldest first. *)
Inside(s, t) ==
  LET here(p, d) == Only(q[t][<<p, d>>], From(s))
      entry      == Only(q[s][<<1, TermDomain(s)>>], To(t))
  IN  IF s = t THEN entry
      ELSE here(0, 0) \o here(0, 1) \o here(2, 0) \o here(2, 1) \o entry

Put(s, t) == IF put[s] # NoNetMsg /\ put[s].dest = t THEN put[s] ELSE NoNetMsg
Got(s, t) == IF got[t] # NoNetMsg /\ got[t].src = s THEN got[t] ELSE NoNetMsg

Pair(s, t) == INSTANCE Fifo WITH
  Msg <- Message, NoMsg <- NoNetMsg, Capacity <- 2 * QueueSize,
  contents <- Inside(s, t), took <- Put(s, t), gave <- Got(s, t)

(* For each pair of terminals the network is a queue, although a message   *)
(* may have two ways to go and two queues to wait in, and the wires that   *)
(* grant it a link and choose its queue depend on one another.             *)
PairsInOrder ==
  /\ \A s, t \in Routers : Pair(s, t)!Init
  /\ [][\A s, t \in Routers : Pair(s, t)!Next]_netVars

(* The data queues of a domain hold that domain's messages only: the latch *)
(* an output keeps from the last winner, and its reset value, never send a *)
(* message into the other domain's queue.                                  *)
DomainsApart ==
  \A r \in Routers, p \in Ports, d \in Domains :
    \A i \in 1 .. Len(q[r][<<p, d>>]) : TermDomain(q[r][<<p, d>>][i].src) = d

(* Every message a terminal hands over arrives: nobody waits for ever for  *)
(* an output others ask for, or for a ready no one can give.               *)
EveryMessageArrives ==
  \A s, t \in Routers : \A n \in 1 .. Sends[s] :
    (put[s] = [src |-> s, dest |-> t, num |-> n])
      ~> (got[t] = [src |-> s, dest |-> t, num |-> n])
=============================================================================
