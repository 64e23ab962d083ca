----------------------------- MODULE MemService -----------------------------
(***************************************************************************)
(* What the data memory path promises to its users: a store that executes  *)
(* the requests of its ports one at a time and whole.  Requests of domain  *)
(* 0 for addresses from Par on change nothing and are answered with a      *)
(* made-up response; every answer carries the type and the tag of its      *)
(* request, and the level of the address it came from.                     *)
(***************************************************************************)
EXTENDS MemMsgs

CONSTANTS
  Port,      \* the users
  Request,   \* what each of them may ask: [Port -> SUBSET Req]
  Par,       \* the partition
  InitData   \* what every entry holds at first

VARIABLES
  pending,  \* the request of each port that has not been executed
  answer,   \* the answer each port can see now
  store     \* the memory

serviceVars == <<pending, answer, store>>

Init ==
  /\ pending = [p \in Port |-> NoMsg]
  /\ answer = [p \in Port |-> NoMsg]
  /\ store = [a \in Addr |-> InitData]

Permitted(req) == req.domain = 1 \/ req.addr < Par

(* A write is answered with what the entry held before it. *)
Outcome(req) ==
  [type   |-> req.type,
   tag    |-> req.tag,
   data   |-> IF Permitted(req) THEN store[req.addr] ELSE Unknown,
   domain |-> IF Permitted(req)
              THEN IF req.addr < Par THEN 0 ELSE 1
              ELSE req.domain]

Effect(req) ==
  IF Permitted(req) /\ req.type = "write"
  THEN [store EXCEPT ![req.addr] = req.data]
  ELSE store

-----------------------------------------------------------------------------
(* What a port does while it is not the one executed. *)
Submit(p) ==
  /\ pending[p] = NoMsg
  /\ pending'[p] \in Request[p]
  /\ answer'[p] = NoMsg

Rest(p) ==
  /\ pending'[p] = pending[p]
  /\ answer'[p] \in {answer[p], NoMsg}

Execute(p) ==
  /\ pending[p] # NoMsg
  /\ answer[p] = NoMsg
  /\ answer'[p] = Outcome(pending[p])
  /\ pending'[p] = NoMsg
  /\ store' = Effect(pending[p])

(* In one step at most one request is executed, and the other ports move   *)
(* as they like.                                                           *)
Next ==
  /\ pending' \in [Port -> Req \cup {NoMsg}]
  /\ answer' \in [Port -> Resp \cup {NoMsg}]
  /\ \/ \E p \in Port :
          Execute(p) /\ \A q \in Port \ {p} : Submit(q) \/ Rest(q)
     \/ /\ \A p \in Port : Submit(p) \/ Rest(p)
        /\ UNCHANGED store

Spec == Init /\ [][Next]_serviceVars
=============================================================================
