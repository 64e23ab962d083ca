----------------------------- MODULE MCDMAAlone -----------------------------
(* DMASystem with one user: either one core makes requests and no debug    *)
(* instruction is issued, or debug instructions are issued and the core    *)
(* makes no request.                                                       *)
EXTENDS MCDMASystem

VARIABLE user

MCInit == Init /\ user \in {"core", "debug"}

CoreOnly ==
  /\ user = "core" /\ UNCHANGED user
  /\ \E noc \in NocShows : Tick(noc, NoMsg)

DebugOnly ==
  /\ user = "debug" /\ UNCHANGED <<user, core_state>>
  /\ \E inst \in DebugInsts \cup {NoMsg} : Tick(NoMsg, inst)

MCNext == CoreOnly \/ DebugOnly

MCTakes       == MCNext /\ port_req = NoMsg /\ port_req' # NoMsg
MCExecutes    == MCNext /\ port_req # NoMsg /\ port_req' = NoMsg
MCDelivers(c) == MCNext /\ core_state[c] = "sent" /\ core_state'[c] = "taken"

(* The fairness of FairSpec. *)
MCSpec ==
  /\ MCInit /\ [][MCNext]_<<vars, user>>
  /\ WF_<<vars, user>>(MCNext) /\ WF_<<vars, user>>(MCTakes) /\ WF_<<vars, user>>(MCExecutes)
  /\ \A c \in Core : SF_<<vars, user>>(MCDelivers(c))
=============================================================================
