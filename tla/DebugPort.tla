------------------------------ MODULE DebugPort ------------------------------
(***************************************************************************)
(* plab5_mcore_Debug_Interface and plab5_mcore_Debug_checker: a debug      *)
(* instruction of core 0 becomes two jobs for the DMA controller, a copy   *)
(* and then a read of the destination.  The checker passes a job on if the *)
(* level registered with the instruction allows it, and acknowledges it    *)
(* without doing it if not.  One step is one clock edge.                   *)
(* The reset value 0 of db_result_reg is not told from an unknown one.     *)
(***************************************************************************)
EXTENDS DMAChecker

VARIABLES
  dbi_state,      \* state_reg of the interface
  dbi_reg,        \* src_addr_reg, dest_addr_reg, domain_reg
  db_result,      \* db_result_reg
  dbc_state,      \* state_reg of the checker
  dbc_reg         \* debug_{src_addr,dest_addr,inst}_reg

debugVars == <<dbi_state, dbi_reg, db_result, dbc_state, dbc_reg>>

DebugInst == [src : Addr, dest : Addr, domain : Domain]

ASSUME DebugInstAssumption == NoMsg \notin DebugInst

DebugTypeOK ==
  /\ dbi_state \in {"IDLE", "DEBUG_REQ", "DEBUG_WAIT", "EXTRACT_RES",
                    "EXTRACT_WAIT", "RES_CHECK"}
  /\ dbi_reg \in DebugInst \cup {NoMsg}
  /\ db_result \in Data \cup {Unknown}
  /\ dbc_state \in {"IDLE", "DEB_CHECK", "DEB_REQ", "DEB_WAIT", "DEB_RESP"}
  /\ dbc_reg \in DbJob \cup {NoMsg}

DebugInit ==
  /\ dbi_state = "IDLE"
  /\ dbi_reg = NoMsg
  /\ db_result = Unknown
  /\ dbc_state = "IDLE"
  /\ dbc_reg = NoMsg

-----------------------------------------------------------------------------
(* Outputs. *)

(* start and inst, with the addresses. *)
DbiStart ==
  CASE dbi_state = "DEBUG_REQ" ->
         [src |-> dbi_reg.src, dest |-> dbi_reg.dest, read_back |-> FALSE]
    [] dbi_state = "EXTRACT_RES" ->
         [src |-> dbi_reg.dest, dest |-> Unknown, read_back |-> TRUE]
    [] OTHER -> NoMsg

DbiResultRdy == dbi_state = "RES_CHECK"

DbcAck == dbc_state = "DEB_RESP"

DbcJob == IF dbc_state = "DEB_REQ" THEN dbc_reg ELSE NoMsg

-----------------------------------------------------------------------------
(* The interface.  An instruction that comes while it is busy is dropped.  *)

DbiIdle(inst) ==
  /\ dbi_state = "IDLE"
  /\ dbi_reg' = inst
  /\ dbi_state' = IF inst = NoMsg THEN "IDLE" ELSE "DEBUG_REQ"

DbiGo(from, guard, to) ==
  /\ dbi_state = from
  /\ dbi_state' = IF guard THEN to ELSE from
  /\ UNCHANGED dbi_reg

DbiTick(inst) ==
  /\ db_result' = IF DbcAck THEN debug_data ELSE db_result
  /\ \/ DbiIdle(inst)
     \/ DbiGo("DEBUG_REQ", TRUE, "DEBUG_WAIT")
     \/ DbiGo("DEBUG_WAIT", DbcAck, "EXTRACT_RES")
     \/ DbiGo("EXTRACT_RES", TRUE, "EXTRACT_WAIT")
     \/ DbiGo("EXTRACT_WAIT", DbcAck, "RES_CHECK")
     \/ DbiGo("RES_CHECK", TRUE, "IDLE")

(* The checker.  The level compared is the one the interface shows now. *)

DbcGo(from, guard, to) ==
  /\ dbc_state = from
  /\ dbc_state' = IF guard THEN to ELSE from

(* Mutants: no check; and a refused job without an answer. *)
DbcCheckNothing ==
  /\ dbc_state = "DEB_CHECK"
  /\ dbc_state' = "DEB_REQ"

DbcCheckSilent ==
  /\ dbc_state = "DEB_CHECK"
  /\ dbc_state' = IF dbi_reg.domain >= DmaDomain THEN "DEB_REQ" ELSE "IDLE"

DbcCheck ==
  /\ dbc_state = "DEB_CHECK"
  /\ dbc_state' = IF dbi_reg.domain >= DmaDomain THEN "DEB_REQ" ELSE "DEB_RESP"

DbcTick ==
  /\ dbc_reg' = IF DbiStart = NoMsg THEN dbc_reg ELSE DbiStart
  /\ \/ DbcGo("IDLE", DbiStart # NoMsg, "DEB_CHECK")
     \/ DbcCheck
     \/ DbcGo("DEB_REQ", TRUE, "DEB_WAIT")
     \/ DbcGo("DEB_WAIT", DmacAck, "DEB_RESP")
     \/ DbcGo("DEB_RESP", TRUE, "IDLE")

DebugTick(inst) == DbiTick(inst) /\ DbcTick
=============================================================================
