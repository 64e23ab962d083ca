------------------------------- MODULE MemMsgs -------------------------------
(***************************************************************************)
(* vc-mem-msgs: the memory request and response messages.  The len field   *)
(* is left out: a request stands for an access of one whole data entry.    *)
(* A channel whose val wire is low carries NoMsg.                          *)
(***************************************************************************)
EXTENDS Naturals

CONSTANTS
  Addr,      \* addresses
  Data,      \* data entries
  Tag,       \* values of the opaque field
  Unknown,   \* a data field the code leaves x
  NoMsg      \* val = 0

Domain  == {0, 1}
ReqType == {"read", "write"}

Req ==
  [type : ReqType, tag : Tag, addr : Addr, data : Data \cup {Unknown},
   domain : Domain]

Resp ==
  [type : ReqType, tag : Tag, data : Data \cup {Unknown}, domain : Domain]

(* The requests the users make: a read's data field is never looked at.    *)
Message(tags, domains) ==
  [type : {"read"}, tag : tags, addr : Addr, data : {Unknown},
   domain : domains]
  \cup
  [type : {"write"}, tag : tags, addr : Addr, data : Data, domain : domains]

ASSUME AddrAssumption    == Addr \subseteq Nat
ASSUME UnknownAssumption == Unknown \notin Data
ASSUME NoMsgAssumption   == NoMsg \notin Req \cup Resp
=============================================================================
