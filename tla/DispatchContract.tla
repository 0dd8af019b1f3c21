-------------------------- MODULE DispatchContract --------------------------
(***************************************************************************)
(* What the Session Log promises about the effects of tools, without       *)
(* messages, turns or buffers: a tool is entered only for a call whose     *)
(* dispatch is on record, and a call that is on record as not started is   *)
(* never one that was, or will be, dispatched.                             *)
(***************************************************************************)
CONSTANT Calls

VARIABLES
  recorded,   \* calls with a durable tool/call record
  denied,     \* calls with a durable TOOL_NOT_STARTED result
  invoked     \* calls whose tool was entered

vars == <<recorded, denied, invoked>>

Init == recorded = {} /\ denied = {} /\ invoked = {}

Publish ==
  /\ recorded' \in SUBSET Calls /\ recorded \subseteq recorded'
  /\ denied' \in SUBSET Calls /\ denied \subseteq denied'
  /\ recorded' \cap denied' = {}
  /\ UNCHANGED invoked

Invoke(c) ==
  /\ c \in recorded
  /\ invoked' = invoked \cup {c}
  /\ UNCHANGED <<recorded, denied>>

Next == Publish \/ \E c \in Calls : Invoke(c)

Spec == Init /\ [][Next]_vars
=============================================================================
