------------------------------ MODULE L3Memory ------------------------------
(***************************************************************************)
(* The size-limited order memory of the reference model (class L3Memory of *)
(* src/ref_model/l3_order_table.py): a set-associative hash table whose    *)
(* full lines spill into a small fully associative memory, the CAM.        *)
(*                                                                         *)
(* __setitem__ reaches its CAM branch only past a debug statement that     *)
(* formats an int with the invalid code ":h" (line 163).  The string is    *)
(* built before log.debug is called, so the statement raises ValueError    *)
(* whatever the log level.  SpillLogRaises says whether it does: TRUE is   *)
(* the code as it stands, FALSE the table its tests and the RTL describe,  *)
(* with that statement repaired.                                           *)
(***************************************************************************)
EXTENDS BookTypes

CONSTANTS L3_ADDRS,       \* lines of the table, 1 << L3_LOG_ADDR_SIZE
          L3_LINE_SIZE,   \* ways of a line, 1 << L3_LOG_LINE_SIZE
          L3_CAM_SIZE,    \* entries of the CAM
          SpillLogRaises

ASSUME L3SizesAssumption ==
  /\ L3_ADDRS \in Nat \ {0}
  /\ L3_LINE_SIZE \in Nat \ {0}
  /\ L3_CAM_SIZE \in Nat
  /\ SpillLogRaises \in BOOLEAN

VARIABLES ram, cam

memory_vars == <<ram, cam>>

Addrs == 0 .. L3_ADDRS - 1

(* order_id & mask: the low bits of the order id. *)
oid_hash(id) == id % L3_ADDRS

line(id) == ram[oid_hash(id)]

Contains(id) == id \in DOMAIN line(id) \/ id \in DOMAIN cam

GetItem(id) == IF id \in DOMAIN line(id) THEN line(id)[id] ELSE cam[id]

(* Mutant: a full line takes one more. *)
LineHasRoomWhenFull(id) == Cardinality(DOMAIN line(id)) <= L3_LINE_SIZE

LineHasRoom(id) == Cardinality(DOMAIN line(id)) < L3_LINE_SIZE

CamHasRoom == Cardinality(DOMAIN cam) < L3_CAM_SIZE

(* How an attempt to store a new order ends. *)
StoreOutcome(id) ==
  CASE Contains(id) \/ LineHasRoom(id)      -> "stored"
    [] ~Contains(id) /\ ~LineHasRoom(id) /\ SpillLogRaises -> "raises"
    [] ~Contains(id) /\ ~LineHasRoom(id) /\ ~SpillLogRaises /\ CamHasRoom -> "stored"
    [] OTHER -> "full"

PutInLine(id, entry) ==
  /\ ram' = [ram EXCEPT ![oid_hash(id)] = Put(@, id, entry)]
  /\ UNCHANGED cam

PutInCam(id, entry) ==
  /\ cam' = Put(cam, id, entry)
  /\ UNCHANGED ram

(* Mutant: the line is tried before the CAM is searched for the key. *)
SetItemLineFirst(id, entry) ==
  /\ StoreOutcome(id) = "stored"
  /\ IF id \in DOMAIN line(id) \/ LineHasRoom(id)
     THEN PutInLine(id, entry)
     ELSE PutInCam(id, entry)

(* __setitem__: overwrite in place, else take a way of the line, else spill. *)
SetItem(id, entry) ==
  /\ StoreOutcome(id) = "stored"
  /\ IF id \in DOMAIN line(id) \/ (id \notin DOMAIN cam /\ LineHasRoom(id))
     THEN PutInLine(id, entry)
     ELSE PutInCam(id, entry)

(* Mutant: an order in the CAM is never cleared. *)
DelItemOfLine(id) ==
  /\ ram' = [ram EXCEPT ![oid_hash(id)] = Drop(@, id)]
  /\ UNCHANGED cam

(* __delitem__, of a key the memory contains. *)
DelItem(id) ==
  IF id \in DOMAIN line(id)
  THEN /\ ram' = [ram EXCEPT ![oid_hash(id)] = Drop(@, id)]
       /\ UNCHANGED cam
  ELSE /\ cam' = Drop(cam, id)
       /\ UNCHANGED ram

InitMemory ==
  /\ ram = [a \in Addrs |-> EmptyDict]
  /\ cam = EmptyDict

(* __iter__: every stored order, from every line and from the CAM. *)
Stored == {id \in OrderIds : Contains(id)}

Contents == [id \in Stored |-> GetItem(id)]

----------------------------------------------------------------------------
(* An order lies in the line its id hashes to or in the CAM, and never in  *)
(* both: otherwise a delete would uncover a second, outdated copy.         *)
OneHome ==
  /\ \A a \in Addrs : \A id \in DOMAIN ram[a] : oid_hash(id) = a
  /\ \A id \in DOMAIN cam : id \notin DOMAIN line(id)

(* No line and no CAM holds more orders than the hardware has slots for.   *)
WithinCapacity ==
  /\ \A a \in Addrs : /\ IsFiniteSet(DOMAIN ram[a])
                      /\ Cardinality(DOMAIN ram[a]) <= L3_LINE_SIZE
  /\ IsFiniteSet(DOMAIN cam)
  /\ Cardinality(DOMAIN cam) <= L3_CAM_SIZE
=============================================================================
