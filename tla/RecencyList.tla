------------------------------ MODULE RecencyList ------------------------------
(***************************************************************************)
(* What a least-recently-used cache promises: a list of at most Capacity   *)
(* entries, the most recently used one first.  `result` is the answer of   *)
(* the last operation.                                                     *)
(***************************************************************************)
EXTENDS Naturals, Sequences, SequencesExt

CONSTANTS Keys, Values, Capacity, Absent

VARIABLES entries, result

lruVars == <<entries, result>>

Entry(k, v) == [key |-> k, value |-> v]
Held == {entries[i].key : i \in DOMAIN entries}
Place(k) == CHOOSE i \in DOMAIN entries : entries[i].key = k
Without(k) == IF k \in Held THEN RemoveAt(entries, Place(k)) ELSE entries
Found(k) == IF k \in Held THEN entries[Place(k)].value ELSE Absent

LInit == entries = <<>> /\ result = Absent

LPut(k, v) ==
  /\ entries' = <<Entry(k, v)>> \o (IF k \in Held \/ Len(entries) < Capacity
                                    THEN Without(k) ELSE Front(entries))
  /\ result' = IF k \notin Held /\ Len(entries) = Capacity THEN Last(entries).value ELSE Found(k)

LGet(k) ==
  /\ entries' = IF k \in Held THEN <<entries[Place(k)]>> \o Without(k) ELSE entries
  /\ result' = Found(k)

LPeek(k) == result' = Found(k) /\ UNCHANGED entries

LPop(k) == entries' = Without(k) /\ result' = Found(k)

LPopLru ==
  /\ entries' = IF entries = <<>> THEN entries ELSE Front(entries)
  /\ result' = IF entries = <<>> THEN Absent ELSE Last(entries).value

LClear == entries' = <<>> /\ UNCHANGED result

LNext ==
  \/ \E k \in Keys : LGet(k) \/ LPeek(k) \/ LPop(k) \/ \E v \in Values : LPut(k, v)
  \/ LPopLru \/ LClear

LSpec == LInit /\ [][LNext]_lruVars
=============================================================================
