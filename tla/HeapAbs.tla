------------------------------- MODULE HeapAbs ------------------------------
(***************************************************************************)
(* What a caller may rely on: a heap that is asked for one region at a     *)
(* time, and either grants one that is large enough, lies in the heap and  *)
(* touches no region somebody owns, or refuses.  A region is a pair of its *)
(* first unit, which holds the header, and its length.                     *)
(***************************************************************************)
EXTENDS Naturals

CONSTANTS
  Arena,       \* the units the heap may hand out
  MaxUnits,    \* no region is longer
  HeaderSize,  \* bytes in a unit
  Requests     \* sizes in bytes that callers ask for

VARIABLES
  owned,   \* the regions callers own
  asking   \* the size being asked for: a set of at most one request

absvars == <<owned, asking>>

Region(r) == r[1] .. r[1] + r[2] - 1

Init == owned = {} /\ asking = {}

Ask(n) ==
  /\ asking = {}
  /\ asking' = {n}
  /\ UNCHANGED owned

Grant(r) ==
  /\ asking # {}
  /\ \A n \in asking : HeaderSize * (r[2] - 1) >= n
  /\ Region(r) \subseteq Arena
  /\ \A o \in owned : Region(o) \cap Region(r) = {}
  /\ owned' = owned \cup {r}
  /\ asking' = {}

Refuse ==
  /\ asking # {}
  /\ asking' = {}
  /\ UNCHANGED owned

Release(r) ==
  /\ asking = {}
  /\ owned' = owned \ {r}
  /\ UNCHANGED asking

Answer == Refuse \/ \E r \in Arena \X (1 .. MaxUnits) : Grant(r)

Next ==
  \/ \E n \in Requests : Ask(n)
  \/ Answer
  \/ \E r \in owned : Release(r)

(* Everyone who asks is answered. *)
Spec == Init /\ [][Next]_absvars /\ WF_absvars(Answer)

=============================================================================
