--------------------------- MODULE AccountingWall ---------------------------
(***************************************************************************)
(* What the session ledger promises (docs/EXECUTION_SAFETY.md, "Post-trade *)
(* reconciliation and the session wall"), without files, commands or RPC:  *)
(* at most one recorded submission is ever unaccounted for, a new one is   *)
(* recorded only when none is, and a damaged trail accepts nothing more.   *)
(***************************************************************************)
CONSTANT Session

VARIABLES pending,   \* the recorded submissions nobody has accounted for
          damaged    \* the trail can no longer be read

vars == <<pending, damaged>>

Init == pending = {} /\ damaged = FALSE

Record(s) ==
    /\ ~damaged /\ pending = {}
    /\ pending' = {s}
    /\ UNCHANGED damaged

Account ==
    /\ ~damaged /\ pending # {}
    /\ pending' = {}
    /\ UNCHANGED damaged

(* A damaged trail says nothing of what is pending, and never will.        *)
Damage ==
    /\ ~damaged
    /\ damaged' = TRUE /\ pending' = {}

Next == (\E s \in Session : Record(s)) \/ Account \/ Damage

Spec == Init /\ [][Next]_vars
=============================================================================
