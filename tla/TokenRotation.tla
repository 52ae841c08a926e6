----------------------------- MODULE TokenRotation -----------------------------
(***************************************************************************)
(* What the service promises about the single-use refresh token of one     *)
(* configuration, without requests, rows or a clock: at any time at most   *)
(* one rotation is pending, it starts from the stored pair, and it ends by *)
(* storing the new pair in place of the old one or by losing it.           *)
(***************************************************************************)
EXTENDS Naturals

CONSTANT MaxPairs   (* bound: token pairs amoCRM issues *)

VARIABLES
    stored,   (* the pair in the configuration, 0 when there is none *)
    pending,  (* the pair received and not yet stored, 0 when none   *)
    issued,   (* the last pair issued                                *)
    lost      (* pairs that were issued and never stored             *)

vars == <<stored, pending, issued, lost>>

Init ==
    /\ stored \in {0, 1}
    /\ pending = 0
    /\ issued = stored
    /\ lost = {}

(* The stored refresh token, or that of a configuration deleted meanwhile, *)
(* is exchanged for the next pair ...                                      *)
Rotate ==
    /\ stored \in {0, issued}
    /\ pending = 0
    /\ issued < MaxPairs
    /\ issued' = issued + 1
    /\ pending' = issued + 1
    /\ UNCHANGED <<stored, lost>>

(* ... or is spent although nobody receives the next pair.                 *)
Waste ==
    /\ stored \in {0, issued}
    /\ pending = 0
    /\ issued < MaxPairs
    /\ issued' = issued + 1
    /\ lost' = lost \cup {issued + 1}
    /\ UNCHANGED <<stored, pending>>

Commit ==
    /\ pending # 0 /\ stored # 0
    /\ stored' = pending
    /\ pending' = 0
    /\ UNCHANGED <<issued, lost>>

Lose ==
    /\ pending # 0
    /\ lost' = lost \cup {pending}
    /\ pending' = 0
    /\ UNCHANGED <<stored, issued>>

(* The configuration is deleted.                                           *)
Remove ==
    /\ stored' = 0
    /\ UNCHANGED <<pending, issued, lost>>

Next == Rotate \/ Waste \/ Commit \/ Lose \/ Remove

Spec == Init /\ [][Next]_vars
=============================================================================
