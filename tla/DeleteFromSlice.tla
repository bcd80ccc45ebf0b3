-------------------------- MODULE DeleteFromSlice --------------------------
(***************************************************************************)
(* deleteFromSlice (src/mesos/agent/agent.go): the loop that drops, in     *)
(* place, the metric types an agent's isolators cannot supply.  An element *)
(* is known by the position it had when the loop started; the pattern is   *)
(* the set of the positions whose string it matches.                       *)
(***************************************************************************)
EXTENDS Integers

CONSTANT MaxLen     \* bound on the length of the slice

ASSUME MaxLenAssumption == MaxLen \in Nat

VARIABLES
    size,       \* length of the slice the caller passed
    matched,    \* the positions that match the pattern
    array,      \* the array under the slice, which the caller's slice shares
    len,        \* length of the slice a of the loop
    i           \* the loop's index

vars == <<size, matched, array, len, i>>

Positions == 0 .. size - 1

TypeOK ==
    /\ size \in 0 .. MaxLen
    /\ matched \subseteq Positions
    /\ array \in [Positions -> Positions]
    /\ len \in 0 .. size
    /\ i \in 0 .. len

Init ==
    /\ size \in 0 .. MaxLen
    /\ matched \in SUBSET (0 .. size - 1)
    /\ array = [k \in 0 .. size - 1 |-> k]
    /\ len = size
    /\ i = 0

(* Slip: a bound one too small: the last element does not move.            *)
ShiftedShort == [k \in Positions |-> IF i <= k /\ k < len - 2 THEN array[k + 1]
                                     ELSE array[k]]

(* append(a[:i], a[i+1:]...) moves the rest of the slice down by one.      *)
Shifted == [k \in Positions |-> IF i <= k /\ k < len - 1 THEN array[k + 1]
                                ELSE array[k]]

(* Slip: the index goes on over the element that moved into its place.     *)
DeleteAndGoOn ==
    /\ i < len
    /\ array[i] \in matched
    /\ array' = Shifted
    /\ len' = len - 1
    /\ i' = IF i < len - 1 THEN i + 1 ELSE i
    /\ UNCHANGED <<size, matched>>

(* Slip: the index steps back whether or not the element matched.          *)
SkipNothing ==
    /\ i < len
    /\ array[i] \notin matched
    /\ UNCHANGED vars

(* Slip: the index steps back once too often, to an element it has passed.*)
DeleteBackTooFar ==
    /\ i < len
    /\ array[i] \in matched
    /\ array' = Shifted
    /\ len' = len - 1
    /\ i' = IF i > 0 THEN i - 1 ELSE 0
    /\ UNCHANGED <<size, matched>>

(* The element matches: drop it; i-- and i++ leave the index where it is.  *)
Delete ==
    /\ i < len
    /\ array[i] \in matched
    /\ array' = Shifted
    /\ len' = len - 1
    /\ UNCHANGED <<size, matched, i>>

Skip ==
    /\ i < len
    /\ array[i] \notin matched
    /\ i' = i + 1
    /\ UNCHANGED <<size, matched, array, len>>

Next == Delete \/ Skip

Spec == Init /\ [][Next]_vars /\ WF_vars(Next)

-----------------------------------------------------------------------------
Done == i = len

Result == {array[k] : k \in 0 .. len - 1}

(* The loop's invariant: what is left is in the order of the input, what   *)
(* the index has passed does not match, and nothing that must stay is gone.*)
Ordered == \A j, k \in 0 .. len - 1 : j < k => array[j] < array[k]
Passed == \A k \in 0 .. i - 1 : array[k] \notin matched
Kept == Positions \ matched \subseteq Result

LoopInv == TypeOK /\ Ordered /\ Passed /\ Kept

(* What deleteFromSlice returns: the elements that do not match, each once *)
(* and in their order; no matching one survives next to another.           *)
Filtered == Done => Ordered /\ Result = Positions \ matched

(* Each round looks at the element of the input after the one of the round *)
(* before: none is skipped by a deletion in front of it, and none that the *)
(* index has passed is looked at again.                                    *)
EachOnce == [][i' < len' => array'[i'] = array[i] + 1]_vars

(* The loop comes to its end, though it steps back at every deletion.      *)
Terminates == <>Done
=============================================================================
