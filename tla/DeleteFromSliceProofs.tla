----------------------- MODULE DeleteFromSliceProofs -----------------------
(***************************************************************************)
(* Proofs about DeleteFromSlice, for slices of any length and any pattern. *)
(***************************************************************************)
EXTENDS DeleteFromSlice, TLAPS

(* The invariant holds before the first round.                            *)
LEMMA InitLoop == Init => LoopInv
BY MaxLenAssumption DEF Init, LoopInv, TypeOK, Positions, Ordered, Passed, Kept, Result

(* Dropping the element under the index keeps the order of the others.     *)
LEMMA DeleteLoop == LoopInv /\ Delete => LoopInv'
<1> SUFFICES ASSUME LoopInv, Delete PROVE LoopInv'
  OBVIOUS
<1> USE MaxLenAssumption
<1>1. /\ size \in Nat /\ len \in Nat /\ i \in Nat /\ i < len /\ len <= size
      /\ len' = len - 1 /\ i' = i /\ size' = size /\ matched' = matched
      /\ array' = Shifted
  BY DEF LoopInv, TypeOK, Delete
<1>2. \A k \in 0 .. len - 1 : k \in Positions /\ array[k] \in Positions
  BY <1>1 DEF LoopInv, TypeOK, Positions
<1>3. /\ \A k \in 0 .. len' - 1 : k < i => array'[k] = array[k]
      /\ \A k \in 0 .. len' - 1 : i <= k => array'[k] = array[k + 1]
  BY <1>1, <1>2 DEF Shifted
<1>4. TypeOK'
  <2>1. array' \in [Positions -> Positions]
    BY <1>1, <1>2 DEF Shifted, LoopInv, TypeOK, Positions
  <2>2. QED
    BY <1>1, <2>1 DEF LoopInv, TypeOK, Positions
<1>5. Ordered'
  <2> SUFFICES ASSUME NEW j \in 0 .. len' - 1, NEW k \in 0 .. len' - 1, j < k
               PROVE  array'[j] < array'[k]
    BY DEF Ordered
  <2>1. CASE k < i
    BY <1>1, <1>3, <2>1 DEF LoopInv, Ordered
  <2>2. CASE j < i /\ i <= k
    BY <1>1, <1>3, <2>2 DEF LoopInv, Ordered
  <2>3. CASE i <= j
    BY <1>1, <1>3, <2>3 DEF LoopInv, Ordered
  <2>4. QED
    BY <1>1, <2>1, <2>2, <2>3
<1>6. Passed'
  BY <1>1, <1>3 DEF LoopInv, Passed
<1>7. Kept'
  <2> SUFFICES ASSUME NEW p \in Positions \ matched
               PROVE  p \in Result'
    BY <1>1 DEF Kept, Positions
  <2>1. PICK k \in 0 .. len - 1 : array[k] = p
    BY DEF LoopInv, Kept, Result
  <2>2. k # i
    BY <2>1 DEF Delete
  <2>3. CASE k < i
    BY <1>1, <1>3, <2>1, <2>3 DEF Result
  <2>4. CASE i < k
    <3>1. k - 1 \in 0 .. len' - 1 /\ i <= k - 1
      BY <1>1, <2>1, <2>4
    <3>2. array'[k - 1] = p
      BY <1>1, <1>3, <2>1, <3>1
    <3>3. QED
      BY <3>1, <3>2 DEF Result
  <2>5. QED
    BY <1>1, <2>2, <2>3, <2>4
<1>8. QED
  BY <1>4, <1>5, <1>6, <1>7 DEF LoopInv

(* Passing an element that does not match. *)
LEMMA SkipLoop == LoopInv /\ Skip => LoopInv'
<1> SUFFICES ASSUME LoopInv, Skip PROVE LoopInv'
  OBVIOUS
<1>1. /\ i \in Nat /\ len \in Nat /\ i < len /\ i' = i + 1
      /\ UNCHANGED <<size, matched, array, len>>
  BY MaxLenAssumption DEF LoopInv, TypeOK, Skip
<1>2. TypeOK'
  BY <1>1 DEF LoopInv, TypeOK, Positions
<1>3. Ordered' /\ Kept'
  BY <1>1 DEF LoopInv, Ordered, Kept, Result, Positions
<1>4. Passed'
  <2>1. \A k \in 0 .. i : k \in 0 .. i - 1 \/ k = i
    BY <1>1
  <2>2. QED
    BY <1>1, <2>1 DEF LoopInv, Passed, Skip
<1>5. QED
  BY <1>2, <1>3, <1>4 DEF LoopInv

(* The loop keeps its invariant, whatever the slice and the pattern.       *)
THEOREM LoopInvariant == Spec => []LoopInv
<1>1. LoopInv /\ [Next]_vars => LoopInv'
  <2>1. LoopInv /\ UNCHANGED vars => LoopInv'
    BY DEF LoopInv, TypeOK, Positions, Ordered, Passed, Kept, Result, vars
  <2>2. QED
    BY <2>1, DeleteLoop, SkipLoop DEF Next
<1>2. QED
  BY <1>1, InitLoop, PTL DEF Spec

(* deleteFromSlice returns the elements that do not match the pattern, all *)
(* of them, once each and in the order they had.                           *)
THEOREM FilteredHolds == Spec => []Filtered
<1>1. LoopInv => Filtered
  <2> SUFFICES ASSUME LoopInv, Done
               PROVE  Ordered /\ Result = Positions \ matched
    BY DEF Filtered
  <2>1. \A k \in 0 .. len - 1 : array[k] \in Positions /\ array[k] \notin matched
    BY MaxLenAssumption DEF LoopInv, TypeOK, Passed, Done, Positions
  <2>2. Result \subseteq Positions \ matched
    BY <2>1 DEF Result
  <2>3. QED
    BY <2>2 DEF LoopInv, Kept
<1>2. QED
  BY <1>1, LoopInvariant, PTL

-----------------------------------------------------------------------------
(* What the index has not reached is as far from its old place as elements *)
(* were dropped.                                                           *)
ShiftedDown == \A k \in i .. len - 1 : array[k] = k + (size - len)

LEMMA ShiftedDownKept == LoopInv /\ ShiftedDown /\ [Next]_vars => ShiftedDown'
<1> SUFFICES ASSUME LoopInv, ShiftedDown, [Next]_vars PROVE ShiftedDown'
  OBVIOUS
<1>1. size \in Nat /\ len \in Nat /\ i \in Nat /\ len <= size
  BY MaxLenAssumption DEF LoopInv, TypeOK
<1>2. CASE Delete
  <2>1. len' = len - 1 /\ i' = i /\ size' = size /\ array' = Shifted /\ i < len
    BY <1>2 DEF Delete
  <2>2. \A k \in i .. len - 2 : array'[k] = array[k + 1] /\ k + 1 \in i .. len - 1
    BY <1>1, <2>1 DEF Shifted, Positions
  <2>3. QED
    BY <1>1, <2>1, <2>2 DEF ShiftedDown
<1>3. CASE Skip
  BY <1>1, <1>3 DEF Skip, ShiftedDown
<1>4. CASE UNCHANGED vars
  BY <1>4 DEF vars, ShiftedDown
<1>5. QED
  BY <1>2, <1>3, <1>4 DEF Next

(* Every element of the input is looked at in one round, in the order of   *)
(* the input, whatever was dropped in front of it.                         *)
THEOREM EachOnceHolds == Spec => EachOnce
<1>1. Init => ShiftedDown
  BY MaxLenAssumption DEF Init, ShiftedDown
<1>2. LoopInv /\ ShiftedDown /\ ShiftedDown' /\ LoopInv' /\ [Next]_vars
        => [i' < len' => array'[i'] = array[i] + 1]_vars
  <2> SUFFICES ASSUME LoopInv, ShiftedDown, ShiftedDown', LoopInv', Next, i' < len'
               PROVE  array'[i'] = array[i] + 1
    OBVIOUS
  <2>1. size \in Nat /\ len \in Nat /\ i \in Nat
    BY MaxLenAssumption DEF LoopInv, TypeOK
  <2>2. /\ i < len /\ size' = size
        /\ \/ len' = len - 1 /\ i' = i
           \/ len' = len /\ i' = i + 1
    BY DEF Next, Delete, Skip
  <2>3. array[i] = i + (size - len)
    BY <2>1, <2>2 DEF ShiftedDown
  <2>4. array'[i'] = i' + (size' - len')
    <3>1. i' \in i' .. len' - 1
      BY <2>1, <2>2
    <3>2. QED
      BY <3>1 DEF ShiftedDown
  <2>5. QED
    BY <2>1, <2>2, <2>3, <2>4
<1>3. QED
  BY <1>1, <1>2, ShiftedDownKept, LoopInvariant, PTL DEF Spec, EachOnce
=============================================================================
