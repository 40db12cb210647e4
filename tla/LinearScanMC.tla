---------------------------- MODULE LinearScanMC ----------------------------
(***************************************************************************)
(* Small instances of LinearScan: every table of NumIntervals intervals    *)
(* over the instructions 0 .. MaxIndex.                                    *)
(***************************************************************************)
EXTENDS LinearScan

CONSTANTS NumIntervals, MaxIndex,
          PreRegs      (* machine registers that occur: indices or -1        *)

(* A temp is of one class, of both (which the compiler rejects), or it is a  *)
(* machine register.                                                         *)
Kinds == {[needsA |-> FALSE, needsD |-> FALSE, pre |-> FALSE, ri |-> -1],
          [needsA |-> TRUE, needsD |-> FALSE, pre |-> FALSE, ri |-> -1],
          [needsA |-> TRUE, needsD |-> TRUE, pre |-> FALSE, ri |-> -1]}
         \cup {[needsA |-> FALSE, needsD |-> FALSE, pre |-> TRUE, ri |-> r] : r \in PreRegs}

MCIntervals ==
  {[first |-> s, last |-> e, needsA |-> k.needsA, needsD |-> k.needsD,
    pre |-> k.pre, ri |-> k.ri]
     : s \in 0 .. MaxIndex, e \in 0 .. MaxIndex, k \in Kinds}

MCTables ==
  {t \in [1 .. NumIntervals -> {v \in MCIntervals : v.first <= v.last}] :
     \A j \in 1 .. NumIntervals - 1 : t[j].first <= t[j + 1].first}

=============================================================================
