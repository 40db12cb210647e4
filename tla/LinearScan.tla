----------------------------- MODULE LinearScan -----------------------------
(***************************************************************************)
(* linearScan() and spillAtInterval() of the compiler's register allocator *)
(* (linscan.c): one pass over the live intervals of a procedure's temps,   *)
(* in the order of their first instruction.                                *)
(*                                                                         *)
(* ivs is g_ivs: quickSort is not stable, so Tables may hold the intervals *)
(* that start together in any order.  g_ive holds the same intervals in    *)
(* the order of their last instruction; among those that end together the  *)
(* spill candidate is any of them.  dReg and aReg of an interval are one   *)
(* field here, reg: an interval asks for registers of one class only.      *)
(***************************************************************************)
EXTENDS Integers, Sequences, FiniteSets

CONSTANTS
  NumDRs,      (* NUM_DRs: data registers d2-d6                              *)
  NumARs,      (* NUM_ARs: address registers a2-a3                           *)
  Tables       (* the interval tables computeLiveIntervals may produce       *)

(* pre: the temp is a machine register itself (AS_isPrecolored); ri is then  *)
(* its index among the allocatable registers of its class, or -1.            *)
Interval == [first : Nat, last : Nat, needsA : BOOLEAN, needsD : BOOLEAN,
             pre : BOOLEAN, ri : Nat \cup {-1}]

IsTable(t) == /\ t \in Seq(Interval)
              /\ \A j \in DOMAIN t : t[j].first <= t[j].last
              /\ \A j, k \in DOMAIN t : j <= k => t[j].first <= t[k].first

ASSUME LinearScanAssumption ==
  /\ NumDRs \in Nat \ {0} /\ NumARs \in Nat \ {0}
  /\ \A t \in Tables : IsTable(t)

VARIABLES
  ivs,         (* g_ivs                                                      *)
  i,           (* the interval linearScan looks at                           *)
  active,      (* intervals with the active flag                             *)
  reg,         (* dReg or aReg of every interval, -1 for none                *)
  busy,        (* dRegs[] and aRegs[]: the registers marked as taken         *)
  failed       (* an assertion stopped the compiler                          *)

vars == <<ivs, i, active, reg, busy, failed>>

NoReg     == -1
Classes   == {"D", "A"}
Regs(c)   == IF c = "D" THEN 0 .. NumDRs - 1 ELSE 0 .. NumARs - 1
Class(j)  == IF ivs[j].needsA THEN "A" ELSE "D"
Holders(s, c) == {j \in s : Class(j) = c}

Init ==
  /\ ivs \in Tables
  /\ i = 1 /\ active = {}
  /\ reg = [j \in DOMAIN ivs |-> NoReg]
  /\ busy = [c \in Classes |-> {}]
  /\ failed = FALSE

-----------------------------------------------------------------------------
Looking == i \in DOMAIN ivs /\ ~failed

(* A precolored temp keeps its register.  Nothing expires, and only an index *)
(* above 0 is looked up in the flags.                                        *)
SkipPrecolored ==
  /\ Looking /\ ivs[i].pre
  /\ IF ivs[i].ri > 0 /\ ivs[i].ri \in busy[Class(i)]
       THEN failed' = TRUE /\ i' = i
       ELSE failed' = FALSE /\ i' = i + 1
  /\ UNCHANGED <<ivs, active, reg, busy>>

Confused ==                               (* assert (!needsDReg)             *)
  /\ Looking /\ ~ivs[i].pre /\ ivs[i].needsA /\ ivs[i].needsD
  /\ failed' = TRUE
  /\ UNCHANGED <<ivs, i, active, reg, busy>>

(* ExpireOldIntervals, the first step of every other iteration.              *)
ExpiredStrictly == {j \in active : ivs[j].last <= ivs[i].first}
Expired  == {j \in active : ivs[j].last < ivs[i].first}
Alive    == active \ Expired
TakenNever == busy
Taken    == [c \in Classes |-> busy[c] \ {reg[j] : j \in Holders(Expired, c)}]
FreeRegs == Regs(Class(i)) \ Taken[Class(i)]

Allocating ==
  /\ Looking /\ ~ivs[i].pre /\ ~(ivs[i].needsA /\ ivs[i].needsD)
  /\ i' = i + 1
  /\ UNCHANGED <<ivs, failed>>

Assign(r) ==
  /\ Allocating
  /\ r \in FreeRegs /\ \A q \in FreeRegs : r <= q
  /\ active' = Alive \cup {i}
  /\ reg' = [reg EXCEPT ![i] = r]
  /\ busy' = [Taken EXCEPT ![Class(i)] = @ \cup {r}]

(* The spill candidate: the holder of such a register that ends last.        *)
AnyCandidate(s) == s \in Holders(Alive, Class(i))
Candidate(s) == /\ s \in Holders(Alive, Class(i))
                /\ \A j \in Holders(Alive, Class(i)) : ivs[j].last <= ivs[s].last

StealKeepsVictim(s) ==
  /\ Allocating /\ FreeRegs = {} /\ Candidate(s)
  /\ ivs[s].last > ivs[i].last
  /\ active' = Alive \cup {i}
  /\ reg' = [reg EXCEPT ![i] = reg[s], ![s] = NoReg]
  /\ busy' = Taken

Steal(s) ==
  /\ Allocating /\ FreeRegs = {} /\ Candidate(s)
  /\ ivs[s].last > ivs[i].last
  /\ active' = (Alive \ {s}) \cup {i}
  /\ reg' = [reg EXCEPT ![i] = reg[s], ![s] = NoReg]
  /\ busy' = Taken

Spill(s) ==
  /\ Allocating /\ FreeRegs = {} /\ Candidate(s)
  /\ ivs[s].last <= ivs[i].last
  /\ active' = Alive
  /\ busy' = Taken
  /\ UNCHANGED reg

Next == \/ SkipPrecolored \/ Confused
        \/ \E r \in Regs("D") \cup Regs("A") : Assign(r)
        \/ \E s \in active : Steal(s) \/ Spill(s)

Spec == Init /\ [][Next]_vars

-----------------------------------------------------------------------------
TypeOK ==
  /\ ivs \in Tables
  /\ i \in 1 .. Len(ivs) + 1
  /\ active \subseteq 1 .. i - 1
  /\ reg \in [DOMAIN ivs -> Nat \cup {NoReg}]
  /\ \A j \in DOMAIN ivs : reg[j] < (IF ivs[j].needsA THEN NumARs ELSE NumDRs)
  /\ busy \in [Classes -> SUBSET Nat]
  /\ failed \in BOOLEAN

Overlap(j, k) == ivs[j].first <= ivs[k].last /\ ivs[k].first <= ivs[j].last

(* Two temps of which one is live at an instruction of the other never have  *)
(* the same register: the assignments linearScan and spillAtInterval leave   *)
(* in dReg and aReg, including those taken away again from a spilled temp.   *)
NoSharedRegister ==
  \A j, k \in DOMAIN ivs :
    (j # k /\ Class(j) = Class(k) /\ reg[j] = reg[k] /\ Overlap(j, k)) => reg[j] = NoReg

(* The flags in dRegs and aRegs are the registers of the active intervals,   *)
(* one each (the two assertions under ENABLE_DEBUG compare the counts).      *)
FlagsMatchHolders ==
  \A c \in Classes :
    /\ busy[c] = {reg[j] : j \in Holders(active, c)}
    /\ \A j, k \in Holders(active, c) : reg[j] = reg[k] => j = k

(* The scan's own state: its types, and its flags against its intervals.   *)
Consistent == TypeOK /\ FlagsMatchHolders

(* spillAtInterval always finds a candidate: when no register of a class is  *)
(* free, an interval that is still active has one (assert (spill >= 0)).     *)
SpillCandidateExists ==
  (Looking /\ ~ivs[i].pre /\ FreeRegs = {}) => Holders(Alive, Class(i)) # {}

(* The interval that goes to memory, the new one or the one whose register   *)
(* it takes, is the longest of its class at that point, and all registers of *)
(* the class are then held by intervals that are live there.                 *)
Victims == {j \in DOMAIN ivs : j <= i /\ reg'[j] = NoReg /\ (j = i \/ reg[j] # NoReg)}
SpillsFurthest ==
  [][Allocating => \A v \in Victims :
       LET rest == Holders(active', Class(v))
       IN /\ {reg'[j] : j \in rest} = Regs(Class(v))
          /\ \A j \in rest : /\ ivs[j].last <= ivs[v].last
                             /\ ivs[j].first <= ivs[i].first /\ ivs[i].first <= ivs[j].last]_vars
=============================================================================
