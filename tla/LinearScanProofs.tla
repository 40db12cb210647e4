-------------------------- MODULE LinearScanProofs --------------------------
(***************************************************************************)
(* Proofs about LinearScan, for any interval tables and any number of      *)
(* registers: its type invariant, that two temps that are live together    *)
(* never share a register, that the flags are the registers of the active  *)
(* intervals, and that spillAtInterval always finds a candidate.           *)
(***************************************************************************)
EXTENDS LinearScan, TLAPS

USE LinearScanAssumption DEF LinearScanAssumption, IsTable

(* An active interval has a register; the scan has not touched those ahead.  *)
Held   == /\ \A j \in active : reg[j] # NoReg
          /\ \A j \in DOMAIN ivs : j >= i => reg[j] = NoReg

(* An interval that has a register and is no longer active ended before all  *)
(* those still ahead of the scan begin.                                      *)
Past   == \A j, k \in DOMAIN ivs :
            (j < i /\ j \notin active /\ reg[j] # NoReg /\ k >= i) => ivs[j].last < ivs[k].first

IInv == TypeOK /\ FlagsMatchHolders /\ Held /\ Past /\ NoSharedRegister

LEMMA TableFacts ==
  ASSUME TypeOK
  PROVE  /\ Len(ivs) \in Nat /\ DOMAIN ivs = 1 .. Len(ivs)
         /\ \A j \in DOMAIN ivs : /\ ivs[j].first \in Nat /\ ivs[j].last \in Nat
                                  /\ Class(j) \in Classes
         /\ \A j, k \in DOMAIN ivs : j <= k => ivs[j].first <= ivs[k].first
<1>1. ivs \in Seq(Interval)
  BY DEF TypeOK
<1>2. Len(ivs) \in Nat /\ DOMAIN ivs = 1 .. Len(ivs)
  BY <1>1
<1>3. \A j \in DOMAIN ivs : ivs[j] \in Interval
  BY <1>1
<1>4. \A j, k \in DOMAIN ivs : j <= k => ivs[j].first <= ivs[k].first
  BY DEF TypeOK
<1> QED
  BY <1>2, <1>3, <1>4 DEF Interval, Class, Classes

(* What ExpireOldIntervals leaves: the flags of the intervals still alive.   *)
LEMMA AfterExpiry ==
  ASSUME IInv, i \in DOMAIN ivs
  PROVE  /\ Alive \subseteq active /\ active \subseteq DOMAIN ivs /\ i \notin active
         /\ i \in Nat /\ Class(i) \in Classes
         /\ \A c \in Classes : Taken[c] = {reg[j] : j \in Holders(Alive, c)}
         /\ DOMAIN Taken = Classes
         /\ \A j \in active \ Alive : ivs[j].last < ivs[i].first
         /\ \A j \in Alive : j < i /\ j \in DOMAIN ivs /\ reg[j] \in Nat
<1> USE DEF IInv
<1>1. /\ DOMAIN ivs = 1 .. Len(ivs) /\ Len(ivs) \in Nat
      /\ \A j \in DOMAIN ivs : Class(j) \in Classes
  BY TableFacts
<1>2. /\ active \subseteq 1 .. i - 1 /\ i \in 1 .. Len(ivs) + 1
      /\ reg \in [DOMAIN ivs -> Nat \cup {NoReg}]
  BY DEF TypeOK
<1>3. Alive \subseteq active /\ active \subseteq DOMAIN ivs /\ i \notin active
  BY <1>1, <1>2 DEF Alive
<1>4. \A j \in active \ Alive : ivs[j].last < ivs[i].first
  BY DEF Alive, Expired
<1>5. \A j \in Alive : j < i /\ j \in DOMAIN ivs /\ reg[j] \in Nat
  BY <1>1, <1>2, <1>3 DEF Held
<1>6. ASSUME NEW c \in Classes
      PROVE  Taken[c] = {reg[j] : j \in Holders(Alive, c)}
  <2>1. Taken[c] = {reg[j] : j \in Holders(active, c)} \ {reg[j] : j \in Holders(Expired, c)}
    BY <1>6 DEF Taken, FlagsMatchHolders
  <2>2. \A j, k \in Holders(active, c) : reg[j] = reg[k] => j = k
    BY <1>6 DEF FlagsMatchHolders
  <2> QED
    BY <2>1, <2>2 DEF Holders, Alive, Expired
<1>7. \A c \in Classes : Taken[c] = {reg[j] : j \in Holders(Alive, c)}
  BY <1>6
<1>8. DOMAIN Taken = Classes
  BY DEF Taken
<1>9. i \in Nat /\ Class(i) \in Classes
  BY <1>1, <1>2
<1> HIDE DEF IInv
<1> QED
  BY <1>3, <1>4, <1>5, <1>7, <1>8, <1>9

LEMMA InitStep == Init => IInv
<1> SUFFICES ASSUME Init PROVE IInv
  OBVIOUS
<1>1. ivs \in Seq(Interval) /\ Len(ivs) \in Nat /\ DOMAIN ivs = 1 .. Len(ivs)
  BY DEF Init
<1>2. TypeOK
  <2>1. \A j \in DOMAIN ivs : reg[j] = -1
    BY DEF Init, NoReg
  <2>2. reg \in [DOMAIN ivs -> Nat \cup {NoReg}]
    BY DEF Init
  <2>3. \A j \in DOMAIN ivs : reg[j] < (IF ivs[j].needsA THEN NumARs ELSE NumDRs)
    BY <2>1
  <2>4. busy \in [Classes -> SUBSET Nat]
    BY DEF Init
  <2>5. i \in 1 .. Len(ivs) + 1 /\ active \subseteq 1 .. i - 1
    BY <1>1 DEF Init
  <2>6. ivs \in Tables /\ failed \in BOOLEAN
    BY DEF Init
  <2> QED
    BY <2>2, <2>3, <2>4, <2>5, <2>6 DEF TypeOK
<1>3. FlagsMatchHolders
  BY DEF Init, FlagsMatchHolders, Holders, Classes
<1>4. Held /\ Past /\ NoSharedRegister
  BY <1>1 DEF Init, Held, Past, NoSharedRegister, NoReg
<1> QED
  BY <1>2, <1>3, <1>4 DEF IInv

-----------------------------------------------------------------------------
(* A step of the scan that changes no interval.                              *)
LEMMA PassStep ==
  ASSUME IInv, SkipPrecolored \/ Confused
  PROVE  IInv'
<1>1. /\ UNCHANGED <<ivs, active, reg, busy>> /\ i \in DOMAIN ivs
      /\ (i' = i \/ i' = i + 1) /\ failed' \in BOOLEAN
  BY DEF SkipPrecolored, Confused, Looking
<1>2. /\ DOMAIN ivs = 1 .. Len(ivs) /\ Len(ivs) \in Nat
      /\ \A j, k \in DOMAIN ivs : j <= k => ivs[j].first <= ivs[k].first
  BY TableFacts DEF IInv
<1>3. TypeOK'
  <2>1. i' \in 1 .. Len(ivs) + 1 /\ active \subseteq 1 .. i' - 1
    BY <1>1, <1>2 DEF IInv, TypeOK
  <2> QED
    BY <1>1, <2>1 DEF IInv, TypeOK
<1>4. FlagsMatchHolders'
  BY <1>1 DEF IInv, FlagsMatchHolders, Holders, Class
<1>5. Held' /\ Past'
  <2>1. i \in 1 .. Len(ivs) + 1 /\ reg[i] = NoReg
    BY <1>1, <1>2 DEF IInv, TypeOK, Held
  <2>2. Held'
    BY <1>1, <1>2, <2>1 DEF IInv, Held
  <2>3. Past'
    BY <1>1, <1>2, <2>1 DEF IInv, Past
  <2> QED
    BY <2>2, <2>3
<1>6. NoSharedRegister'
  BY <1>1 DEF IInv, NoSharedRegister, Overlap, Class
<1> QED
  BY <1>3, <1>4, <1>5, <1>6 DEF IInv

LEMMA AssignStep ==
  ASSUME IInv, NEW r \in Regs("D") \cup Regs("A"), Assign(r)
  PROVE  IInv'
<1>1. /\ i \in DOMAIN ivs /\ ~ivs[i].pre /\ ivs' = ivs /\ i' = i + 1 /\ failed' = failed
      /\ r \in Regs(Class(i)) /\ r \notin Taken[Class(i)]
      /\ active' = Alive \cup {i} /\ reg' = [reg EXCEPT ![i] = r]
      /\ busy' = [Taken EXCEPT ![Class(i)] = @ \cup {r}]
  BY DEF Assign, Allocating, Looking, FreeRegs
<1>2. /\ Alive \subseteq active /\ active \subseteq DOMAIN ivs /\ i \notin active
      /\ i \in Nat /\ Class(i) \in Classes
      /\ \A c \in Classes : Taken[c] = {reg[j] : j \in Holders(Alive, c)}
      /\ DOMAIN Taken = Classes
      /\ \A j \in active \ Alive : ivs[j].last < ivs[i].first
      /\ \A j \in Alive : j < i /\ j \in DOMAIN ivs /\ reg[j] \in Nat
  BY <1>1, AfterExpiry
<1>3. /\ DOMAIN ivs = 1 .. Len(ivs) /\ Len(ivs) \in Nat
      /\ \A j \in DOMAIN ivs : ivs[j].first \in Nat /\ ivs[j].last \in Nat /\ Class(j) \in Classes
      /\ \A j, k \in DOMAIN ivs : j <= k => ivs[j].first <= ivs[k].first
  BY TableFacts DEF IInv
<1>4. /\ DOMAIN reg = DOMAIN ivs /\ reg \in [DOMAIN ivs -> Nat \cup {NoReg}]
      /\ reg'[i] = r /\ \A j \in DOMAIN ivs : j # i => reg'[j] = reg[j]
  BY <1>1 DEF IInv, TypeOK
<1>5. \A j : Class(j)' = Class(j)
  BY <1>1 DEF Class
<1>6. r \in Nat /\ r < (IF ivs[i].needsA THEN NumARs ELSE NumDRs)
  BY <1>1 DEF Regs, Class
<1>7. \A j \in Alive : Class(j) = Class(i) => reg[j] # r
  BY <1>1, <1>2 DEF Holders
<1>8. TypeOK'
  <2>1. i' \in 1 .. Len(ivs) + 1 /\ active' \subseteq 1 .. i' - 1
    BY <1>1, <1>2, <1>3
  <2>2. reg' \in [DOMAIN ivs -> Nat \cup {NoReg}]
    BY <1>1, <1>4, <1>6
  <2>3. \A j \in DOMAIN ivs : reg'[j] < (IF ivs[j].needsA THEN NumARs ELSE NumDRs)
    BY <1>4, <1>6 DEF IInv, TypeOK
  <2>4. busy' \in [Classes -> SUBSET Nat]
    <3>1. \A c \in Classes : Taken[c] \in SUBSET Nat
      BY <1>2 DEF Holders
    <3> QED
      BY <1>1, <1>2, <1>6, <3>1
  <2> QED
    BY <1>1, <2>1, <2>2, <2>3, <2>4 DEF IInv, TypeOK
<1>9. FlagsMatchHolders'
  <2> SUFFICES ASSUME NEW c \in Classes
               PROVE  /\ busy'[c] = {reg'[j] : j \in Holders(active, c)'}
                      /\ \A j, k \in Holders(active, c)' : reg'[j] = reg'[k] => j = k
    BY DEF FlagsMatchHolders
  <2>1. Holders(active, c)' = {j \in Alive \cup {i} : Class(j) = c}
    BY <1>1, <1>5 DEF Holders
  <2>2. \A j \in Alive : reg'[j] = reg[j]
    BY <1>2, <1>4
  <2>3. \A j, k \in Alive : (Class(j) = c /\ Class(k) = c /\ reg[j] = reg[k]) => j = k
    BY <1>2 DEF IInv, FlagsMatchHolders, Holders
  <2>4. \A j, k \in Holders(active, c)' : reg'[j] = reg'[k] => j = k
    BY <1>4, <1>7, <2>1, <2>2, <2>3
  <2>5. busy'[c] = {reg'[j] : j \in Holders(active, c)'}
    <3>1. busy'[c] = {reg[j] : j \in Holders(Alive, c)} \cup (IF c = Class(i) THEN {r} ELSE {})
      BY <1>1, <1>2
    <3> QED
      BY <1>4, <2>1, <2>2, <3>1 DEF Holders
  <2> QED
    BY <2>4, <2>5
<1>10. Held'
  <2>1. \A j \in active' : reg'[j] # NoReg
    BY <1>1, <1>2, <1>4, <1>6 DEF NoReg
  <2>2. \A j \in DOMAIN ivs : j >= i + 1 => reg'[j] = NoReg
    BY <1>2, <1>3, <1>4 DEF IInv, Held
  <2> QED
    BY <1>1, <2>1, <2>2 DEF Held
<1>11. Past'
  <2> SUFFICES ASSUME NEW j \in DOMAIN ivs, NEW k \in DOMAIN ivs,
                      j < i + 1, j \notin Alive \cup {i}, reg'[j] # NoReg, k >= i + 1
               PROVE  ivs[j].last < ivs[k].first
    BY <1>1 DEF Past
  <2>1. j < i /\ reg[j] # NoReg /\ k >= i
    BY <1>2, <1>3, <1>4
  <2>2. CASE j \in active
    BY <1>1, <1>2, <1>3, <2>1, <2>2
  <2>3. CASE j \notin active
    BY <2>1, <2>3 DEF IInv, Past
  <2> QED
    BY <2>2, <2>3
<1>12. NoSharedRegister'
  <2>1. \A j \in DOMAIN ivs :
          (j # i /\ Class(j) = Class(i) /\ reg[j] = r) => ivs[j].last < ivs[i].first
    <3> SUFFICES ASSUME NEW j \in DOMAIN ivs, j # i, Class(j) = Class(i), reg[j] = r
                 PROVE  ivs[j].last < ivs[i].first
      OBVIOUS
    <3>1. reg[j] # NoReg /\ j \notin Alive
      BY <1>6, <1>7 DEF NoReg
    <3>2. j < i
      BY <1>2, <1>3, <3>1 DEF IInv, Held
    <3>3. CASE j \in active
      BY <1>2, <3>1, <3>3
    <3>4. CASE j \notin active
      BY <1>1, <1>2, <3>1, <3>2, <3>4 DEF IInv, Past
    <3> QED
      BY <3>3, <3>4
  <2> SUFFICES ASSUME NEW j \in DOMAIN ivs, NEW k \in DOMAIN ivs, j # k, Class(j) = Class(k),
                      reg'[j] = reg'[k], Overlap(j, k)
               PROVE  reg'[j] = NoReg
    BY <1>1, <1>5 DEF NoSharedRegister, Overlap
  <2>2. CASE j = i
    BY <1>1, <1>3, <1>4, <2>1, <2>2 DEF Overlap
  <2>3. CASE k = i
    BY <1>1, <1>3, <1>4, <2>1, <2>3 DEF Overlap
  <2>4. CASE j # i /\ k # i
    BY <1>4, <2>4 DEF IInv, NoSharedRegister
  <2> QED
    BY <2>2, <2>3, <2>4
<1> QED
  BY <1>8, <1>9, <1>10, <1>11, <1>12 DEF IInv

LEMMA StealStep ==
  ASSUME IInv, NEW s \in active, Steal(s)
  PROVE  IInv'
<1>1. /\ i \in DOMAIN ivs /\ ivs' = ivs /\ i' = i + 1 /\ failed' = failed
      /\ s \in Alive /\ Class(s) = Class(i) /\ ivs[i].last < ivs[s].last
      /\ active' = (Alive \ {s}) \cup {i}
      /\ reg' = [reg EXCEPT ![i] = reg[s], ![s] = NoReg]
      /\ busy' = Taken
  <2>1. Allocating /\ Candidate(s) /\ ivs[s].last > ivs[i].last
    BY DEF Steal
  <2>2. ivs[s].last \in Nat /\ ivs[i].last \in Nat /\ active \subseteq DOMAIN ivs
    BY <2>1, TableFacts, AfterExpiry DEF IInv, Allocating, Looking
  <2> QED
    BY <2>1, <2>2 DEF Steal, Allocating, Looking, Candidate, Holders
<1>2. /\ Alive \subseteq active /\ active \subseteq DOMAIN ivs /\ i \notin active
      /\ i \in Nat /\ Class(i) \in Classes
      /\ \A c \in Classes : Taken[c] = {reg[j] : j \in Holders(Alive, c)}
      /\ DOMAIN Taken = Classes
      /\ \A j \in active \ Alive : ivs[j].last < ivs[i].first
      /\ \A j \in Alive : j < i /\ j \in DOMAIN ivs /\ reg[j] \in Nat
  BY <1>1, AfterExpiry
<1>3. /\ DOMAIN ivs = 1 .. Len(ivs) /\ Len(ivs) \in Nat
      /\ \A j \in DOMAIN ivs : ivs[j].first \in Nat /\ ivs[j].last \in Nat /\ Class(j) \in Classes
      /\ \A j, k \in DOMAIN ivs : j <= k => ivs[j].first <= ivs[k].first
  BY TableFacts DEF IInv
<1>4. /\ DOMAIN reg = DOMAIN ivs /\ reg \in [DOMAIN ivs -> Nat \cup {NoReg}] /\ s # i
      /\ reg'[i] = reg[s] /\ reg'[s] = NoReg
      /\ \A j \in DOMAIN ivs : (j # i /\ j # s) => reg'[j] = reg[j]
  BY <1>1, <1>2 DEF IInv, TypeOK
<1>5. \A j : Class(j)' = Class(j)
  BY <1>1 DEF Class
<1>6. reg[s] \in Nat /\ reg[s] # NoReg
  BY <1>1, <1>2 DEF NoReg
<1>7. \A j \in Alive : (Class(j) = Class(i) /\ reg[j] = reg[s]) => j = s
  BY <1>1, <1>2 DEF IInv, FlagsMatchHolders, Holders
<1>8. TypeOK'
  <2>1. i' \in 1 .. Len(ivs) + 1 /\ active' \subseteq 1 .. i' - 1
    BY <1>1, <1>2, <1>3
  <2>2. reg' \in [DOMAIN ivs -> Nat \cup {NoReg}]
    BY <1>1, <1>2, <1>4, <1>6
  <2>3. \A j \in DOMAIN ivs : reg'[j] < (IF ivs[j].needsA THEN NumARs ELSE NumDRs)
    <3>1. \A j : (IF ivs[j].needsA THEN NumARs ELSE NumDRs)
                   = (IF Class(j) = "A" THEN NumARs ELSE NumDRs)
      BY DEF Class
    <3>2. \A j \in DOMAIN ivs : reg[j] < (IF Class(j) = "A" THEN NumARs ELSE NumDRs)
      BY <3>1 DEF IInv, TypeOK
    <3>3. \A j \in DOMAIN ivs : reg'[j] < (IF Class(j) = "A" THEN NumARs ELSE NumDRs)
      <4> SUFFICES ASSUME NEW j \in DOMAIN ivs
                   PROVE  reg'[j] < (IF Class(j) = "A" THEN NumARs ELSE NumDRs)
        OBVIOUS
      <4>1. CASE j = i
        BY <1>1, <1>2, <1>4, <3>2, <4>1
      <4>2. CASE j = s
        BY <1>4, <4>2 DEF NoReg
      <4>3. CASE j # i /\ j # s
        BY <1>4, <3>2, <4>3
      <4> QED
        BY <4>1, <4>2, <4>3
    <3> QED
      BY <3>1, <3>3
  <2>4. busy' \in [Classes -> SUBSET Nat]
    <3>1. \A c \in Classes : Taken[c] \in SUBSET Nat
      BY <1>2 DEF Holders
    <3> QED
      BY <1>1, <1>2, <3>1 DEF Taken
  <2> QED
    BY <1>1, <2>1, <2>2, <2>3, <2>4 DEF IInv, TypeOK
<1>9. FlagsMatchHolders'
  <2> SUFFICES ASSUME NEW c \in Classes
               PROVE  /\ busy'[c] = {reg'[j] : j \in Holders(active, c)'}
                      /\ \A j, k \in Holders(active, c)' : reg'[j] = reg'[k] => j = k
    BY DEF FlagsMatchHolders
  <2>1. Holders(active, c)' = {j \in (Alive \ {s}) \cup {i} : Class(j) = c}
    BY <1>1, <1>5 DEF Holders
  <2>2. \A j \in Alive \ {s} : reg'[j] = reg[j]
    BY <1>2, <1>4
  <2>3. \A j, k \in Alive : (Class(j) = c /\ Class(k) = c /\ reg[j] = reg[k]) => j = k
    BY <1>2 DEF IInv, FlagsMatchHolders, Holders
  <2>4. \A j, k \in Holders(active, c)' : reg'[j] = reg'[k] => j = k
    BY ZenonT(30), <1>1, <1>4, <1>7, <2>1, <2>2, <2>3
  <2>5. busy'[c] = {reg'[j] : j \in Holders(active, c)'}
    <3>1. busy'[c] = {reg[j] : j \in Holders(Alive, c)}
      BY <1>1, <1>2
    <3>2. \A j \in Holders(Alive, c) : \E k \in Holders(active, c)' : reg[j] = reg'[k]
      BY <1>1, <1>4, <2>1, <2>2 DEF Holders
    <3>3. \A k \in Holders(active, c)' : \E j \in Holders(Alive, c) : reg'[k] = reg[j]
      BY <1>1, <1>4, <2>1, <2>2 DEF Holders
    <3> QED
      BY <3>1, <3>2, <3>3
  <2> QED
    BY <2>4, <2>5
<1>10. Held'
  <2>1. \A j \in active' : reg'[j] # NoReg
    BY <1>1, <1>2, <1>4, <1>6 DEF IInv, Held
  <2>2. \A j \in DOMAIN ivs : j >= i + 1 => reg'[j] = NoReg
    BY <1>1, <1>2, <1>3, <1>4 DEF IInv, Held
  <2> QED
    BY <1>1, <2>1, <2>2 DEF Held
<1>11. Past'
  <2> SUFFICES ASSUME NEW j \in DOMAIN ivs, NEW k \in DOMAIN ivs, j < i + 1,
                      j \notin (Alive \ {s}) \cup {i}, reg'[j] # NoReg, k >= i + 1
               PROVE  ivs[j].last < ivs[k].first
    BY <1>1 DEF Past
  <2>1. j # s /\ j # i
    BY <1>4
  <2>2. j < i /\ j \notin Alive /\ reg[j] # NoReg /\ k >= i
    <3>1. j \in Nat /\ k \in Nat
      BY <1>3
    <3>2. j < i /\ k >= i
      BY <1>2, <2>1, <3>1
    <3>3. reg'[j] = reg[j]
      BY <1>4, <2>1
    <3> QED
      BY <2>1, <3>2, <3>3
  <2>3. CASE j \in active
    <3>1. ivs[j].last < ivs[i].first
      BY <1>2, <2>2, <2>3
    <3>2. ivs[i].first <= ivs[k].first
      BY <1>1, <1>3, <2>2
    <3>3. ivs[j].last \in Nat /\ ivs[i].first \in Nat /\ ivs[k].first \in Nat
      BY <1>1, <1>3
    <3> QED
      BY <3>1, <3>2, <3>3
  <2>4. CASE j \notin active
    BY <2>2, <2>4 DEF IInv, Past
  <2> QED
    BY <2>3, <2>4
<1>12. NoSharedRegister'
  <2>1. \A j \in DOMAIN ivs :
          (j # i /\ j # s /\ Class(j) = Class(i) /\ reg[j] = reg[s]) => ivs[j].last < ivs[i].first
    <3> SUFFICES ASSUME NEW j \in DOMAIN ivs, j # i, j # s, Class(j) = Class(i), reg[j] = reg[s]
                 PROVE  ivs[j].last < ivs[i].first
      OBVIOUS
    <3>1. reg[j] # NoReg /\ j \notin Alive
      BY <1>6, <1>7
    <3>2. j < i
      BY <1>2, <1>3, <3>1 DEF IInv, Held
    <3>3. CASE j \in active
      BY <1>2, <3>1, <3>3
    <3>4. CASE j \notin active
      BY <1>1, <1>2, <3>1, <3>2, <3>4 DEF IInv, Past
    <3> QED
      BY <3>3, <3>4
  <2> SUFFICES ASSUME NEW j \in DOMAIN ivs, NEW k \in DOMAIN ivs, j # k, Class(j) = Class(k),
                      reg'[j] = reg'[k], Overlap(j, k)
               PROVE  reg'[j] = NoReg
    BY <1>1, <1>5 DEF NoSharedRegister, Overlap
  <2>2. CASE j = s \/ k = s
    BY <1>4, <2>2
  <2>3. CASE j = i /\ k # s
    BY <1>1, <1>3, <1>4, <2>1, <2>3 DEF Overlap
  <2>4. CASE k = i /\ j # s
    BY <1>1, <1>3, <1>4, <2>1, <2>4 DEF Overlap
  <2>5. CASE j # i /\ k # i /\ j # s /\ k # s
    BY <1>4, <2>5 DEF IInv, NoSharedRegister
  <2> QED
    BY <2>2, <2>3, <2>4, <2>5
<1> QED
  BY <1>8, <1>9, <1>10, <1>11, <1>12 DEF IInv

LEMMA SpillStep ==
  ASSUME IInv, NEW s \in active, Spill(s)
  PROVE  IInv'
<1>1. /\ i \in DOMAIN ivs /\ ivs' = ivs /\ i' = i + 1 /\ failed' = failed
      /\ active' = Alive /\ reg' = reg /\ busy' = Taken
  BY DEF Spill, Allocating, Looking
<1>2. /\ Alive \subseteq active /\ active \subseteq DOMAIN ivs /\ i \notin active
      /\ i \in Nat /\ Class(i) \in Classes
      /\ \A c \in Classes : Taken[c] = {reg[j] : j \in Holders(Alive, c)}
      /\ DOMAIN Taken = Classes
      /\ \A j \in active \ Alive : ivs[j].last < ivs[i].first
      /\ \A j \in Alive : j < i /\ j \in DOMAIN ivs /\ reg[j] \in Nat
  BY <1>1, AfterExpiry
<1>3. /\ DOMAIN ivs = 1 .. Len(ivs) /\ Len(ivs) \in Nat
      /\ \A j \in DOMAIN ivs : ivs[j].first \in Nat /\ ivs[j].last \in Nat /\ Class(j) \in Classes
      /\ \A j, k \in DOMAIN ivs : j <= k => ivs[j].first <= ivs[k].first
  BY TableFacts DEF IInv
<1>4. \A j : Class(j)' = Class(j)
  BY <1>1 DEF Class
<1>5. TypeOK'
  <2>1. i' \in 1 .. Len(ivs) + 1 /\ active' \subseteq 1 .. i' - 1
    BY <1>1, <1>2, <1>3
  <2>2. busy' \in [Classes -> SUBSET Nat]
    <3>1. \A c \in Classes : Taken[c] \in SUBSET Nat
      BY <1>2 DEF Holders
    <3> QED
      BY <1>1, <1>2, <3>1 DEF Taken
  <2> QED
    BY <1>1, <2>1, <2>2 DEF IInv, TypeOK
<1>6. FlagsMatchHolders'
  <2>1. \A c \in Classes : Holders(active, c)' = Holders(Alive, c)
    BY <1>1, <1>4 DEF Holders
  <2>2. \A c \in Classes : \A j, k \in Holders(Alive, c) : reg[j] = reg[k] => j = k
    BY <1>2 DEF IInv, FlagsMatchHolders, Holders
  <2> QED
    BY <1>1, <1>2, <2>1, <2>2 DEF FlagsMatchHolders
<1>7. Held'
  BY <1>1, <1>2, <1>3 DEF IInv, Held
<1>8. Past'
  <2> SUFFICES ASSUME NEW j \in DOMAIN ivs, NEW k \in DOMAIN ivs,
                      j < i + 1, j \notin Alive, reg[j] # NoReg, k >= i + 1
               PROVE  ivs[j].last < ivs[k].first
    BY <1>1 DEF Past
  <2>1. j < i /\ k >= i
    BY <1>1, <1>2, <1>3 DEF IInv, Held
  <2>2. CASE j \in active
    BY SMTT(30), <1>1, <1>2, <1>3, <2>1, <2>2
  <2>3. CASE j \notin active
    BY <2>1, <2>3 DEF IInv, Past
  <2> QED
    BY <2>2, <2>3
<1>9. NoSharedRegister'
  BY <1>1, <1>4 DEF IInv, NoSharedRegister, Overlap
<1> QED
  BY <1>5, <1>6, <1>7, <1>8, <1>9 DEF IInv

-----------------------------------------------------------------------------
(* The conjunction of the invariants is inductive: g_ivs is sorted, which is *)
(* all the argument needs of computeLiveIntervals.                           *)
THEOREM Inductive == Spec => []IInv
<1>1. Init => IInv
  BY InitStep
<1>2. IInv /\ [Next]_vars => IInv'
  <2> SUFFICES ASSUME IInv, [Next]_vars PROVE IInv'
    OBVIOUS
  <2>1. CASE SkipPrecolored \/ Confused
    BY <2>1, PassStep
  <2>2. ASSUME NEW r \in Regs("D") \cup Regs("A"), Assign(r) PROVE IInv'
    BY <2>2, AssignStep
  <2>3. ASSUME NEW s \in active, Steal(s) PROVE IInv'
    BY <2>3, StealStep
  <2>4. ASSUME NEW s \in active, Spill(s) PROVE IInv'
    BY <2>4, SpillStep
  <2>5. CASE UNCHANGED vars
    <3>1. /\ UNCHANGED <<ivs, i, active, reg, busy, failed>>
          /\ \A j : Class(j)' = Class(j)
      BY <2>5 DEF vars, Class
    <3>2. TypeOK' /\ Held' /\ Past'
      BY <3>1 DEF IInv, TypeOK, Held, Past
    <3>3. FlagsMatchHolders' /\ NoSharedRegister'
      BY <3>1 DEF IInv, FlagsMatchHolders, NoSharedRegister, Holders, Overlap
    <3> QED
      BY <3>2, <3>3 DEF IInv
  <2> QED
    BY <2>1, <2>2, <2>3, <2>4, <2>5 DEF Next
<1> QED
  BY <1>1, <1>2, PTL DEF Spec

(* The scan's variables keep their types: i and active stay in the table,    *)
(* registers below NUM_DRs and NUM_ARs.                                      *)
THEOREM TypesHold == Spec => []TypeOK
<1>1. IInv => TypeOK
  BY DEF IInv
<1> QED
  BY <1>1, Inductive, PTL

(* Two temps that are live together never have the same register.            *)
THEOREM NoSharedRegisterHolds == Spec => []NoSharedRegister
<1>1. IInv => NoSharedRegister
  BY DEF IInv
<1> QED
  BY <1>1, Inductive, PTL

(* dRegs and aRegs mark exactly the registers of the active intervals.       *)
THEOREM FlagsMatchHoldersHolds == Spec => []FlagsMatchHolders
<1>1. IInv => FlagsMatchHolders
  BY DEF IInv
<1> QED
  BY <1>1, Inductive, PTL

(* The scan's state is consistent for every table and number of registers.   *)
THEOREM ConsistentHolds == Spec => []Consistent
  BY TypesHold, FlagsMatchHoldersHolds, PTL DEF Consistent

(* assert (spill >= 0) in spillAtInterval cannot fail.                       *)
THEOREM SpillCandidateExistsHolds == Spec => []SpillCandidateExists
<1>1. IInv => SpillCandidateExists
  <2> SUFFICES ASSUME IInv, Looking, FreeRegs = {}
               PROVE  Holders(Alive, Class(i)) # {}
    BY DEF SpillCandidateExists
  <2>1. 0 \in Regs(Class(i))
    BY DEF Regs
  <2>2. 0 \in Taken[Class(i)]
    BY <2>1 DEF FreeRegs
  <2>3. Taken[Class(i)] = {reg[j] : j \in Holders(Alive, Class(i))}
    BY AfterExpiry DEF Looking
  <2> QED
    BY <2>2, <2>3
<1> QED
  BY <1>1, Inductive, PTL

-----------------------------------------------------------------------------
(* What goes to memory.                                                      *)

LongestSpilled ==
  Allocating => \A v \in Victims :
    LET rest == Holders(active', Class(v))
    IN /\ {reg'[j] : j \in rest} = Regs(Class(v))
       /\ \A j \in rest : /\ ivs[j].last <= ivs[v].last
                          /\ ivs[j].first <= ivs[i].first /\ ivs[i].first <= ivs[j].last

(* When no register of the class is free, its registers are those of the     *)
(* intervals that are alive at i, no more and no fewer.                      *)
LEMMA AllTaken ==
  ASSUME IInv, i \in DOMAIN ivs, FreeRegs = {}
  PROVE  /\ {reg[j] : j \in Holders(Alive, Class(i))} = Regs(Class(i))
         /\ \A j \in Alive : ivs[j].first <= ivs[i].first /\ ivs[i].first <= ivs[j].last
<1> DEFINE c == Class(i)
<1>1. /\ c \in Classes /\ i \in Nat /\ active \subseteq DOMAIN ivs
      /\ Taken[c] = {reg[j] : j \in Holders(Alive, c)}
      /\ \A j \in Alive : j \in active /\ j < i /\ j \in DOMAIN ivs /\ reg[j] \in Nat
  BY AfterExpiry
<1>2. /\ \A j \in DOMAIN ivs : ivs[j].first \in Nat /\ ivs[j].last \in Nat
      /\ \A j, k \in DOMAIN ivs : j <= k => ivs[j].first <= ivs[k].first
      /\ DOMAIN ivs \subseteq Nat
  BY TableFacts DEF IInv
<1>3. Regs(c) \subseteq Taken[c]
  BY DEF FreeRegs
<1>4. Taken[c] \subseteq Regs(c)
  <2> SUFFICES ASSUME NEW j \in Holders(Alive, c) PROVE reg[j] \in Regs(c)
    BY <1>1
  <2>1. j \in Alive /\ Class(j) = c
    BY DEF Holders
  <2>2. reg[j] \in Nat /\ j \in DOMAIN ivs
    BY <1>1, <2>1
  <2>3. reg[j] < (IF ivs[j].needsA THEN NumARs ELSE NumDRs)
    BY <2>2 DEF IInv, TypeOK
  <2>4. CASE ivs[j].needsA
    BY <2>1, <2>2, <2>3, <2>4 DEF Class, Regs
  <2>5. CASE ~ivs[j].needsA
    BY <2>1, <2>2, <2>3, <2>5 DEF Class, Regs
  <2> QED
    BY <2>4, <2>5
<1>5. ASSUME NEW j \in Alive
      PROVE  ivs[j].first <= ivs[i].first /\ ivs[i].first <= ivs[j].last
  <2>1. j \in DOMAIN ivs /\ j < i /\ j \in Nat
    BY <1>1, <1>2
  <2>2. ~(ivs[j].last < ivs[i].first)
    BY DEF Alive, Expired
  <2> QED
    BY <1>1, <1>2, <2>1, <2>2
<1> QED
  BY <1>1, <1>3, <1>4, <1>5

LEMMA AssignSpillsNone ==
  ASSUME IInv, NEW r \in Regs("D") \cup Regs("A"), Assign(r)
  PROVE  LongestSpilled
<1>1. i \in DOMAIN ivs /\ reg' = [reg EXCEPT ![i] = r] /\ r # NoReg
  BY DEF Assign, Allocating, Looking, Regs, NoReg
<1>2. DOMAIN reg = DOMAIN ivs
  BY DEF IInv, TypeOK
<1>3. Victims = {}
  BY <1>1, <1>2 DEF Victims
<1> QED
  BY <1>3 DEF LongestSpilled

LEMMA StealSpillsFurthest ==
  ASSUME IInv, NEW s \in active, Steal(s)
  PROVE  LongestSpilled
<1> DEFINE c == Class(i)
<1>1. /\ i \in DOMAIN ivs /\ FreeRegs = {} /\ s \in Alive /\ Class(s) = c
      /\ \A j \in Holders(Alive, c) : ivs[j].last <= ivs[s].last
      /\ ivs[s].last > ivs[i].last
      /\ active' = (Alive \ {s}) \cup {i}
      /\ reg' = [reg EXCEPT ![i] = reg[s], ![s] = NoReg]
  BY DEF Steal, Allocating, Looking, Candidate, Holders
<1>2. /\ s \in DOMAIN ivs /\ s # i /\ Alive \subseteq DOMAIN ivs /\ i \notin Alive
      /\ i \in Nat /\ \A j \in Alive : reg[j] \in Nat
  BY <1>1, AfterExpiry
<1>3. DOMAIN reg = DOMAIN ivs /\ reg'[i] = reg[s] /\ reg'[s] = NoReg
      /\ \A j \in DOMAIN ivs \ {i, s} : reg'[j] = reg[j]
  BY <1>1, <1>2 DEF IInv, TypeOK
<1>4. Victims = {s}
  <2>1. reg'[i] # NoReg
    BY <1>1, <1>2, <1>3 DEF NoReg
  <2>2. s <= i /\ reg[s] # NoReg
    BY <1>1, AfterExpiry DEF NoReg
  <2> QED
    BY <1>2, <1>3, <2>1, <2>2 DEF Victims
<1>5. {reg[j] : j \in Holders(Alive, c)} = Regs(c)
      /\ \A j \in Alive : ivs[j].first <= ivs[i].first /\ ivs[i].first <= ivs[j].last
  BY <1>1, AllTaken
<1>6. Holders(active', c) = (Holders(Alive, c) \ {s}) \cup {i}
  BY <1>1 DEF Holders
<1>7. {reg'[j] : j \in Holders(active', c)} = {reg[j] : j \in Holders(Alive, c)}
  <2>1. \A j \in Holders(Alive, c) : \E k \in Holders(active', c) : reg[j] = reg'[k]
    BY <1>2, <1>3, <1>6 DEF Holders
  <2>2. \A k \in Holders(active', c) : \E j \in Holders(Alive, c) : reg'[k] = reg[j]
    BY <1>1, <1>2, <1>3, <1>6 DEF Holders
  <2> QED
    BY <2>1, <2>2
<1>8. /\ ivs[i].first \in Nat /\ ivs[i].last \in Nat /\ ivs[s].last \in Nat
      /\ ivs[i].first <= ivs[i].last
  <2>1. ivs[i].first <= ivs[i].last
    BY <1>1 DEF IInv, TypeOK
  <2> QED
    BY <1>1, <1>2, <2>1, TableFacts DEF IInv
<1>9. ASSUME NEW j \in Holders(active', c)
      PROVE  /\ ivs[j].last <= ivs[s].last
             /\ ivs[j].first <= ivs[i].first /\ ivs[i].first <= ivs[j].last
  <2>1. CASE j = i
    BY <1>1, <1>8, <2>1
  <2>2. CASE j \in Holders(Alive, c)
    <3>1. j \in Alive
      BY <2>2 DEF Holders
    <3> QED
      BY <1>1, <1>5, <2>2, <3>1
  <2> QED
    BY <1>6, <2>1, <2>2
<1> QED
  BY <1>1, <1>4, <1>5, <1>7, <1>9 DEF LongestSpilled

LEMMA SpillSpillsFurthest ==
  ASSUME IInv, NEW s \in active, Spill(s)
  PROVE  LongestSpilled
<1> DEFINE c == Class(i)
<1>1. /\ i \in DOMAIN ivs /\ FreeRegs = {} /\ s \in Alive
      /\ \A j \in Holders(Alive, c) : ivs[j].last <= ivs[s].last
      /\ ivs[s].last <= ivs[i].last /\ active' = Alive /\ reg' = reg
  BY DEF Spill, Allocating, Looking, Candidate, Holders
<1>2. Victims \subseteq {i}
  BY <1>1 DEF Victims
<1>3. {reg[j] : j \in Holders(Alive, c)} = Regs(c)
      /\ \A j \in Alive : ivs[j].first <= ivs[i].first /\ ivs[i].first <= ivs[j].last
  BY <1>1, AllTaken
<1>4. ASSUME NEW j \in Holders(Alive, c) PROVE ivs[j].last <= ivs[i].last
  <2>1. j \in DOMAIN ivs /\ s \in DOMAIN ivs
    BY <1>1, AfterExpiry DEF Holders
  <2>2. ivs[j].last \in Nat /\ ivs[s].last \in Nat /\ ivs[i].last \in Nat
    BY <1>1, <2>1, TableFacts DEF IInv
  <2> QED
    BY <1>1, <2>2
<1> QED
  BY <1>1, <1>2, <1>3, <1>4 DEF LongestSpilled, Holders

\* spillAtInterval sends the longest interval of the class to memory, and only
\* when all registers of the class are held by intervals that are live there.
THEOREM SpillsFurthestHolds == Spec => SpillsFurthest
<1>1. ASSUME IInv, Next PROVE LongestSpilled
  <2>1. CASE SkipPrecolored
    BY <2>1 DEF SkipPrecolored, LongestSpilled, Allocating
  <2>2. CASE Confused
    BY <2>2 DEF Confused, LongestSpilled, Allocating
  <2> QED
    BY <1>1, <2>1, <2>2, AssignSpillsNone, StealSpillsFurthest, SpillSpillsFurthest DEF Next
<1>2. IInv /\ [Next]_vars => [LongestSpilled]_vars
  BY <1>1
<1> QED
  BY <1>2, Inductive, PTL DEF Spec, SpillsFurthest, LongestSpilled
=============================================================================
