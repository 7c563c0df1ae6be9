------------------------ MODULE UTF8CorrectorProofs ------------------------
(***************************************************************************)
(* Proofs about UTF8Corrector, for every buffer size, every set of slice   *)
(* lengths and every input.  There are two arguments.                      *)
(*                                                                         *)
(* Where bytes are: the heart of it is Room, that the read size Read       *)
(* allows keeps what is held and what is still to be looked at within the  *)
(* rest of the caller's slice.                                             *)
(*                                                                         *)
(* Which bytes go out, and in which order: in every state there is an      *)
(* account, the sequence r of the positions looked at and handled, of      *)
(* which what is out and what is held are, in order, all but the ends of   *)
(* line inside a character, and what is held is the end.                   *)
(***************************************************************************)
EXTENDS UTF8Corrector, NatRecursion, TLAPS

(* TypeOK in three parts, by the kind of value. *)
Data ==
    /\ input \in Seq(Classes)
    /\ own \in [0 .. OwnSize - 1 -> 0 .. Len(input)]
    /\ last \in 0 .. Len(input)
    /\ delivered \in Seq(0 .. Len(input))
    /\ dropped \subseteq 1 .. Len(input)

Nums ==
    /\ taken \in 0 .. Len(input) /\ base \in 0 .. taken
    /\ pos \in 0 .. OwnSize - 1
    /\ pco \in 0 .. OwnSize /\ cco \in 0 .. pco
    /\ pcb \in 0 .. BufMax /\ ccb \in 0 .. BufMax
    /\ max \in Nat /\ count \in 0 .. max
    /\ i \in 0 .. BufMax /\ n \in 0 .. BufMax

Tags ==
    /\ state \in States
    /\ err \in BOOLEAN /\ carry \in BOOLEAN
    /\ pc \in {"idle", "fetch", "cycle", "release", "drain", "done", "panic"}

(* What own holds in each state. *)
Shape ==
    /\ state = "Normal" => pco = 0
    /\ state = "Start" => pco \in 1 .. 3
    /\ state = "0D" => pos \in 1 .. 3 /\ pco = pos + 1
    /\ state = "0A" => pos \in 1 .. 3 /\ pco \in {pos + 1, pos + 2}
    /\ state = "10XXXXXX" => pco \in 2 .. 5
    /\ state = "ReleaseRestart" => pc \in {"release", "done", "panic"}

(* Bytes leave own only in release, and only a finished release is left    *)
(* behind for the next call.                                               *)
Consumed ==
    /\ pc \in {"idle", "fetch", "cycle"} => cco = (IF state = "Release" THEN pco ELSE 0)
    /\ pc = "release" => state \in {"Release", "ReleaseRestart"} /\ i < n
    /\ pc = "drain" => state \in {"Start", "10XXXXXX"} /\ err /\ (count < max \/ max = 0)
    /\ pc = "panic" => max = 0 /\ err
    /\ pc = "cycle" /\ state = "Release" /\ i < n => i = 0

(* The bytes held, those of buf not looked at yet, and the one that        *)
(* restarts, all fit in the rest of the slice.                             *)
Room ==
    /\ pc = "cycle" /\ i < n => count + Held + (n - i) <= max
    /\ pc = "release" =>
           count + Held + (n - i - 1) + (IF state = "ReleaseRestart" THEN 1 ELSE 0) <= max

Calls ==
    /\ ~carry /\ pcb = ccb
    /\ base + n <= Len(input) /\ i <= n
    /\ pc = "fetch" => count = 0 /\ n = 0

IInv == Data /\ Nums /\ Tags /\ Shape /\ Consumed /\ Room /\ Calls


(* newQPUTF8: nothing held, nothing read.                                   *)
LEMMA InitOK == Init => IInv
<1> USE BufMaxAssumption, SizesAssumption, InputsAssumption DEF OwnSize, UTFMax
<1> SUFFICES ASSUME Init PROVE IInv
  OBVIOUS
<1>1. input \in Seq(Classes) /\ Len(input) \in Nat
  BY DEF Init
<1>2. Data
  BY <1>1 DEF Init, Data
<1>3. Nums
  BY <1>1 DEF Init, Nums
<1>4. Tags
  BY DEF Init, Tags, States
<1>5. Shape /\ Consumed /\ Room /\ Calls
  BY <1>1 DEF Init, Shape, Consumed, Room, Calls, Held
<1> QED
  BY <1>2, <1>3, <1>4, <1>5 DEF IInv

(* What the four states that hold bytes back have in common: the byte is   *)
(* kept for a restart, or it is put in own and the state may be released.  *)
KeepsLead == state' = "ReleaseRestart" /\ last' = Byte /\ UNCHANGED <<own, pco, pos>>
KeepsByte ==
    /\ \E at \in 0 .. pco : own' = [own EXCEPT ![at] = Byte] /\ pco' = at + 1
    /\ pos' \in {pos, pco}
    /\ state' # "ReleaseRestart" /\ last' = last
HoldStep ==
    /\ pc = "cycle" /\ i < n /\ cco = 0 /\ pco < OwnSize
    /\ KeepsLead \/ KeepsByte
    /\ state' \in States /\ Turn
    /\ UNCHANGED <<input, taken, base, cco, pcb, ccb, err, carry, max, count, n, delivered, dropped>>

(* A turn of cycle that holds one more byte, in any of the states that do.   *)
LEMMA HoldOK == IInv /\ HoldStep => Data' /\ Nums' /\ Tags' /\ Room' /\ Calls'
<1> USE BufMaxAssumption, SizesAssumption, InputsAssumption DEF OwnSize, UTFMax
<1> SUFFICES ASSUME IInv, HoldStep PROVE Data' /\ Nums' /\ Tags' /\ Room' /\ Calls'
  OBVIOUS
<1> USE DEF IInv
<1>0. Len(input) \in Nat
  BY DEF Data
<1>00. own \in [0 .. OwnSize - 1 -> 0 .. Len(input)] /\ last \in 0 .. Len(input)
  BY DEF Data
<1>1. UNCHANGED <<input, taken, base, cco, pcb, ccb, err, carry, max, count, n, delivered, dropped>>
  BY DEF HoldStep
<1>2. Byte \in 1 .. Len(input)
  BY <1>0 DEF HoldStep, Byte, Nums, Calls
<1>3. pco < OwnSize /\ cco = 0 /\ pc = "cycle" /\ i < n /\ count + pco + (n - i) <= max
  BY DEF HoldStep, Room, Held, Nums
<1>4. pco' \in 0 .. pco + 1 /\ pos' \in {pos, pco} /\ (state' = "ReleaseRestart" => pco' = pco)
  BY DEF HoldStep, KeepsLead, KeepsByte, Nums
<1>5. \/ pc' = "release" /\ i' = i /\ state' \in {"Release", "ReleaseRestart"}
      \/ pc' = "cycle" /\ i' = i + 1 /\ state' \notin {"Release", "ReleaseRestart"}
  BY DEF HoldStep, Turn
<1>6. own' \in [0 .. OwnSize - 1 -> 0 .. Len(input)] /\ last' \in 0 .. Len(input)
  <2>1. CASE KeepsLead
    BY <2>1, <1>2, <1>0 DEF KeepsLead, Data
  <2>2. CASE KeepsByte
    <3>1. PICK at \in 0 .. pco : own' = [own EXCEPT ![at] = Byte]
      BY <2>2 DEF KeepsByte
    <3>2. at \in 0 .. OwnSize - 1
      BY <1>3, <3>1 DEF Nums
    <3>3. own' \in [0 .. OwnSize - 1 -> 0 .. Len(input)]
      BY SMTT(30), <3>1, <3>2, <1>2, <1>0, <1>00
    <3>4. last' \in 0 .. Len(input)
      BY <2>2, <1>00 DEF KeepsByte
    <3> QED
      BY <3>3, <3>4
  <2> QED
    BY <2>1, <2>2 DEF HoldStep
<1>7. Data'
  BY <1>1, <1>6 DEF Data
<1>8. Nums'
  BY <1>0, <1>1, <1>3, <1>4, <1>5 DEF Nums
<1>9. Tags'
  BY <1>1, <1>5 DEF Tags, HoldStep
<1>10. Room'
  BY <1>1, <1>3, <1>4, <1>5 DEF Room, Held, Nums
<1>11. Calls'
  BY <1>0, <1>1, <1>3, <1>5 DEF Calls, Nums
<1> QED
  BY <1>7, <1>8, <1>9, <1>10, <1>11

(* Every step of Read, cycle and release keeps the invariant.               *)
LEMMA StepOK == IInv /\ [Next]_vars => IInv'
<1> USE BufMaxAssumption, SizesAssumption, InputsAssumption DEF OwnSize, UTFMax
<1> SUFFICES ASSUME IInv, [Next]_vars PROVE IInv'
  OBVIOUS
<1> USE DEF IInv, source, corrector, call, history
<1>0. input \in Seq(Classes) /\ Len(input) \in Nat
  BY DEF Data
<1>1. ASSUME NEW m \in Sizes, Read(m) PROVE IInv'
  <2>1. Data'
    BY <1>0, <1>1 DEF Data, Read
  <2>2. Nums'
    BY <1>0, <1>1 DEF Nums, Read
  <2>3. Tags'
    BY <1>0, <1>1 DEF Tags, States, Read
  <2>4. Shape'
    BY <1>0, <1>1 DEF Shape, Nums, Read
  <2>5. Consumed'
    BY <1>0, <1>1 DEF Consumed, Nums, Shape, Room, Calls, Held, Read
  <2>6. Room'
    BY <1>0, <1>1 DEF Room, Nums, Consumed, Shape, Calls, Held, Read
  <2>7. Calls'
    BY <1>0, <1>1 DEF Calls, Nums, Read
  <2> QED
    BY <2>1, <2>2, <2>3, <2>4, <2>5, <2>6, <2>7
<1>2. ASSUME ReturnError PROVE IInv'
  <2>1. Data'
    BY <1>0, <1>2 DEF Data, ReturnError
  <2>2. Nums'
    BY <1>0, <1>2 DEF Nums, ReturnError
  <2>3. Tags'
    BY <1>0, <1>2 DEF Tags, States, ReturnError
  <2>4. Shape'
    BY <1>0, <1>2 DEF Shape, Nums, ReturnError
  <2>5. Consumed'
    BY <1>0, <1>2 DEF Consumed, Nums, Shape, Room, Calls, Held, ReturnError
  <2>6. Room'
    BY <1>0, <1>2 DEF Room, Nums, Consumed, Shape, Calls, Held, ReturnError
  <2>7. Calls'
    BY <1>0, <1>2 DEF Calls, Nums, ReturnError
  <2> QED
    BY <2>1, <2>2, <2>3, <2>4, <2>5, <2>6, <2>7
<1>3. ASSUME Fetch PROVE IInv'
  <2>1. Data'
    BY <1>0, <1>3 DEF Data, Fetch, Allowed
  <2>2. Nums'
    BY <1>0, <1>3 DEF Nums, Fetch, Allowed
  <2>3. Tags'
    BY <1>0, <1>3 DEF Tags, States, Fetch, Allowed
  <2>4. Shape'
    BY <1>0, <1>3 DEF Shape, Nums, Fetch, Allowed
  <2>5. Consumed'
    BY <1>0, <1>3 DEF Consumed, Nums, Shape, Room, Calls, Held, Fetch, Allowed
  <2>6. Room'
    BY <1>0, <1>3 DEF Room, Nums, Consumed, Shape, Calls, Held, Fetch, Allowed
  <2>7. Calls'
    BY <1>0, <1>3 DEF Calls, Nums, Fetch, Allowed
  <2> QED
    BY <2>1, <2>2, <2>3, <2>4, <2>5, <2>6, <2>7
<1>4. ASSUME NoRoom PROVE IInv'
  <2>1. Data'
    BY <1>0, <1>4 DEF Data, NoRoom, Allowed
  <2>2. Nums'
    BY <1>0, <1>4 DEF Nums, NoRoom, Allowed
  <2>3. Tags'
    BY <1>0, <1>4 DEF Tags, States, NoRoom, Allowed
  <2>4. Shape'
    BY <1>0, <1>4 DEF Shape, Nums, NoRoom, Allowed
  <2>5. Consumed'
    BY <1>0, <1>4 DEF Consumed, Nums, Shape, Room, Calls, Held, NoRoom, Allowed
  <2>6. Room'
    BY <1>0, <1>4 DEF Room, Nums, Consumed, Shape, Calls, Held, NoRoom, Allowed
  <2>7. Calls'
    BY <1>0, <1>4 DEF Calls, Nums, NoRoom, Allowed
  <2> QED
    BY <2>1, <2>2, <2>3, <2>4, <2>5, <2>6, <2>7
<1>5. ASSUME Normal PROVE IInv'
  <2> USE DEF Normal, InCycle
  <2>1. /\ UNCHANGED <<input, taken, base, pos, cco, last, err, carry, max, n, dropped>>
        /\ pc = "cycle" /\ i < n /\ state = "Normal" /\ pco = 0 /\ cco = 0
        /\ count + (n - i) <= max
    BY <1>5 DEF Shape, Consumed, Room, Held, Nums
  <2>2. Byte \in 1 .. Len(input)
    BY <1>0, <2>1 DEF Byte, Nums, Calls
  <2>3. CASE Class = "lead"
    <3>1. /\ UNCHANGED <<pcb, ccb, delivered, count>>
          /\ state' = "Start" /\ pco' = 1 /\ own' = [own EXCEPT ![0] = Byte]
          /\ pc' = "cycle" /\ i' = i + 1
      BY <1>5, <2>3 DEF Hold, Turn
    <3>6. own' \in [0 .. OwnSize - 1 -> 0 .. Len(input)]
      BY SMTT(30), <1>0, <2>2, <3>1 DEF Data
    <3>2. Data'
      BY <2>1, <3>1, <3>6 DEF Data
    <3>5. Tags'
      BY <2>1, <3>1 DEF Tags, States
    <3>3. Nums'
      BY <1>0, <2>1, <3>1 DEF Nums
    <3>4. Shape' /\ Consumed' /\ Room' /\ Calls'
      BY <1>0, <2>1, <3>1 DEF Shape, Consumed, Room, Calls, Held, Nums
    <3> QED
      BY <3>2, <3>3, <3>4, <3>5
  <2>4. CASE Class # "lead"
    <3>1. /\ UNCHANGED <<state, own, pco>>
          /\ delivered' = Append(delivered, Byte) /\ count' = count + 1 /\ count < max
          /\ \/ count' = max /\ n = i + 1 /\ pcb' = n /\ ccb' = n /\ pc' = "idle" /\ i' = i
             \/ count' < max /\ pc' = "cycle" /\ i' = i + 1 /\ UNCHANGED <<pcb, ccb>>
      BY <1>5, <2>1, <2>4 DEF Store, Suspend, Nums
    <3>2. Data' /\ Tags'
      BY SMTT(30), <1>0, <2>1, <2>2, <3>1 DEF Data, Tags
    <3>3. Nums'
      BY <1>0, <2>1, <3>1 DEF Nums
    <3>4. Shape' /\ Consumed' /\ Room' /\ Calls'
      BY <1>0, <2>1, <3>1 DEF Shape, Consumed, Room, Calls, Held, Nums
    <3> QED
      BY <3>2, <3>3, <3>4
  <2> QED
    BY <2>3, <2>4
<1>6. ASSUME Start PROVE IInv'
  <2>1. HoldStep
    <3>1. /\ pc = "cycle" /\ i < n /\ cco = 0 /\ pco < OwnSize
          /\ UNCHANGED <<input, taken, base, cco, pcb, ccb, err, carry, max, count, n, delivered, dropped>>
      <4>1. /\ pc = "cycle" /\ i < n /\ cco = 0 /\ pco < OwnSize
        BY <1>6 DEF Start, InCycle, Shape, Consumed, Nums
      <4>2. UNCHANGED <<input, taken, base, cco, pcb, ccb, err, carry, max, count, n, delivered, dropped>>
        BY <1>6 DEF Start
      <4> QED
        BY <4>1, <4>2
    <3>2. Turn
      BY <1>6 DEF Start
    <3>3. CASE Restart
      BY <3>1, <3>2, <3>3 DEF Restart, HoldStep, KeepsLead, States
    <3>4. CASE ~Restart
      <4>1. KeepsByte /\ state' \in States
        <5>1. \E at \in 0 .. pco : Hold(at) /\ last' = last
          BY SMTT(30), <1>6, <3>4 DEF Start, InCycle, Shape, Nums
        <5>2. \E at \in 0 .. pco : own' = [own EXCEPT ![at] = Byte] /\ pco' = at + 1
          BY <5>1 DEF Hold
        <5>3. state' \in States \ {"ReleaseRestart"} /\ pos' \in {pos, pco}
          BY <1>6, <3>4 DEF Start, States, InCycle
        <5> QED
          BY <5>1, <5>2, <5>3 DEF KeepsByte
      <4> QED
        BY <3>1, <3>2, <4>1 DEF HoldStep
    <3> QED
      BY <3>3, <3>4
  <2>2. Data' /\ Nums' /\ Tags' /\ Room' /\ Calls'
    BY <2>1, HoldOK
  <2>3. Shape'
    BY SMTT(30), <1>6 DEF Start, InCycle, Hold, Restart, Turn, Shape, Nums
  <2>4. Consumed'
    BY <1>6, <2>2 DEF Start, InCycle, Turn, Consumed, Shape, Hold, Restart
  <2> QED
    BY <2>2, <2>3, <2>4
<1>7. ASSUME AfterCR PROVE IInv'
  <2>1. HoldStep
    <3>1. /\ pc = "cycle" /\ i < n /\ cco = 0 /\ pco < OwnSize
          /\ UNCHANGED <<input, taken, base, cco, pcb, ccb, err, carry, max, count, n, delivered, dropped>>
      <4>1. /\ pc = "cycle" /\ i < n /\ cco = 0 /\ pco < OwnSize
        BY <1>7 DEF AfterCR, InCycle, Shape, Consumed, Nums
      <4>2. UNCHANGED <<input, taken, base, cco, pcb, ccb, err, carry, max, count, n, delivered, dropped>>
        BY <1>7 DEF AfterCR
      <4> QED
        BY <4>1, <4>2
    <3>2. Turn
      BY <1>7 DEF AfterCR
    <3>3. CASE Restart
      BY <3>1, <3>2, <3>3 DEF Restart, HoldStep, KeepsLead, States
    <3>4. CASE ~Restart
      <4>1. KeepsByte /\ state' \in States
        <5>1. \E at \in 0 .. pco : Hold(at) /\ last' = last
          BY <1>7, <3>4 DEF AfterCR, InCycle, Shape, Nums
        <5>2. \E at \in 0 .. pco : own' = [own EXCEPT ![at] = Byte] /\ pco' = at + 1
          BY <5>1 DEF Hold
        <5>3. state' \in States \ {"ReleaseRestart"} /\ pos' \in {pos, pco}
          BY <1>7, <3>4 DEF AfterCR, States, InCycle
        <5> QED
          BY <5>1, <5>2, <5>3 DEF KeepsByte
      <4> QED
        BY <3>1, <3>2, <4>1 DEF HoldStep
    <3> QED
      BY <3>3, <3>4
  <2>2. Data' /\ Nums' /\ Tags' /\ Room' /\ Calls'
    BY <2>1, HoldOK
  <2>3. Shape'
    BY <1>7 DEF AfterCR, InCycle, Hold, Restart, Turn, Shape, Nums
  <2>4. Consumed'
    BY <1>7, <2>2 DEF AfterCR, InCycle, Turn, Consumed, Shape, Hold, Restart
  <2> QED
    BY <2>2, <2>3, <2>4
<1>8. ASSUME AfterLF PROVE IInv'
  <2>1. HoldStep
    <3>1. /\ pc = "cycle" /\ i < n /\ cco = 0 /\ pco < OwnSize
          /\ UNCHANGED <<input, taken, base, cco, pcb, ccb, err, carry, max, count, n, delivered, dropped>>
      <4>1. /\ pc = "cycle" /\ i < n /\ cco = 0 /\ pco < OwnSize
        BY <1>8 DEF AfterLF, InCycle, Shape, Consumed, Nums
      <4>2. UNCHANGED <<input, taken, base, cco, pcb, ccb, err, carry, max, count, n, delivered, dropped>>
        BY <1>8 DEF AfterLF
      <4> QED
        BY <4>1, <4>2
    <3>2. Turn
      BY <1>8 DEF AfterLF
    <3>3. CASE Restart
      BY <3>1, <3>2, <3>3 DEF Restart, HoldStep, KeepsLead, States
    <3>4. CASE ~Restart
      <4>1. KeepsByte /\ state' \in States
        <5>1. \E at \in 0 .. pco : Hold(at) /\ last' = last
          BY <1>8, <3>4 DEF AfterLF, InCycle, Shape, Nums
        <5>2. \E at \in 0 .. pco : own' = [own EXCEPT ![at] = Byte] /\ pco' = at + 1
          BY <5>1 DEF Hold
        <5>3. state' \in States \ {"ReleaseRestart"} /\ pos' \in {pos, pco}
          BY <1>8, <3>4 DEF AfterLF, States, InCycle
        <5> QED
          BY <5>1, <5>2, <5>3 DEF KeepsByte
      <4> QED
        BY <3>1, <3>2, <4>1 DEF HoldStep
    <3> QED
      BY <3>3, <3>4
  <2>2. Data' /\ Nums' /\ Tags' /\ Room' /\ Calls'
    BY <2>1, HoldOK
  <2>3. Shape'
    BY <1>8 DEF AfterLF, InCycle, Hold, Restart, Turn, Shape, Nums
  <2>4. Consumed'
    BY <1>8, <2>2 DEF AfterLF, InCycle, Turn, Consumed, Shape, Hold, Restart
  <2> QED
    BY <2>2, <2>3, <2>4
<1>9. ASSUME Joined PROVE IInv'
  <2>1. HoldStep
    <3>1. /\ pc = "cycle" /\ i < n /\ cco = 0 /\ pco < OwnSize
          /\ UNCHANGED <<input, taken, base, cco, pcb, ccb, err, carry, max, count, n, delivered, dropped>>
      <4>1. /\ pc = "cycle" /\ i < n /\ cco = 0 /\ pco < OwnSize
        BY <1>9 DEF Joined, InCycle, Shape, Consumed, Nums
      <4>2. UNCHANGED <<input, taken, base, cco, pcb, ccb, err, carry, max, count, n, delivered, dropped>>
        BY <1>9 DEF Joined
      <4> QED
        BY <4>1, <4>2
    <3>2. Turn
      BY <1>9 DEF Joined
    <3>3. CASE Restart
      BY <3>1, <3>2, <3>3 DEF Restart, HoldStep, KeepsLead, States
    <3>4. CASE ~Restart
      <4>1. KeepsByte /\ state' \in States
        <5>1. \E at \in 0 .. pco : Hold(at) /\ last' = last
          BY <1>9, <3>4 DEF Joined, InCycle, Shape, Nums
        <5>2. \E at \in 0 .. pco : own' = [own EXCEPT ![at] = Byte] /\ pco' = at + 1
          BY <5>1 DEF Hold
        <5>3. state' \in States \ {"ReleaseRestart"} /\ pos' \in {pos, pco}
          BY <1>9, <3>4 DEF Joined, States, InCycle
        <5> QED
          BY <5>1, <5>2, <5>3 DEF KeepsByte
      <4> QED
        BY <3>1, <3>2, <4>1 DEF HoldStep
    <3> QED
      BY <3>3, <3>4
  <2>2. Data' /\ Nums' /\ Tags' /\ Room' /\ Calls'
    BY <2>1, HoldOK
  <2>3. Shape'
    BY <1>9 DEF Joined, InCycle, Hold, Restart, Turn, Shape, Nums
  <2>4. Consumed'
    BY <1>9, <2>2 DEF Joined, InCycle, Turn, Consumed, Shape, Hold, Restart
  <2> QED
    BY <2>2, <2>3, <2>4
<1>10. ASSUME Unhandled PROVE IInv'
  <2>1. Data'
    BY SMTT(30), <1>0, <1>10 DEF Data, Unhandled, InCycle, Turn, Byte, Nums, Calls, Consumed
  <2>2. Nums'
    BY <1>0, <1>10 DEF Nums, Unhandled, InCycle, Turn, Consumed
  <2>3. Tags'
    BY <1>0, <1>10 DEF Tags, States, Unhandled, InCycle, Turn, Consumed
  <2>4. Shape'
    BY <1>0, <1>10 DEF Shape, Nums, Unhandled, InCycle, Turn, Consumed
  <2>5. Consumed'
    BY <1>0, <1>10 DEF Consumed, Nums, Shape, Room, Calls, Held, Unhandled, InCycle, Turn
  <2>6. Room'
    BY <1>0, <1>10 DEF Room, Nums, Consumed, Shape, Calls, Held, Unhandled, InCycle, Turn
  <2>7. Calls'
    BY <1>0, <1>10 DEF Calls, Nums, Unhandled, InCycle, Turn, Consumed
  <2> QED
    BY <2>1, <2>2, <2>3, <2>4, <2>5, <2>6, <2>7
<1>11. ASSUME Emit PROVE IInv'
  <2>1. /\ UNCHANGED <<input, taken, base, state, pos, own, pco, last, err, carry, max, n, dropped>>
        /\ pc \in {"release", "drain"} /\ cco < pco /\ count < max
        /\ delivered' = Append(delivered, own[cco]) /\ count' = count + 1 /\ cco' = cco + 1
    BY <1>11 DEF Emit, Store
  <2>4. own[cco] \in 0 .. Len(input)
    <3>1. cco \in 0 .. OwnSize - 1
      BY <2>1 DEF Nums
    <3>2. own \in [0 .. OwnSize - 1 -> 0 .. Len(input)]
      BY DEF Data
    <3> QED
      BY <3>1, <3>2
  <2>2. CASE pc = "release"
    <3>1. \/ count' < max /\ UNCHANGED <<pc, i, pcb, ccb>>
          \/ /\ count' = max /\ cco' = pco /\ n = i + 1 /\ state = "Release"
             /\ pcb' = n /\ ccb' = n /\ pc' = "idle" /\ i' = i
      BY <1>11, <2>1, <2>2 DEF Emit, Suspend, Nums, Room, Held, Consumed
    <3>2. Data'
      BY <1>0, <2>1, <2>4 DEF Data
    <3>6. Tags'
      BY <2>1, <3>1 DEF Tags
    <3>3. Nums'
      BY <1>0, <2>1, <3>1 DEF Nums
    <3>4. Shape' /\ Consumed'
      BY <2>1, <2>2, <3>1 DEF Shape, Consumed, Nums
    <3>5. Room'
      BY <2>1, <2>2, <3>1 DEF Room, Held, Nums, Consumed
    <3>7. Calls'
      BY <2>1, <2>2, <3>1 DEF Calls, Nums, Consumed
    <3> QED
      BY <3>2, <3>3, <3>4, <3>5, <3>6, <3>7
  <2>3. CASE pc = "drain"
    <3>1. \/ count' < max /\ UNCHANGED <<pc, i, pcb, ccb>>
          \/ pc' = "done" /\ UNCHANGED <<i, pcb, ccb>>
      BY <1>11, <2>1, <2>3 DEF Emit
    <3>2. Data'
      BY <1>0, <2>1, <2>4 DEF Data
    <3>6. Tags'
      BY <2>1, <3>1 DEF Tags
    <3>3. Nums'
      BY <1>0, <2>1, <3>1 DEF Nums
    <3>4. Shape' /\ Consumed'
      BY <2>1, <2>3, <3>1 DEF Shape, Consumed, Nums
    <3>5. Room' /\ Calls'
      BY <2>1, <2>3, <3>1 DEF Room, Calls, Held, Nums
    <3> QED
      BY <3>2, <3>3, <3>4, <3>5, <3>6
  <2> QED
    BY <2>1, <2>2, <2>3
<1>12. ASSUME Reset PROVE IInv'
  <2>1. /\ UNCHANGED <<input, taken, base, pos, pcb, ccb, last, err, carry, max, count, n, delivered, dropped>>
        /\ pc \in {"release", "drain"} /\ cco = pco /\ cco' = 0
    BY <1>12 DEF Reset, Nums
  <2>2. \/ pc = "release" /\ pc' = "cycle" /\ i' = i + 1 /\ i < n
        \/ pc = "drain" /\ pc' = "done" /\ i' = i /\ state # "ReleaseRestart"
    BY <1>12, <2>1 DEF Reset, Consumed
  <2>3. \/ /\ state = "ReleaseRestart" /\ own' = [own EXCEPT ![0] = last]
           /\ pco' = 1 /\ state' = "Start"
        \/ /\ state # "ReleaseRestart" /\ own' = own /\ pco' = 0 /\ state' = "Normal"
    BY <1>12 DEF Reset
  <2>4. Data' /\ Tags'
    BY <1>0, <2>1, <2>2, <2>3 DEF Data, Tags, States
  <2>5. Nums'
    BY <1>0, <2>1, <2>2, <2>3 DEF Nums
  <2>6. Shape' /\ Consumed' /\ Calls'
    BY <2>1, <2>2, <2>3 DEF Shape, Consumed, Calls, Nums
  <2>7. Room'
    BY <2>1, <2>2, <2>3 DEF Room, Held, Nums
  <2> QED
    BY <2>4, <2>5, <2>6, <2>7
<1>13. ASSUME CycleDone PROVE IInv'
  <2>1. Data'
    BY <1>0, <1>13 DEF Data, CycleDone
  <2>2. Nums'
    BY <1>0, <1>13 DEF Nums, CycleDone
  <2>3. Tags'
    BY <1>0, <1>13 DEF Tags, States, CycleDone
  <2>4. Shape'
    BY <1>0, <1>13 DEF Shape, Nums, CycleDone
  <2>5. Consumed'
    BY <1>0, <1>13 DEF Consumed, Nums, Shape, Room, Calls, Held, CycleDone
  <2>6. Room'
    BY <1>0, <1>13 DEF Room, Nums, Consumed, Shape, Calls, Held, CycleDone
  <2>7. Calls'
    BY <1>0, <1>13 DEF Calls, Nums, CycleDone
  <2> QED
    BY <2>1, <2>2, <2>3, <2>4, <2>5, <2>6, <2>7
<1>14. ASSUME Overrun PROVE IInv'
  <2>1. Data'
    BY <1>0, <1>14 DEF Data, Overrun, Storing, InCycle, Class
  <2>2. Nums'
    BY <1>0, <1>14 DEF Nums, Overrun, Storing, InCycle, Class
  <2>3. Tags'
    BY <1>0, <1>14 DEF Tags, States, Overrun, Storing, InCycle, Class
  <2>4. Shape'
    BY <1>0, <1>14 DEF Shape, Nums, Overrun, Storing, InCycle, Class
  <2>5. Consumed'
    BY <1>0, <1>14 DEF Consumed, Nums, Shape, Room, Calls, Held, Overrun, Storing, InCycle, Class
  <2>6. Room'
    BY <1>0, <1>14 DEF Room, Nums, Consumed, Shape, Calls, Held, Overrun, Storing, InCycle, Class
  <2>7. Calls'
    BY <1>0, <1>14 DEF Calls, Nums, Overrun, Storing, InCycle, Class
  <2> QED
    BY <2>1, <2>2, <2>3, <2>4, <2>5, <2>6, <2>7
<1>15. CASE UNCHANGED vars
  BY <1>15 DEF vars, Data, Nums, Tags, Shape, Consumed, Room, Calls, Held
<1> QED
  BY <1>1, <1>2, <1>3, <1>4, <1>5, <1>6, <1>7, <1>8, <1>9, <1>10, <1>11, <1>12, <1>13, <1>14, <1>15 DEF Next, Cycle, Release, Stopped

(* The invariant holds in every state, between and within calls.            *)
LEMMA Inductive == Spec => []IInv
<1> USE BufMaxAssumption, SizesAssumption, InputsAssumption DEF OwnSize, UTFMax
<1>1. Init => IInv
  BY InitOK
<1>2. IInv /\ [Next]_vars => IInv'
  BY StepOK
<1> QED
  BY <1>1, <1>2, PTL DEF Spec

(* Every reachable state of the corrector is well-typed: counters stay     *)
(* within the slice, the read buffer and the six byte array.               *)
THEOREM TypeCorrect == Spec => []TypeOK
<1> USE BufMaxAssumption, SizesAssumption, InputsAssumption DEF OwnSize, UTFMax
<1>1. IInv => TypeOK
  BY DEF IInv, TypeOK, Data, Nums, Tags
<1> QED
  BY <1>1, Inductive, PTL

(* cycle never writes behind the end of own.                               *)
THEOREM OwnNeverOverrun == Spec => []OwnFits
<1> USE BufMaxAssumption, SizesAssumption, InputsAssumption DEF OwnSize, UTFMax
<1>1. IInv => OwnFits
  BY DEF IInv, OwnFits, Shape, Nums, OwnSize
<1> QED
  BY <1>1, Inductive, PTL

(* Read stores behind the caller's slice only when the slice is empty and  *)
(* an error is due with bytes still held.                                  *)
THEOREM SliceNeverOverrun == Spec => []NoOverrun
<1> USE BufMaxAssumption, SizesAssumption, InputsAssumption DEF OwnSize, UTFMax
<1>1. IInv => NoOverrun
  BY DEF IInv, NoOverrun, Consumed
<1> QED
  BY <1>1, Inductive, PTL

(* buf is always used up when Read returns: the branch for carried bytes   *)
(* is dead code, for every buffer size and every slice.                    *)
THEOREM BufferUsedUp == Spec => []NoCarry
<1> USE BufMaxAssumption, SizesAssumption, InputsAssumption DEF OwnSize, UTFMax
<1>1. IInv => NoCarry
  BY DEF IInv, NoCarry, Calls
<1> QED
  BY <1>1, Inductive, PTL

(* A byte is lost only as the first of a read, with nothing held.          *)
THEOREM LossIsFirstByte == Spec => DropsOnlyFirst
<1> USE BufMaxAssumption, SizesAssumption, InputsAssumption DEF OwnSize, UTFMax
<1> DEFINE Drop == dropped' # dropped => i = 0 /\ cco = pco /\ dropped' = dropped \union {Byte}
<1>1. IInv /\ [Next]_vars => [Drop]_vars
  <2> SUFFICES ASSUME IInv, Next, dropped' # dropped PROVE Drop
    OBVIOUS
  <2>1. Unhandled
    BY DEF Next, Cycle, Release, Read, ReturnError, Fetch, NoRoom, Normal, Start, AfterCR, AfterLF,
           Joined, Emit, Reset, CycleDone, Overrun, Stopped, vars, source, corrector, call, history
  <2>2. pc = "cycle" /\ i < n /\ state = "Release"
    BY <2>1 DEF Unhandled, InCycle, IInv, Shape
  <2> QED
    BY <2>1, <2>2 DEF Unhandled, IInv, Consumed
<1> QED
  BY <1>1, Inductive, PTL DEF Spec, DropsOnlyFirst

-----------------------------------------------------------------------------
(* Which bytes go out, and in which order.                                  *)

(* The three ways in which a character may go on before position j.         *)
LEMMA MayGoOnIs ==
    ASSUME NEW s, NEW j \in Int
    PROVE  MayGoOn(s, j) <=>
             \/ j >= 2 /\ s[j - 1] = "lead"
             \/ j >= 3 /\ s[j - 2] = "lead" /\ s[j - 1] = "cont"
             \/ j >= 4 /\ s[j - 3] = "lead" /\ s[j - 2] = "cont" /\ s[j - 1] = "cont"
<1> DEFINE U(k) == j - 1 - k >= 1 /\ s[j - 1 - k] = "lead" /\ \A l \in j - k .. j - 1 : s[l] = "cont"
<1>1. MayGoOn(s, j) <=> U(0) \/ U(1) \/ U(2)
  <2>1. 0 .. UTFMax - 2 = {0, 1, 2}
    BY DEF UTFMax
  <2>2. MayGoOn(s, j) <=> \E k \in {0, 1, 2} : U(k)
    BY <2>1 DEF MayGoOn
  <2> HIDE DEF U
  <2> QED
    BY <2>2
<1>2. U(0) <=> j >= 2 /\ s[j - 1] = "lead"
  OBVIOUS
<1>3. U(1) <=> j >= 3 /\ s[j - 2] = "lead" /\ s[j - 1] = "cont"
  <2>1. j - 1 .. j - 1 = {j - 1} /\ (j - 1) - 1 = j - 2
    OBVIOUS
  <2> QED
    BY <2>1
<1>4. U(2) <=> j >= 4 /\ s[j - 3] = "lead" /\ s[j - 2] = "cont" /\ s[j - 1] = "cont"
  <2>1. j - 2 .. j - 1 = {j - 2, j - 1} /\ (j - 1) - 2 = j - 3
    OBVIOUS
  <2> QED
    BY <2>1
<1> HIDE DEF U
<1> QED
  BY <1>1, <1>2, <1>3, <1>4

(* s goes on from w.                                                        *)
Continues(s, w) == Len(w) <= Len(s) /\ \A k \in 1 .. Len(w) : s[k] = w[k]

(* What comes later does not change whether a character may go on.          *)
LEMMA MayGoOnStays ==
    ASSUME NEW w \in Seq(Classes), NEW s \in Seq(Classes), Continues(s, w), NEW j \in Int, j <= Len(w) + 1
    PROVE  MayGoOn(s, j) <=> MayGoOn(w, j)
<1>1. Len(w) \in Nat /\ \A k \in 1 .. Len(w) : s[k] = w[k]
  BY DEF Continues
<1> DEFINE A == s[j - 1]
           B == s[j - 2]
           C == s[j - 3]
<1>2. j >= 2 => s[j - 1] = w[j - 1]
  BY <1>1
<1>3. j >= 3 => s[j - 2] = w[j - 2] /\ s[j - 1] = w[j - 1]
  BY <1>1
<1>4. j >= 4 => s[j - 3] = w[j - 3] /\ s[j - 2] = w[j - 2] /\ s[j - 1] = w[j - 1]
  BY <1>1
<1> QED
  BY <1>2, <1>3, <1>4, MayGoOnIs

(* The end of line at the end of w would be a stray one if a continuation   *)
(* byte came next.                                                          *)
Open(w, j) ==
    LET m == Len(w)
    IN  \/ j = m /\ m >= 1 /\ w[m] \in {"cr", "lf"} /\ MayGoOn(w, m)
        \/ j \in {m - 1, m} /\ m >= 2 /\ w[m] = "lf" /\ w[m - 1] = "cr" /\ MayGoOn(w, m - 1)

(* A stray end of line stays one, and no other becomes one but at the end.  *)
LEMMA StrayStays ==
    ASSUME NEW w \in Seq(Classes), NEW s \in Seq(Classes), Continues(s, w), NEW j \in 1 .. Len(w)
    PROVE  /\ Stray(w, j) => Stray(s, j)
           /\ Stray(s, j) => Stray(w, j) \/ Open(w, j)
<1> DEFINE m == Len(w)
<1>1. /\ m \in Nat /\ Len(s) \in Nat /\ m <= Len(s) /\ DOMAIN w = 1 .. m /\ DOMAIN s = 1 .. Len(s)
      /\ \A k \in 1 .. m : s[k] = w[k]
  BY DEF Continues
<1>2. \A c : At(w, j, c) <=> At(s, j, c)
  BY <1>1 DEF At
<1>3. \A c : At(w, j - 1, c) <=> At(s, j - 1, c)
  BY <1>1 DEF At
<1>4. \A c : j + 1 \in 1 .. m => (At(w, j + 1, c) <=> At(s, j + 1, c))
  BY <1>1 DEF At
<1>5. \A c : j + 2 \in 1 .. m => (At(w, j + 2, c) <=> At(s, j + 2, c))
  BY <1>1 DEF At
<1>6. (MayGoOn(s, j) <=> MayGoOn(w, j)) /\ (MayGoOn(s, j - 1) <=> MayGoOn(w, j - 1))
  BY <1>1, MayGoOnStays
<1>7. \A c : (At(w, j + 1, c) => At(s, j + 1, c)) /\ (At(w, j + 2, c) => At(s, j + 2, c))
  BY <1>1 DEF At
<1>8. Stray(w, j) => Stray(s, j)
  BY <1>2, <1>3, <1>6, <1>7 DEF Stray
<1>9. CASE j <= m - 2
  <2>1. j + 1 \in 1 .. m /\ j + 2 \in 1 .. m
    BY <1>1, <1>9
  <2> QED
    BY <1>2, <1>3, <1>4, <1>5, <1>6, <1>8, <2>1 DEF Stray
<1>10. CASE j = m - 1
  <2>1. j + 1 \in 1 .. m /\ j + 1 = m /\ m >= 2
    BY <1>1, <1>10
  <2>2. ASSUME At(s, j, "cr"), At(s, j + 1, "lf"), MayGoOn(s, j) PROVE Open(w, j)
    <3>1. w[j] = "cr" /\ w[m] = "lf" /\ MayGoOn(w, m - 1) /\ w[m - 1] = "cr"
      BY <1>2, <1>4, <1>6, <1>10, <2>1, <2>2 DEF At
    <3> QED
      BY <1>10, <2>1, <3>1 DEF Open
  <2> QED
    BY <1>2, <1>3, <1>4, <1>6, <1>8, <2>1, <2>2 DEF Stray
<1>11. CASE j = m
  <2>1. m >= 1 /\ j \in 1 .. m
    BY <1>1, <1>11
  <2>2. ASSUME At(s, j, "lf") \/ At(s, j, "cr"), MayGoOn(s, j) PROVE Open(w, j)
    <3>1. w[m] \in {"cr", "lf"} /\ MayGoOn(w, m)
      BY <1>2, <1>6, <1>11, <2>1, <2>2 DEF At
    <3> QED
      BY <1>11, <2>1, <3>1 DEF Open
  <2>3. ASSUME At(s, j, "lf"), At(s, j - 1, "cr"), MayGoOn(s, j - 1) PROVE Open(w, j)
    <3>1. m >= 2 /\ w[m] = "lf" /\ w[m - 1] = "cr" /\ MayGoOn(w, m - 1)
      BY <1>1, <1>2, <1>3, <1>6, <1>11, <2>1, <2>3 DEF At
    <3> QED
      BY <1>11, <2>1, <3>1 DEF Open
  <2> QED
    BY <1>8, <2>2, <2>3 DEF Stray
<1>12. j <= m - 2 \/ j = m - 1 \/ j = m
  <2>1. m \in Nat /\ j \in 1 .. m
    BY <1>1
  <2> HIDE DEF m
  <2> QED
    BY <2>1
<1> QED
  BY <1>9, <1>10, <1>11, <1>12

(* One byte more, and the ends of line it makes stray.                      *)
LEMMA StrayAppend ==
    ASSUME NEW w \in Seq(Classes), NEW x \in Classes
    PROVE  LET m == Len(w)
               v == Append(w, x)
           IN  /\ v \in Seq(Classes) /\ Continues(v, w) /\ Len(v) = m + 1 /\ v[m + 1] = x
               /\ \A j \in 1 .. m : v[j] = w[j]
               /\ ~Stray(v, m + 1)
               /\ \A j \in 1 .. m : Stray(w, j) => Stray(v, j)
               /\ \A j \in 1 .. m : Stray(v, j) => Stray(w, j) \/ (x = "cont" /\ w[m] = "lf" /\ Open(w, j))
               /\ \A j \in 1 .. m : x = "cont" /\ w[m] = "lf" /\ Open(w, j) => Stray(v, j)
<1> DEFINE m == Len(w)
           v == Append(w, x)
<1>1. /\ m \in Nat /\ v \in Seq(Classes) /\ Len(v) = m + 1 /\ v[m + 1] = x /\ \A j \in 1 .. m : v[j] = w[j]
      /\ DOMAIN v = 1 .. m + 1
  OBVIOUS
<1> HIDE DEF v, m
<1>2. Continues(v, w)
  BY <1>1 DEF Continues, m
<1>3. ~Stray(v, m + 1)
  BY <1>1 DEF Stray, At
<1>4. ASSUME NEW j \in 1 .. m PROVE Stray(w, j) => Stray(v, j)
  BY <1>1, <1>2, StrayStays DEF m
<1>5. ASSUME NEW j \in 1 .. m, Stray(v, j)
      PROVE  Stray(w, j) \/ (x = "cont" /\ w[m] = "lf" /\ Open(w, j))
  <2> SUFFICES ASSUME ~Stray(w, j) PROVE x = "cont" /\ w[m] = "lf" /\ Open(w, j)
    OBVIOUS
  <2>1. Open(w, j)
    BY <1>1, <1>2, <1>5, StrayStays DEF m
  <2>2. j = m \/ (j = m - 1 /\ m >= 2 /\ w[m] = "lf" /\ w[m - 1] = "cr")
    BY <2>1 DEF Open, m
  <2>3. ASSUME j = m PROVE x = "cont" /\ w[m] = "lf"
    <3>1. v[j] = w[m] /\ v[j + 1] = x
      BY <1>1, <2>3
    <3>2. ~At(v, j + 2, "cont")
      BY <1>1, <2>3 DEF At
    <3>3. At(v, j, "lf") /\ At(v, j + 1, "cont")
      BY <1>5, <3>2 DEF Stray
    <3> QED
      BY <3>1, <3>3 DEF At
  <2>4. ASSUME j = m - 1, m >= 2, w[m] = "lf", w[m - 1] = "cr" PROVE x = "cont"
    <3>1. v[j] = "cr" /\ j + 2 = m + 1
      BY <1>1, <2>4
    <3>2. At(v, j + 2, "cont")
      BY <1>5, <3>1 DEF Stray, At
    <3> QED
      BY <1>1, <3>1, <3>2 DEF At
  <2> QED
    BY <2>1, <2>2, <2>3, <2>4
<1>6. ASSUME NEW j \in 1 .. m, x = "cont", w[m] = "lf", Open(w, j) PROVE Stray(v, j)
  <2>1. At(v, m, "lf") /\ At(v, m + 1, "cont")
    BY <1>1, <1>6 DEF At
  <2>2. MayGoOn(v, m) <=> MayGoOn(w, m)
    BY <1>1, <1>2, MayGoOnStays DEF m
  <2>3. MayGoOn(v, m - 1) <=> MayGoOn(w, m - 1)
    BY <1>1, <1>2, MayGoOnStays DEF m
  <2>4. CASE j = m /\ MayGoOn(w, m)
    BY <2>1, <2>2, <2>4 DEF Stray
  <2>5. CASE j \in {m - 1, m} /\ m >= 2 /\ w[m - 1] = "cr" /\ MayGoOn(w, m - 1)
    <3>1. At(v, m - 1, "cr") /\ (m - 1) + 1 = m /\ (m - 1) + 2 = m + 1
      BY <1>1, <2>5 DEF At
    <3> QED
      BY <2>1, <2>3, <2>5, <3>1 DEF Stray
  <2> QED
    BY <1>6, <2>4, <2>5 DEF Open, m
<1> QED
  BY <1>1, <1>2, <1>3, <1>4, <1>5, <1>6 DEF m, v

(* No character may go on at the end of w, nor before an end of line        *)
(* there.                                                                   *)
Settled(w) ==
    LET m == Len(w)
    IN  /\ ~MayGoOn(w, m + 1)
        /\ ~(m >= 1 /\ w[m] \in {"cr", "lf"} /\ MayGoOn(w, m))
        /\ ~(m >= 2 /\ w[m] = "lf" /\ w[m - 1] = "cr" /\ MayGoOn(w, m - 1))

LEMMA SettledClosed ==
    ASSUME NEW w \in Seq(Classes), Settled(w), NEW j
    PROVE  ~Open(w, j)
BY DEF Settled, Open

(* When one byte more is settled.                                           *)
LEMMA SettledIf ==
    ASSUME NEW w \in Seq(Classes), NEW x \in Classes, x # "lead",
           x = "cont" => ~MayGoOn(w, Len(w) + 1) \/
                         (Len(w) >= 3 /\ w[Len(w)] = "cont" /\ w[Len(w) - 1] = "cont" /\ w[Len(w) - 2] = "lead"),
           x \in {"cr", "lf"} => ~MayGoOn(w, Len(w) + 1),
           x = "lf" /\ Len(w) >= 1 /\ w[Len(w)] = "cr" => ~MayGoOn(w, Len(w))
    PROVE  Settled(Append(w, x))
<1> DEFINE m == Len(w)
           v == Append(w, x)
<1>1. /\ m \in Nat /\ v \in Seq(Classes) /\ Len(v) = m + 1 /\ v[m + 1] = x /\ \A j \in 1 .. m : v[j] = w[j]
      /\ Continues(v, w)
  BY StrayAppend
<1>2. /\ MayGoOn(v, m + 1) <=> MayGoOn(w, m + 1)
      /\ MayGoOn(v, m) <=> MayGoOn(w, m)
  <2>1. m + 1 \in Int /\ m \in Int /\ m + 1 <= Len(w) + 1 /\ m <= Len(w) + 1
    BY <1>1
  <2>2. Continues(v, w) /\ v \in Seq(Classes)
    BY <1>1
  <2> HIDE DEF v, m
  <2> QED
    BY <2>1, <2>2, MayGoOnStays
<1> HIDE DEF v
<1>3. ~MayGoOn(v, m + 2)
  <2>1. ~(v[m + 1] = "lead") /\ (m + 2) - 1 = m + 1 /\ (m + 2) - 2 = m /\ (m + 2) - 3 = m - 1
    BY <1>1
  <2>2. SUFFICES ASSUME MayGoOn(v, m + 2) PROVE FALSE
    OBVIOUS
  <2>3. \/ m + 2 >= 3 /\ v[m] = "lead" /\ v[m + 1] = "cont"
        \/ m + 2 >= 4 /\ v[m - 1] = "lead" /\ v[m] = "cont" /\ v[m + 1] = "cont"
    BY <1>1, <2>1, <2>2, MayGoOnIs
  <2>4. \/ m >= 1 /\ w[m] = "lead" /\ x = "cont"
        \/ m >= 2 /\ w[m - 1] = "lead" /\ w[m] = "cont" /\ x = "cont"
    BY <1>1, <2>3
  <2>5. MayGoOn(w, m + 1)
    <3>1. (m + 1) - 1 = m /\ (m + 1) - 2 = m - 1
      BY <1>1
    <3> QED
      BY <1>1, <2>4, <3>1, MayGoOnIs
  <2> QED
    BY <2>4, <2>5
<1>4. (m + 1) + 1 = m + 2 /\ (m + 1) - 1 = m /\ (m + 1 >= 2 => m >= 1)
  BY <1>1
<1>5. ~(v[m + 1] \in {"cr", "lf"} /\ MayGoOn(v, m + 1))
  BY <1>1, <1>2
<1>6. ~(m + 1 >= 2 /\ v[m + 1] = "lf" /\ v[m] = "cr" /\ MayGoOn(v, m))
  BY <1>1, <1>2, <1>4
<1> QED
  BY <1>1, <1>3, <1>4, <1>5, <1>6 DEF Settled, v

(* What is settled stays so until a lead byte.                              *)
LEMMA SettledAppend ==
    ASSUME NEW w \in Seq(Classes), NEW x \in Classes, x # "lead", Settled(w)
    PROVE  Settled(Append(w, x))
<1>1. ~MayGoOn(w, Len(w) + 1) /\ (Len(w) >= 1 /\ w[Len(w)] = "cr" => ~MayGoOn(w, Len(w)))
  BY DEF Settled
<1> QED
  BY <1>1, SettledIf
-----------------------------------------------------------------------------
(* How far cycle has come: the bytes of the input it is done with.          *)
Looked ==
    IF pc = "cycle" \/ (pc = "release" /\ state = "ReleaseRestart") THEN taken - (n - i)
    ELSE IF pc = "release" THEN (taken - (n - i)) + 1
    ELSE taken

Sent  == Range(delivered)
InOwn == { own[k] : k \in cco .. pco - 1 }

(* r is what cycle has looked at and some state has handled, in order.      *)
Looking(r) ==
    /\ r \in Seq(Nat) /\ Rising(r)
    /\ Range(r) = (1 .. Looked) \ dropped
    /\ dropped \subseteq 1 .. Looked

(* What is out, and what is held behind it, rises.                          *)
Sorted ==
    /\ Rising(delivered)
    /\ \A a, b \in cco .. pco - 1 : a < b => own[a] < own[b]
    /\ \A x \in Sent, y \in InOwn : x < y

KeptOf(r) == { r[j] : j \in Kept(Text(r)) }

(* What is out or held is all of r but the stray ends of line in it.        *)
Passed(r) == KeptOf(r) = Sent \union InOwn

(* A lead byte and k - 1 continuation bytes behind the first h of w.        *)
Leading(w, h, k) == w[h + 1] = "lead" /\ \A j \in 2 .. k : w[h + j] = "cont"

(* own is the end of r: the bytes of a character, and its end of line.      *)
HeldLast(r, h) ==
    /\ h \in Nat /\ Len(r) = h + pco
    /\ \A k \in 0 .. pco - 1 : own[k] = r[h + (k + 1)]

Holding(w, h) ==
    /\ state = "Start" => Leading(w, h, pco)
    /\ state \in {"0D", "0A"} => Leading(w, h, pos)
    /\ state = "0D" => w[h + pos + 1] = "cr"
    /\ state = "0A" /\ pco = pos + 1 => w[h + pos + 1] = "lf"
    /\ state = "0A" /\ pco = pos + 2 => w[h + pos + 1] = "cr" /\ w[h + pos + 2] = "lf"

Ending(r) ==
    /\ state \in {"Normal", "Release", "10XXXXXX"} /\ pc \notin {"done", "panic"} => Settled(Text(r))
    /\ state \in {"Start", "0D", "0A"} => HeldLast(r, Len(r) - pco) /\ Holding(Text(r), Len(r) - pco)

(* A last slice with room for own has got all there is to get.              *)
Finished(r) ==
    pc = "done" /\ max >= OwnSize =>
        Sent = { r[j] : j \in { j \in Kept(Text(r)) : ~EofTail(Text(r), j) } }

Account(r) == Looking(r) /\ Sorted /\ Passed(r) /\ Ending(r) /\ Finished(r)

(* The end of the source, and where a call is in it.                        *)
Where ==
    /\ err => taken = Len(input)
    /\ pc \in {"drain", "done", "panic"} => err
    /\ pc \in {"cycle", "release"} /\ i < n => base + n = taken
    /\ pc = "drain" => count = cco /\ (state = "Start" => pco > 1)
    /\ state = "ReleaseRestart" =>
           pc = "release" /\ last = Looked + 1 /\ last <= Len(input) /\ input[last] = "lead"

(* A lead byte and its cont bytes so far are a character that may go on.    *)
LEMMA LeadingMayGoOn ==
    ASSUME NEW w, NEW h \in Nat, NEW k \in 1 .. 3, Leading(w, h, k)
    PROVE  MayGoOn(w, h + k + 1)
<1>1. w[h + 1] = "lead" /\ (k >= 2 => w[h + 2] = "cont") /\ (k >= 3 => w[h + 3] = "cont")
  BY DEF Leading
<1>2. k = 1 \/ k = 2 \/ k = 3
  OBVIOUS
<1>3. CASE k = 1
  <2>1. (h + k + 1) - 1 = h + 1 /\ h + k + 1 >= 2 /\ h + k + 1 \in Int
    BY <1>3
  <2> QED
    BY <1>1, <2>1, MayGoOnIs
<1>4. CASE k = 2
  <2>1. (h + k + 1) - 1 = h + 2 /\ (h + k + 1) - 2 = h + 1 /\ h + k + 1 >= 3 /\ h + k + 1 \in Int
    BY <1>4
  <2> QED
    BY <1>1, <1>4, <2>1, MayGoOnIs
<1>5. CASE k = 3
  <2>1. /\ (h + k + 1) - 1 = h + 3 /\ (h + k + 1) - 2 = h + 2 /\ (h + k + 1) - 3 = h + 1
        /\ h + k + 1 >= 4 /\ h + k + 1 \in Int
    BY <1>5
  <2> QED
    BY <1>1, <1>5, <2>1, MayGoOnIs
<1> QED
  BY <1>2, <1>3, <1>4, <1>5

(* One byte more is one more at the end of the text.                        *)
LEMMA TextAppend ==
    ASSUME input \in Seq(Classes), NEW r \in Seq(1 .. Len(input)), NEW b \in 1 .. Len(input)
    PROVE  /\ Text(r) \in Seq(Classes) /\ Len(Text(r)) = Len(r)
           /\ \A j \in 1 .. Len(r) : Text(r)[j] = input[r[j]]
           /\ Append(r, b) \in Seq(1 .. Len(input))
           /\ Text(Append(r, b)) = Append(Text(r), input[b])
<1>1. Text(r) \in Seq(Classes) /\ Len(Text(r)) = Len(r)
  BY DEF Text
<1>2. Append(r, b) \in Seq(1 .. Len(input)) /\ DOMAIN Append(r, b) = 1 .. Len(r) + 1
  OBVIOUS
<1>3. \A j \in 1 .. Len(r) : Text(r)[j] = input[r[j]]
  BY DEF Text
<1>4. Text(Append(r, b)) \in Seq(Classes) /\ Len(Text(Append(r, b))) = Len(r) + 1
  BY <1>2 DEF Text
<1>5. \A j \in 1 .. Len(r) + 1 : Text(Append(r, b))[j] = Append(Text(r), input[b])[j]
  BY <1>1, <1>2, <1>3 DEF Text
<1>6. Append(Text(r), input[b]) \in Seq(Classes) /\ Len(Append(Text(r), input[b])) = Len(r) + 1
  BY <1>1
<1> QED
  BY <1>1, <1>2, <1>3, <1>4, <1>5, <1>6

(* A byte looked at and handled is the next of r.                           *)
LEMMA LookOn ==
    ASSUME NEW r, Looking(r), Looked \in Nat, NEW b, b = Looked + 1, Looked' = b, dropped' = dropped
    PROVE  Looking(Append(r, b))'
<1> DEFINE u == Append(r, b)
<1>1. r \in Seq(Nat) /\ b \in Nat /\ Range(r) = (1 .. Looked) \ dropped /\ dropped \subseteq 1 .. Looked
  BY DEF Looking
<1>2. /\ u \in Seq(Nat) /\ Len(u) = Len(r) + 1 /\ u[Len(r) + 1] = b /\ \A j \in 1 .. Len(r) : u[j] = r[j]
      /\ Len(r) \in Nat /\ DOMAIN u = 1 .. Len(r) + 1 /\ DOMAIN r = 1 .. Len(r)
  BY <1>1
<1>3. \A j \in 1 .. Len(r) : r[j] \in Nat /\ r[j] < b
  <2> SUFFICES ASSUME NEW j \in 1 .. Len(r) PROVE r[j] \in Nat /\ r[j] < b
    OBVIOUS
  <2>1. r[j] \in 1 .. Looked
    BY <1>1, <1>2 DEF Range
  <2> QED
    BY <2>1
<1>4. \A a, c \in 1 .. Len(r) : a < c => r[a] < r[c]
  BY <1>2 DEF Looking, Rising
<1> HIDE DEF u
<1>5. Rising(u)
  <2> SUFFICES ASSUME NEW a \in 1 .. Len(r) + 1, NEW c \in 1 .. Len(r) + 1, a < c PROVE u[a] < u[c]
    BY <1>2 DEF Rising
  <2>1. a \in 1 .. Len(r) /\ (c \in 1 .. Len(r) \/ c = Len(r) + 1)
    BY <1>2
  <2> QED
    BY <1>2, <1>3, <1>4, <2>1
<1>6. Range(u) = Range(r) \union {b}
  <2>1. 1 .. Len(r) + 1 = (1 .. Len(r)) \union {Len(r) + 1}
    BY <1>2
  <2>2. Range(u) = { u[a] : a \in (1 .. Len(r)) \union {Len(r) + 1} }
    BY <1>2, <2>1 DEF Range
  <2>3. Range(r) = { r[a] : a \in 1 .. Len(r) }
    BY <1>2 DEF Range
  <2> QED
    BY <1>2, <2>2, <2>3
<1>7. (1 .. b) \ dropped = ((1 .. Looked) \ dropped) \union {b}
  BY <1>1
<1>8. Range(u) = (1 .. b) \ dropped /\ dropped \subseteq 1 .. b
  BY <1>1, <1>6, <1>7
<1>9. Range(u) = (1 .. Looked') \ dropped' /\ dropped' \subseteq 1 .. Looked'
  BY <1>8
<1>10. Looking(u)'
  BY <1>2, <1>5, <1>9 DEF Looking
<1> QED
  BY <1>10 DEF u

(* It is kept for now, and so is what was kept, if it opens no line end.    *)
LEMMA KeptAppend ==
    ASSUME input \in Seq(Classes), NEW r \in Seq(1 .. Len(input)), NEW b \in 1 .. Len(input),
           input[b] = "cont" => \A j \in 1 .. Len(r) : ~(input[r[Len(r)]] = "lf" /\ Open(Text(r), j))
    PROVE  KeptOf(Append(r, b)) = KeptOf(r) \union {b}
<1> DEFINE w == Text(r)
           u == Append(r, b)
           v == Text(u)
           x == input[b]
           m == Len(r)
<1>1. /\ w \in Seq(Classes) /\ Len(w) = m /\ m \in Nat /\ x \in Classes /\ v = Append(w, x)
      /\ \A j \in 1 .. m : w[j] = input[r[j]]
  BY TextAppend
<1>2. Len(u) = m + 1 /\ u[m + 1] = b /\ \A j \in 1 .. m : u[j] = r[j]
  OBVIOUS
<1>3. /\ ~Stray(v, m + 1)
      /\ \A j \in 1 .. m : Stray(w, j) <=> Stray(v, j)
      /\ DOMAIN v = 1 .. m + 1 /\ DOMAIN w = 1 .. m
  <2>1. \A j \in 1 .. m : ~(x = "cont" /\ w[m] = "lf" /\ Open(w, j))
    BY SMTT(30), <1>1
  <2>2. v \in Seq(Classes) /\ Len(v) = m + 1
    BY <1>1
  <2> HIDE DEF m, w, v, x
  <2> QED
    BY <1>1, <2>1, <2>2, StrayAppend
<1> HIDE DEF w, v, u, m, x
<1>4. Kept(v) = Kept(w) \union {m + 1} /\ Kept(w) \subseteq 1 .. m
  BY <1>1, <1>3 DEF Kept
<1>5. KeptOf(u) = { u[j] : j \in Kept(w) \union {m + 1} } /\ KeptOf(r) = { r[j] : j \in Kept(w) }
  BY <1>4 DEF KeptOf, v, w
<1>6. KeptOf(u) = KeptOf(r) \union {b}
  BY <1>2, <1>4, <1>5
<1> QED
  BY <1>6 DEF u

(* Where the end of line inside a character is over, a continuation byte    *)
(* takes its place: all of r behind the first g of them is stray.           *)
LEMMA KeptCorrected ==
    ASSUME input \in Seq(Classes), NEW r \in Seq(1 .. Len(input)), NEW b \in 1 .. Len(input),
           Rising(r), input[b] = "cont", NEW g \in Nat, g < Len(r), input[r[Len(r)]] = "lf",
           \A j \in 1 .. Len(r) : Open(Text(r), j) <=> j > g
    PROVE  KeptOf(Append(r, b)) = (KeptOf(r) \ { r[j] : j \in g + 1 .. Len(r) }) \union {b}
<1> DEFINE w == Text(r)
           u == Append(r, b)
           v == Text(u)
           x == input[b]
           m == Len(r)
<1>1. /\ w \in Seq(Classes) /\ Len(w) = m /\ m \in Nat /\ x \in Classes /\ v = Append(w, x)
      /\ \A j \in 1 .. m : w[j] = input[r[j]]
  BY TextAppend
<1>2. /\ Len(u) = m + 1 /\ u[m + 1] = b /\ \A j \in 1 .. m : u[j] = r[j]
      /\ \A j, k \in 1 .. m : r[j] = r[k] => j = k
  <2>1. \A j \in 1 .. m : r[j] \in Nat
    OBVIOUS
  <2>2. \A j, k \in 1 .. m : j < k => r[j] < r[k]
    BY DEF Rising
  <2>3. \A j, k \in 1 .. m : r[j] = r[k] => j = k
    BY <1>1, <2>1, <2>2
  <2> QED
    BY <2>3
<1>a. m \in 1 .. m
  BY <1>1
<1>3. /\ ~Stray(v, m + 1)
      /\ \A j \in 1 .. m : Stray(v, j) <=> Stray(w, j) \/ j > g
      /\ DOMAIN v = 1 .. m + 1 /\ DOMAIN w = 1 .. m
  <2>1. (\A j \in 1 .. m : Open(w, j) <=> j > g) /\ x = "cont" /\ w[m] = "lf"
    BY <1>1, <1>a
  <2>2. v \in Seq(Classes) /\ Len(v) = m + 1
    BY SMTT(30), <1>1
  <2> HIDE DEF m, w, v, x
  <2>3. /\ ~Stray(v, m + 1)
        /\ \A j \in 1 .. m : Stray(w, j) => Stray(v, j)
        /\ \A j \in 1 .. m : Stray(v, j) => Stray(w, j) \/ Open(w, j)
        /\ \A j \in 1 .. m : Open(w, j) => Stray(v, j)
    BY <1>1, <2>1, StrayAppend
  <2> QED
    BY <1>1, <2>1, <2>2, <2>3
<1> HIDE DEF w, v, u, m, x
<1>4. Kept(v) = (Kept(w) \ (g + 1 .. m)) \union {m + 1} /\ Kept(w) \subseteq 1 .. m
  BY <1>1, <1>3 DEF Kept
<1>5. KeptOf(u) = { u[j] : j \in Kept(v) } /\ KeptOf(r) = { r[j] : j \in Kept(w) }
  BY DEF KeptOf, v, w
<1>6. KeptOf(u) = { r[j] : j \in Kept(w) \ (g + 1 .. m) } \union {b}
  <2> DEFINE K == Kept(w) \ (g + 1 .. m)
  <2>1. K \subseteq 1 .. m /\ KeptOf(u) = { u[j] : j \in K \union {m + 1} }
    BY <1>4, <1>5
  <2> HIDE DEF K
  <2>2. \A j \in K : u[j] = r[j]
    BY <1>2, <2>1
  <2>3. KeptOf(u) = { u[j] : j \in K } \union {u[m + 1]}
    BY <2>1
  <2>4. { u[j] : j \in K } = { r[j] : j \in K }
    BY ZenonT(30), <2>2
  <2>5. KeptOf(u) = { r[j] : j \in K } \union {b}
    BY <1>2, <2>3, <2>4
  <2> QED
    BY <2>5 DEF K
<1>7. g + 1 .. m \subseteq 1 .. m
  BY <1>1
<1>8. { r[j] : j \in Kept(w) \ (g + 1 .. m) } = KeptOf(r) \ { r[j] : j \in g + 1 .. m }
  BY SMTT(30), <1>2, <1>4, <1>5, <1>7
<1> QED
  BY <1>6, <1>8 DEF u, m

(* Where the last character may not go on there is no tail to hold back.    *)
LEMMA NoTail ==
    ASSUME NEW w \in Seq(Classes), NEW j \in 1 .. Len(w),
           w[Len(w)] # "lead", w[Len(w)] \in {"cr", "lf"} => Settled(w)
    PROVE  ~EofTail(w, j)
<1> DEFINE e == Len(w)
<1>1. e \in Nat /\ e >= 1 /\ DOMAIN w = 1 .. e
  OBVIOUS
<1>2. Settled(w) => /\ ~(w[e] \in {"cr", "lf"} /\ MayGoOn(w, e))
                    /\ ~(w[e] = "lf" /\ At(w, e - 1, "cr") /\ MayGoOn(w, e - 1))
  BY <1>1 DEF Settled, At
<1> HIDE DEF e
<1>3. w[e] # "lead" /\ (w[e] \in {"cr", "lf"} => Settled(w))
  BY DEF e
<1> QED
  BY <1>2, <1>3 DEF EofTail, e

LEMMA SettledNoTail ==
    ASSUME NEW w \in Seq(Classes), NEW j \in 1 .. Len(w), Settled(w)
    PROVE  ~EofTail(w, j)
<1>1. Len(w) + 1 \in Int /\ Len(w) + 1 >= 2 /\ (Len(w) + 1) - 1 = Len(w)
  OBVIOUS
<1>2. w[Len(w)] # "lead"
  BY <1>1, MayGoOnIs DEF Settled
<1> QED
  BY <1>2, NoTail

(* What is held of a lone lead byte, or with an end of line behind it, is   *)
(* the tail.                                                                *)
LEMMA TailIs ==
    ASSUME NEW w \in Seq(Classes), NEW h \in Nat, h < Len(w), w[h + 1] = "lead",
           \A l \in h + 2 .. Len(w) : w[l] # "lead",
           \/ h + 1 = Len(w)
           \/ w[Len(w)] \in {"cr", "lf"} /\ MayGoOn(w, Len(w))
           \/ Len(w) >= 2 /\ w[Len(w)] = "lf" /\ w[Len(w) - 1] = "cr" /\ MayGoOn(w, Len(w) - 1),
           NEW j \in 1 .. Len(w)
    PROVE  EofTail(w, j) <=> j > h
<1> DEFINE e == Len(w)
           T(t) == w[t] = "lead" /\ \A l \in t + 1 .. e : w[l] # "lead"
           C(t) == \/ t = e
                   \/ w[e] \in {"cr", "lf"} /\ MayGoOn(w, e)
                   \/ w[e] = "lf" /\ At(w, e - 1, "cr") /\ MayGoOn(w, e - 1)
<1>1. e \in Nat /\ h < e /\ j \in Nat /\ 1 <= j /\ j <= e /\ DOMAIN w = 1 .. e
  OBVIOUS
<1>2. T(h + 1)
  <2>1. (h + 1) + 1 = h + 2
    OBVIOUS
  <2> QED
    BY <2>1
<1>a. /\ h + 1 = e \/ (w[e] \in {"cr", "lf"} /\ MayGoOn(w, e))
            \/ (e >= 2 /\ w[e] = "lf" /\ w[e - 1] = "cr" /\ MayGoOn(w, e - 1))
  OBVIOUS
<1>4. EofTail(w, j) <=> \E t \in 1 .. j : T(t) /\ C(t)
  BY DEF EofTail
<1> HIDE DEF e
<1>b. e >= 2 => e - 1 \in 1 .. e
  BY <1>1
<1>c. e >= 2 /\ w[e - 1] = "cr" => At(w, e - 1, "cr")
  BY <1>1, <1>b DEF At
<1>3. C(h + 1)
  BY <1>a, <1>c
<1>5. ASSUME j > h PROVE \E t \in 1 .. j : T(t) /\ C(t)
  <2>1. h + 1 \in 1 .. j
    BY <1>1, <1>5
  <2> HIDE DEF T, C
  <2> QED
    BY <1>2, <1>3, <2>1
<1>6. ASSUME NEW t \in 1 .. j, T(t) PROVE j > h
  <2>1. CASE t >= h + 1
    BY <1>1, <2>1
  <2>2. CASE t < h + 1
    <3>1. h + 1 \in t + 1 .. e
      BY <1>1, <2>2
    <3> QED
      BY <1>2, <1>6, <3>1
  <2>3. t \in Nat
    OBVIOUS
  <2> QED
    BY <2>1, <2>2, <2>3
<1> HIDE DEF T, C
<1> QED
  BY <1>4, <1>5, <1>6
-----------------------------------------------------------------------------
(* What is typed and where the next byte is.                                *)
LEMMA Bounds ==
    ASSUME IInv, Where
    PROVE  /\ input \in Seq(Classes) /\ Len(input) \in Nat /\ Looked \in 0 .. taken
           /\ taken \in Nat /\ taken <= Len(input)
           /\ pc = "cycle" /\ i < n => Byte = Looked + 1 /\ Byte \in 1 .. Len(input)
           /\ delivered \in Seq(Nat) /\ \A k \in 0 .. OwnSize - 1 : own[k] \in Nat
<1>1. input \in Seq(Classes) /\ Len(input) \in Nat
  BY DEF IInv, Data
<1>2. delivered \in Seq(Nat) /\ \A k \in 0 .. OwnSize - 1 : own[k] \in Nat
  <2>1. 0 .. Len(input) \subseteq Nat
    OBVIOUS
  <2> QED
    BY <2>1 DEF IInv, Data
<1>3. pc \in {"cycle", "release"} /\ i < n => base + n = taken
  BY DEF Where
<1>4. pc = "release" => i < n
  BY DEF IInv, Consumed
<1>5. /\ taken \in Nat /\ taken <= Len(input) /\ base \in Nat /\ i \in Nat /\ n \in Nat /\ i <= n
  BY <1>1 DEF IInv, Nums, Calls
<1>6. Looked \in 0 .. taken
  BY <1>3, <1>4, <1>5 DEF Looked
<1>7. pc = "cycle" /\ i < n => Byte = Looked + 1 /\ Byte \in 1 .. Len(input)
  BY <1>1, <1>3, <1>5 DEF Looked, Byte
<1> QED
  BY <1>1, <1>2, <1>5, <1>6, <1>7

LEMMA LookingBounds ==
    ASSUME IInv, Where, NEW r, Looking(r), Passed(r)
    PROVE  /\ r \in Seq(1 .. Len(input)) /\ Range(r) \subseteq 1 .. Looked
           /\ \A y \in Sent \union InOwn : y \in Nat /\ y <= Looked
<1>1. r \in Seq(Nat) /\ Range(r) \subseteq 1 .. Looked
  BY DEF Looking
<1>2. Looked \in Nat /\ Looked <= Len(input) /\ Len(input) \in Nat
  BY Bounds
<1>3. \A j \in 1 .. Len(r) : r[j] \in 1 .. Looked
  BY <1>1 DEF Range
<1>4. r \in Seq(1 .. Len(input))
  <2>1. \A j \in 1 .. Len(r) : r[j] \in 1 .. Len(input)
    BY <1>2, <1>3
  <2>2. r = [j \in 1 .. Len(r) |-> r[j]] /\ Len(r) \in Nat
    BY <1>1
  <2> QED
    BY <1>1, <2>1, <2>2
<1>5. KeptOf(r) \subseteq Range(r)
  BY <1>1 DEF KeptOf, Kept, Range, Text
<1>6. Sent \union InOwn \subseteq 1 .. Looked
  BY <1>1, <1>5 DEF Passed
<1> QED
  BY <1>1, <1>2, <1>4, <1>6

(* A step that neither takes nor gives a byte.                              *)
LEMMA Quiet ==
    ASSUME NEW r, Account(r), UNCHANGED <<input, dropped, delivered, own, cco, pco, state, pos>>,
           Looked' = Looked, pc \notin {"done", "panic"}, Finished(r)'
    PROVE  Account(r)'
<1>1. Looking(r)'
  BY DEF Account, Looking
<1>2. Sorted' /\ Sent' = Sent /\ InOwn' = InOwn
  BY DEF Account, Sorted, Sent, InOwn
<1>3. Text(r)' = Text(r) /\ KeptOf(r)' = KeptOf(r)
  BY DEF Text, KeptOf
<1>4. Passed(r)'
  BY <1>2, <1>3 DEF Account, Passed
<1>5. HeldLast(r, Len(r) - pco)' <=> HeldLast(r, Len(r) - pco)
  BY DEF HeldLast
<1>6. Holding(Text(r), Len(r) - pco)' <=> Holding(Text(r), Len(r) - pco)
  BY <1>3 DEF Holding
<1>7. Ending(r)'
  BY <1>3, <1>5, <1>6 DEF Account, Ending
<1> QED
  BY <1>1, <1>2, <1>4, <1>7 DEF Account

(* A byte that no state handles counts as not seen.                         *)
LEMMA UnhandledAccount ==
    ASSUME IInv, Where, NEW r, Account(r), Unhandled
    PROVE  Account(r)'
<1>1. /\ pc = "cycle" /\ i < n /\ state = "Release" /\ state' = state /\ pc' = "release" /\ i' = i
      /\ dropped' = dropped \union {Byte}
      /\ UNCHANGED <<input, taken, base, n, delivered, own, cco, pco, pos, max>>
  BY DEF Unhandled, InCycle, Turn, source, IInv, Shape
<1>2. Looked \in Nat /\ Byte = Looked + 1
  BY <1>1, Bounds
<1>3. Looked' = Looked + 1
  BY <1>1 DEF Looked
<1>4. Looking(r)'
  <2>1. dropped \subseteq 1 .. Looked /\ Range(r) = (1 .. Looked) \ dropped
    BY DEF Account, Looking
  <2>2. 1 .. Looked + 1 = (1 .. Looked) \union {Looked + 1} /\ Looked + 1 \notin 1 .. Looked
    BY <1>2
  <2>3. /\ Range(r) = (1 .. Looked + 1) \ (dropped \union {Looked + 1})
        /\ dropped \union {Looked + 1} \subseteq 1 .. Looked + 1
    BY <2>1, <2>2
  <2>4. Range(r) = (1 .. Looked') \ dropped' /\ dropped' \subseteq 1 .. Looked'
    BY <1>1, <1>2, <1>3, <2>3
  <2> QED
    BY <2>4 DEF Account, Looking
<1>5. Sorted' /\ Sent' = Sent /\ InOwn' = InOwn
  BY <1>1 DEF Account, Sorted, Sent, InOwn
<1>6. Text(r)' = Text(r) /\ KeptOf(r)' = KeptOf(r)
  BY <1>1 DEF Text, KeptOf
<1>7. Passed(r)'
  BY <1>5, <1>6 DEF Account, Passed
<1>8. Ending(r)'
  BY <1>1, <1>6 DEF Account, Ending
<1>9. Finished(r)'
  BY <1>1 DEF Finished
<1> QED
  BY <1>4, <1>5, <1>7, <1>8, <1>9 DEF Account

(* A byte that goes straight out.                                           *)
LEMMA PassAccount ==
    ASSUME IInv, Where, NEW r, Account(r), NEW b, b = Byte, Normal, Class # "lead"
    PROVE  Account(Append(r, b))'
<1>1. /\ pc = "cycle" /\ i < n /\ state = "Normal" /\ state' = state /\ delivered' = Append(delivered, b)
      /\ count' = count + 1
      /\ UNCHANGED <<input, taken, base, n, own, cco, pco, pos, max, dropped>>
      /\ \/ pc' = "idle" /\ i' = i /\ count' >= max
         \/ pc' = "cycle" /\ i' = i + 1
  BY DEF Normal, InCycle, Store, Suspend, source
<1>2. /\ input \in Seq(Classes) /\ Looked \in Nat /\ b = Looked + 1 /\ b \in 1 .. Len(input)
      /\ delivered \in Seq(Nat) /\ input[b] # "lead" /\ b \in Nat
  BY <1>1, Bounds DEF Class
<1>3. pco = 0 /\ InOwn = {} /\ pco' = 0 /\ InOwn' = {}
  BY <1>1 DEF IInv, Shape, Nums, InOwn
<1>4. Looked' = b
  <2>1. taken \in Nat /\ n \in Nat /\ i \in Nat /\ count \in Nat /\ max \in Nat /\ count + (n - i) <= max
    BY <1>1, <1>3 DEF IInv, Nums, Room, Held
  <2>2. pc' = "idle" => n = i + 1
    BY <1>1, <2>1
  <2> QED
    BY <1>1, <1>2, <2>1, <2>2 DEF Looked
<1> DEFINE u == Append(r, b)
<1>5. Looking(r) /\ Passed(r) /\ Sorted /\ Settled(Text(r))
  BY <1>1 DEF Account, Ending
<1>6. r \in Seq(1 .. Len(input)) /\ \A y \in Sent \union InOwn : y \in Nat /\ y <= Looked
  BY <1>5, LookingBounds
<1>7. Looking(u)'
  BY <1>1, <1>2, <1>4, <1>5, LookOn
<1>8. Text(r) \in Seq(Classes) /\ Text(u) = Append(Text(r), input[b]) /\ Text(u)' = Text(u)
  <2>1. Text(u)' = Text(u)
    BY <1>1 DEF Text
  <2> QED
    BY <1>2, <1>6, <2>1, TextAppend
<1>9. Settled(Text(u))
  <2>1. input[b] \in Classes
    BY <1>2
  <2> QED
    BY <1>2, <1>5, <1>8, <2>1, SettledAppend
<1>10. KeptOf(u) = KeptOf(r) \union {b} /\ KeptOf(u)' = KeptOf(u)
  <2>1. KeptOf(u)' = KeptOf(u)
    BY <1>1, <1>8 DEF KeptOf
  <2>2. \A j \in 1 .. Len(r) : ~Open(Text(r), j)
    BY <1>5, <1>8, SettledClosed
  <2> QED
    BY <1>2, <1>6, <2>1, <2>2, KeptAppend
<1> HIDE DEF u
<1> DEFINE d == Append(delivered, b)
<1>11. /\ d \in Seq(Nat) /\ Len(d) = Len(delivered) + 1 /\ d[Len(delivered) + 1] = b
       /\ \A k \in 1 .. Len(delivered) : d[k] = delivered[k]
       /\ DOMAIN d = 1 .. Len(delivered) + 1 /\ DOMAIN delivered = 1 .. Len(delivered) /\ Len(delivered) \in Nat
  BY <1>2
<1>12. Rising(d) /\ Range(d) = Sent \union {b}
  <2>1. \A k \in 1 .. Len(delivered) : delivered[k] \in Nat /\ delivered[k] < b
    <3> SUFFICES ASSUME NEW k \in 1 .. Len(delivered) PROVE delivered[k] \in Nat /\ delivered[k] < b
      OBVIOUS
    <3>1. delivered[k] \in Sent
      BY <1>11 DEF Sent, Range
    <3>2. delivered[k] \in Nat /\ delivered[k] <= Looked
      BY <1>6, <3>1
    <3> QED
      BY <1>2, <3>2
  <2>2. \A k, l \in 1 .. Len(delivered) : k < l => delivered[k] < delivered[l]
    BY <1>5, <1>11 DEF Sorted, Rising
  <2> HIDE DEF d
  <2>3. Rising(d)
    <3> SUFFICES ASSUME NEW k \in 1 .. Len(delivered) + 1, NEW l \in 1 .. Len(delivered) + 1, k < l
                 PROVE  d[k] < d[l]
      BY <1>11 DEF Rising
    <3>1. k \in 1 .. Len(delivered) /\ (l \in 1 .. Len(delivered) \/ l = Len(delivered) + 1)
      BY <1>11
    <3> QED
      BY <1>11, <2>1, <2>2, <3>1
  <2>4. Range(d) = { d[k] : k \in (1 .. Len(delivered)) \union {Len(delivered) + 1} }
    <3>1. 1 .. Len(delivered) + 1 = (1 .. Len(delivered)) \union {Len(delivered) + 1}
      BY <1>11
    <3> QED
      BY <1>11, <3>1 DEF Range
  <2>5. Sent = { delivered[k] : k \in 1 .. Len(delivered) }
    BY <1>11 DEF Sent, Range
  <2> QED
    BY <1>11, <2>3, <2>4, <2>5
<1>13. delivered' = d /\ Sent' = Sent \union {b}
  BY <1>1, <1>12 DEF Sent
<1>14. Sorted'
  <2>1. cco' .. pco' - 1 = {}
    BY <1>1, <1>3 DEF IInv, Nums
  <2> QED
    BY <1>3, <1>12, <1>13, <2>1 DEF Sorted
<1>15. Passed(u)'
  BY <1>3, <1>5, <1>10, <1>13 DEF Passed
<1>16. Ending(u)' /\ Finished(u)'
  BY <1>1, <1>8, <1>9 DEF Ending, Finished
<1> QED
  BY <1>7, <1>14, <1>15, <1>16 DEF Account, u

(* A lead byte begins to be held.                                           *)
LEMMA BeginAccount ==
    ASSUME IInv, Where, NEW r, Account(r), NEW b, b = Looked + 1, b <= Len(input), input[b] = "lead",
           cco = pco, own' = [own EXCEPT ![0] = b], cco' = 0, pco' = 1, state' = "Start", pc' = "cycle",
           Looked' = b, UNCHANGED <<input, dropped, delivered>>
    PROVE  Account(Append(r, b))'
<1> DEFINE u == Append(r, b)
<1>1. Looking(r) /\ Passed(r) /\ Sorted
  BY DEF Account
<1>2. /\ input \in Seq(Classes) /\ Looked \in Nat /\ b \in 1 .. Len(input) /\ b \in Nat
      /\ own \in [0 .. OwnSize - 1 -> 0 .. Len(input)] /\ pco \in 0 .. OwnSize
  <2>1. pco \in 0 .. OwnSize
    BY DEF IInv, Nums
  <2>2. own \in [0 .. OwnSize - 1 -> 0 .. Len(input)]
    BY DEF IInv, Data
  <2> QED
    BY <2>1, <2>2, Bounds
<1>3. r \in Seq(1 .. Len(input)) /\ \A y \in Sent \union InOwn : y \in Nat /\ y <= Looked
  BY <1>1, LookingBounds
<1>4. Looking(u)'
  BY <1>1, <1>2, LookOn
<1>5. /\ Text(r) \in Seq(Classes) /\ Len(Text(r)) = Len(r)
      /\ Text(u) = Append(Text(r), input[b]) /\ Text(u)' = Text(u)
  <2>1. Text(u)' = Text(u)
    BY DEF Text
  <2> QED
    BY <1>2, <1>3, <2>1, TextAppend
<1>6. KeptOf(u) = KeptOf(r) \union {b} /\ KeptOf(u)' = KeptOf(u)
  <2>1. KeptOf(u)' = KeptOf(u)
    BY <1>5 DEF KeptOf
  <2> QED
    BY <1>2, <1>3, <2>1, KeptAppend
<1>7. InOwn = {} /\ InOwn' = {b} /\ own'[0] = b
  <2>1. own'[0] = b
    BY <1>2 DEF OwnSize
  <2>2. cco .. pco - 1 = {} /\ cco' .. pco' - 1 = {0}
    BY <1>2
  <2> QED
    BY <2>1, <2>2 DEF InOwn
<1>8. Sent' = Sent
  BY DEF Sent
<1>9. Sorted'
  <2>1. \A a, c \in cco' .. pco' - 1 : ~(a < c)
    OBVIOUS
  <2>2. \A x \in Sent, y \in {b} : x < y
    BY <1>2, <1>3
  <2> QED
    BY <1>1, <1>7, <1>8, <2>1, <2>2 DEF Sorted
<1>10. Passed(u)'
  BY <1>1, <1>6, <1>7, <1>8 DEF Passed
<1>11. Ending(u)'
  <2>1. Len(u) = Len(r) + 1 /\ Len(r) \in Nat /\ Len(u) - pco' = Len(r) /\ u[Len(r) + 1] = b
    BY <1>3
  <2> HIDE DEF u
  <2>2. HeldLast(u, Len(u) - pco)'
    BY <1>7, <2>1 DEF HeldLast
  <2>3. Leading(Text(u), Len(r), 1)
    BY <1>5, <2>1 DEF Leading
  <2>4. Holding(Text(u), Len(u) - pco)'
    BY <1>5, <2>1, <2>3 DEF Holding
  <2> QED
    BY <2>2, <2>4 DEF Ending
<1>12. Finished(u)'
  BY DEF Finished
<1> QED
  BY <1>4, <1>9, <1>10, <1>11, <1>12 DEF Account
(* A lead byte that ends the character before it waits in last.             *)
LEMMA RestartAccount ==
    ASSUME IInv, Where, NEW r, Account(r), Restart, Turn, pc = "cycle", i < n,
           UNCHANGED <<input, taken, base, n, cco, delivered, dropped>>
    PROVE  Account(r)'
<1>1. state' = "ReleaseRestart" /\ pc' = "release" /\ i' = i /\ UNCHANGED <<own, pco, pos>>
  BY DEF Restart, Turn
<1>2. Looked' = Looked
  BY <1>1 DEF Looked
<1>3. Looking(r)'
  BY <1>2 DEF Account, Looking
<1>4. Sorted' /\ Sent' = Sent /\ InOwn' = InOwn
  BY <1>1 DEF Account, Sorted, Sent, InOwn
<1>5. Text(r)' = Text(r) /\ KeptOf(r)' = KeptOf(r)
  BY DEF Text, KeptOf
<1>6. Passed(r)'
  BY <1>4, <1>5 DEF Account, Passed
<1>7. Ending(r)' /\ Finished(r)'
  BY <1>1 DEF Ending, Finished
<1> QED
  BY <1>3, <1>4, <1>6, <1>7 DEF Account

(* One byte more is held.                                                   *)
HeldOne(b) ==
    /\ pc = "cycle" /\ i < n /\ cco = 0 /\ b = Byte
    /\ Hold(pco) /\ state' # "ReleaseRestart" /\ Turn
    /\ UNCHANGED <<input, taken, base, n, cco, delivered, dropped>>

LEMMA HeldOneAccount ==
    ASSUME IInv, Where, NEW r, Account(r), NEW b, HeldOne(b), pco < OwnSize,
           input[b] = "cont" => \A j \in 1 .. Len(r) : ~(input[r[Len(r)]] = "lf" /\ Open(Text(r), j))
    PROVE  /\ Looking(Append(r, b))' /\ Sorted' /\ Passed(Append(r, b))' /\ Finished(Append(r, b))'
           /\ Text(r) \in Seq(Classes) /\ Len(Text(r)) = Len(r) /\ Len(r) \in Nat
           /\ \A j \in 1 .. Len(r) : Text(r)[j] = input[r[j]]
           /\ input[b] \in Classes /\ Class = input[b]
           /\ Text(Append(r, b))' = Append(Text(r), input[b]) /\ Len(Append(r, b)) = Len(r) + 1
           /\ HeldLast(r, Len(r) - pco) => HeldLast(Append(r, b), (Len(r) + 1) - pco)'
           /\ pco' = pco + 1
<1> DEFINE u == Append(r, b)
<1>0. /\ pc = "cycle" /\ i < n /\ cco = 0 /\ b = Byte /\ own' = [own EXCEPT ![pco] = b] /\ pco' = pco + 1
      /\ UNCHANGED <<input, taken, base, n, cco, delivered, dropped>>
      /\ \/ pc' = "release" /\ state' = "Release" /\ i' = i
         \/ pc' = "cycle" /\ i' = i + 1
  BY DEF HeldOne, Hold, Turn
<1>1. Looking(r) /\ Passed(r) /\ Sorted
  BY DEF Account
<1>2. /\ input \in Seq(Classes) /\ Looked \in Nat /\ b = Looked + 1 /\ b \in 1 .. Len(input) /\ b \in Nat
      /\ pco \in 0 .. OwnSize - 1 /\ own \in [0 .. OwnSize - 1 -> 0 .. Len(input)]
  <2>1. pco \in 0 .. OwnSize - 1
    BY DEF IInv, Nums, OwnSize
  <2>2. own \in [0 .. OwnSize - 1 -> 0 .. Len(input)]
    BY DEF IInv, Data
  <2> QED
    BY <1>0, <2>1, <2>2, Bounds
<1>3. r \in Seq(1 .. Len(input)) /\ \A y \in Sent \union InOwn : y \in Nat /\ y <= Looked
  BY <1>1, LookingBounds
<1>4. Looked' = b
  <2>1. taken \in Nat /\ n \in Nat /\ i \in Nat
    BY DEF IInv, Nums
  <2> QED
    BY <1>0, <1>2, <2>1 DEF Looked
<1>5. Looking(u)'
  BY <1>0, <1>1, <1>2, <1>4, LookOn
<1>6. /\ Text(r) \in Seq(Classes) /\ Len(Text(r)) = Len(r) /\ \A j \in 1 .. Len(r) : Text(r)[j] = input[r[j]]
      /\ Text(u) = Append(Text(r), input[b]) /\ Text(u)' = Text(u)
  <2>1. Text(u)' = Text(u)
    BY <1>0 DEF Text
  <2> QED
    BY <1>2, <1>3, <2>1, TextAppend
<1>7. KeptOf(u) = KeptOf(r) \union {b} /\ KeptOf(u)' = KeptOf(u)
  <2>1. KeptOf(u)' = KeptOf(u)
    BY <1>0, <1>6 DEF KeptOf
  <2> QED
    BY <1>2, <1>3, <2>1, KeptAppend
<1>8. own'[pco] = b /\ \A k \in 0 .. pco - 1 : own'[k] = own[k]
  BY <1>0, <1>2
<1>9. cco' .. pco' - 1 = (0 .. pco - 1) \union {pco} /\ cco .. pco - 1 = 0 .. pco - 1
  BY <1>0, <1>2
<1>10. InOwn' = InOwn \union {b}
  BY <1>8, <1>9 DEF InOwn
<1>11. Sent' = Sent
  BY <1>0 DEF Sent
<1>12. Sorted'
  <2>1. \A k \in 0 .. pco - 1 : own[k] < b
    <3> SUFFICES ASSUME NEW k \in 0 .. pco - 1 PROVE own[k] < b
      OBVIOUS
    <3>1. own[k] \in InOwn
      BY <1>9 DEF InOwn
    <3> QED
      BY <1>2, <1>3, <3>1
  <2>2. \A k, l \in 0 .. pco - 1 : k < l => own[k] < own[l]
    BY <1>1, <1>9 DEF Sorted
  <2>3. \A k, l \in (0 .. pco - 1) \union {pco} : k < l => own'[k] < own'[l]
    BY <1>2, <1>8, <2>1, <2>2
  <2>4. \A x \in Sent, y \in InOwn \union {b} : x < y
    BY <1>1, <1>2, <1>3 DEF Sorted
  <2>5. Rising(delivered)'
    BY <1>0, <1>1 DEF Sorted
  <2>6. \A k, l \in cco' .. pco' - 1 : k < l => own'[k] < own'[l]
    BY <1>9, <2>3
  <2> QED
    BY <1>10, <1>11, <2>4, <2>5, <2>6 DEF Sorted
<1>13. Passed(u)'
  BY <1>1, <1>7, <1>10, <1>11 DEF Passed
<1>14. Finished(u)'
  BY <1>0 DEF Finished
<1>15. Len(u) = Len(r) + 1 /\ Len(r) \in Nat /\ u[Len(r) + 1] = b /\ \A j \in 1 .. Len(r) : u[j] = r[j]
  BY <1>3
<1> HIDE DEF u
<1>16. ASSUME HeldLast(r, Len(r) - pco) PROVE HeldLast(u, (Len(r) + 1) - pco)'
  <2> DEFINE h == Len(r) - pco
  <2>1. h \in Nat /\ Len(r) = h + pco /\ \A k \in 0 .. pco - 1 : own[k] = r[h + (k + 1)]
    BY <1>16 DEF HeldLast
  <2>2. (Len(r) + 1) - pco' = h
    BY <1>0, <1>2, <1>15
  <2> HIDE DEF h
  <2>3. \A k \in 0 .. pco - 1 : own'[k] = u[h + (k + 1)]
    <3> SUFFICES ASSUME NEW k \in 0 .. pco - 1 PROVE own'[k] = u[h + (k + 1)]
      OBVIOUS
    <3>1. h + (k + 1) \in 1 .. Len(r)
      BY <1>2, <2>1
    <3> QED
      BY <1>8, <1>15, <2>1, <3>1
  <2>4. own'[pco] = u[h + (pco + 1)]
    <3>1. h + (pco + 1) = Len(r) + 1
      BY <1>2, <1>15, <2>1
    <3> QED
      BY <1>8, <1>15, <3>1
  <2>5. \A k \in 0 .. pco' - 1 : own'[k] = u[h + (k + 1)]
    <3>1. 0 .. pco' - 1 = (0 .. pco - 1) \union {pco}
      BY <1>0, <1>9
    <3> QED
      BY <2>3, <2>4, <3>1
  <2>6. Len(u) = h + pco'
    BY <1>0, <1>2, <1>15, <2>1
  <2> QED
    BY <2>1, <2>2, <2>5, <2>6 DEF HeldLast
<1>17. input[b] \in Classes /\ Class = input[b]
  BY <1>0, <1>2 DEF Class
<1> QED
  BY <1>0, <1>5, <1>6, <1>12, <1>13, <1>14, <1>15, <1>16, <1>17 DEF u

(* The four states that hold one byte more, but for the correction.         *)
LEMMA StartAccount ==
    ASSUME IInv, Where, NEW r, Account(r), NEW b, b = Byte, Start, Class # "lead"
    PROVE  Account(Append(r, b))'
<1>w. PICK w : w = Text(r)
  OBVIOUS
<1>h. PICK h : h = Len(r) - pco
  OBVIOUS
<1>u. PICK u : u = Append(r, b)
  OBVIOUS
<1>v. PICK v : v = Append(w, Class)
  OBVIOUS
<1>1. /\ pc = "cycle" /\ i < n /\ cco = 0 /\ state = "Start" /\ pco \in 1 .. 3 /\ pos' = (IF Class \in {"cr", "lf"} THEN pco ELSE pos)
      /\ state' = CASE Class = "cr" -> "0D"
                    [] Class = "lf" -> "0A"
                    [] Class = "cont" /\ pco' < UTFMax -> "Start"
                    [] OTHER -> "Release"
  BY DEF Start, Restart, InCycle, IInv, Shape, Consumed
<1>2. HeldOne(b)
  <2>1. Hold(pco) /\ Turn /\ UNCHANGED <<input, taken, base, n, cco, delivered, dropped>>
    BY DEF Start, Restart, source, history
  <2>2. state' # "ReleaseRestart"
    BY <1>1
  <2> QED
    BY <1>1, <2>1, <2>2 DEF HeldOne
<1>3. HeldLast(r, h) /\ Leading(w, h, pco)
  BY <1>1, <1>w, <1>h DEF Account, Ending, Holding
<1>4. h \in Nat /\ Len(r) = h + pco
  BY <1>3 DEF HeldLast
<1>5. w[Len(r)] \in {"lead", "cont"}
  <2>1. pco = 1 \/ pco \in 2 .. pco
    BY <1>1
  <2> QED
    BY <1>3, <1>4, <2>1 DEF Leading
<1>6. /\ Looking(u)' /\ Sorted' /\ Passed(u)' /\ Finished(u)'
      /\ w \in Seq(Classes) /\ Len(w) = Len(r) /\ Len(r) \in Nat
      /\ Class \in Classes /\ Text(u)' = v /\ Len(u) = Len(r) + 1
      /\ HeldLast(u, (Len(r) + 1) - pco)' /\ pco' = pco + 1
  <2>1. Len(r) >= 1 => w[Len(r)] = input[r[Len(r)]]
    <3>1. r \in Seq(1 .. Len(input)) /\ input \in Seq(Classes)
      BY LookingBounds, Bounds DEF Account
    <3> QED
      BY <1>w, <3>1 DEF Text
  <2>2. input[r[Len(r)]] # "lf"
    BY <1>1, <1>4, <1>5, <2>1
  <2>3. pco < OwnSize
    BY <1>1 DEF OwnSize
  <2> QED
    BY <1>2, <1>3, <1>w, <1>h, <1>u, <1>v, <2>2, <2>3, HeldOneAccount
<1>7. v \in Seq(Classes) /\ Len(v) = Len(r) + 1 /\ v[Len(r) + 1] = Class /\ \A j \in 1 .. Len(r) : v[j] = w[j]
  BY <1>6, <1>v
<1>8. (Len(r) + 1) - pco' = h /\ Len(u) - pco' = h
  BY <1>1, <1>4, <1>6
<1>9. Leading(v, h, pco)
  <2>1. h + 1 \in 1 .. Len(r) /\ \A j \in 2 .. pco : h + j \in 1 .. Len(r)
    BY <1>1, <1>4
  <2> QED
    BY <1>3, <1>7, <2>1 DEF Leading
<1>10. v[h + pco + 1] = Class
  BY <1>4, <1>7
<1>11. ASSUME state' = "Start" PROVE Holding(v, h)'
  <2>1. Class = "cont"
    BY <1>1, <1>11
  <2>2. 2 .. pco' = (2 .. pco) \union {pco + 1}
    BY <1>1, <1>6
  <2>3. Leading(v, h, pco')
    <3>1. h + (pco + 1) = h + pco + 1
      BY <1>1, <1>4
    <3>2. v[h + (pco + 1)] = "cont"
      BY <1>10, <2>1, <3>1
    <3> QED
      BY <1>9, <2>2, <3>2 DEF Leading
  <2> QED
    BY <1>11, <2>3 DEF Holding
<1>12. ASSUME state' \in {"0D", "0A"} PROVE Holding(v, h)'
  <2>1. pos' = pco /\ pco' = pos' + 1 /\ (state' = "0D" => Class = "cr") /\ (state' = "0A" => Class = "lf")
    BY <1>1, <1>6, <1>12
  <2> QED
    BY <1>1, <1>9, <1>10, <1>12, <2>1 DEF Holding
<1>13. ASSUME state' = "Release" PROVE Settled(v)
  <2>1. Class \notin {"lead", "cr", "lf"} /\ (Class = "cont" => pco = 3)
    BY <1>1, <1>6, <1>13 DEF UTFMax
  <2>2. Class = "cont" => Len(w) >= 3 /\ w[Len(w)] = "cont" /\ w[Len(w) - 1] = "cont" /\ w[Len(w) - 2] = "lead"
    <3> SUFFICES ASSUME pco = 3
                 PROVE  Len(w) >= 3 /\ w[Len(w)] = "cont" /\ w[Len(w) - 1] = "cont" /\ w[Len(w) - 2] = "lead"
      BY <2>1
    <3>1. Len(w) = h + 3 /\ Len(w) - 1 = h + 2 /\ Len(w) - 2 = h + 1
      BY <1>4, <1>6
    <3>2. w[h + 1] = "lead" /\ w[h + 2] = "cont" /\ w[h + 3] = "cont"
      BY <1>3 DEF Leading
    <3> QED
      BY <1>4, <3>1, <3>2
  <2> QED
    BY <1>6, <2>1, <2>2, <1>v, SettledIf
<1>14. Ending(u)'
  <2>1. state' \in {"Start", "0D", "0A"} => HeldLast(u, Len(u) - pco)' /\ Holding(Text(u), Len(u) - pco)'
    BY <1>6, <1>8, <1>11, <1>12
  <2>2. state' \in {"Start", "0D", "0A", "Release"}
    BY <1>1
  <2> QED
    BY <1>6, <1>13, <2>1, <2>2 DEF Ending
<1> QED
  BY <1>6, <1>14, <1>u DEF Account
LEMMA AfterCRAccount ==
    ASSUME IInv, Where, NEW r, Account(r), NEW b, b = Byte, AfterCR, Class # "lead"
    PROVE  Account(Append(r, b))'
<1>w. PICK w : w = Text(r)
  OBVIOUS
<1>h. PICK h : h = Len(r) - pco
  OBVIOUS
<1>u. PICK u : u = Append(r, b)
  OBVIOUS
<1>v. PICK v : v = Append(w, Class)
  OBVIOUS
<1>1. /\ pc = "cycle" /\ i < n /\ cco = 0 /\ state = "0D" /\ pos \in 1 .. 3 /\ pco = pos + 1 /\ pos' = pos
      /\ state' = (IF Class = "lf" THEN "0A" ELSE "Release")
  BY DEF AfterCR, Restart, InCycle, IInv, Shape, Consumed
<1>2. HeldOne(b)
  <2>1. Hold(pco) /\ Turn /\ UNCHANGED <<input, taken, base, n, cco, delivered, dropped>>
    BY DEF AfterCR, Restart, source, history
  <2>2. state' # "ReleaseRestart"
    BY <1>1
  <2> QED
    BY <1>1, <2>1, <2>2 DEF HeldOne
<1>3. HeldLast(r, h) /\ Leading(w, h, pos) /\ w[h + pos + 1] = "cr"
  BY <1>1, <1>w, <1>h DEF Account, Ending, Holding
<1>4. h \in Nat /\ Len(r) = h + pos + 1 /\ Len(r) = h + pco /\ Len(r) \in Nat /\ Len(r) >= 2
  BY <1>1, <1>3 DEF HeldLast
<1>5. w[Len(r)] = "cr"
  BY <1>3, <1>4
<1>6. /\ Looking(u)' /\ Sorted' /\ Passed(u)' /\ Finished(u)'
      /\ w \in Seq(Classes) /\ Len(w) = Len(r) /\ Len(r) \in Nat
      /\ Class \in Classes /\ Text(u)' = v /\ Len(u) = Len(r) + 1
      /\ HeldLast(u, (Len(r) + 1) - pco)' /\ pco' = pco + 1
  <2>1. Len(r) >= 1 => w[Len(r)] = input[r[Len(r)]]
    <3>1. r \in Seq(1 .. Len(input)) /\ input \in Seq(Classes)
      BY LookingBounds, Bounds DEF Account
    <3> QED
      BY <1>w, <3>1 DEF Text
  <2>2. input[r[Len(r)]] # "lf"
    BY <1>4, <1>5, <2>1
  <2>3. pco < OwnSize
    BY <1>1 DEF OwnSize
  <2> QED
    BY <1>2, <1>3, <1>w, <1>h, <1>u, <1>v, <2>2, <2>3, HeldOneAccount
<1>7. v \in Seq(Classes) /\ Len(v) = Len(r) + 1 /\ v[Len(r) + 1] = Class /\ \A j \in 1 .. Len(r) : v[j] = w[j]
  BY <1>6, <1>v
<1>8. (Len(r) + 1) - pco' = h /\ Len(u) - pco' = h
  BY <1>1, <1>4, <1>6
<1>9. Leading(v, h, pos) /\ v[h + pos + 1] = "cr"
  <2>1. h + 1 \in 1 .. Len(r) /\ \A j \in 2 .. pos : h + j \in 1 .. Len(r)
    BY <1>1, <1>4
  <2>2. h + pos + 1 \in 1 .. Len(r)
    BY <1>4
  <2> QED
    BY <1>3, <1>7, <2>1, <2>2 DEF Leading
<1>10. v[h + pos + 2] = Class
  BY <1>1, <1>4, <1>7
<1>11. ASSUME state' = "0A" PROVE Holding(v, h)'
  <2>1. Class = "lf" /\ pco' = pos' + 2 /\ pco' # pos' + 1
    BY <1>1, <1>6, <1>11
  <2> QED
    BY <1>1, <1>9, <1>10, <1>11, <2>1 DEF Holding
<1>12. ~MayGoOn(w, Len(w) + 1)
  <2>1. Len(w) + 1 \in Int /\ (Len(w) + 1) - 1 = Len(w)
    BY <1>6
  <2> QED
    BY <1>5, <1>6, <2>1, MayGoOnIs
<1>13. ASSUME state' = "Release" PROVE Settled(v)
  <2>1. Class # "lf" /\ Class # "lead"
    BY <1>1, <1>13
  <2> QED
    BY <1>6, <1>12, <1>v, <2>1, SettledIf
<1>14. Ending(u)'
  BY <1>1, <1>6, <1>8, <1>11, <1>13 DEF Ending
<1> QED
  BY <1>6, <1>14, <1>u DEF Account

LEMMA AfterLFAccount ==
    ASSUME IInv, Where, NEW r, Account(r), NEW b, b = Byte, AfterLF, Class \notin {"lead", "cont"}
    PROVE  Account(Append(r, b))'
<1>w. PICK w : w = Text(r)
  OBVIOUS
<1>h. PICK h : h = Len(r) - pco
  OBVIOUS
<1>u. PICK u : u = Append(r, b)
  OBVIOUS
<1>v. PICK v : v = Append(w, Class)
  OBVIOUS
<1>1. /\ pc = "cycle" /\ i < n /\ cco = 0 /\ state = "0A" /\ pos \in 1 .. 3 /\ pco \in {pos + 1, pos + 2}
      /\ state' = "Release"
  BY DEF AfterLF, Restart, InCycle, IInv, Shape, Consumed
<1>2. HeldOne(b)
  <2>1. Hold(pco) /\ Turn /\ UNCHANGED <<input, taken, base, n, cco, delivered, dropped>>
    BY DEF AfterLF, Restart, source, history
  <2>2. state' # "ReleaseRestart"
    BY <1>1
  <2> QED
    BY <1>1, <2>1, <2>2 DEF HeldOne
<1>3. HeldLast(r, h) /\ w[h + pco] = "lf"
  <2>1. HeldLast(r, h) /\ Holding(w, h)
    BY <1>1, <1>w, <1>h DEF Account, Ending
  <2>2. h \in Nat /\ pos \in Nat
    BY <1>1, <2>1 DEF HeldLast
  <2>3. h + (pos + 1) = h + pos + 1 /\ h + (pos + 2) = h + pos + 2
    BY <2>2
  <2> QED
    BY <1>1, <2>1, <2>3 DEF Holding
<1>4. h \in Nat /\ Len(r) = h + pco /\ Len(r) \in Nat /\ Len(r) >= 2
  BY <1>1, <1>3 DEF HeldLast
<1>5. w[Len(r)] = "lf"
  BY <1>3, <1>4
<1>6. /\ Looking(u)' /\ Sorted' /\ Passed(u)' /\ Finished(u)'
      /\ w \in Seq(Classes) /\ Len(w) = Len(r) /\ Len(r) \in Nat
      /\ Class \in Classes /\ Text(u)' = v
  <2>1. input[b] # "cont"
    BY DEF Class
  <2>2. pco < OwnSize
    BY <1>1 DEF OwnSize
  <2> QED
    BY <1>2, <1>w, <1>u, <1>v, <2>1, <2>2, HeldOneAccount
<1>7. ~MayGoOn(w, Len(w) + 1)
  <2>1. Len(w) + 1 \in Int /\ (Len(w) + 1) - 1 = Len(w)
    BY <1>6
  <2> QED
    BY <1>5, <1>6, <2>1, MayGoOnIs
<1>8. Settled(v)
  <2>1. w[Len(w)] # "cr"
    BY <1>5, <1>6
  <2> QED
    BY <1>6, <1>7, <1>v, <2>1, SettledIf
<1>9. Ending(u)'
  BY <1>1, <1>6, <1>8 DEF Ending
<1> QED
  BY <1>6, <1>9, <1>u DEF Account

LEMMA JoinedAccount ==
    ASSUME IInv, Where, NEW r, Account(r), NEW b, b = Byte, Joined, Class # "lead"
    PROVE  Account(Append(r, b))'
<1>w. PICK w : w = Text(r)
  OBVIOUS
<1>u. PICK u : u = Append(r, b)
  OBVIOUS
<1>v. PICK v : v = Append(w, Class)
  OBVIOUS
<1>1. /\ pc = "cycle" /\ i < n /\ cco = 0 /\ state = "10XXXXXX" /\ pco \in 2 .. 5
      /\ state' \in {"Release", "10XXXXXX"}
  BY DEF Joined, Restart, InCycle, IInv, Shape, Consumed
<1>2. HeldOne(b)
  <2>1. Hold(pco) /\ Turn /\ UNCHANGED <<input, taken, base, n, cco, delivered, dropped>>
    BY DEF Joined, Restart, source, history
  <2>2. state' # "ReleaseRestart"
    BY <1>1
  <2> QED
    BY <1>1, <2>1, <2>2 DEF HeldOne
<1>3. Settled(w)
  BY <1>1, <1>w DEF Account, Ending
<1>4. r \in Seq(1 .. Len(input)) /\ w \in Seq(Classes)
  <2>1. r \in Seq(1 .. Len(input)) /\ input \in Seq(Classes)
    BY LookingBounds, Bounds DEF Account
  <2> QED
    BY SMTT(30), <1>w, <2>1 DEF Text
<1>5. /\ Looking(u)' /\ Sorted' /\ Passed(u)' /\ Finished(u)'
      /\ Class \in Classes /\ Text(u)' = v
  <2>1. \A j \in 1 .. Len(r) : ~Open(w, j)
    BY <1>3, <1>4, SettledClosed
  <2>2. pco < OwnSize
    BY <1>1 DEF OwnSize
  <2> QED
    BY <1>2, <1>w, <1>u, <1>v, <2>1, <2>2, HeldOneAccount
<1>6. Settled(v)
  BY <1>3, <1>4, <1>5, <1>v, SettledAppend
<1>7. Ending(u)'
  BY <1>1, <1>5, <1>6 DEF Ending
<1> QED
  BY <1>5, <1>7, <1>u DEF Account

(* The correction: the continuation byte takes the place of the end of      *)
(* line, which is then a stray one.                                         *)
LEMMA CorrectAccount ==
    ASSUME IInv, Where, NEW r, Account(r), NEW b, b = Byte, AfterLF, Class = "cont"
    PROVE  Account(Append(r, b))'
<1>w. PICK w : w = Text(r)
  OBVIOUS
<1>h. PICK h : h = Len(r) - pco
  OBVIOUS
<1>u. PICK u : u = Append(r, b)
  OBVIOUS
<1>g. PICK g : g = h + pos
  OBVIOUS
<1>m. PICK m : m = Len(r)
  OBVIOUS
<1>1. /\ pc = "cycle" /\ i < n /\ cco = 0 /\ state = "0A" /\ pos \in 1 .. 3 /\ pco \in {pos + 1, pos + 2}
      /\ pc' = "cycle" /\ i' = i + 1 /\ state' = "10XXXXXX"
      /\ own' = [own EXCEPT ![pos] = b] /\ pco' = pos + 1
      /\ UNCHANGED <<input, taken, base, n, cco, delivered, dropped>>
  BY DEF AfterLF, Restart, InCycle, IInv, Shape, Consumed, Hold, Turn, source, history
<1>2. /\ input \in Seq(Classes) /\ Looked \in Nat /\ b = Looked + 1 /\ b \in 1 .. Len(input) /\ b \in Nat
      /\ own \in [0 .. OwnSize - 1 -> 0 .. Len(input)] /\ input[b] = "cont"
  <2>2. own \in [0 .. OwnSize - 1 -> 0 .. Len(input)]
    BY DEF IInv, Data
  <2>3. input[b] = "cont"
    BY DEF Class
  <2> QED
    BY <1>1, <2>2, <2>3, Bounds
<1>3. Looking(r) /\ Passed(r) /\ Sorted /\ HeldLast(r, h) /\ Holding(w, h)
  BY <1>1, <1>w, <1>h DEF Account, Ending
<1>4. /\ r \in Seq(1 .. Len(input)) /\ \A y \in Sent \union InOwn : y \in Nat /\ y <= Looked
      /\ Rising(r)
  BY <1>3, LookingBounds DEF Looking
<1>5. /\ h \in Nat /\ m \in Nat /\ m = h + pco /\ g \in Nat /\ g < m /\ m \in {g + 1, g + 2} /\ g >= 1
      /\ (m = g + 1 <=> pco = pos + 1) /\ (m = g + 2 <=> pco = pos + 2)
  BY <1>1, <1>3, <1>g, <1>m DEF HeldLast
<1>6. /\ w \in Seq(Classes) /\ Len(w) = m /\ (\A j \in 1 .. m : w[j] = input[r[j]])
      /\ u \in Seq(1 .. Len(input)) /\ Text(u) = Append(w, "cont")
  BY <1>2, <1>4, <1>w, <1>u, <1>m, TextAppend
<1>7. /\ MayGoOn(w, g + 1)
      /\ m = g + 1 => w[m] = "lf" /\ w[g] # "cr"
      /\ m = g + 2 => w[g + 1] = "cr" /\ w[m] = "lf"
  <2>1. Leading(w, h, pos)
    BY <1>1, <1>3 DEF Holding
  <2>2. MayGoOn(w, g + 1)
    BY <1>1, <1>5, <1>g, <2>1, LeadingMayGoOn
  <2>3. w[g] \in {"lead", "cont"}
    <3>1. pos = 1 \/ pos \in 2 .. pos
      BY <1>1
    <3> QED
      BY <1>g, <2>1, <3>1 DEF Leading
  <2>4. m = g + 1 => w[h + pos + 1] = "lf"
    BY <1>1, <1>3, <1>5 DEF Holding
  <2>5. m = g + 2 => w[h + pos + 1] = "cr" /\ w[h + pos + 2] = "lf"
    BY <1>1, <1>3, <1>5 DEF Holding
  <2> QED
    BY <1>g, <2>2, <2>3, <2>4, <2>5
<1>8. \A j \in 1 .. m : Open(w, j) <=> j > g
  <2> SUFFICES ASSUME NEW j \in 1 .. m PROVE Open(w, j) <=> j > g
    OBVIOUS
  <2>1. CASE m = g + 1
    <3>1. m >= 1 /\ w[m] \in {"cr", "lf"} /\ MayGoOn(w, m) /\ m - 1 = g
      BY <1>5, <1>7, <2>1
    <3>2. j > g <=> j = m
      BY <1>5, <2>1
    <3> QED
      BY <1>6, <1>7, <2>1, <3>1, <3>2 DEF Open
  <2>2. CASE m = g + 2
    <3>1. m >= 2 /\ w[m] = "lf" /\ w[m - 1] = "cr" /\ MayGoOn(w, m - 1) /\ m - 1 = g + 1
      BY <1>5, <1>7, <2>2
    <3>2. j > g <=> j \in {m - 1, m}
      BY <1>5, <2>2
    <3> QED
      BY <1>6, <3>1, <3>2 DEF Open
  <2> QED
    BY <1>5, <2>1, <2>2
<1>9. KeptOf(u) = (KeptOf(r) \ { r[j] : j \in g + 1 .. m }) \union {b}
  <2>1. input[r[m]] = "lf"
    BY <1>5, <1>6, <1>7
  <2>2. g \in Nat /\ g < Len(r) /\ input[r[Len(r)]] = "lf" /\ \A j \in 1 .. Len(r) : Open(Text(r), j) <=> j > g
    BY <1>5, <1>8, <1>w, <1>m, <2>1
  <2>3. KeptOf(Append(r, b)) = (KeptOf(r) \ { r[j] : j \in g + 1 .. Len(r) }) \union {b}
    BY <1>2, <1>4, <2>2, KeptCorrected
  <2> QED
    BY <1>u, <1>m, <2>3
<1>10. Looked' = b
  <2>1. taken \in Nat /\ n \in Nat /\ i \in Nat
    BY DEF IInv, Nums
  <2> QED
    BY <1>1, <1>2, <2>1 DEF Looked
<1>11. Looking(u)'
  BY <1>1, <1>2, <1>3, <1>10, <1>u, LookOn
<1>12. { r[j] : j \in g + 1 .. m } = { own[k] : k \in pos .. pco - 1 }
  <2>1. \A k \in pos .. pco - 1 : own[k] = r[h + (k + 1)] /\ h + (k + 1) \in g + 1 .. m
    BY <1>1, <1>3, <1>5, <1>g DEF HeldLast
  <2>2. \A j \in g + 1 .. m : (j - h) - 1 \in pos .. pco - 1 /\ h + (((j - h) - 1) + 1) = j
    BY <1>1, <1>5, <1>g
  <2> QED
    BY <2>1, <2>2
<1>13. /\ InOwn = { own[k] : k \in 0 .. pos - 1 } \union { own[k] : k \in pos .. pco - 1 }
       /\ \A k \in 0 .. pos - 1, l \in pos .. pco - 1 : own[k] # own[l]
       /\ \A l \in pos .. pco - 1 : own[l] \notin Sent
  <2>1. cco .. pco - 1 = (0 .. pos - 1) \union (pos .. pco - 1)
    BY <1>1
  <2>2. \A k \in cco .. pco - 1 : own[k] \in InOwn /\ own[k] \in Nat
    BY <1>4 DEF InOwn
  <2>3. \A k \in 0 .. pos - 1, l \in pos .. pco - 1 : k < l /\ k \in cco .. pco - 1 /\ l \in cco .. pco - 1
    BY <1>1
  <2>4. \A k \in 0 .. pos - 1, l \in pos .. pco - 1 : own[k] < own[l] /\ own[k] \in Nat /\ own[l] \in Nat
    BY <1>3, <2>2, <2>3 DEF Sorted
  <2>5. \A l \in pos .. pco - 1 : own[l] \notin Sent
    <3>1. \A x \in Sent : x \in Nat
      BY <1>4
    <3>2. \A l \in pos .. pco - 1 : own[l] \in InOwn /\ own[l] \in Nat
      BY <2>1, <2>2
    <3>3. \A x \in Sent, y \in InOwn : x < y
      BY <1>3 DEF Sorted
    <3> QED
      BY <3>1, <3>2, <3>3
  <2> QED
    BY <2>1, <2>4, <2>5 DEF InOwn
<1>14. own'[pos] = b /\ \A k \in 0 .. pos - 1 : own'[k] = own[k]
  BY <1>1, <1>2 DEF OwnSize
<1>15. InOwn' = { own[k] : k \in 0 .. pos - 1 } \union {b}
  <2>1. cco' .. pco' - 1 = (0 .. pos - 1) \union {pos}
    BY <1>1
  <2> QED
    BY <1>14, <2>1 DEF InOwn
<1>16. Sent' = Sent
  BY <1>1 DEF Sent
<1>17. Passed(u)'
  <2>1. KeptOf(r) = Sent \union InOwn
    BY <1>3 DEF Passed
  <2>2. KeptOf(u) = (Sent \union { own[k] : k \in 0 .. pos - 1 }) \union {b}
    BY <1>9, <1>12, <1>13, <2>1
  <2>3. Text(u)' = Text(u)
    BY <1>1 DEF Text
  <2>4. KeptOf(u)' = KeptOf(u)
    BY <2>3 DEF KeptOf
  <2> QED
    BY <1>15, <1>16, <2>2, <2>4 DEF Passed
<1>18. Sorted'
  <2>1. \A k \in 0 .. pos - 1 : own[k] \in InOwn /\ own[k] \in Nat /\ own[k] < b
    <3>1. \A k \in 0 .. pos - 1 : own[k] \in InOwn
      BY <1>13
    <3> QED
      BY <1>2, <1>4, <3>1
  <2>2. \A k, l \in 0 .. pos - 1 : k < l => own[k] < own[l]
    <3>1. 0 .. pos - 1 \subseteq cco .. pco - 1
      BY <1>1
    <3> QED
      BY <1>3, <3>1 DEF Sorted
  <2>3. \A k, l \in (0 .. pos - 1) \union {pos} : k < l => own'[k] < own'[l]
    BY <1>1, <1>14, <2>1, <2>2
  <2>4. cco' .. pco' - 1 = (0 .. pos - 1) \union {pos}
    BY <1>1
  <2>5. \A x \in Sent : x \in Nat /\ x < b
    BY <1>2, <1>4
  <2>6. \A x \in Sent', y \in InOwn' : x < y
    BY <1>3, <1>15, <1>16, <2>1, <2>5 DEF Sorted
  <2>7. Rising(delivered)'
    BY <1>1, <1>3 DEF Sorted
  <2>8. \A k, l \in cco' .. pco' - 1 : k < l => own'[k] < own'[l]
    BY <2>3, <2>4
  <2> QED
    BY <2>6, <2>7, <2>8 DEF Sorted
<1>19. Settled(Text(u))
  <2>1. ~MayGoOn(w, Len(w) + 1)
    <3>1. Len(w) + 1 \in Int /\ (Len(w) + 1) - 1 = Len(w) /\ w[Len(w)] = "lf"
      BY <1>5, <1>6, <1>7
    <3> QED
      BY <3>1, MayGoOnIs
  <2>2. "cont" \in Classes
    BY DEF Classes
  <2> QED
    BY <1>6, <2>1, <2>2, SettledIf
<1>20. Ending(u)' /\ Finished(u)'
  <2>1. Text(u)' = Text(u)
    BY <1>1 DEF Text
  <2> QED
    BY <1>1, <1>19, <2>1 DEF Ending, Finished
<1> QED
  BY <1>11, <1>17, <1>18, <1>20, <1>u DEF Account
(* What a held byte that goes out leaves: the loop, or a full slice.        *)
LEMMA EmitCase ==
    ASSUME IInv, Where, Emit
    PROVE  /\ Looked' = Looked /\ (pc' = "done" => max < OwnSize) /\ pc' # "panic"
           /\ state = "ReleaseRestart" => pc' = "release"
           /\ pc' = "drain" => pc = "drain" /\ count' = cco'
           /\ pc' \in {"drain", "done"} => pc = "drain"
<1>1. /\ UNCHANGED <<input, taken, base, state, pos, own, pco, last, err, max, n, dropped>>
      /\ pc \in {"release", "drain"} /\ cco < pco /\ count < max
      /\ count' = count + 1 /\ cco' = cco + 1
  BY DEF Emit, Store, source
<1>2. pco \in 0 .. OwnSize /\ cco \in 0 .. pco /\ OwnSize \in Nat
  BY DEF IInv, Nums, OwnSize
<1>3. taken \in Nat /\ n \in Nat /\ i \in Nat /\ count \in Nat /\ max \in Nat
  BY DEF IInv, Nums
<1>4. CASE pc = "release"
  <2>1. \/ count' < max /\ UNCHANGED <<pc, i>>
        \/ ~(count' < max) /\ pc' = "idle"
    BY <1>1, <1>4 DEF Emit, Suspend
  <2>2. count + (pco - cco) + (n - i - 1) + (IF state = "ReleaseRestart" THEN 1 ELSE 0) <= max /\ i < n
    BY <1>4 DEF IInv, Room, Held, Consumed
  <2>3. pc' = "idle" => n = i + 1 /\ state # "ReleaseRestart"
    BY <1>1, <1>2, <1>3, <1>4, <2>1, <2>2
  <2> QED
    BY <1>1, <1>3, <1>4, <2>1, <2>3 DEF Looked
<1>5. CASE pc = "drain"
  <2>1. \/ count' < max /\ UNCHANGED <<pc, i>>
        \/ ~(count' < max) /\ pc' = "done"
    BY <1>1, <1>5 DEF Emit
  <2>2. count = cco /\ pco < OwnSize /\ state # "ReleaseRestart"
    BY <1>5 DEF Where, IInv, Consumed, Shape, OwnSize
  <2>3. count' < OwnSize /\ (pc' = "done" => max < OwnSize)
    BY <1>1, <1>2, <1>3, <2>1, <2>2
  <2> QED
    BY <1>1, <1>5, <2>1, <2>2, <2>3 DEF Looked
<1> QED
  BY <1>1, <1>4, <1>5

(* A held byte that goes out is still accounted for.                        *)
LEMMA EmitAccount ==
    ASSUME IInv, IInv', Where, NEW r, Account(r), Emit
    PROVE  Account(r)'
<1>1. /\ UNCHANGED <<input, taken, base, state, pos, own, pco, last, err, max, n, dropped>>
      /\ pc \in {"release", "drain"} /\ cco < pco /\ count < max
      /\ delivered' = Append(delivered, own[cco]) /\ count' = count + 1 /\ cco' = cco + 1
  BY DEF Emit, Store, source
<1>2. /\ delivered \in Seq(Nat) /\ \A k \in 0 .. OwnSize - 1 : own[k] \in Nat
      /\ pco \in 0 .. OwnSize /\ cco \in 0 .. pco /\ cco \in 0 .. OwnSize - 1 /\ OwnSize \in Nat
  <2>1. pco \in 0 .. OwnSize /\ cco \in 0 .. pco /\ OwnSize \in Nat
    BY DEF IInv, Nums, OwnSize
  <2>2. cco \in 0 .. OwnSize - 1
    BY <1>1, <2>1
  <2> QED
    BY <2>1, <2>2, Bounds
<1>3. Looking(r) /\ Passed(r) /\ Sorted
  BY DEF Account
<1>c. PICK c : c = own[cco]
  OBVIOUS
<1>d. PICK d : d = Append(delivered, c)
  OBVIOUS
<1>4. c \in Nat /\ delivered' = d /\ c \in InOwn
  BY <1>1, <1>2, <1>c, <1>d DEF InOwn
<1>5. InOwn = InOwn' \union {c} /\ \A y \in InOwn' : c < y
  <2>1. cco .. pco - 1 = (cco + 1 .. pco - 1) \union {cco}
    BY <1>1, <1>2
  <2>2. InOwn' = { own[k] : k \in cco + 1 .. pco - 1 }
    BY <1>1 DEF InOwn
  <2>3. \A k \in cco + 1 .. pco - 1 : own[cco] < own[k]
    <3>1. \A k \in cco + 1 .. pco - 1 : k \in cco .. pco - 1 /\ cco \in cco .. pco - 1 /\ cco < k
      BY <1>1, <1>2
    <3> QED
      BY <1>3, <3>1 DEF Sorted
  <2> QED
    BY <1>c, <2>1, <2>2, <2>3 DEF InOwn
<1>6. /\ d \in Seq(Nat) /\ Len(d) = Len(delivered) + 1 /\ d[Len(delivered) + 1] = c
      /\ \A k \in 1 .. Len(delivered) : d[k] = delivered[k]
      /\ DOMAIN d = 1 .. Len(delivered) + 1 /\ DOMAIN delivered = 1 .. Len(delivered) /\ Len(delivered) \in Nat
  BY <1>2, <1>4, <1>d
<1>7. \A x \in Sent : x < c
  BY <1>3, <1>4 DEF Sorted
<1>8. Rising(d) /\ Range(d) = Sent \union {c}
  <2>1. \A k \in 1 .. Len(delivered) : delivered[k] < c
    BY <1>6, <1>7 DEF Sent, Range
  <2>2. \A k, l \in 1 .. Len(delivered) : k < l => delivered[k] < delivered[l]
    BY <1>3, <1>6 DEF Sorted, Rising
  <2>3. Rising(d)
    <3> SUFFICES ASSUME NEW k \in 1 .. Len(delivered) + 1, NEW l \in 1 .. Len(delivered) + 1, k < l
                 PROVE  d[k] < d[l]
      BY <1>6 DEF Rising
    <3>1. k \in 1 .. Len(delivered) /\ (l \in 1 .. Len(delivered) \/ l = Len(delivered) + 1)
      BY <1>6
    <3> QED
      BY <1>6, <2>1, <2>2, <3>1
  <2>4. Range(d) = { d[k] : k \in (1 .. Len(delivered)) \union {Len(delivered) + 1} }
    <3>1. 1 .. Len(delivered) + 1 = (1 .. Len(delivered)) \union {Len(delivered) + 1}
      BY <1>6
    <3> QED
      BY <1>6, <3>1 DEF Range
  <2>5. Sent = { delivered[k] : k \in 1 .. Len(delivered) }
    BY <1>6 DEF Sent, Range
  <2> QED
    BY <1>6, <2>3, <2>4, <2>5
<1>9. Sent' = Sent \union {c}
  BY <1>4, <1>8 DEF Sent
<1>10. Sorted'
  <2>1. \A k, l \in cco' .. pco' - 1 : k < l => own'[k] < own'[l]
    <3>1. cco' .. pco' - 1 \subseteq cco .. pco - 1
      BY <1>1, <1>2
    <3> QED
      BY <1>1, <1>3, <3>1 DEF Sorted
  <2>2. \A x \in Sent', y \in InOwn' : x < y
    <3>1. \A x \in Sent, y \in InOwn' : x < y
      BY <1>3, <1>5 DEF Sorted
    <3> QED
      BY <1>5, <1>9, <3>1
  <2>3. Rising(delivered)'
    BY <1>4, <1>8
  <2> QED
    BY <2>1, <2>2, <2>3 DEF Sorted
<1>11. Text(r)' = Text(r) /\ KeptOf(r)' = KeptOf(r)
  BY <1>1 DEF Text, KeptOf
<1>12. Passed(r)'
  BY <1>3, <1>5, <1>9, <1>11 DEF Passed
<1>13. Looked' = Looked /\ (pc' = "done" => max < OwnSize) /\ pc' # "panic"
  BY EmitCase
<1>14. Looking(r)'
  BY <1>1, <1>3, <1>13 DEF Looking
<1>15. Ending(r)'
  <2>1. HeldLast(r, Len(r) - pco)' <=> HeldLast(r, Len(r) - pco)
    BY <1>1 DEF HeldLast
  <2>2. Holding(Text(r), Len(r) - pco)' <=> Holding(Text(r), Len(r) - pco)
    BY <1>1, <1>11 DEF Holding
  <2> QED
    BY <1>1, <1>11, <2>1, <2>2 DEF Account, Ending
<1>16. Finished(r)'
  <2>1. max \in Nat /\ OwnSize \in Nat
    BY <1>2 DEF IInv, Nums
  <2> QED
    BY <1>1, <1>13, <2>1 DEF Finished
<1> QED
  BY <1>10, <1>12, <1>14, <1>15, <1>16 DEF Account

(* Release is over: nothing is held, or the lead byte that restarts is.     *)
LEMMA ResetAccount ==
    ASSUME IInv, Where, NEW r, Account(r), Reset
    PROVE  \E u : Account(u)'
<1>0. taken \in Nat /\ n \in Nat /\ i \in Nat /\ cco = pco /\ pco \in Nat
  BY DEF Reset, IInv, Nums
<1>1. CASE state = "ReleaseRestart"
  <2>1. /\ pc = "release" /\ last = Looked + 1 /\ last <= Len(input) /\ input[last] = "lead"
    BY <1>1 DEF Where
  <2>b. PICK b : b = last
    OBVIOUS
  <2>2. /\ own' = [own EXCEPT ![0] = b] /\ cco' = 0 /\ pco' = 1 /\ state' = "Start" /\ pc' = "cycle" /\ i' = i + 1
        /\ UNCHANGED <<input, taken, n, dropped, delivered>>
    BY <1>1, <2>1, <2>b DEF Reset, source, history
  <2>3. Looked' = b
    BY <1>0, <1>1, <2>1, <2>2, <2>b DEF Looked
  <2> QED
    BY <1>0, <2>1, <2>2, <2>3, <2>b, BeginAccount
<1>2. CASE state # "ReleaseRestart"
  <2>1. /\ cco' = 0 /\ pco' = 0 /\ state' = "Normal" /\ own' = own
        /\ UNCHANGED <<input, taken, n, dropped, delivered, max>>
        /\ \/ pc = "release" /\ pc' = "cycle" /\ i' = i + 1
           \/ pc = "drain" /\ pc' = "done" /\ i' = i
    BY <1>2 DEF Reset, source, history
  <2>2. Looked' = Looked
    BY <1>0, <1>2, <2>1 DEF Looked
  <2>3. Looking(r)'
    BY <2>1, <2>2 DEF Account, Looking
  <2>4. InOwn = {} /\ InOwn' = {} /\ Sent' = Sent
    <3>1. cco .. pco - 1 = {} /\ cco' .. pco' - 1 = {}
      BY <1>0, <2>1
    <3> QED
      BY <2>1, <3>1 DEF InOwn, Sent
  <2>5. Sorted'
    <3>1. cco' .. pco' - 1 = {}
      BY <2>1
    <3>2. Rising(delivered)'
      BY <2>1 DEF Account, Sorted
    <3> QED
      BY <2>4, <3>1, <3>2 DEF Sorted
  <2>6. Text(r)' = Text(r) /\ KeptOf(r)' = KeptOf(r)
    BY <2>1 DEF Text, KeptOf
  <2>7. Passed(r)' /\ KeptOf(r) = Sent
    BY <2>4, <2>6 DEF Account, Passed
  <2>8. CASE pc = "release"
    <3>1. state = "Release"
      BY <1>2, <2>8 DEF IInv, Consumed
    <3>2. Settled(Text(r))
      BY <2>8, <3>1 DEF Account, Ending
    <3>3. Ending(r)' /\ Finished(r)'
      BY <2>1, <2>6, <2>8, <3>2 DEF Ending, Finished
    <3>4. Account(r)'
      BY <2>3, <2>5, <2>7, <3>3 DEF Account
    <3> QED
      BY <3>4
  <2>9. CASE pc = "drain"
    <3>1. r \in Seq(1 .. Len(input)) /\ input \in Seq(Classes)
      BY LookingBounds, Bounds DEF Account
    <3>2. Text(r) \in Seq(Classes) /\ Len(Text(r)) = Len(r) /\ Len(r) \in Nat /\ DOMAIN Text(r) = 1 .. Len(r)
      BY <3>1 DEF Text
    <3>w. PICK w : w = Text(r)
      OBVIOUS
    <3>3. Settled(w) \/ (Len(w) >= 1 /\ w[Len(w)] = "cont")
      <4>1. state \in {"Start", "10XXXXXX"}
        BY <2>9 DEF IInv, Consumed
      <4>2. CASE state = "10XXXXXX"
        BY <2>9, <3>w, <4>2 DEF Account, Ending
      <4>3. CASE state = "Start"
        <5>1. pco \in 2 .. 3
          BY <2>9, <4>3 DEF Where, IInv, Shape
        <5>h. PICK h : h = Len(r) - pco
          OBVIOUS
        <5>2. HeldLast(r, h) /\ Leading(w, h, pco)
          BY <3>w, <4>3, <5>h DEF Account, Ending, Holding
        <5>3. h \in Nat /\ Len(w) = h + pco
          BY <3>2, <3>w, <5>2 DEF HeldLast
        <5>4. w[h + pco] = "cont" /\ Len(w) >= 1
          BY <5>1, <5>2, <5>3 DEF Leading
        <5> QED
          BY <5>3, <5>4
      <4> QED
        BY <4>1, <4>2, <4>3
    <3>4. \A j \in 1 .. Len(w) : ~EofTail(w, j)
      <4> SUFFICES ASSUME NEW j \in 1 .. Len(w) PROVE ~EofTail(w, j)
        OBVIOUS
      <4>1. w \in Seq(Classes)
        BY <3>2, <3>w
      <4>2. CASE Settled(w)
        BY <4>1, <4>2, SettledNoTail
      <4>3. CASE w[Len(w)] = "cont"
        BY <4>1, <4>3, NoTail
      <4> QED
        BY <3>3, <4>2, <4>3
    <3>5. { j \in Kept(Text(r)) : ~EofTail(Text(r), j) } = Kept(Text(r))
      BY <3>2, <3>4, <3>w DEF Kept
    <3>6. Ending(r)' /\ Finished(r)'
      BY <2>1, <2>4, <2>6, <2>7, <2>9, <3>5 DEF Ending, Finished, KeptOf
    <3>7. Account(r)'
      BY <2>3, <2>5, <2>7, <3>6 DEF Account
    <3> QED
      BY <3>7
  <2> QED
    BY <2>1, <2>8, <2>9
<1> QED
  BY <1>1, <1>2

(* Where a call ends with the error and nothing more to give, all but the   *)
(* tail is out.                                                             *)
LEMMA EndAccount ==
    ASSUME IInv, Where, NEW r, Account(r), pc \in {"fetch", "cycle"},
           state \notin {"10XXXXXX", "ReleaseRestart"}, state = "Start" => pco = 1
    PROVE  Sent = { r[j] : j \in { j \in Kept(Text(r)) : ~EofTail(Text(r), j) } }
<1>1. /\ r \in Seq(1 .. Len(input)) /\ input \in Seq(Classes) /\ Looking(r) /\ Passed(r) /\ Sorted
      /\ \A y \in Sent \union InOwn : y \in Nat
  BY LookingBounds, Bounds DEF Account
<1>w. PICK w : w = Text(r)
  OBVIOUS
<1>2. w \in Seq(Classes) /\ Len(w) = Len(r) /\ Len(r) \in Nat /\ DOMAIN w = 1 .. Len(r)
  BY <1>1, <1>w DEF Text
<1>3. KeptOf(r) = Sent \union InOwn /\ KeptOf(r) = { r[j] : j \in Kept(w) } /\ Kept(w) \subseteq 1 .. Len(r)
  BY <1>1, <1>2, <1>w DEF Passed, KeptOf, Kept
<1>4. CASE state \in {"Normal", "Release"}
  <2>1. InOwn = {}
    <3>1. cco = pco /\ pco \in Nat
      BY <1>4 DEF IInv, Shape, Consumed, Nums
    <3>2. cco .. pco - 1 = {}
      BY <3>1
    <3> QED
      BY <3>2 DEF InOwn
  <2>2. Settled(w)
    BY <1>4, <1>w DEF Account, Ending
  <2>3. \A j \in 1 .. Len(w) : ~EofTail(w, j)
    BY <1>2, <2>2, SettledNoTail
  <2>4. { j \in Kept(w) : ~EofTail(w, j) } = Kept(w)
    BY <1>2, <1>3, <2>3
  <2> QED
    BY <1>3, <1>w, <2>1, <2>4
<1>5. CASE state \in {"Start", "0D", "0A"}
  <2>h. PICK h : h = Len(r) - pco
    OBVIOUS
  <2>1. HeldLast(r, h) /\ Holding(w, h) /\ cco = 0
    BY <1>5, <1>w, <2>h DEF Account, Ending, IInv, Consumed
  <2>2. /\ h \in Nat /\ Len(r) = h + pco /\ pco \in 1 .. 5
        /\ state = "Start" => pco = 1
        /\ state = "0D" => pos \in 1 .. 3 /\ pco = pos + 1
        /\ state = "0A" => pos \in 1 .. 3 /\ pco \in {pos + 1, pos + 2}
    BY <2>1, <1>5 DEF HeldLast, IInv, Shape
  <2>3. \A j \in 1 .. Len(w) : EofTail(w, j) <=> j > h
    <3> SUFFICES ASSUME NEW j \in 1 .. Len(w) PROVE EofTail(w, j) <=> j > h
      OBVIOUS
    <3>0. h < Len(w) /\ Len(w) = h + pco
      BY <1>2, <2>2
    <3>1. CASE state = "Start"
      <4>1. w[h + 1] = "lead" /\ h + 1 = Len(w) /\ h + 2 .. Len(w) = {}
        BY <2>1, <2>2, <3>0, <3>1 DEF Holding, Leading
      <4> QED
        BY <1>2, <2>2, <3>0, <4>1, TailIs
    <3>2. CASE state \in {"0D", "0A"} /\ pco = pos + 1
      <4>1. Leading(w, h, pos) /\ w[h + pos + 1] \in {"cr", "lf"} /\ pos \in 1 .. 3 /\ Len(w) = h + pos + 1
        BY <2>1, <2>2, <3>0, <3>2 DEF Holding
      <4>2. MayGoOn(w, Len(w))
        BY <2>2, <4>1, LeadingMayGoOn
      <4>3. w[h + 1] = "lead" /\ \A l \in h + 2 .. Len(w) : w[l] # "lead"
        <5> SUFFICES ASSUME NEW l \in h + 2 .. Len(w) PROVE w[l] # "lead"
          BY <4>1 DEF Leading
        <5>1. l = h + pos + 1 \/ (l - h \in 2 .. pos /\ h + (l - h) = l)
          BY <2>2, <4>1
        <5> QED
          BY <4>1, <5>1 DEF Leading
      <4> QED
        BY <1>2, <2>2, <3>0, <4>1, <4>2, <4>3, TailIs
    <3>3. CASE state = "0A" /\ pco = pos + 2
      <4>1. /\ Leading(w, h, pos) /\ w[h + pos + 1] = "cr" /\ w[h + pos + 2] = "lf" /\ pos \in 1 .. 3
            /\ Len(w) = h + pos + 2 /\ Len(w) - 1 = h + pos + 1 /\ Len(w) >= 2
        BY <2>1, <2>2, <3>0, <3>3 DEF Holding
      <4>2. MayGoOn(w, Len(w) - 1)
        BY <2>2, <4>1, LeadingMayGoOn
      <4>3. w[h + 1] = "lead" /\ \A l \in h + 2 .. Len(w) : w[l] # "lead"
        <5> SUFFICES ASSUME NEW l \in h + 2 .. Len(w) PROVE w[l] # "lead"
          BY <4>1 DEF Leading
        <5>1. l = h + pos + 1 \/ l = h + pos + 2 \/ (l - h \in 2 .. pos /\ h + (l - h) = l)
          BY <2>2, <4>1
        <5> QED
          BY <4>1, <5>1 DEF Leading
      <4>4. w[Len(w)] = "lf" /\ w[Len(w) - 1] = "cr"
        BY <4>1
      <4> QED
        BY <1>2, <2>2, <3>0, <4>1, <4>2, <4>3, <4>4, TailIs
    <3> QED
      BY <1>5, <2>2, <3>1, <3>2, <3>3
  <2>4. InOwn = { r[j] : j \in h + 1 .. Len(r) }
    <3>1. \A k \in 0 .. pco - 1 : own[k] = r[h + (k + 1)] /\ h + (k + 1) \in h + 1 .. Len(r)
      BY <2>1, <2>2 DEF HeldLast
    <3>2. \A j \in h + 1 .. Len(r) : (j - h) - 1 \in 0 .. pco - 1 /\ h + (((j - h) - 1) + 1) = j
      BY <2>2
    <3>3. InOwn = { own[k] : k \in 0 .. pco - 1 }
      BY <2>1 DEF InOwn
    <3> QED
      BY <3>1, <3>2, <3>3
  <2>5. \A x \in Sent : x \notin InOwn
    <3>1. \A x \in Sent, y \in InOwn : x < y /\ x \in Nat /\ y \in Nat
      BY <1>1 DEF Sorted
    <3>2. \A x \in Sent, y \in InOwn : x # y
      BY <3>1
    <3> QED
      BY <3>2
  <2>6. \A j, k \in 1 .. Len(r) : r[j] = r[k] => j = k
    <3>1. \A j \in 1 .. Len(r) : r[j] \in Nat
      BY <1>1
    <3>2. \A j, k \in 1 .. Len(r) : j < k => r[j] < r[k]
      BY <1>1 DEF Looking, Rising
    <3> QED
      BY <1>2, <3>1, <3>2
  <2>7. Sent = KeptOf(r) \ InOwn
    BY <1>3, <2>5
  <2>8. { j \in Kept(w) : ~EofTail(w, j) } = Kept(w) \ (h + 1 .. Len(r))
    <3>1. \A j \in 1 .. Len(r) : j > h <=> j \in h + 1 .. Len(r)
      BY <2>2
    <3> QED
      BY <1>2, <1>3, <2>3, <3>1
  <2>9. h + 1 .. Len(r) \subseteq 1 .. Len(r)
    BY <2>2
  <2>10. { r[j] : j \in Kept(w) \ (h + 1 .. Len(r)) } = KeptOf(r) \ InOwn
    BY <1>3, <2>4, <2>6, <2>9
  <2> QED
    BY <1>w, <2>7, <2>8, <2>10
<1> QED
  BY <1>4, <1>5 DEF IInv, Tags, States
(* The only byte that has no room is one of a drain.                        *)
LEMMA OverrunCase ==
    ASSUME IInv, Overrun
    PROVE  pc = "drain"
<1>0. /\ n \in Nat /\ i \in Nat /\ pco \in Nat /\ cco \in Nat /\ max \in Nat /\ count \in Nat /\ cco <= pco
  BY DEF IInv, Nums
<1>1. ~(pc = "cycle" /\ i < n /\ count >= max)
  BY <1>0 DEF IInv, Room, Held
<1>2. ~(pc = "release" /\ cco < pco /\ count >= max)
  <2>1. pc = "release" => count + (pco - cco) + (n - i - 1) <= max /\ i < n
    BY <1>0 DEF IInv, Room, Consumed, Held
  <2> QED
    BY <1>0, <2>1
<1>3. pc \in {"cycle", "release", "drain"} /\ count >= max /\ (pc = "cycle" => i < n) /\ (pc = "release" => cco < pco)
  BY DEF Overrun, Storing, InCycle
<1> QED
  BY <1>1, <1>2, <1>3

(* Where a call is, after any step.                                         *)
LEMMA WhereStep ==
    ASSUME IInv, Where, [Next]_vars
    PROVE  Where'
<1> USE DEF source, corrector, call, history
<1>0. /\ taken \in Nat /\ n \in Nat /\ i \in Nat /\ base \in Nat /\ Len(input) \in Nat /\ taken <= Len(input)
      /\ pco \in Nat /\ max \in Nat /\ count \in Nat /\ pcb = ccb /\ pcb \in Nat /\ ~carry
  BY Bounds DEF IInv, Nums, Calls
<1>1. ASSUME NEW k \in Sizes, Read(k) PROVE Where'
  BY <1>0, <1>1 DEF Where, Read
<1>2. ASSUME ReturnError PROVE Where'
  <2>1. /\ pc = "fetch" /\ err /\ pc' \in {"drain", "done"} /\ (pc' = "drain" /\ state = "Start" => pco > 1)
        /\ UNCHANGED <<input, taken, base, err, i, n, count, cco, pco, state, last>>
    <3>1. pc' = "drain" /\ state = "Start" => pco > 1
      BY <1>2 DEF ReturnError, Held, IInv, Consumed, Nums
    <3> QED
      BY <1>2, <3>1 DEF ReturnError
  <2>2. state # "ReleaseRestart" /\ (state \in {"Start", "10XXXXXX"} => count = cco)
    BY <2>1 DEF Where, IInv, Consumed, Calls
  <2>3. pc' = "drain" => state \in {"Start", "10XXXXXX"}
    BY <1>2 DEF ReturnError
  <2> QED
    BY <2>1, <2>2, <2>3 DEF Where
<1>3. ASSUME Fetch PROVE Where'
  <2>1. PICK k \in Nat : taken' = taken + k /\ base' = taken /\ n' = k /\ (err' => taken + k = Len(input))
    BY <1>3, BufMaxAssumption DEF Fetch
  <2>2. pc = "fetch" /\ pc' = "cycle" /\ i' = 0 /\ UNCHANGED <<input, state, last>>
    BY <1>3 DEF Fetch
  <2>3. state # "ReleaseRestart"
    BY <2>2 DEF Where
  <2>4. base' + n' = taken'
    BY <1>0, <2>1
  <2> QED
    BY <2>1, <2>2, <2>3, <2>4 DEF Where
<1>4. ASSUME NoRoom PROVE Where'
  BY <1>0, <1>4 DEF Where, NoRoom
<1>5. ASSUME Normal PROVE Where'
  BY <1>5 DEF Where, Normal, InCycle, Turn, Suspend
<1>6. ASSUME Start \/ AfterCR \/ AfterLF \/ Joined PROVE Where'
  <2>1. /\ pc = "cycle" /\ i < n /\ Turn /\ UNCHANGED <<input, taken, base, err, n, count, cco>>
        /\ state \in {"Start", "0D", "0A", "10XXXXXX"}
    BY <1>6 DEF Start, AfterCR, AfterLF, Joined, InCycle
  <2>2. \/ pc' = "release" /\ i' = i
        \/ pc' = "cycle" /\ state' # "ReleaseRestart"
    BY <2>1 DEF Turn
  <2>3. state' = "ReleaseRestart" => Restart
    BY <1>6, <2>1 DEF Start, AfterCR, AfterLF, Joined, InCycle
  <2>4. ASSUME Restart, state' = "ReleaseRestart"
        PROVE  pc' = "release" /\ last' = Looked' + 1 /\ last' <= Len(input) /\ input[last'] = "lead"
    <3>1. last' = Byte /\ input[Byte] = "lead" /\ pc' = "release" /\ i' = i
      BY <2>2, <2>4 DEF Restart, Class
    <3>2. Byte = Looked + 1 /\ Byte \in 1 .. Len(input)
      BY <2>1, Bounds
    <3>3. Looked' = Looked
      BY <2>1, <2>4, <3>1 DEF Looked
    <3> QED
      BY <1>0, <3>1, <3>2, <3>3
  <2> QED
    BY <2>1, <2>2, <2>3, <2>4 DEF Where
<1>7. ASSUME Unhandled PROVE Where'
  <2>1. /\ state = "Release" /\ pc = "cycle" /\ state' = state /\ pc' = "release" /\ i' = i /\ i < n
        /\ UNCHANGED <<input, taken, base, err, n>>
    BY <1>7 DEF Unhandled, InCycle, Turn, IInv, Shape
  <2> QED
    BY <2>1 DEF Where
<1>8. ASSUME Emit PROVE Where'
  <2>1. UNCHANGED <<input, taken, base, err, n, state, pco, last>>
    BY <1>8 DEF Emit
  <2>2. /\ Looked' = Looked /\ (pc' = "done" => max < OwnSize) /\ pc' # "panic"
        /\ state = "ReleaseRestart" => pc' = "release"
        /\ pc' = "drain" => pc = "drain" /\ count' = cco'
        /\ pc' \in {"drain", "done"} => pc = "drain"
    BY <1>8, EmitCase
  <2>3. pc' \in {"cycle", "release"} => pc' = pc /\ i' = i
    BY <1>8 DEF Emit, Suspend
  <2> QED
    BY <2>1, <2>2, <2>3 DEF Where
<1>9. ASSUME Reset PROVE Where'
  <2>1. /\ state' \in {"Start", "Normal"} /\ pc' \in {"cycle", "done"} /\ (pc' = "done" => pc = "drain")
        /\ UNCHANGED <<input, taken, base, err, n>> /\ (pc' = "cycle" => i' = i + 1 /\ pc = "release")
    BY <1>9 DEF Reset
  <2>2. pc' = "cycle" /\ i' < n => i < n
    BY <1>0, <2>1
  <2> QED
    BY <2>1, <2>2 DEF Where
<1>10. ASSUME CycleDone PROVE Where'
  <2>1. /\ pc = "cycle" /\ pc' \in {"done", "idle"} /\ (pc' = "done" => err)
        /\ UNCHANGED <<input, taken, base, err, n, i, state, last>>
    BY <1>0, <1>10 DEF CycleDone
  <2> QED
    BY <2>1 DEF Where
<1>11. ASSUME Overrun PROVE Where'
  <2>1. pc = "drain" /\ pc' = "panic" /\ UNCHANGED <<input, taken, base, err, n, i, state, last>>
    BY <1>11, OverrunCase DEF Overrun
  <2> QED
    BY <2>1 DEF Where
<1>12. CASE UNCHANGED vars
  <2>1. UNCHANGED <<input, taken, base, err, n, i, state, last, pc, count, cco, pco>>
    BY <1>12 DEF vars
  <2>2. Looked' = Looked
    BY <2>1 DEF Looked
  <2> QED
    BY <2>1, <2>2 DEF Where
<1> QED
  BY <1>1, <1>2, <1>3, <1>4, <1>5, <1>6, <1>7, <1>8, <1>9, <1>10, <1>11, <1>12
  DEF Next, Cycle, Release, Stopped

(* Every step keeps account of the bytes looked at.                         *)
LEMMA AccountStep ==
    ASSUME IInv, IInv', Where, NEW r, Account(r), [Next]_vars
    PROVE  \E u : Account(u)'
<1> USE DEF source, corrector, call, history
<1>0. /\ taken \in Nat /\ n \in Nat /\ i \in Nat /\ i <= n /\ base \in Nat /\ Len(input) \in Nat /\ taken <= Len(input)
      /\ pco \in Nat /\ max \in Nat /\ count \in Nat /\ pcb = ccb /\ pcb \in Nat /\ ~carry
  BY Bounds DEF IInv, Nums, Calls
<1>b. PICK b : b = Byte
  OBVIOUS
<1>1. ASSUME NEW k \in Sizes, Read(k) PROVE Account(r)'
  <2>1. /\ pc = "idle" /\ pc' = "fetch" /\ UNCHANGED <<taken, state>>
        /\ UNCHANGED <<input, dropped, delivered, own, cco, pco, pos>>
    BY <1>0, <1>1 DEF Read
  <2>2. Looked' = Looked /\ Finished(r)'
    BY <2>1 DEF Looked, Finished
  <2> QED
    BY <2>1, <2>2, Quiet
<1>2. ASSUME ReturnError PROVE Account(r)'
  <2>1. /\ pc = "fetch" /\ pc' \in {"drain", "done"} /\ UNCHANGED <<taken, state, max>>
        /\ UNCHANGED <<input, dropped, delivered, own, cco, pco, pos>>
    BY <1>2 DEF ReturnError
  <2>2. Looked' = Looked
    BY <2>1 DEF Looked
  <2>3. pc' = "done" => state \notin {"10XXXXXX", "ReleaseRestart"} /\ (state = "Start" => pco = 1)
    BY <1>0, <1>2, <2>1 DEF ReturnError, Held, IInv, Shape, Consumed
  <2>4. Finished(r)'
    <3>1. pc' = "done" => Sent = { r[j] : j \in { j \in Kept(Text(r)) : ~EofTail(Text(r), j) } }
      BY <2>1, <2>3, EndAccount
    <3>2. Sent' = Sent /\ Text(r)' = Text(r)
      BY <2>1 DEF Sent, Text
    <3> QED
      BY <3>1, <3>2 DEF Finished
  <2> QED
    BY <2>1, <2>2, <2>4, Quiet
<1>3. ASSUME Fetch PROVE Account(r)'
  <2>1. PICK k \in Nat : taken' = taken + k /\ n' = k
    BY <1>3, BufMaxAssumption DEF Fetch
  <2>2. /\ pc = "fetch" /\ pc' = "cycle" /\ i' = 0
        /\ UNCHANGED <<input, dropped, delivered, own, cco, pco, state, pos>>
    BY <1>3 DEF Fetch
  <2>3. Looked' = Looked
    BY <1>0, <2>1, <2>2 DEF Looked
  <2>4. Finished(r)'
    BY <2>2 DEF Finished
  <2> QED
    BY <2>2, <2>3, <2>4, Quiet
<1>4. ASSUME NoRoom PROVE Account(r)'
  <2>1. /\ pc = "fetch" /\ pc' = "cycle" /\ i' = 0 /\ n' = 0 /\ taken' = taken
        /\ UNCHANGED <<input, dropped, delivered, own, cco, pco, state, pos>>
    BY <1>4 DEF NoRoom
  <2>2. Looked' = Looked /\ Finished(r)'
    BY <1>0, <2>1 DEF Looked, Finished
  <2> QED
    BY <2>1, <2>2, Quiet
<1>5. ASSUME Normal PROVE \E u : Account(u)'
  <2>1. CASE Class # "lead"
    <3>1. Account(Append(r, b))'
      BY <1>5, <1>b, <2>1, PassAccount
    <3> QED
      BY <3>1
  <2>2. CASE Class = "lead"
    <3>1. /\ pc = "cycle" /\ i < n /\ state = "Normal" /\ state' = "Start" /\ own' = [own EXCEPT ![0] = b] /\ pco' = 1
          /\ pc' = "cycle" /\ i' = i + 1 /\ UNCHANGED <<input, taken, n, cco, dropped, delivered>>
      BY <1>5, <1>b, <2>2 DEF Normal, InCycle, Hold, Turn
    <3>2. pco = 0 /\ cco = 0
      BY <3>1 DEF IInv, Shape, Nums
    <3>3. b = Looked + 1 /\ b \in 1 .. Len(input) /\ input[b] = "lead"
      BY <1>b, <2>2, <3>1, Bounds DEF Class
    <3>4. Looked' = b
      BY <1>0, <3>1, <3>3 DEF Looked
    <3>5. cco = pco /\ cco' = 0 /\ b <= Len(input) /\ UNCHANGED <<input, dropped, delivered>>
      BY <1>0, <3>1, <3>2, <3>3
    <3>6. Account(Append(r, b))'
      BY <3>1, <3>3, <3>4, <3>5, BeginAccount
    <3> QED
      BY <3>6
  <2> QED
    BY <2>1, <2>2
<1>6. ASSUME Start \/ AfterCR \/ AfterLF \/ Joined PROVE \E u : Account(u)'
  <2>1. CASE Class = "lead"
    <3>1. /\ pc = "cycle" /\ i < n /\ Turn /\ Restart
          /\ UNCHANGED <<input, taken, base, n, cco, delivered, dropped>>
      BY <1>6, <2>1 DEF Start, AfterCR, AfterLF, Joined, InCycle
    <3>2. Account(r)'
      BY <3>1, RestartAccount
    <3> QED
      BY <3>2
  <2>2. CASE Class # "lead"
    <3>1. Account(Append(r, b))'
      BY <1>6, <1>b, <2>2, StartAccount, AfterCRAccount, AfterLFAccount, JoinedAccount, CorrectAccount
    <3> QED
      BY <3>1
  <2> QED
    BY <2>1, <2>2
<1>7. ASSUME Unhandled PROVE Account(r)'
  BY <1>7, UnhandledAccount
<1>8. ASSUME Emit PROVE Account(r)'
  BY <1>8, EmitAccount
<1>9. ASSUME Reset PROVE \E u : Account(u)'
  BY <1>9, ResetAccount
<1>10. ASSUME CycleDone PROVE Account(r)'
  <2>1. /\ pc = "cycle" /\ i >= n /\ pc' \in {"done", "idle"} /\ (pc' = "done" => cco >= pco)
        /\ UNCHANGED <<taken, state, max>>
        /\ UNCHANGED <<input, dropped, delivered, own, cco, pco, pos>>
    BY <1>0, <1>10 DEF CycleDone
  <2>2. Looked' = Looked
    BY <1>0, <2>1 DEF Looked
  <2>3. pc' = "done" => state \notin {"Start", "10XXXXXX", "ReleaseRestart"}
    BY <1>0, <2>1 DEF IInv, Shape, Consumed
  <2>4. Finished(r)'
    <3>1. pc' = "done" => Sent = { r[j] : j \in { j \in Kept(Text(r)) : ~EofTail(Text(r), j) } }
      BY <2>1, <2>3, EndAccount
    <3>2. Sent' = Sent /\ Text(r)' = Text(r)
      BY <2>1 DEF Sent, Text
    <3> QED
      BY <3>1, <3>2 DEF Finished
  <2> QED
    BY <2>1, <2>2, <2>4, Quiet
<1>11. ASSUME Overrun PROVE Account(r)'
  <2>1. pc = "drain" /\ pc' = "panic" /\ UNCHANGED <<taken, state>>
        /\ UNCHANGED <<input, dropped, delivered, own, cco, pco, pos>>
    BY <1>11, OverrunCase DEF Overrun
  <2>2. Looked' = Looked /\ Finished(r)'
    BY <2>1 DEF Looked, Finished
  <2> QED
    BY <2>1, <2>2, Quiet
<1>12. CASE UNCHANGED vars
  <2>1. UNCHANGED <<input, taken, base, err, n, i, state, last, pc, count, cco, pco, pos, own, max, delivered, dropped>>
    BY <1>12 DEF vars
  <2>2. Looked' = Looked /\ Sent' = Sent /\ InOwn' = InOwn /\ Text(r)' = Text(r)
    BY <2>1 DEF Looked, Sent, InOwn, Text
  <2>3. KeptOf(r)' = KeptOf(r)
    BY <2>2 DEF KeptOf
  <2>4. Looking(r)' /\ Sorted' /\ Passed(r)' /\ Finished(r)'
    BY <2>1, <2>2, <2>3 DEF Account, Looking, Sorted, Passed, Finished
  <2>5. HeldLast(r, Len(r) - pco)' <=> HeldLast(r, Len(r) - pco)
    BY <2>1 DEF HeldLast
  <2>6. Holding(Text(r), Len(r) - pco)' <=> Holding(Text(r), Len(r) - pco)
    BY <2>1, <2>2 DEF Holding
  <2>7. Ending(r)'
    BY <2>1, <2>2, <2>5, <2>6 DEF Account, Ending
  <2> QED
    BY <2>4, <2>7 DEF Account
<1> QED
  BY <1>1, <1>2, <1>3, <1>4, <1>5, <1>6, <1>7, <1>8, <1>9, <1>10, <1>11, <1>12
  DEF Next, Cycle, Release, Stopped

Order == Where /\ \E r : Account(r)

LEMMA OrderStep == IInv /\ IInv' /\ Order /\ [Next]_vars => Order'
<1> SUFFICES ASSUME IInv, IInv', Order, [Next]_vars PROVE Order'
  OBVIOUS
<1>1. PICK r : Account(r)
  BY DEF Order
<1>2. \E u : Account(u)'
  BY <1>1, AccountStep DEF Order
<1>3. Where'
  BY WhereStep DEF Order
<1> QED
  BY <1>2, <1>3 DEF Order

LEMMA OrderInit == Init => Order
<1> SUFFICES ASSUME Init PROVE Order
  OBVIOUS
<1>1. /\ Looked = 0 /\ state = "Normal" /\ pc = "idle" /\ dropped = {} /\ delivered = <<>> /\ pco = 0 /\ cco = 0
      /\ err = FALSE
  BY DEF Init, Looked
<1>2. Where
  BY <1>1 DEF Where
<1>3. Sent = {} /\ InOwn = {} /\ Range(<<>>) = {} /\ Rising(<<>>)
  <2>1. cco .. pco - 1 = {}
    BY <1>1
  <2> QED
    BY <1>1, <2>1 DEF Sent, InOwn, Range, Rising
<1>4. Looking(<<>>)
  <2>1. 1 .. 0 = {} /\ <<>> \in Seq(Nat)
    OBVIOUS
  <2> QED
    BY <1>1, <1>3, <2>1 DEF Looking
<1>5. Sorted
  <2>1. cco .. pco - 1 = {}
    BY <1>1
  <2> QED
    BY <1>1, <1>3, <2>1 DEF Sorted
<1>6. DOMAIN Text(<<>>) = {} /\ Text(<<>>) = <<>>
  BY DEF Text
<1>7. Passed(<<>>)
  BY <1>3, <1>6 DEF Passed, KeptOf, Kept
<1>8. Settled(Text(<<>>))
  <2>1. Len(<<>>) = 0 /\ 0 + 1 = 1 /\ 1 \in Int
    OBVIOUS
  <2>2. ~MayGoOn(<<>>, 1)
    BY MayGoOnIs
  <2> QED
    BY <1>6, <2>1, <2>2 DEF Settled
<1>9. Ending(<<>>) /\ Finished(<<>>)
  BY <1>1, <1>8 DEF Ending, Finished
<1> QED
  BY <1>2, <1>4, <1>5, <1>7, <1>9 DEF Order, Account
(* Positions picked from a rising sequence by a rising sequence.            *)
LEMMA PickedRises ==
    ASSUME NEW q \in Seq(Nat), Rising(q), NEW a \in Seq(Nat), Rising(a), Range(a) \subseteq 1 .. Len(q),
           NEW x, x = [k \in DOMAIN a |-> q[a[k]]]
    PROVE  /\ x \in Seq(Nat) /\ Rising(x) /\ Len(x) = Len(a) /\ DOMAIN x = DOMAIN a
           /\ Range(x) = { q[j] : j \in Range(a) }
<1>1. DOMAIN a = 1 .. Len(a) /\ Len(a) \in Nat /\ DOMAIN q = 1 .. Len(q)
  OBVIOUS
<1>2. \A k \in 1 .. Len(a) : a[k] \in 1 .. Len(q)
  BY <1>1 DEF Range
<1>3. \A k \in 1 .. Len(a) : q[a[k]] \in Nat
  BY <1>2
<1>4. x = [k \in 1 .. Len(a) |-> q[a[k]]]
  BY <1>1
<1>5. x \in Seq(Nat) /\ Len(x) = Len(a) /\ DOMAIN x = 1 .. Len(a)
  BY <1>1, <1>3, <1>4
<1>6. Rising(x)
  <2> SUFFICES ASSUME NEW k \in 1 .. Len(a), NEW l \in 1 .. Len(a), k < l PROVE x[k] < x[l]
    BY <1>5 DEF Rising
  <2>1. a[k] < a[l] /\ a[k] \in 1 .. Len(q) /\ a[l] \in 1 .. Len(q)
    BY <1>1, <1>2 DEF Rising
  <2>2. q[a[k]] < q[a[l]]
    BY <1>1, <2>1 DEF Rising
  <2> QED
    BY <1>4, <2>2
<1>7. Range(x) = { q[j] : j \in Range(a) }
  BY <1>1, <1>4, <1>5 DEF Range
<1> QED
  BY <1>1, <1>5, <1>6, <1>7

(* All positions, and those of them that are kept.                          *)
LEMMA PositionsRise ==
    ASSUME NEW s \in Seq(Classes)
    PROVE  Positions(s) \in Seq(Nat) /\ Rising(Positions(s)) /\ Range(Positions(s)) = 1 .. Len(s)
<1>1. DOMAIN s = 1 .. Len(s) /\ Len(s) \in Nat
  OBVIOUS
<1>2. Positions(s) = [j \in 1 .. Len(s) |-> j]
  BY <1>1 DEF Positions
<1>3. Positions(s) \in Seq(Nat) /\ DOMAIN Positions(s) = 1 .. Len(s)
  BY <1>1, <1>2
<1>4. \A j \in 1 .. Len(s) : Positions(s)[j] = j
  BY <1>2
<1> QED
  BY <1>3, <1>4 DEF Rising, Range

LEMMA CorrectedRises ==
    ASSUME NEW s \in Seq(Classes)
    PROVE  /\ Corrected(s) \in Seq(Nat) /\ Rising(Corrected(s)) /\ Range(Corrected(s)) = Kept(s)
           /\ Complete(s) \in Seq(Nat) /\ Rising(Complete(s))
           /\ Range(Complete(s)) = { j \in Kept(s) : ~EofTail(s, j) }
           /\ Kept(s) \subseteq 1 .. Len(s)
<1>1. Kept(s) \subseteq 1 .. Len(s) /\ DOMAIN s = 1 .. Len(s)
  BY DEF Kept
<1>2. Corrected(s) \in Seq(Nat) /\ Rising(Corrected(s)) /\ Range(Corrected(s)) = 1 .. Len(s) \cap Kept(s)
  BY PositionsRise, OnlyRises DEF Corrected
<1>3. Range(Corrected(s)) = Kept(s)
  BY <1>1, <1>2
<1> DEFINE S == { j \in DOMAIN s : ~EofTail(s, j) }
<1>4. Complete(s) = Only(Corrected(s), S)
  BY DEF Complete
<1> HIDE DEF S
<1>5. Complete(s) \in Seq(Nat) /\ Rising(Complete(s)) /\ Range(Complete(s)) = Kept(s) \cap S
  BY <1>2, <1>3, <1>4, OnlyRises
<1>6. Kept(s) \cap S = { j \in Kept(s) : ~EofTail(s, j) }
  BY <1>1 DEF S
<1> QED
  BY <1>1, <1>2, <1>3, <1>5, <1>6

(* What cycle has looked at begins the positions that some state handles.   *)
LEMMA SeenGoesOn ==
    ASSUME IInv, Where, NEW r, Account(r), pc \in {"idle", "done"}, NEW q, q = Seen
    PROVE  /\ q \in Seq(Nat) /\ Rising(q) /\ Range(q) = (1 .. Len(input)) \ dropped
           /\ r \in Seq(Nat) /\ Len(r) <= Len(q) /\ \A j \in 1 .. Len(r) : r[j] = q[j]
           /\ Range(r) = (1 .. taken) \ dropped
           /\ Text(r) \in Seq(Classes) /\ Len(Text(r)) = Len(r)
           /\ Text(q) \in Seq(Classes) /\ Len(Text(q)) = Len(q)
           /\ Continues(Text(q), Text(r))
           /\ pc = "done" => Len(q) = Len(r) /\ Text(q) = Text(r)
<1>1. input \in Seq(Classes) /\ Len(input) \in Nat /\ DOMAIN input = 1 .. Len(input) /\ taken \in Nat /\ taken <= Len(input)
  BY Bounds
<1>2. q \in Seq(Nat) /\ Rising(q) /\ Range(q) = (1 .. Len(input)) \ dropped
  <2>1. Range(q) = (1 .. Len(input)) \cap ((1 .. Len(input)) \ dropped) /\ q \in Seq(Nat) /\ Rising(q)
    BY <1>1, PositionsRise, OnlyRises DEF Seen
  <2> QED
    BY <2>1
<1>3. Looked = taken
  BY DEF Looked
<1>4. r \in Seq(Nat) /\ Rising(r) /\ Range(r) = (1 .. taken) \ dropped
  BY <1>3 DEF Account, Looking
<1>5. Range(r) \subseteq Range(q)
  BY <1>1, <1>2, <1>4
<1>6. \A p \in Range(q) : \A k \in DOMAIN r : p <= r[k] => p \in Range(r)
  <2> SUFFICES ASSUME NEW p \in Range(q), NEW k \in DOMAIN r, p <= r[k] PROVE p \in Range(r)
    OBVIOUS
  <2>1. r[k] \in (1 .. taken) \ dropped
    BY <1>4 DEF Range
  <2>2. p \in 1 .. Len(input) /\ p \notin dropped
    BY <1>2
  <2>3. p \in 1 .. taken
    BY <1>1, <2>1, <2>2
  <2> QED
    BY <1>4, <2>2, <2>3
<1>7. Len(r) <= Len(q) /\ \A j \in DOMAIN r : r[j] = q[j]
  BY <1>2, <1>4, <1>5, <1>6, RisingPrefix
<1>8. /\ DOMAIN r = 1 .. Len(r) /\ DOMAIN q = 1 .. Len(q) /\ Len(r) \in Nat /\ Len(q) \in Nat
      /\ \A j \in 1 .. Len(r) : r[j] \in 1 .. Len(input)
      /\ \A j \in 1 .. Len(q) : q[j] \in 1 .. Len(input)
  <2>1. DOMAIN r = 1 .. Len(r) /\ DOMAIN q = 1 .. Len(q) /\ Len(r) \in Nat /\ Len(q) \in Nat
    BY <1>2, <1>4
  <2>2. Range(q) \subseteq 1 .. Len(input) /\ Range(r) \subseteq 1 .. Len(input)
    BY <1>2, <1>5
  <2> QED
    BY <2>1, <2>2 DEF Range
<1>9. Text(r) \in Seq(Classes) /\ Len(Text(r)) = Len(r) /\ \A j \in 1 .. Len(r) : Text(r)[j] = input[r[j]]
  BY <1>1, <1>8 DEF Text
<1>10. Text(q) \in Seq(Classes) /\ Len(Text(q)) = Len(q) /\ \A j \in 1 .. Len(q) : Text(q)[j] = input[q[j]]
  BY <1>1, <1>8 DEF Text
<1>11. Continues(Text(q), Text(r))
  <2>1. \A j \in 1 .. Len(r) : j \in 1 .. Len(q)
    BY <1>7, <1>8
  <2>2. \A j \in 1 .. Len(r) : Text(q)[j] = Text(r)[j]
    BY SMTT(30), <1>7, <1>8, <1>9, <1>10, <2>1
  <2> QED
    BY <1>7, <1>9, <1>10, <2>2 DEF Continues
<1>12. ASSUME pc = "done" PROVE Len(q) = Len(r) /\ Text(q) = Text(r)
  <2>1. taken = Len(input)
    BY <1>12 DEF Where
  <2>2. Range(q) = Range(r)
    BY <1>2, <1>4, <2>1
  <2>3. Len(q) <= Len(r)
    BY <1>2, <1>4, <2>2, RisingPrefix
  <2>4. Len(q) = Len(r)
    <3>1. Len(q) \in Nat /\ Len(r) \in Nat /\ Len(r) <= Len(q)
      BY <1>7, <1>8
    <3> QED
      BY <2>3, <3>1
  <2>5. q = r
    <3>1. \A j \in 1 .. Len(q) : q[j] = r[j]
      BY <1>7, <1>8, <2>4
    <3> QED
      BY <1>2, <1>4, <2>4, <3>1
  <2> QED
    BY <2>5
<1> QED
  BY <1>2, <1>4, <1>7, <1>8, <1>9, <1>10, <1>11, <1>12

(* A byte that is out when a call returns is not at an end of line that the *)
(* next bytes could still make a stray one.                                 *)
LEMMA SentStays ==
    ASSUME IInv, Where, NEW r, Account(r), pc = "idle", NEW j \in 1 .. Len(r), r[j] \in Sent
    PROVE  ~Open(Text(r), j)
<1>w. PICK w : w = Text(r)
  OBVIOUS
<1>1. r \in Seq(1 .. Len(input)) /\ input \in Seq(Classes) /\ \A y \in Sent \union InOwn : y \in Nat
  BY LookingBounds, Bounds DEF Account
<1>2. w \in Seq(Classes) /\ Len(w) = Len(r) /\ Len(r) \in Nat
  <2>1. Text(r) \in Seq(Classes) /\ Len(Text(r)) = Len(r) /\ Len(r) \in Nat
    BY SMTT(30), <1>1 DEF Text
  <2> QED
    BY <1>w, <2>1
<1>3. CASE state \in {"Normal", "Release", "10XXXXXX"}
  <2>1. Settled(w)
    BY <1>3, <1>w DEF Account, Ending
  <2> QED
    BY <1>2, <1>w, <2>1, SettledClosed
<1>4. CASE state \in {"Start", "0D", "0A"}
  <2>h. PICK h : h = Len(r) - pco
    OBVIOUS
  <2>1. HeldLast(r, h) /\ Holding(w, h) /\ cco = 0
    BY <1>4, <1>w, <2>h DEF Account, Ending, IInv, Consumed
  <2>2. /\ h \in Nat /\ Len(r) = h + pco /\ pco \in 1 .. 5
        /\ state = "Start" => pco \in 1 .. 3
        /\ state \in {"0D", "0A"} => pco >= 2
    BY <2>1, <1>4 DEF HeldLast, IInv, Shape
  <2>3. j <= h
    <3> SUFFICES ASSUME j > h PROVE FALSE
      BY <2>2
    <3>1. (j - h) - 1 \in 0 .. pco - 1 /\ h + (((j - h) - 1) + 1) = j
      BY <2>2
    <3>2. own[(j - h) - 1] = r[j] /\ own[(j - h) - 1] \in InOwn
      BY <2>1, <3>1 DEF HeldLast, InOwn
    <3>3. r[j] < r[j] /\ r[j] \in Nat
      BY <1>1, <3>2 DEF Account, Sorted
    <3> QED
      BY <3>3
  <2>4. CASE state = "Start"
    <3>1. w[Len(w)] \in {"lead", "cont"}
      <4>1. Leading(w, h, pco) /\ (pco = 1 \/ pco \in 2 .. pco)
        BY <2>1, <2>2, <2>4 DEF Holding
      <4> QED
        BY <1>2, <2>2, <4>1 DEF Leading
    <3> QED
      BY <1>w, <3>1 DEF Open
  <2>5. CASE state \in {"0D", "0A"}
    <3>1. j # Len(w) /\ j # Len(w) - 1
      BY <1>2, <2>2, <2>3, <2>5
    <3> QED
      BY <1>w, <3>1 DEF Open
  <2> QED
    BY <1>4, <2>4, <2>5
<1>5. state # "ReleaseRestart"
  BY DEF Where
<1> QED
  BY <1>3, <1>4, <1>5 DEF IInv, Tags, States

(* The order of what is delivered.                                          *)
LEMMA InOrder == IInv /\ Order => OnlyStrayRemoved
<1> SUFFICES ASSUME IInv, Order, pc \in {"idle", "done"}
             PROVE  /\ Len(delivered) <= Len(Corrected(Text(Seen)))
                    /\ \A k \in DOMAIN delivered : delivered[k] = Seen[Corrected(Text(Seen))[k]]
  BY DEF OnlyStrayRemoved
<1> USE DEF Order
<1>r. PICK r : Account(r)
  OBVIOUS
<1>q. PICK q : q = Seen
  OBVIOUS
<1>s. PICK s : s = Text(q)
  OBVIOUS
<1>w. PICK w : w = Text(r)
  OBVIOUS
<1>a. PICK a : a = Corrected(s)
  OBVIOUS
<1>x. PICK x : x = [k \in DOMAIN a |-> q[a[k]]]
  OBVIOUS
<1>1. /\ q \in Seq(Nat) /\ Rising(q) /\ Range(q) = (1 .. Len(input)) \ dropped
      /\ r \in Seq(Nat) /\ Len(r) <= Len(q) /\ (\A j \in 1 .. Len(r) : r[j] = q[j])
      /\ Range(r) = (1 .. taken) \ dropped
      /\ w \in Seq(Classes) /\ Len(w) = Len(r)
      /\ s \in Seq(Classes) /\ Len(s) = Len(q)
      /\ Continues(s, w)
      /\ pc = "done" => Len(q) = Len(r) /\ s = w
  BY <1>r, <1>q, <1>s, <1>w, SeenGoesOn
<1>2. a \in Seq(Nat) /\ Rising(a) /\ Range(a) = Kept(s) /\ Kept(s) \subseteq 1 .. Len(s)
  BY <1>1, <1>a, CorrectedRises
<1>3. x \in Seq(Nat) /\ Rising(x) /\ Len(x) = Len(a) /\ DOMAIN x = DOMAIN a /\ Range(x) = { q[j] : j \in Kept(s) }
  <2>1. Range(a) \subseteq 1 .. Len(q)
    BY <1>1, <1>2
  <2>2. x \in Seq(Nat) /\ Rising(x) /\ Len(x) = Len(a) /\ DOMAIN x = DOMAIN a /\ Range(x) = { q[j] : j \in Range(a) }
    <3>1. q \in Seq(Nat) /\ Rising(q) /\ a \in Seq(Nat) /\ Rising(a)
      BY <1>1, <1>2
    <3> QED
      BY <1>x, <2>1, <3>1, PickedRises
  <2> QED
    BY <1>2, <2>2
<1>4. /\ delivered \in Seq(Nat) /\ Rising(delivered) /\ Sent = Range(delivered)
      /\ KeptOf(r) = Sent \union InOwn /\ KeptOf(r) = { r[j] : j \in Kept(w) }
      /\ Kept(w) = { j \in 1 .. Len(r) : ~Stray(w, j) }
      /\ \A y \in Sent, z \in InOwn : y < z /\ y \in Nat /\ z \in Nat
  <2>1. delivered \in Seq(Nat) /\ \A y \in Sent \union InOwn : y \in Nat
    BY <1>r, Bounds, LookingBounds DEF Account
  <2>2. Kept(w) = { j \in 1 .. Len(r) : ~Stray(w, j) }
    BY <1>1 DEF Kept
  <2> QED
    BY <1>r, <1>w, <2>1, <2>2 DEF Account, Sorted, Passed, KeptOf, Sent
<1>5. \A j \in 1 .. Len(r) : Stray(w, j) => Stray(s, j)
  BY <1>1, StrayStays
<1>6. ASSUME NEW j \in 1 .. Len(r), r[j] \in Sent, Stray(s, j) PROVE Stray(w, j)
  <2>1. CASE pc = "done"
    BY <1>1, <1>6, <2>1
  <2>2. CASE pc = "idle"
    <3>1. ~Open(w, j)
      BY <1>r, <1>w, <1>6, <2>2, SentStays
    <3> QED
      BY <1>1, <1>6, <3>1, StrayStays
  <2> QED
    BY <2>1, <2>2
<1>7. Range(delivered) \subseteq Range(x)
  <2> SUFFICES ASSUME NEW y \in Sent PROVE y \in Range(x)
    BY <1>4
  <2>1. PICK j \in Kept(w) : y = r[j]
    BY <1>4
  <2>2. j \in 1 .. Len(r) /\ ~Stray(w, j) /\ j \in 1 .. Len(s) /\ q[j] = y
    BY <1>1, <1>4, <2>1
  <2>3. ~Stray(s, j)
    BY <1>6, <2>1, <2>2
  <2>4. j \in Kept(s)
    BY <1>1, <2>2, <2>3 DEF Kept
  <2> QED
    BY <1>3, <2>2, <2>4
<1>8. \A p \in Range(x) : \A k \in DOMAIN delivered : p <= delivered[k] => p \in Range(delivered)
  <2> SUFFICES ASSUME NEW p \in Range(x), NEW k \in DOMAIN delivered, p <= delivered[k]
               PROVE  p \in Sent
    BY <1>4
  <2>1. PICK j \in Kept(s) : p = q[j]
    BY <1>3
  <2>2. j \in 1 .. Len(q) /\ ~Stray(s, j)
    BY <1>1, <1>2, <2>1 DEF Kept
  <2>3. delivered[k] \in Sent
    BY <1>4 DEF Range
  <2>4. PICK l \in 1 .. Len(r) : delivered[k] = r[l]
    BY <1>4, <2>3
  <2>5. r[l] = q[l] /\ l \in 1 .. Len(q)
    BY <1>1
  <2>6. j <= l
    <3> SUFFICES ASSUME l < j PROVE FALSE
      BY <2>2, <2>5
    <3>0. j \in DOMAIN q /\ l \in DOMAIN q /\ q[l] \in Nat /\ q[j] \in Nat
      BY <1>1, <2>2, <2>5
    <3>1. q[l] < q[j]
      BY <1>1, <3>0 DEF Rising
    <3> QED
      BY <2>1, <2>4, <2>5, <3>0, <3>1
  <2>7. j \in 1 .. Len(r)
    BY <2>2, <2>6
  <2>8. p = r[j] /\ ~Stray(w, j)
    BY <1>1, <1>5, <2>1, <2>2, <2>7
  <2>9. p \in Sent \union InOwn
    BY <1>4, <2>7, <2>8
  <2>10. p \notin InOwn
    <3> SUFFICES ASSUME p \in InOwn PROVE FALSE
      OBVIOUS
    <3>1. delivered[k] < p /\ delivered[k] \in Nat /\ p \in Nat
      BY <1>4, <2>3
    <3> QED
      BY <3>1
  <2> QED
    BY <2>9, <2>10
<1>9. Len(delivered) <= Len(x) /\ \A k \in DOMAIN delivered : delivered[k] = x[k]
  BY <1>3, <1>4, <1>7, <1>8, RisingPrefix
<1>10. \A k \in DOMAIN delivered : k \in DOMAIN a
  <2>1. DOMAIN delivered = 1 .. Len(delivered) /\ DOMAIN a = 1 .. Len(a) /\ Len(a) \in Nat /\ Len(delivered) \in Nat
    BY <1>2, <1>4
  <2> QED
    BY <1>3, <1>9, <2>1
<1>11. Len(delivered) <= Len(a) /\ \A k \in DOMAIN delivered : delivered[k] = q[a[k]]
  BY <1>3, <1>9, <1>10, <1>x
<1> QED
  BY <1>11, <1>q, <1>s, <1>a

(* All of it at the end.                                                    *)
LEMMA AllAtEnd == IInv /\ Order => CompleteAtError
<1> SUFFICES ASSUME IInv, Order, pc = "done", max >= OwnSize
             PROVE  Len(delivered) = Len(Complete(Text(Seen)))
  BY DEF CompleteAtError
<1> USE DEF Order
<1>r. PICK r : Account(r)
  OBVIOUS
<1>q. PICK q : q = Seen
  OBVIOUS
<1>s. PICK s : s = Text(q)
  OBVIOUS
<1>a. PICK a : a = Complete(s)
  OBVIOUS
<1>x. PICK x : x = [k \in DOMAIN a |-> q[a[k]]]
  OBVIOUS
<1>1. /\ q \in Seq(Nat) /\ Rising(q) /\ (\A j \in 1 .. Len(q) : r[j] = q[j])
      /\ s \in Seq(Classes) /\ Len(s) = Len(q) /\ s = Text(r)
  BY <1>r, <1>q, <1>s, SeenGoesOn
<1>2. /\ a \in Seq(Nat) /\ Rising(a) /\ Range(a) = { j \in Kept(s) : ~EofTail(s, j) }
      /\ Kept(s) \subseteq 1 .. Len(s)
  BY <1>1, <1>a, CorrectedRises
<1>3. Range(a) \subseteq 1 .. Len(q)
  BY <1>1, <1>2
<1>4. x \in Seq(Nat) /\ Rising(x) /\ Len(x) = Len(a) /\ Range(x) = { q[j] : j \in Range(a) }
  BY <1>1, <1>2, <1>3, <1>x, PickedRises
<1>5. Range(delivered) = { r[j] : j \in { j \in Kept(s) : ~EofTail(s, j) } }
  BY <1>r, <1>1 DEF Account, Finished, Sent
<1>6. Range(delivered) = Range(x)
  BY <1>1, <1>2, <1>3, <1>4, <1>5
<1>7. delivered \in Seq(Nat) /\ Rising(delivered)
  BY <1>r, Bounds DEF Account, Sorted
<1>8. Len(delivered) <= Len(x) /\ Len(x) <= Len(delivered)
  BY <1>4, <1>6, <1>7, RisingPrefix
<1>9. Len(delivered) = Len(a)
  <2>1. Len(delivered) \in Nat /\ Len(x) \in Nat
    BY <1>4, <1>7
  <2> QED
    BY <1>4, <1>8, <2>1
<1> QED
  BY <1>9, <1>q, <1>s, <1>a

(* The account is kept in every state, between and within calls.            *)
LEMMA OrderInductive == Spec => []Order
<1>1. Init => Order
  BY OrderInit
<1>2. IInv /\ IInv' /\ Order /\ [Next]_vars => Order'
  BY OrderStep
<1> QED
  BY <1>1, <1>2, Inductive, PTL DEF Spec

(* When Read returns, what it has delivered so far is, in order and once    *)
(* each, the bytes some state handles without the ends of line inside a     *)
(* character: for every input, and whatever the sizes of the slices and of  *)
(* the source's reads.                                                      *)
THEOREM DeliveredInOrder == Spec => []OnlyStrayRemoved
<1>1. IInv /\ Order => OnlyStrayRemoved
  BY InOrder
<1> QED
  BY <1>1, Inductive, OrderInductive, PTL

(* And it is all of them at the error, if the last slice has room for what  *)
(* may be held, but for what Read does not drain: a lead byte that ends the *)
(* stream, or a lead byte, up to two continuation bytes, which may make it  *)
(* a finished character, and an end of line that do.                        *)
THEOREM DeliveredAtEnd == Spec => []CompleteAtError
<1>1. IInv /\ Order => CompleteAtError
  BY AllAtEnd
<1> QED
  BY <1>1, Inductive, OrderInductive, PTL
=============================================================================
