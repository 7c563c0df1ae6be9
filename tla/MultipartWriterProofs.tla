----------------------- MODULE MultipartWriterProofs -----------------------
(***************************************************************************)
(* Proofs about MultipartWriter, as it runs in MultipartRoundTrip, for any *)
(* boundaries, chunks and number of calls and failures; and that what it   *)
(* has written is read back.                                               *)
(***************************************************************************)
EXTENDS MultipartRoundTrip, SequenceTheorems, TLAPS

Text == {"cr", "lf", "-", "x"}
Put  == {"cr", "lf", "-", "x", "H"} \union Valid \union {Random}
Part == [closed : BOOLEAN, we : BOOLEAN]

(* Only the last part can hold an error, and then Close has not returned   *)
(* nil: this is what makes an error final.                                 *)
LastHolds ==
    /\ \A p \in DOMAIN parts : parts[p].we => p = lastpart
    /\ done => lastpart = 0

WInv == WTypeOK /\ LastHolds
-----------------------------------------------------------------------------
LEMMA Facts ==
    ASSUME WTypeOK
    PROVE  /\ out \in Seq(Put) /\ boundary \in Valid \union {Random} /\ boundary \in Put
           /\ parts \in Seq(Part) /\ Len(parts) \in Nat /\ DOMAIN parts = 1 .. Len(parts)
           /\ lastpart \in {0, Len(parts)} /\ bodies \in Seq(Seq(Text)) /\ Len(bodies) = Len(parts)
           /\ done \in BOOLEAN /\ broken \in BOOLEAN /\ result \in {"nil", "error"}
           /\ MaxCalls \in Nat /\ MaxFailures \in Nat
           /\ calls \in 0 .. MaxCalls /\ failures \in 0 .. MaxFailures
           /\ \A p \in DOMAIN parts : p # lastpart => parts[p].closed
<1>1. parts \in Seq(Part)
  BY DEF WTypeOK, Part
<1>2. Len(parts) \in Nat /\ DOMAIN parts = 1 .. Len(parts)
  BY <1>1
<1>3. bodies \in [1 .. Len(parts) -> Seq(Text)]
  BY <1>2 DEF WTypeOK, Text
<1>4. bodies \in Seq(Seq(Text)) /\ Len(bodies) = Len(parts)
  <2>1. DOMAIN bodies = 1 .. Len(parts)
    BY <1>3
  <2>2. bodies \in Seq(Seq(Text))
    BY <1>2, <1>3
  <2> QED
    BY <1>2, <2>1, <2>2
<1>5. out \in Seq(Put) /\ boundary \in Put
  BY DEF WTypeOK, Put
<1> QED
  BY <1>1, <1>2, <1>4, <1>5, ChunksAssumption DEF WTypeOK

(* The same, as a formula. *)
Shape ==
    /\ out \in Seq(Put) /\ boundary \in Valid \union {Random}
    /\ parts \in Seq(Part) /\ lastpart \in {0, Len(parts)}
    /\ bodies \in Seq(Seq(Text)) /\ Len(bodies) = Len(parts)
    /\ done \in BOOLEAN /\ broken \in BOOLEAN /\ result \in {"nil", "error"}
    /\ calls \in 0 .. MaxCalls /\ failures \in 0 .. MaxFailures
    /\ \A p \in DOMAIN parts : p # lastpart => parts[p].closed

LEMMA ShapeOK == Shape => WTypeOK
<1> SUFFICES ASSUME Shape PROVE WTypeOK
  OBVIOUS
<1>1. bodies \in [DOMAIN parts -> Seq(Text)]
  <2>1. parts \in Seq(Part) /\ bodies \in Seq(Seq(Text)) /\ Len(bodies) = Len(parts)
    BY DEF Shape
  <2>2. DOMAIN parts = DOMAIN bodies
    BY <2>1
  <2> QED
    BY <2>1, <2>2
<1> QED
  BY <1>1 DEF Shape, WTypeOK, Put, Part, Text

LEMMA TakesOK ==
    ASSUME WTypeOK, NEW s \in Seq(Put), Takes(s) \/ Fails(s)
    PROVE  out' \in Seq(Put) /\ failures' \in 0 .. MaxFailures
<1>1. out \in Seq(Put) /\ failures \in 0 .. MaxFailures /\ MaxFailures \in Nat
  BY Facts
<1>2. CASE Takes(s)
  BY <1>1, <1>2 DEF Takes
<1>3. CASE Fails(s)
  <2>1. PICK n \in {0, Max({0, Len(s) - 1})} : out' = out \o SubSeq(s, 1, n)
    BY <1>3 DEF Fails
  <2>2. n \in 0 .. Len(s)
    <3>1. Max({0, Len(s) - 1}) \in {0, Len(s) - 1} /\ Max({0, Len(s) - 1}) >= 0
      <4> DEFINE S == {0, Len(s) - 1}
      <4>1. Len(s) \in Nat
        OBVIOUS
      <4>2. \E x \in S : \A y \in S : x >= y
        BY <4>1
      <4>3. Max(S) \in S /\ \A y \in S : Max(S) >= y
        BY <4>2, Zenon DEF Max
      <4> QED
        BY <4>3
    <3> QED
      BY <3>1
  <2>3. SubSeq(s, 1, n) \in Seq(Put)
    BY <2>2
  <2> QED
    BY <1>1, <1>3, <2>1, <2>3 DEF Fails
<1> QED
  BY <1>2, <1>3

(* Closing the last part changes nothing but that it is closed. *)
LEMMA ClosedPartsOK ==
    ASSUME WTypeOK
    PROVE  /\ ClosedParts \in Seq(Part) /\ Len(ClosedParts) = Len(parts)
           /\ \A p \in DOMAIN parts : ClosedParts[p].closed /\ ClosedParts[p].we = parts[p].we
<1>1. parts \in Seq(Part) /\ Len(parts) \in Nat /\ DOMAIN parts = 1 .. Len(parts)
  BY Facts
<1>2. \A p \in DOMAIN parts : p # lastpart => parts[p].closed
  BY Facts
<1>3. ASSUME NEW p \in DOMAIN parts
      PROVE  ClosedParts[p] \in Part /\ ClosedParts[p].closed /\ ClosedParts[p].we = parts[p].we
  <2>1. parts[p] \in Part
    BY <1>1, <1>3
  <2>2. ClosedParts[p] = IF p = lastpart THEN [parts[p] EXCEPT !.closed = TRUE] ELSE parts[p]
    BY <1>3 DEF ClosedParts
  <2> QED
    BY <1>2, <1>3, <2>1, <2>2 DEF Part
<1>4. DOMAIN ClosedParts = 1 .. Len(parts)
  BY <1>1 DEF ClosedParts
<1>5. ClosedParts \in [1 .. Len(parts) -> Part]
  <2>1. ClosedParts = [p \in 1 .. Len(parts) |-> ClosedParts[p]]
    BY <1>1 DEF ClosedParts
  <2> HIDE DEF ClosedParts
  <2> QED
    BY <1>1, <1>3, <1>4, <2>1
<1> QED
  BY <1>1, <1>3, <1>4, <1>5

(* The boundary lines that are written, and what stands before them. *)
LEMMA LinesOK ==
    ASSUME WTypeOK
    PROVE  /\ \A h \in {<<"H">>, CRLF} : Lead \o <<"-", "-", boundary>> \o CRLF \o h \in Seq(Put)
           /\ CRLF \o <<"-", "-", boundary, "-", "-">> \o CRLF \in Seq(Put)
<1>1. boundary \in Put /\ "-" \in Put /\ "H" \in Put /\ "cr" \in Put /\ "lf" \in Put
  BY Facts DEF Put
<1> HIDE DEF Put
<1>2. CRLF \in Seq(Put) /\ <<"H">> \in Seq(Put) /\ <<"-", "-", boundary>> \in Seq(Put)
      /\ <<"-", "-", boundary, "-", "-">> \in Seq(Put) /\ Lead \in Seq(Put)
  BY <1>1 DEF CRLF, Lead
<1>3. \A s, t \in Seq(Put) : s \o t \in Seq(Put)
  OBVIOUS
<1> QED
  BY <1>2, <1>3

-----------------------------------------------------------------------------
LEMMA InitOK == WInit => WInv
<1> SUFFICES ASSUME WInit PROVE WInv
  OBVIOUS
<1>1. \A S : <<>> \in Seq(S)
  OBVIOUS
<1>2. Len(<<>>) = 0 /\ DOMAIN <<>> = {}
  OBVIOUS
<1>3. 0 \in 0 .. MaxCalls /\ 0 \in 0 .. MaxFailures
  BY ChunksAssumption
<1>4. WTypeOK
  BY <1>1, <1>2, <1>3, ShapeOK DEF WInit, Shape
<1> QED
  BY <1>2, <1>4 DEF WInv, LastHolds, WInit

LEMMA StepOK == WInv /\ [WNext]_wvars => WInv'
<1> SUFFICES ASSUME WInv, [WNext]_wvars PROVE WTypeOK' /\ LastHolds'
  BY DEF WInv
<1>1. WTypeOK /\ LastHolds
  BY DEF WInv
<1>2. Shape' => WTypeOK'
  BY ShapeOK, PTL
<1>3. /\ out \in Seq(Put) /\ boundary \in Valid \union {Random}
      /\ parts \in Seq(Part) /\ lastpart \in {0, Len(parts)}
      /\ bodies \in Seq(Seq(Text)) /\ Len(bodies) = Len(parts)
  BY <1>1, Facts
<1>4. Len(parts) \in Nat /\ DOMAIN parts = 1 .. Len(parts)
  BY <1>3
<1>5. done \in BOOLEAN /\ broken \in BOOLEAN /\ result \in {"nil", "error"}
  BY <1>1, Facts
<1>6. calls \in 0 .. MaxCalls /\ failures \in 0 .. MaxFailures /\ (calls < MaxCalls => calls + 1 \in 0 .. MaxCalls)
  <2>1. MaxCalls \in Nat /\ calls \in 0 .. MaxCalls /\ failures \in 0 .. MaxFailures
    BY <1>1, Facts
  <2> QED
    BY <2>1
<1>7. \A p \in DOMAIN parts : p # lastpart => parts[p].closed
  BY <1>1, Facts
<1>8. \A p \in DOMAIN parts : parts[p].we => p = lastpart
  BY <1>1 DEF LastHolds
<1>9. ~HasError => \A p \in DOMAIN parts : ~parts[p].we
  BY <1>8, <1>4 DEF HasError
<1>a. /\ ClosedParts \in Seq(Part) /\ Len(ClosedParts) = Len(parts) /\ DOMAIN ClosedParts = DOMAIN parts
      /\ \A p \in DOMAIN parts : ClosedParts[p].closed /\ ClosedParts[p].we = parts[p].we
  <2>1. /\ ClosedParts \in Seq(Part) /\ Len(ClosedParts) = Len(parts)
        /\ \A p \in DOMAIN parts : ClosedParts[p].closed /\ ClosedParts[p].we = parts[p].we
    BY <1>1, ClosedPartsOK
  <2> QED
    BY <1>4, <2>1
<1> HIDE DEF Put, Text, Part, ClosedParts
(* CreatePart and Close, after an error of the last part *)
<1>10. ASSUME Refused, calls' \in 0 .. MaxCalls PROVE WTypeOK' /\ LastHolds'
  <2>1. /\ parts' = ClosedParts /\ result' = "error"
        /\ UNCHANGED <<out, boundary, lastpart, bodies, done, broken, failures>>
    BY <1>10 DEF Refused
  <2>2. Shape'
    BY <1>3, <1>5, <1>6, <1>a, <1>10, <2>1 DEF Shape
  <2>3. LastHolds'
    BY <1>1, <1>a, <2>1 DEF LastHolds
  <2> QED
    BY <1>2, <2>2, <2>3
<1>11. ASSUME NEW x \in Boundaries, SetBoundary(x) PROVE WTypeOK' /\ LastHolds'
  <2>1. UNCHANGED <<out, parts, lastpart, bodies, calls, failures>>
    BY <1>11 DEF SetBoundary
  <2>2. /\ boundary' \in Valid \union {Random} /\ result' \in {"nil", "error"}
        /\ done' \in BOOLEAN /\ broken' \in BOOLEAN /\ (done' => lastpart = 0)
    BY <1>1, <1>3, <1>5, <1>11 DEF SetBoundary, LastHolds
  <2>3. Shape'
    BY <1>3, <1>6, <1>7, <2>1, <2>2 DEF Shape
  <2>4. LastHolds'
    BY <1>8, <2>1, <2>2 DEF LastHolds
  <2> QED
    BY <1>2, <2>3, <2>4
<1>12. ASSUME NEW h \in {<<"H">>, CRLF}, CreatePart(h) PROVE WTypeOK' /\ LastHolds'
  <2> DEFINE s == Lead \o <<"-", "-", boundary>> \o CRLF \o h
             new == [closed |-> FALSE, we |-> FALSE]
  <2>1. s \in Seq(Put)
    BY <1>1, LinesOK
  <2> HIDE DEF s
  <2>2. calls' \in 0 .. MaxCalls
    BY <1>6, <1>12 DEF CreatePart
  <2>3. CASE HasError
    BY <1>10, <1>12, <2>2, <2>3 DEF CreatePart
  <2>4. CASE ~HasError
    <3>1. done' = FALSE /\ boundary' = boundary /\ result' \in {"nil", "error"} /\ (Takes(s) \/ Fails(s))
      BY <1>12, <2>4 DEF CreatePart, s
    <3>2. out' \in Seq(Put) /\ failures' \in 0 .. MaxFailures
      BY <1>1, <2>1, <3>1, TakesOK
    <3>3. CASE /\ parts' = Append(ClosedParts, new)
               /\ lastpart' = Len(parts) + 1 /\ bodies' = Append(bodies, <<>>)
               /\ broken' = (broken \/ (lastpart = 0 /\ out # <<>>))
      <4>1. new \in Part /\ ~new.we
        BY DEF Part
      <4> HIDE DEF new
      <4>2. /\ parts' \in Seq(Part) /\ Len(parts') = Len(parts) + 1 /\ DOMAIN parts' = 1 .. Len(parts) + 1
            /\ \A p \in DOMAIN parts : parts'[p] = ClosedParts[p]
            /\ parts'[Len(parts) + 1] = new
        BY <1>4, <1>a, <3>3, <4>1
      <4>3. bodies' \in Seq(Seq(Text)) /\ Len(bodies') = Len(parts) + 1
        <5>1. <<>> \in Seq(Text)
          OBVIOUS
        <5> QED
          BY <1>3, <1>4, <3>3, <5>1
      <4>4. \A p \in DOMAIN parts' : p \in DOMAIN parts \/ p = lastpart'
        BY <1>4, <3>3, <4>2
      <4>5. broken' \in BOOLEAN /\ done' \in BOOLEAN /\ ~done'
        BY <3>1, <3>3
      <4>6. Shape'
        BY <1>3, <1>a, <2>2, <3>1, <3>2, <3>3, <4>2, <4>3, <4>4, <4>5 DEF Shape
      <4>7. LastHolds'
        BY <1>9, <1>a, <2>4, <4>1, <4>2, <4>4, <4>5, <3>3 DEF LastHolds
      <4> QED
        BY <1>2, <4>6, <4>7
    <3>4. CASE parts' = ClosedParts /\ broken' = TRUE /\ UNCHANGED <<lastpart, bodies>>
      <4>1. Shape'
        BY <1>3, <1>a, <2>2, <3>1, <3>2, <3>4 DEF Shape
      <4>2. LastHolds'
        BY <1>9, <1>a, <2>4, <3>1, <3>4 DEF LastHolds
      <4> QED
        BY <1>2, <4>1, <4>2
    <3> QED
      BY <1>12, <2>4, <3>3, <3>4 DEF CreatePart
  <2> QED
    BY <2>3, <2>4
<1>13. ASSUME NEW p \in DOMAIN parts, NEW d \in Chunks, Write(p, d) PROVE WTypeOK' /\ LastHolds'
  <2>1. calls' \in 0 .. MaxCalls /\ result' \in {"nil", "error"} /\ UNCHANGED <<boundary, lastpart, done, broken>>
    BY <1>6, <1>13 DEF Write
  <2>2. d \in Seq(Text) /\ d \in Seq(Put)
    <3>1. d \in Seq(Text)
      BY ChunksAssumption DEF Text
    <3>2. Text \subseteq Put
      BY DEF Text, Put
    <3> QED
      BY <3>1, <3>2
  <2>3. CASE parts[p].closed /\ UNCHANGED <<out, parts, bodies, failures>>
    <3>1. Shape'
      BY <1>3, <1>5, <1>6, <1>7, <2>1, <2>3 DEF Shape
    <3>2. LastHolds'
      BY <1>1, <2>1, <2>3 DEF LastHolds
    <3> QED
      BY <1>2, <3>1, <3>2
  <2>4. CASE Takes(d) /\ bodies' = [bodies EXCEPT ![p] = @ \o d] /\ UNCHANGED parts
    <3>1. out' \in Seq(Put) /\ failures' \in 0 .. MaxFailures
      BY <1>1, <2>2, <2>4, TakesOK
    <3>2. bodies' \in Seq(Seq(Text)) /\ Len(bodies') = Len(bodies)
      <4>1. p \in DOMAIN bodies /\ bodies[p] \in Seq(Text)
        BY <1>3, <1>4
      <4>2. bodies[p] \o d \in Seq(Text)
        BY <2>2, <4>1
      <4> QED
        BY <1>3, <2>4, <4>1, <4>2
    <3>3. Shape'
      BY <1>3, <1>5, <1>7, <2>1, <2>4, <3>1, <3>2 DEF Shape
    <3>4. LastHolds'
      BY <1>1, <2>1, <2>4 DEF LastHolds
    <3> QED
      BY <1>2, <3>3, <3>4
  <2>5. CASE ~parts[p].closed /\ Fails(d) /\ parts' = [parts EXCEPT ![p].we = TRUE] /\ UNCHANGED bodies
    <3>1. out' \in Seq(Put) /\ failures' \in 0 .. MaxFailures
      BY <1>1, <2>2, <2>5, TakesOK
    <3>2. p = lastpart /\ lastpart # 0
      BY <1>4, <1>7, <2>5
    <3>3. parts[p] \in Part
      BY <1>3
    <3>4. /\ parts' \in Seq(Part) /\ Len(parts') = Len(parts) /\ DOMAIN parts' = DOMAIN parts
          /\ \A q \in DOMAIN parts : parts'[q].closed = parts[q].closed /\ (q # p => parts'[q].we = parts[q].we)
      <4>1. [parts[p] EXCEPT !.we = TRUE] \in Part
        BY <3>3 DEF Part
      <4>2. parts' \in Seq(Part) /\ Len(parts') = Len(parts) /\ DOMAIN parts' = DOMAIN parts
        BY <1>3, <2>5, <4>1
      <4>3. ASSUME NEW q \in DOMAIN parts
            PROVE  parts'[q].closed = parts[q].closed /\ (q # p => parts'[q].we = parts[q].we)
        <5>1. parts[q] \in Part
          BY <1>3
        <5> QED
          BY <2>5, <3>3, <5>1 DEF Part
      <4> QED
        BY <4>2, <4>3
    <3>5. ~done
      BY <1>1, <3>2 DEF LastHolds
    <3>6. Shape'
      BY <1>3, <1>5, <1>7, <2>1, <2>5, <3>1, <3>4 DEF Shape
    <3>7. LastHolds'
      BY <1>8, <2>1, <3>2, <3>4, <3>5 DEF LastHolds
    <3> QED
      BY <1>2, <3>6, <3>7
  <2> QED
    BY <1>13, <2>3, <2>4, <2>5 DEF Write
<1>14. ASSUME Close PROVE WTypeOK' /\ LastHolds'
  <2> DEFINE s == CRLF \o <<"-", "-", boundary, "-", "-">> \o CRLF
  <2>1. s \in Seq(Put)
    BY <1>1, LinesOK
  <2> HIDE DEF s
  <2>2. calls' \in 0 .. MaxCalls
    BY <1>6, <1>14 DEF Close
  <2>3. CASE HasError
    BY <1>10, <1>14, <2>2, <2>3 DEF Close
  <2>4. CASE ~HasError
    <3>1. /\ parts' = ClosedParts /\ lastpart' = 0 /\ UNCHANGED <<boundary, bodies>>
          /\ Takes(s) \/ Fails(s)
          /\ result' \in {"nil", "error"} /\ done' \in BOOLEAN /\ broken' \in BOOLEAN
      BY <1>5, <1>14, <2>4 DEF Close, s
    <3>2. out' \in Seq(Put) /\ failures' \in 0 .. MaxFailures
      BY <1>1, <2>1, <3>1, TakesOK
    <3>3. Shape'
      BY <1>3, <1>a, <2>2, <3>1, <3>2 DEF Shape
    <3>4. LastHolds'
      BY <1>9, <1>a, <2>4, <3>1 DEF LastHolds
    <3> QED
      BY <1>2, <3>3, <3>4
  <2> QED
    BY <2>3, <2>4
<1>15. CASE UNCHANGED wvars
  BY <1>1, <1>15 DEF wvars, WTypeOK, LastHolds
<1> QED
  BY <1>11, <1>12, <1>13, <1>14, <1>15 DEF WNext

(* The writer's variables change by the writer's own actions only. *)
LEMMA StepIs == [Next]_<<wvars, rvars, reading>> => [WNext]_wvars
BY DEF Next, Writing, HandOver, Reading, Finished

LEMMA Inductive == Spec => []WInv
<1>1. Init => WInv
  BY InitOK DEF Init
<1>2. WInv /\ [Next]_<<wvars, rvars, reading>> => WInv'
  BY StepOK, StepIs
<1> QED
  BY <1>1, <1>2, PTL DEF Spec

(* The writer's variables have their types, for any boundaries and chunks; *)
(* among them: no part but the last one is open.                           *)
THEOREM TypeCorrect == Spec => []WTypeOK
<1>1. WInv => WTypeOK
  BY DEF WInv
<1> QED
  BY <1>1, Inductive, PTL

(* CreatePart and Close after a failed write do nothing, for ever: what    *)
(* has lost bytes is never a whole message.                                *)
THEOREM LossIsFinal == Spec => ErrorIsFinal
<1> DEFINE Final == \A p \in DOMAIN parts : parts'[p].we /\ parts'[p].closed => out' = out /\ ~done'
<1>1. WInv /\ [Next]_<<wvars, rvars, reading>> => [Final]_wvars
  <2> SUFFICES ASSUME WInv, WNext, NEW p \in DOMAIN parts, parts'[p].we, parts'[p].closed PROVE out' = out /\ ~done'
    BY StepIs
  <2>1. WTypeOK /\ LastHolds
    BY DEF WInv
  <2>2. parts \in Seq(Part) /\ \A q \in DOMAIN parts : q # lastpart => parts[q].closed
    BY <2>1, Facts
  <2>3. (done => lastpart = 0) /\ \A q \in DOMAIN parts : parts[q].we => q = lastpart
    BY <2>1 DEF LastHolds
  <2>4. DOMAIN parts = 1 .. Len(parts) /\ Len(parts) \in Nat
    BY <2>2
  <2>5. /\ ClosedParts \in Seq(Part) /\ Len(ClosedParts) = Len(parts)
        /\ ClosedParts[p].we = parts[p].we
    BY <2>1, ClosedPartsOK
  <2> HIDE DEF ClosedParts, Part
  <2>6. Refused => out' = out /\ (done' = done)
    BY DEF Refused
  <2>7. HasError => ~done
    BY <2>3 DEF HasError
  <2>8. ASSUME ~HasError, parts' = ClosedParts \/ \E q : parts' = Append(ClosedParts, q) PROVE FALSE
    <3>1. ~parts[p].we
      BY <2>3, <2>4, <2>8 DEF HasError
    <3>2. parts'[p] = ClosedParts[p]
      BY <2>4, <2>5, <2>8
    <3> QED
      BY <2>5, <3>1, <3>2
  <2>9. ASSUME NEW x \in Boundaries, SetBoundary(x) PROVE out' = out /\ ~done'
    BY <2>3, <2>4, <2>9 DEF SetBoundary
  <2>10. ASSUME NEW h \in {<<"H">>, CRLF}, CreatePart(h) PROVE out' = out /\ ~done'
    BY <2>6, <2>7, <2>8, <2>10 DEF CreatePart
  <2>11. ASSUME NEW q \in DOMAIN parts, NEW d \in Chunks, Write(q, d) PROVE out' = out /\ ~done'
    <3>1. done' = done
      BY <2>11 DEF Write
    <3>2. CASE parts[q].closed /\ UNCHANGED <<out, parts>>
      BY <2>3, <2>4, <3>1, <3>2
    <3>3. CASE ~parts[q].closed /\ parts' = parts
      BY <2>2, <2>3, <3>3
    <3>4. CASE ~parts[q].closed /\ parts' = [parts EXCEPT ![q].we = TRUE]
      <4>1. parts'[q].closed = parts[q].closed /\ (q # p => parts'[p] = parts[p])
        <5>1. parts[q] \in Part
          BY <2>2
        <5> QED
          BY <2>2, <3>4, <5>1 DEF Part
      <4> QED
        BY <2>2, <2>3, <3>4, <4>1
    <3> QED
      BY <2>11, <3>2, <3>3, <3>4 DEF Write
  <2>12. ASSUME Close PROVE out' = out /\ ~done'
    BY <2>6, <2>7, <2>8, <2>12 DEF Close
  <2> QED
    BY <2>9, <2>10, <2>11, <2>12 DEF WNext
<1>2. Spec => [][Final]_wvars
  BY <1>1, Inductive, PTL DEF Spec
<1> QED
  BY <1>2 DEF ErrorIsFinal
-----------------------------------------------------------------------------
(* What the writer has written, as a layout of lines and bodies.            *)

(* The sequence s is in w, behind its element j.                            *)
Holds(w, j, s) == j + Len(s) <= Len(w) /\ \A i \in 1 .. Len(s) : w[j + i] = s[i]

LEMMA HoldsKept ==
    ASSUME NEW w \in Seq(Put), NEW t \in Seq(Put), NEW j \in Nat, NEW T, NEW s \in Seq(T), Holds(w, j, s)
    PROVE  Holds(w \o t, j, s)
<1>1. PICK m \in Nat : m = Len(w)
  BY LenProperties
<1>2. PICK k \in Nat : k = Len(s)
  BY LenProperties
<1>3. Len(t) \in Nat /\ Len(w \o t) = m + Len(t) /\ \A i \in 1 .. m : (w \o t)[i] = w[i]
  BY <1>1, ConcatProperties, LenProperties
<1>4. j + k <= m /\ \A i \in 1 .. k : w[j + i] = s[i]
  BY <1>1, <1>2 DEF Holds
<1>5. \A i \in 1 .. k : j + i \in 1 .. m
  BY <1>4
<1>6. j + k <= Len(w \o t)
  BY <1>3, <1>4
<1> QED
  BY <1>2, <1>3, <1>4, <1>5, <1>6 DEF Holds

LEMMA HoldsNew ==
    ASSUME NEW w \in Seq(Put), NEW s \in Seq(Put)
    PROVE  Holds(w \o s, Len(w), s)
<1>1. PICK m \in Nat : m = Len(w)
  BY LenProperties
<1>2. PICK k \in Nat : k = Len(s)
  BY LenProperties
<1>3. Len(w \o s) = m + k /\ \A i \in m + 1 .. m + k : (w \o s)[i] = s[i - m]
  BY <1>1, <1>2, ConcatProperties
<1>4. \A i \in 1 .. k : m + i \in m + 1 .. m + k /\ (m + i) - m = i
  OBVIOUS
<1> QED
  BY <1>1, <1>2, <1>3, <1>4 DEF Holds

LEMMA HoldsBoth ==
    ASSUME NEW w \in Seq(Put), NEW s \in Seq(Put), NEW t \in Seq(Put), NEW j \in Nat
    PROVE  Holds(w, j, s \o t) <=> Holds(w, j, s) /\ Holds(w, j + Len(s), t)
<1>1. PICK m \in Nat : m = Len(s)
  BY LenProperties
<1>2. PICK k \in Nat : k = Len(t)
  BY LenProperties
<1>3. /\ Len(s \o t) = m + k /\ \A i \in 1 .. m : (s \o t)[i] = s[i]
      /\ \A i \in 1 .. k : (s \o t)[m + i] = t[i]
  <2>1. /\ Len(s \o t) = m + k /\ \A i \in 1 .. m : (s \o t)[i] = s[i]
        /\ \A i \in m + 1 .. m + k : (s \o t)[i] = t[i - m]
    BY <1>1, <1>2, ConcatProperties
  <2>2. \A i \in 1 .. k : m + i \in m + 1 .. m + k /\ (m + i) - m = i
    OBVIOUS
  <2> QED
    BY <2>1, <2>2
<1>4. PICK e \in Nat : e = Len(w)
  BY LenProperties
<1>5. Holds(w, j, s) <=> j + m <= e /\ \A i \in 1 .. m : w[j + i] = s[i]
  BY <1>1, <1>4 DEF Holds
<1>6. Holds(w, j + m, t) <=> j + m + k <= e /\ \A i \in 1 .. k : w[j + m + i] = t[i]
  BY <1>2, <1>4 DEF Holds
<1>7. Holds(w, j, s \o t) <=> j + (m + k) <= e /\ \A i \in 1 .. m + k : w[j + i] = (s \o t)[i]
  BY <1>3, <1>4 DEF Holds
<1>8. \A i \in 1 .. m + k : i \in 1 .. m \/ \E b \in 1 .. k : i = m + b
  <2>1. \A i \in 1 .. m + k : i \in 1 .. m \/ (i - m \in 1 .. k /\ i = m + (i - m))
    OBVIOUS
  <2> QED
    BY <2>1
<1>9. /\ \A i \in 1 .. m : i \in 1 .. m + k
      /\ \A b \in 1 .. k : m + b \in 1 .. m + k /\ j + m + b = j + (m + b)
  OBVIOUS
<1>10. (\A i \in 1 .. m + k : w[j + i] = (s \o t)[i])
       <=> (\A i \in 1 .. m : w[j + i] = s[i]) /\ (\A i \in 1 .. k : w[j + m + i] = t[i])
  <2>1. ASSUME \A i \in 1 .. m + k : w[j + i] = (s \o t)[i]
        PROVE  (\A i \in 1 .. m : w[j + i] = s[i]) /\ (\A i \in 1 .. k : w[j + m + i] = t[i])
    <3>1. \A i \in 1 .. m : w[j + i] = s[i]
      BY <1>3, <1>9, <2>1
    <3>2. \A i \in 1 .. k : w[j + (m + i)] = t[i]
      BY <1>3, <1>9, <2>1
    <3> QED
      BY <1>9, <3>1, <3>2
  <2>2. ASSUME (\A i \in 1 .. m : w[j + i] = s[i]) /\ (\A i \in 1 .. k : w[j + m + i] = t[i]), NEW i \in 1 .. m + k
        PROVE  w[j + i] = (s \o t)[i]
    <3>1. CASE i \in 1 .. m
      BY <1>3, <2>2, <3>1
    <3>2. ASSUME NEW b \in 1 .. k, i = m + b PROVE w[j + i] = (s \o t)[i]
      BY <1>3, <1>9, <2>2, <3>2
    <3> QED
      BY <1>8, <3>1, <3>2
  <2> QED
    BY <2>1, <2>2
<1>11. j + (m + k) <= e <=> j + m + k <= e
  OBVIOUS
<1>12. j + m + k <= e => j + m <= e
  OBVIOUS
<1> QED
  BY <1>1, <1>5, <1>6, <1>7, <1>10, <1>11, <1>12

(* A line of the boundary and a header, before a body behind byte s.        *)
Dashed == <<"-", "-", boundary>>
DashedLast  == <<"-", "-", boundary, "-", "-">>

Begun(w, l, s) ==
    /\ Holds(w, l, Dashed) /\ Holds(w, l + 3, CRLF)
    /\ \/ Holds(w, l + 5, <<"H">>) /\ s = l + 6
       \/ Holds(w, l + 5, CRLF) /\ s = l + 7

(* What has been written of n parts: part p has its boundary behind byte    *)
(* L[p] and its body behind byte S[p].                                      *)
Laid(n, L, S) ==
    /\ n \in Nat /\ L \in [1 .. n + 1 -> Nat] /\ S \in [1 .. n -> Nat]
    /\ L[1] = IF n = 0 THEN 2 ELSE 0
    /\ \A p \in 1 .. n : /\ Begun(out, L[p], S[p]) /\ Holds(out, S[p], bodies[p])
                         /\ L[p + 1] = S[p] + Len(bodies[p]) + 2
                         /\ p < n => Holds(out, L[p + 1] - 2, CRLF)

Closed(l) == Holds(out, l - 2, CRLF) /\ Holds(out, l, DashedLast) /\ Holds(out, l + 5, CRLF)

(* The writer is in a message, or at its end.                               *)
Written ==
    /\ lastpart = 0 /\ ~done => parts = <<>>
    /\ \E L, S : /\ Laid(Len(parts), L, S)
                 /\ IF done THEN Closed(L[Len(parts) + 1]) ELSE Len(out) + 2 = L[Len(parts) + 1]

WrittenInv == (~broken /\ ~HasError => Written) /\ (done => ~broken)

LEMMA Symbolic ==
    ASSUME WTypeOK
    PROVE  /\ CRLF \in Seq(Put) /\ Len(CRLF) = 2 /\ CRLF[1] = "cr" /\ CRLF[2] = "lf"
           /\ <<"H">> \in Seq(Put) /\ Len(<<"H">>) = 1
           /\ Dashed \in Seq(Put) /\ Len(Dashed) = 3
           /\ DashedLast \in Seq(Put) /\ Len(DashedLast) = 5
           /\ out \in Seq(Put) /\ Len(out) \in Nat
<1>1. boundary \in Put /\ "-" \in Put /\ "H" \in Put /\ "cr" \in Put /\ "lf" \in Put
  BY Facts DEF Put
<1>2. out \in Seq(Put)
  BY Facts
<1> HIDE DEF Put
<1> QED
  BY <1>1, <1>2 DEF CRLF, Dashed, DashedLast

(* A longer output holds what the shorter one did.                          *)
LEMMA BegunKept ==
    ASSUME WTypeOK, NEW t \in Seq(Put), NEW l \in Nat, NEW s, Begun(out, l, s)
    PROVE  Begun(out \o t, l, s)
<1>1. out \in Seq(Put) /\ CRLF \in Seq(Put) /\ Dashed \in Seq(Put) /\ <<"H">> \in Seq(Put)
  BY Symbolic
<1>2. l + 3 \in Nat /\ l + 5 \in Nat
  OBVIOUS
<1>3. \A j \in Nat, u \in Seq(Put) : Holds(out, j, u) => Holds(out \o t, j, u)
  BY <1>1, HoldsKept
<1> QED
  BY <1>1, <1>2, <1>3 DEF Begun

(* What is there of a message when its output, its bodies up to the last    *)
(* one and its boundary stay.                                               *)
LEMMA LaidKept ==
    ASSUME WTypeOK, NEW n, NEW L, NEW S, Laid(n, L, S), n = Len(parts), NEW t \in Seq(Put),
           out' = out \o t, boundary' = boundary, \A p \in 1 .. n : bodies'[p] = bodies[p]
    PROVE  Laid(n, L, S)'
<1>1. out \in Seq(Put) /\ CRLF \in Seq(Put) /\ bodies \in Seq(Seq(Text)) /\ n \in Nat /\ Len(bodies) = n
  BY Symbolic, Facts
<1>2. Dashed' = Dashed
  BY DEF Dashed
<1>3. ASSUME NEW p \in 1 .. n
      PROVE  /\ Begun(out, L[p], S[p])' /\ Holds(out', S[p], bodies'[p])
             /\ L[p + 1] = S[p] + Len(bodies'[p]) + 2
             /\ p < n => Holds(out', L[p + 1] - 2, CRLF)
  <2>1. /\ Begun(out, L[p], S[p]) /\ Holds(out, S[p], bodies[p])
        /\ L[p + 1] = S[p] + Len(bodies[p]) + 2
        /\ p < n => Holds(out, L[p + 1] - 2, CRLF)
    BY DEF Laid
  <2>2. L[p] \in Nat /\ S[p] \in Nat
    <3>1. p \in 1 .. n + 1
      BY <1>1
    <3> QED
      BY <3>1 DEF Laid
  <2>3. bodies[p] \in Seq(Text) /\ Len(bodies[p]) \in Nat
    BY <1>1
  <2>4. Holds(out \o t, S[p], bodies[p])
    BY <1>1, <2>1, <2>2, <2>3, HoldsKept
  <2>5. Begun(out \o t, L[p], S[p])
    BY <2>1, <2>2, BegunKept
  <2>6. p < n => Holds(out \o t, L[p + 1] - 2, CRLF)
    <3>1. L[p + 1] - 2 \in Nat
      BY <2>1, <2>2, <2>3
    <3> QED
      BY <1>1, <2>1, <3>1, HoldsKept
  <2>7. Begun(out, L[p], S[p])'
    BY <1>2, <2>5 DEF Begun
  <2> QED
    BY <2>1, <2>4, <2>6, <2>7
<1> QED
  BY <1>3 DEF Laid

(* Nothing that matters has changed. *)
LEMMA WrittenKept ==
    ASSUME UNCHANGED <<out, boundary, bodies, lastpart, done, broken>>, Len(parts') = Len(parts),
           parts = <<>> => parts' = <<>>, Written
    PROVE  Written'
<1>1. PICK L, S : /\ Laid(Len(parts), L, S)
                  /\ IF done THEN Closed(L[Len(parts) + 1]) ELSE Len(out) + 2 = L[Len(parts) + 1]
  BY DEF Written
<1>2. PICK n : n = Len(parts)
  OBVIOUS
<1>3. Laid(n, L, S)'
  BY <1>1, <1>2 DEF Laid, Begun, Dashed
<1>4. IF done' THEN Closed(L[n + 1])' ELSE Len(out') + 2 = L[n + 1]
  BY <1>1, <1>2 DEF Closed, DashedLast
<1>5. lastpart' = 0 /\ ~done' => parts' = <<>>
  BY DEF Written
<1>6. (\E A, B : Laid(n, A, B) /\ IF done THEN Closed(A[n + 1]) ELSE Len(out) + 2 = A[n + 1])'
  BY <1>3, <1>4
<1> QED
  BY <1>2, <1>5, <1>6 DEF Written

(* The boundary can be changed before anything is written. *)
LEMMA WrittenEmpty ==
    ASSUME WTypeOK, parts = <<>>, out = <<>>, ~done
    PROVE  Written
<1>1. Len(parts) = 0 /\ Len(out) = 0
  OBVIOUS
<1> DEFINE L == [p \in 1 .. 1 |-> 2]
           S == [p \in 1 .. 0 |-> 0]
<1>2. L \in [1 .. 0 + 1 -> Nat] /\ S \in [1 .. 0 -> Nat] /\ L[1] = 2
  OBVIOUS
<1> HIDE DEF L, S
<1>3. Laid(0, L, S) /\ Len(out) + 2 = L[0 + 1]
  BY <1>1, <1>2 DEF Laid
<1> QED
  BY <1>1, <1>3 DEF Written

LEMMA SetBoundaryWrites ==
    ASSUME WInv, NEW x \in Boundaries, SetBoundary(x), Written, ~broken'
    PROVE  Written'
<1>1. WTypeOK /\ UNCHANGED <<out, parts, lastpart, bodies>>
  BY DEF WInv, SetBoundary
<1>2. CASE UNCHANGED <<boundary, broken, done>>
  BY <1>1, <1>2, WrittenKept
<1>3. CASE done' = FALSE /\ broken' = (broken \/ out # <<>>) /\ lastpart = 0
  <2>1. out = <<>> /\ Len(out) = 0
    BY <1>3
  <2>2. ~done
    <3> SUFFICES ASSUME done PROVE FALSE
      OBVIOUS
    <3>1. PICK L, S : Closed(L[Len(parts) + 1]) /\ Laid(Len(parts), L, S)
      BY DEF Written
    <3>2. L[Len(parts) + 1] \in Nat
      <4>1. Len(parts) \in Nat
        BY <1>1, Facts
      <4>2. Len(parts) + 1 \in 1 .. Len(parts) + 1
        BY <4>1
      <4> QED
        BY <3>1, <4>2 DEF Laid
    <3>3. PICK l \in Nat : l = L[Len(parts) + 1]
      BY <3>2
    <3>4. Holds(out, l, DashedLast)
      BY <3>1, <3>3, Zenon DEF Closed
    <3>5. l + Len(DashedLast) <= Len(out)
      BY <3>4, Zenon DEF Holds
    <3>6. Len(DashedLast) = 5
      BY <1>1, Symbolic
    <3>7. l + 5 <= 0
      BY <2>1, <3>5, <3>6
    <3> QED
      BY <3>7
  <2>3. parts = <<>>
    BY <1>3, <2>2 DEF Written
  <2>4. WTypeOK'
    BY StepOK DEF WInv, WNext
  <2>5. (WTypeOK /\ parts = <<>> /\ out = <<>> /\ ~done => Written)'
    BY WrittenEmpty, PTL
  <2> QED
    BY <1>1, <1>3, <2>1, <2>3, <2>4, <2>5
<1> QED
  BY <1>2, <1>3 DEF SetBoundary

LEMMA Joined ==
    ASSUME NEW s \in Seq(Put), NEW t \in Seq(Put)
    PROVE  s \o t \in Seq(Put) /\ Len(s \o t) = Len(s) + Len(t) /\ Len(s) \in Nat /\ Len(t) \in Nat
<1> HIDE DEF Put
<1> QED
  OBVIOUS

(* The boundary line, the header and an empty body behind it.               *)
LEMMA PartBegun ==
    ASSUME WTypeOK, NEW h \in {<<"H">>, CRLF}, NEW lead \in {<<>>, CRLF}, NEW w,
           w = out \o (lead \o <<"-", "-", boundary>> \o CRLF \o h)
    PROVE  LET l == Len(out) + Len(lead)
           IN  /\ Begun(w, l, l + 5 + Len(h)) /\ Len(w) = l + 5 + Len(h)
               /\ Holds(w, Len(out), lead) /\ w \in Seq(Put)
<1>1. /\ out \in Seq(Put) /\ CRLF \in Seq(Put) /\ Len(CRLF) = 2 /\ Dashed \in Seq(Put) /\ Len(Dashed) = 3
      /\ Len(<<"H">>) = 1 /\ <<"H">> \in Seq(Put)
  BY Symbolic
<1>2. h \in Seq(Put) /\ lead \in Seq(Put) /\ Len(h) \in Nat /\ Len(lead) \in Nat
  <2>1. <<>> \in Seq(Put)
    OBVIOUS
  <2>2. h \in Seq(Put) /\ lead \in Seq(Put)
    BY <1>1, <2>1
  <2> QED
    BY <2>2, LenProperties
<1>3. PICK m \in Nat : m = Len(out)
  BY <1>1, LenProperties
<1>4. PICK a \in Nat : a = Len(lead)
  BY <1>2
<1> HIDE DEF Put
<1>5. w = out \o (lead \o Dashed \o CRLF \o h)
  BY DEF Dashed
<1> DEFINE s1 == lead \o Dashed
           s2 == s1 \o CRLF
           s3 == s2 \o h
<1>6. s1 \in Seq(Put) /\ Len(s1) = a + 3
  <2>1. lead \o Dashed \in Seq(Put) /\ Len(lead \o Dashed) = Len(lead) + Len(Dashed)
    BY <1>1, <1>2, Joined
  <2> QED
    BY <1>1, <1>4, <2>1
<1> HIDE DEF s1
<1>7. s2 \in Seq(Put) /\ Len(s2) = a + 5
  <2>1. s2 \in Seq(Put) /\ Len(s2) = (a + 3) + 2
    BY <1>1, <1>6, Joined
  <2> QED
    BY <2>1
<1> HIDE DEF s2
<1>8. s3 \in Seq(Put) /\ Len(s3) = a + 5 + Len(h)
  BY <1>2, <1>7, Joined
<1>9. w = out \o s3
  BY <1>5 DEF s1, s2, s3
<1> HIDE DEF s3
<1>10. w \in Seq(Put) /\ Len(w) = m + Len(s3)
  <2>1. out \o s3 \in Seq(Put) /\ Len(out \o s3) = Len(out) + Len(s3)
    BY <1>1, <1>8, Joined
  <2> QED
    BY <1>3, <1>9, <2>1, Zenon
<1>11. Holds(w, m, s3)
  BY <1>1, <1>3, <1>8, <1>9, HoldsNew
<1>12. Holds(w, m, s2) /\ Holds(w, m + (a + 5), h)
  BY <1>2, <1>7, <1>10, <1>11, HoldsBoth DEF s3
<1>13. Holds(w, m, s1) /\ Holds(w, m + (a + 3), CRLF)
  BY <1>1, <1>6, <1>10, <1>12, HoldsBoth DEF s2
<1>14. Holds(w, m, lead) /\ Holds(w, m + a, Dashed)
  BY <1>1, <1>2, <1>4, <1>10, <1>13, HoldsBoth DEF s1
<1>15. m + (a + 5) = (m + a) + 5 /\ m + (a + 3) = (m + a) + 3
  OBVIOUS
<1>16. \/ h = <<"H">> /\ Len(h) = 1 /\ (m + a) + 5 + Len(h) = (m + a) + 6
       \/ h = CRLF /\ Len(h) = 2 /\ (m + a) + 5 + Len(h) = (m + a) + 7
  <2>1. CASE h = <<"H">>
    <3>1. Len(h) = 1
      BY <1>1, <2>1
    <3> QED
      BY <2>1, <3>1
  <2>2. CASE h = CRLF
    <3>1. Len(h) = 2
      BY <1>1, <2>2
    <3> QED
      BY <2>2, <3>1
  <2> QED
    BY <2>1, <2>2
<1>17. Begun(w, m + a, (m + a) + 5 + Len(h))
  BY <1>12, <1>13, <1>14, <1>15, <1>16 DEF Begun
<1>18. Len(w) = (m + a) + 5 + Len(h)
  BY <1>2, <1>8, <1>10
<1> QED
  BY <1>3, <1>4, <1>10, <1>14, <1>17, <1>18

LEMMA CreatePartWrites ==
    ASSUME WInv, NEW h \in {<<"H">>, CRLF}, CreatePart(h), ~HasError, Written, ~broken'
    PROVE  Written'
<1>1. WTypeOK /\ LastHolds
  BY DEF WInv
<1> DEFINE s == Lead \o <<"-", "-", boundary>> \o CRLF \o h
<1>2. /\ out' = out \o s /\ boundary' = boundary /\ done' = FALSE
      /\ parts' = Append(ClosedParts, [closed |-> FALSE, we |-> FALSE])
      /\ lastpart' = Len(parts) + 1 /\ bodies' = Append(bodies, <<>>)
      /\ broken' = (broken \/ (lastpart = 0 /\ out # <<>>))
  BY DEF CreatePart, Takes
<1>3. PICK n \in Nat : n = Len(parts)
  BY <1>1, Facts
<1>4. /\ out \in Seq(Put) /\ bodies \in Seq(Seq(Text)) /\ Len(bodies) = n /\ lastpart \in {0, n}
      /\ parts \in Seq(Part)
  BY <1>1, <1>3, Facts
<1>5. Len(parts') = n + 1
  BY <1>1, <1>2, <1>3, ClosedPartsOK
<1>6. PICK L, S : /\ Laid(n, L, S)
                  /\ IF done THEN Closed(L[n + 1]) ELSE Len(out) + 2 = L[n + 1]
  BY <1>3 DEF Written
<1>7. L \in [1 .. n + 1 -> Nat] /\ S \in [1 .. n -> Nat] /\ L[1] = IF n = 0 THEN 2 ELSE 0
  BY <1>6 DEF Laid
<1>8. PICK m \in Nat : m = Len(out)
  BY <1>4, LenProperties
<1>9. PICK l \in Nat : l = Len(out) + Len(Lead)
  <2>1. Len(Lead) \in Nat
    <3>1. Len(<<>>) = 0 /\ Len(CRLF) = 2
      BY <1>1, Symbolic
    <3> QED
      BY <3>1 DEF Lead
  <2> QED
    BY <1>8, <2>1
<1>10. PICK b \in Nat : b = l + 5 + Len(h)
  <2>1. Len(h) \in Nat
    BY <1>1, Symbolic
  <2> QED
    BY <2>1
<1>11. Begun(out', l, b) /\ Len(out') = b /\ Holds(out', m, Lead) /\ s \in Seq(Put)
  <2>1. Lead \in {<<>>, CRLF}
    BY DEF Lead
  <2>2. s \in Seq(Put)
    BY <1>1, LinesOK
  <2> QED
    BY <1>1, <1>2, <1>8, <1>9, <1>10, <2>1, <2>2, PartBegun
<1> HIDE DEF s
<1>12. CASE n = 0
  <2>1. Lead = <<>> /\ out = <<>>
    <3>1. lastpart = 0
      BY <1>4, <1>12
    <3> QED
      BY <1>2, <3>1 DEF Lead
  <2>2. l = 0
    BY <1>9, <2>1
  <2> DEFINE A == [p \in 1 .. 2 |-> IF p = 1 THEN 0 ELSE b + 2]
             B == [p \in 1 .. 1 |-> b]
  <2>3. A \in [1 .. 2 -> Nat] /\ B \in [1 .. 1 -> Nat] /\ A[1] = 0 /\ A[2] = b + 2 /\ B[1] = b
    OBVIOUS
  <2> HIDE DEF A, B
  <2>4. bodies'[1] = <<>> /\ Len(bodies'[1]) = 0
    BY <1>2, <1>4, <1>12
  <2>5. Holds(out', b, <<>>)
    BY <1>10, <1>11 DEF Holds
  <2>6. \A p \in 1 .. 1 : p = 1
    OBVIOUS
  <2>7. Begun(out, A[1], B[1])'
    BY <1>2, <1>11, <2>2, <2>3 DEF Begun, Dashed
  <2>8. Laid(1, A, B)'
    <3>1. \A p \in 1 .. 1 : /\ Begun(out, A[p], B[p])' /\ Holds(out', B[p], bodies'[p])
                            /\ A[p + 1] = B[p] + Len(bodies'[p]) + 2 /\ ~(p < 1)
      <4>1. A[1 + 1] = b + 0 + 2 /\ ~(1 < 1)
        BY <2>3
      <4> QED
        BY <2>3, <2>4, <2>5, <2>6, <2>7, <4>1
    <3>2. A \in [1 .. 1 + 1 -> Nat] /\ 1 \in Nat
      BY <2>3
    <3> QED
      BY <2>3, <3>1, <3>2 DEF Laid
  <2>9. Len(parts') = 1
    BY <1>5, <1>12
  <2>10. Len(out') + 2 = A[1 + 1]
    BY <1>10, <1>11, <2>3
  <2>11. lastpart' # 0
    BY <1>2, <1>3
  <2>12. (\E C, D : Laid(1, C, D) /\ IF done THEN Closed(C[1 + 1]) ELSE Len(out) + 2 = C[1 + 1])'
    BY <1>2, <2>8, <2>10
  <2> QED
    BY <2>9, <2>11, <2>12 DEF Written
<1>13. CASE n > 0
  <2>1. lastpart # 0 /\ ~done
    <3>1. CASE lastpart = 0
      <4>1. out = <<>>
        BY <1>2, <3>1
      <4>2. 1 \in 1 .. n
        BY <1>13
      <4>3. Begun(out, L[1], S[1]) /\ L[1] = 0
        BY <1>6, <1>13, <4>2 DEF Laid
      <4>4. Len(Dashed) = 3 /\ Len(out) = 0
        BY <1>1, <4>1, Symbolic
      <4> QED
        BY <4>3, <4>4 DEF Begun, Holds
    <3> QED
      BY <1>1, <3>1 DEF LastHolds
  <2>2. Lead = CRLF /\ l = L[n + 1] /\ m = L[n + 1] - 2 /\ Len(out) + 2 = L[n + 1]
    <3>1. Lead = CRLF /\ Len(CRLF) = 2
      BY <1>1, <2>1, Symbolic DEF Lead
    <3> QED
      BY <1>6, <1>8, <1>9, <2>1, <3>1
  <2> DEFINE A == [p \in 1 .. n + 2 |-> IF p <= n + 1 THEN L[p] ELSE b + 2]
             B == [p \in 1 .. n + 1 |-> IF p <= n THEN S[p] ELSE b]
  <2>3. /\ \A p \in 1 .. n + 1 : p \in 1 .. n + 2 /\ A[p] = L[p]
        /\ A[n + 2] = b + 2 /\ (n + 1) + 1 = n + 2
        /\ \A p \in 1 .. n : p \in 1 .. n + 1 /\ p + 1 \in 1 .. n + 1 /\ B[p] = S[p] /\ p < n + 1
        /\ B[n + 1] = b
    OBVIOUS
  <2>4. A \in [1 .. n + 2 -> Nat] /\ B \in [1 .. n + 1 -> Nat]
    BY <1>7
  <2> HIDE DEF A, B
  <2>5. A[1] = 0
    <3>1. 1 \in 1 .. n + 1
      OBVIOUS
    <3> QED
      BY <1>7, <1>13, <2>3, <3>1
  <2>6. /\ bodies'[n + 1] = <<>> /\ Len(bodies'[n + 1]) = 0 /\ \A p \in 1 .. n : bodies'[p] = bodies[p]
    BY <1>2, <1>4
  <2>7. Laid(n, L, S)'
    BY <1>1, <1>2, <1>3, <1>6, <1>11, <2>6, LaidKept
  <2>8. ASSUME NEW p \in 1 .. n
        PROVE  /\ Begun(out, A[p], B[p])' /\ Holds(out', B[p], bodies'[p])
               /\ A[p + 1] = B[p] + Len(bodies'[p]) + 2 /\ Holds(out', A[p + 1] - 2, CRLF)
    <3>1. A[p] = L[p] /\ B[p] = S[p] /\ A[p + 1] = L[p + 1]
      BY <2>3
    <3>2. /\ Begun(out, L[p], S[p])' /\ Holds(out', S[p], bodies'[p])
          /\ L[p + 1] = S[p] + Len(bodies'[p]) + 2
          /\ p < n => Holds(out', L[p + 1] - 2, CRLF)
      BY <2>7 DEF Laid
    <3>3. p = n => Holds(out', L[p + 1] - 2, CRLF)
      BY <1>11, <2>2
    <3>4. p < n \/ p = n
      OBVIOUS
    <3>5. Begun(out, A[p], B[p])'
      BY <3>1, <3>2 DEF Begun
    <3> QED
      BY <3>1, <3>2, <3>3, <3>4, <3>5
  <2>9. /\ Begun(out, A[n + 1], B[n + 1])' /\ Holds(out', B[n + 1], bodies'[n + 1])
        /\ A[(n + 1) + 1] = B[n + 1] + Len(bodies'[n + 1]) + 2
    <3>1. A[n + 1] = l /\ B[n + 1] = b /\ A[(n + 1) + 1] = b + 2
      <4>1. n + 1 \in 1 .. n + 1
        OBVIOUS
      <4> QED
        BY <2>2, <2>3, <4>1
    <3>2. Begun(out, A[n + 1], B[n + 1])'
      BY <1>2, <1>11, <3>1 DEF Begun, Dashed
    <3>3. Holds(out', b, <<>>)
      BY <1>10, <1>11 DEF Holds
    <3> QED
      BY <2>6, <3>1, <3>2, <3>3
  <2>10. Laid(n + 1, A, B)'
    <3>1. \A p \in 1 .. n + 1 : /\ Begun(out, A[p], B[p])' /\ Holds(out', B[p], bodies'[p])
                                /\ A[p + 1] = B[p] + Len(bodies'[p]) + 2
                                /\ p < n + 1 => Holds(out', A[p + 1] - 2, CRLF)
      <4>1. \A p \in 1 .. n + 1 : p \in 1 .. n \/ (p = n + 1 /\ ~(p < n + 1))
        OBVIOUS
      <4> QED
        BY <2>8, <2>9, <4>1
    <3>2. A \in [1 .. (n + 1) + 1 -> Nat] /\ n + 1 \in Nat /\ A[1] = IF n + 1 = 0 THEN 2 ELSE 0
      <4>1. n + 1 # 0
        OBVIOUS
      <4> QED
        BY <2>3, <2>4, <2>5, <4>1
    <3> QED
      BY <2>4, <3>1, <3>2 DEF Laid
  <2>11. Len(out') + 2 = A[(n + 1) + 1]
    BY <1>10, <1>11, <2>3
  <2>12. lastpart' # 0
    BY <1>2, <1>3
  <2>13. (\E C, D : Laid(n + 1, C, D) /\ IF done THEN Closed(C[(n + 1) + 1]) ELSE Len(out) + 2 = C[(n + 1) + 1])'
    BY <1>2, <2>10, <2>11
  <2> QED
    BY <1>5, <2>12, <2>13 DEF Written
<1> QED
  BY <1>12, <1>13

LEMMA HoldsGrown ==
    ASSUME NEW w \in Seq(Put), NEW j \in Nat, NEW s \in Seq(Text), NEW d \in Seq(Text),
           Holds(w, j, s), j + Len(s) = Len(w)
    PROVE  Holds(w \o d, j, s \o d) /\ Len(s \o d) = Len(s) + Len(d)
<1>1. Text \subseteq Put
  BY DEF Text, Put
<1>2. s \in Seq(Put) /\ d \in Seq(Put)
  BY <1>1, SeqMonotonic
<1> HIDE DEF Put, Text
<1>3. Holds(w \o d, j, s)
  BY <1>2, HoldsKept
<1>4. Holds(w \o d, j + Len(s), d)
  BY <1>2, HoldsNew
<1>5. w \o d \in Seq(Put) /\ Len(s \o d) = Len(s) + Len(d)
  BY <1>2, Joined
<1> QED
  BY <1>2, <1>3, <1>4, <1>5, HoldsBoth

LEMMA WriteWrites ==
    ASSUME WInv, NEW q \in DOMAIN parts, NEW d \in Chunks, Write(q, d), Written, ~HasError', ~broken
    PROVE  Written'
<1>1. WTypeOK /\ LastHolds /\ UNCHANGED <<boundary, lastpart, done, broken>>
  BY DEF WInv, Write
<1>2. PICK n \in Nat : n = Len(parts)
  BY <1>1, Facts
<1>3. /\ out \in Seq(Put) /\ bodies \in Seq(Seq(Text)) /\ Len(bodies) = n /\ lastpart \in {0, n}
      /\ parts \in Seq(Part) /\ q \in 1 .. n /\ (q # lastpart => parts[q].closed)
  BY <1>1, <1>2, Facts
<1>4. CASE parts[q].closed /\ UNCHANGED <<out, parts, bodies>>
  BY <1>1, <1>4, WrittenKept
<1>5. CASE ~parts[q].closed /\ Takes(d) /\ bodies' = [bodies EXCEPT ![q] = @ \o d] /\ UNCHANGED parts
  <2>1. q = n /\ lastpart = n /\ n > 0 /\ n \in 1 .. n
    BY <1>2, <1>3, <1>5
  <2>2. ~done
    BY <1>1, <2>1 DEF LastHolds
  <2>3. d \in Seq(Text) /\ d \in Seq(Put)
    <3>1. d \in Seq(Text) /\ Text \subseteq Put
      BY ChunksAssumption DEF Text, Put
    <3> QED
      BY <3>1, SeqMonotonic
  <2>4. PICK L, S : Laid(n, L, S) /\ Len(out) + 2 = L[n + 1]
    BY <1>2, <2>2 DEF Written
  <2>5. /\ L \in [1 .. n + 1 -> Nat] /\ S \in [1 .. n -> Nat] /\ L[1] = 0
        /\ Begun(out, L[n], S[n]) /\ Holds(out, S[n], bodies[n])
        /\ L[n + 1] = S[n] + Len(bodies[n]) + 2
    BY <2>1, <2>4 DEF Laid
  <2>6. bodies[n] \in Seq(Text) /\ S[n] \in Nat /\ L[n] \in Nat /\ n \in 1 .. n + 1
    BY <1>3, <2>1, <2>5
  <2>7. PICK k \in Nat : k = Len(d)
    BY <2>3, LenProperties
  <2>8. PICK b \in Nat : b = Len(bodies[n])
    BY <2>6, LenProperties
  <2>9. PICK m \in Nat : m = Len(out)
    BY <1>3, LenProperties
  <2>10. S[n] + b = m
    <3>1. PICK s \in Nat : s = S[n]
      BY <2>6
    <3>2. m + 2 = s + b + 2
      BY <2>4, <2>5, <2>8, <2>9, <3>1
    <3> QED
      BY <3>1, <3>2
  <2>11. out' = out \o d /\ Len(out') = m + k
    <3>1. out' = out \o d
      BY <1>5 DEF Takes
    <3> QED
      BY <1>3, <2>3, <2>7, <2>9, <3>1, Joined
  <2>12. bodies'[n] = bodies[n] \o d /\ \A p \in 1 .. n : p # n => bodies'[p] = bodies[p]
    BY <1>3, <1>5, <2>1
  <2>13. Holds(out', S[n], bodies'[n]) /\ Len(bodies'[n]) = b + k
    <3>1. Holds(out \o d, S[n], bodies[n] \o d) /\ Len(bodies[n] \o d) = Len(bodies[n]) + Len(d)
      <4>1. S[n] + Len(bodies[n]) = Len(out)
        BY <2>8, <2>9, <2>10
      <4>2. S[n] \in Nat /\ bodies[n] \in Seq(Text) /\ Holds(out, S[n], bodies[n])
        BY <2>5, <2>6
      <4>3. out \in Seq(Put) /\ d \in Seq(Text)
        BY <1>3, <2>3
      <4>4. PICK s \in Nat : s = S[n]
        BY <4>2
      <4>5. PICK t \in Seq(Text) : t = bodies[n]
        BY <4>2
      <4>6. Holds(out, s, t) /\ s + Len(t) = Len(out)
        BY <4>1, <4>2, <4>4, <4>5, Zenon
      <4>7. Holds(out \o d, s, t \o d) /\ Len(t \o d) = Len(t) + Len(d)
        BY <4>3, <4>6, HoldsGrown, Zenon
      <4> QED
        BY <4>4, <4>5, <4>7, Zenon
    <3> QED
      BY <2>7, <2>8, <2>11, <2>12, <3>1
  <2>14. Begun(out', L[n], S[n])
    BY <1>1, <2>3, <2>5, <2>6, <2>11, BegunKept
  <2> DEFINE A == [L EXCEPT ![n + 1] = S[n] + (b + k) + 2]
  <2>15. /\ A \in [1 .. n + 1 -> Nat] /\ A[n + 1] = S[n] + (b + k) + 2
         /\ \A p \in 1 .. n : A[p] = L[p] /\ (p < n => A[p + 1] = L[p + 1])
    <3>1. PICK e \in Nat : e = S[n] + (b + k) + 2
      BY <2>6
    <3>2. A = [L EXCEPT ![n + 1] = e]
      BY <3>1
    <3>3. \A p \in 1 .. n : /\ p \in 1 .. n + 1 /\ p # n + 1
                             /\ p < n => p + 1 \in 1 .. n + 1 /\ p + 1 # n + 1
      OBVIOUS
    <3>4. n + 1 \in 1 .. n + 1 /\ L \in [1 .. n + 1 -> Nat]
      BY <2>5
    <3> HIDE DEF A
    <3>5. A \in [1 .. n + 1 -> Nat] /\ A[n + 1] = e
      BY <3>2, <3>4
    <3>6. \A i \in 1 .. n + 1 : i # n + 1 => A[i] = L[i]
      BY <3>2, <3>4
    <3> QED
      BY <3>1, <3>3, <3>5, <3>6
  <2> HIDE DEF A
  <2>16. ASSUME NEW p \in 1 .. n, p # n
         PROVE  /\ Begun(out', L[p], S[p]) /\ Holds(out', S[p], bodies[p])
                /\ L[p + 1] = S[p] + Len(bodies[p]) + 2 /\ Holds(out', L[p + 1] - 2, CRLF) /\ p < n
    <3>1. p < n /\ p \in 1 .. n + 1
      BY <2>16
    <3>2. /\ Begun(out, L[p], S[p]) /\ Holds(out, S[p], bodies[p])
          /\ L[p + 1] = S[p] + Len(bodies[p]) + 2 /\ Holds(out, L[p + 1] - 2, CRLF)
      BY <2>4, <2>16, <3>1 DEF Laid
    <3>3. bodies[p] \in Seq(Text) /\ Len(bodies[p]) \in Nat /\ S[p] \in Nat /\ L[p] \in Nat
      <4>1. bodies[p] \in Seq(Text)
        BY <1>3, <2>16
      <4>2. S[p] \in Nat /\ L[p] \in Nat
        BY <2>5, <2>16, <3>1
      <4> QED
        BY <4>1, <4>2, LenProperties
    <3>4. Begun(out', L[p], S[p])
      BY <1>1, <2>3, <2>11, <3>2, <3>3, BegunKept
    <3>5. Holds(out', S[p], bodies[p])
      BY <1>3, <2>3, <2>11, <3>2, <3>3, HoldsKept
    <3>6. Holds(out', L[p + 1] - 2, CRLF)
      <4>1. L[p + 1] - 2 \in Nat
        BY <3>2, <3>3
      <4> QED
        BY <1>1, <1>3, <2>3, <2>11, <3>2, <4>1, HoldsKept, Symbolic
    <3> QED
      BY <3>1, <3>2, <3>4, <3>5, <3>6
  <2>17. ASSUME NEW p \in 1 .. n
         PROVE  /\ Begun(out, A[p], S[p])' /\ Holds(out', S[p], bodies'[p])
                /\ A[p + 1] = S[p] + Len(bodies'[p]) + 2
                /\ p < n => Holds(out', A[p + 1] - 2, CRLF)
    <3>1. CASE p = n
      <4>1. Begun(out', A[n], S[n])
        BY <2>1, <2>14, <2>15
      <4>2. Begun(out, A[n], S[n])'
        BY <1>1, <4>1 DEF Begun, Dashed
      <4>3. ~(n < n)
        OBVIOUS
      <4> QED
        BY <2>13, <2>15, <3>1, <4>2, <4>3
    <3>2. CASE p # n
      <4>1. p < n /\ A[p] = L[p] /\ A[p + 1] = L[p + 1] /\ bodies'[p] = bodies[p]
        BY <2>12, <2>15, <2>16, <3>2
      <4>2. Begun(out', A[p], S[p])
        BY <2>16, <3>2, <4>1
      <4>3. Begun(out, A[p], S[p])'
        BY <1>1, <4>2 DEF Begun, Dashed
      <4> QED
        BY <2>16, <3>2, <4>1, <4>3
    <3> QED
      BY <3>1, <3>2
  <2>18. A[1] = 0
    BY <2>1, <2>5, <2>15
  <2>19. Laid(n, A, S)'
    BY <2>1, <2>5, <2>15, <2>17, <2>18 DEF Laid
  <2>20. Len(out') + 2 = A[n + 1]
    <3>1. S[n] + (b + k) + 2 = (m + k) + 2
      <4>1. PICK a \in Nat : a = S[n]
        BY <2>6
      <4>2. a + b = m
        BY <2>10, <4>1
      <4>3. a + (b + k) + 2 = (m + k) + 2
        BY <4>2
      <4> QED
        BY <4>1, <4>3
    <3> QED
      BY <2>11, <2>15, <3>1
  <2>21. lastpart' # 0 /\ Len(parts') = n /\ ~done'
    BY <1>1, <1>2, <1>5, <2>1, <2>2
  <2>22. (\E C, D : Laid(n, C, D) /\ IF done THEN Closed(C[n + 1]) ELSE Len(out) + 2 = C[n + 1])'
    BY <2>19, <2>20, <2>21
  <2> QED
    BY <2>21, <2>22 DEF Written
<1>6. CASE ~parts[q].closed /\ parts' = [parts EXCEPT ![q].we = TRUE]
  <2>1. q = lastpart /\ lastpart' = q /\ q # 0
    BY <1>1, <1>3, <1>6
  <2>2. parts'[q].we
    <3>1. parts[q] \in Part /\ parts'[q] = [parts[q] EXCEPT !.we = TRUE]
      BY <1>3, <1>6
    <3> QED
      BY <3>1 DEF Part
  <2> QED
    BY <2>1, <2>2 DEF HasError
<1> QED
  BY <1>4, <1>5, <1>6 DEF Write

(* The closing line is written behind the last body, or once more.          *)
LEMMA ClosingWritten ==
    ASSUME WTypeOK, NEW w, w = out \o (CRLF \o <<"-", "-", boundary, "-", "-">> \o CRLF), NEW l \in Nat, Len(out) + 2 = l
    PROVE  Holds(w, l - 2, CRLF) /\ Holds(w, l, DashedLast) /\ Holds(w, l + 5, CRLF)
<1>1. /\ out \in Seq(Put) /\ CRLF \in Seq(Put) /\ Len(CRLF) = 2 /\ DashedLast \in Seq(Put) /\ Len(DashedLast) = 5
  BY Symbolic
<1>2. PICK m \in Nat : m = Len(out) /\ m + 2 = l /\ m = l - 2
  BY <1>1, LenProperties
<1> HIDE DEF Put
<1>3. w = out \o (CRLF \o DashedLast \o CRLF)
  BY DEF DashedLast
<1> DEFINE s1 == CRLF \o DashedLast
           s2 == s1 \o CRLF
<1>4. s1 \in Seq(Put) /\ Len(s1) = 7
  <2>1. CRLF \o DashedLast \in Seq(Put) /\ Len(CRLF \o DashedLast) = Len(CRLF) + Len(DashedLast)
    BY <1>1, Joined
  <2> QED
    BY <1>1, <2>1
<1> HIDE DEF s1
<1>5. s2 \in Seq(Put)
  BY <1>1, <1>4, Joined
<1> HIDE DEF s2
<1>6. w = out \o s2
  BY <1>3 DEF s1, s2
<1>7. w \in Seq(Put) /\ Holds(w, m, s2)
  BY <1>1, <1>2, <1>5, <1>6, Joined, HoldsNew
<1>8. Holds(w, m, s1) /\ Holds(w, m + 7, CRLF)
  BY <1>1, <1>4, <1>7, HoldsBoth DEF s2
<1>9. Holds(w, m, CRLF) /\ Holds(w, m + 2, DashedLast)
  BY <1>1, <1>7, <1>8, HoldsBoth DEF s1
<1>10. m + 7 = l + 5
  BY <1>2
<1> QED
  BY <1>2, <1>8, <1>9, <1>10

LEMMA CloseWrites ==
    ASSUME WInv, Close, ~HasError, Written, ~broken, ~broken'
    PROVE  Written'
<1>1. WTypeOK
  BY DEF WInv
<1> DEFINE s == CRLF \o <<"-", "-", boundary, "-", "-">> \o CRLF
<1>2. out' = out \o s /\ parts' = ClosedParts /\ lastpart' = 0 /\ done' = TRUE /\ UNCHANGED <<boundary, bodies>>
  BY DEF Close, Takes
<1>3. PICK n \in Nat : n = Len(parts)
  BY <1>1, Facts
<1>4. Len(parts') = n /\ s \in Seq(Put) /\ out \in Seq(Put) /\ CRLF \in Seq(Put) /\ DashedLast \in Seq(Put)
  <2>1. Len(parts') = n
    BY <1>1, <1>2, <1>3, ClosedPartsOK
  <2>2. s \in Seq(Put)
    BY <1>1, LinesOK
  <2> QED
    BY <1>1, <2>1, <2>2, Symbolic
<1>5. PICK L, S : /\ Laid(n, L, S)
                  /\ IF done THEN Closed(L[n + 1]) ELSE Len(out) + 2 = L[n + 1]
  BY <1>3 DEF Written
<1>6. PICK l \in Nat : l = L[n + 1] /\ l >= 2
  <2>1. n + 1 \in 1 .. n + 1
    OBVIOUS
  <2>2. L[n + 1] \in Nat
    BY <1>5, <2>1 DEF Laid
  <2>3. CASE n = 0
    BY <1>5, <2>2, <2>3 DEF Laid
  <2>4. CASE n > 0
    <3>1. n \in 1 .. n
      BY <2>4
    <3>2. bodies[n] \in Seq(Text)
      BY <1>1, <1>3, <3>1, Facts
    <3>3. L[n + 1] = S[n] + Len(bodies[n]) + 2 /\ S[n] \in Nat /\ Len(bodies[n]) \in Nat
      BY <1>5, <3>1, <3>2, LenProperties DEF Laid
    <3> QED
      BY <2>2, <3>3
  <2> QED
    BY <2>3, <2>4
<1> HIDE DEF s
<1>7. Holds(out', l - 2, CRLF) /\ Holds(out', l, DashedLast) /\ Holds(out', l + 5, CRLF)
  <2>1. CASE done
    <3>1. Holds(out, l - 2, CRLF) /\ Holds(out, l, DashedLast) /\ Holds(out, l + 5, CRLF)
      BY <1>5, <1>6, <2>1 DEF Closed
    <3>2. l - 2 \in Nat /\ l + 5 \in Nat
      BY <1>6
    <3> QED
      BY <1>2, <1>4, <3>1, <3>2, HoldsKept
  <2>2. CASE ~done
    BY <1>1, <1>2, <1>5, <1>6, <2>2, ClosingWritten DEF s
  <2> QED
    BY <2>1, <2>2
<1>8. Closed(L[n + 1])'
  <2>1. DashedLast' = DashedLast
    BY <1>2 DEF DashedLast
  <2> QED
    BY <1>6, <1>7, <2>1 DEF Closed
<1>9. Laid(n, L, S)'
  BY <1>1, <1>2, <1>3, <1>4, <1>5, LaidKept
<1>10. (\E C, D : Laid(n, C, D) /\ IF done THEN Closed(C[n + 1]) ELSE Len(out) + 2 = C[n + 1])'
  BY <1>2, <1>8, <1>9
<1> QED
  BY <1>2, <1>4, <1>10 DEF Written

(* A whole message is what its parts are, and what is lost makes none.      *)
LEMMA WrittenStep == WInv /\ WrittenInv /\ [WNext]_wvars => WrittenInv'
<1> SUFFICES ASSUME WInv, WrittenInv, [WNext]_wvars PROVE WrittenInv'
  OBVIOUS
<1>1. WTypeOK /\ LastHolds /\ (done => ~broken) /\ (~broken /\ ~HasError => Written)
  BY DEF WInv, WrittenInv
<1>2. broken \in BOOLEAN /\ done \in BOOLEAN /\ parts \in Seq(Part) /\ lastpart \in {0, Len(parts)}
      /\ Len(parts) \in Nat /\ DOMAIN parts = 1 .. Len(parts)
  BY <1>1, Facts
<1>a. HasError => lastpart # 0 /\ parts[lastpart].we /\ lastpart \in DOMAIN parts
  <2>1. PICK n \in Nat : n = Len(parts)
    BY <1>2
  <2>2. lastpart # 0 => lastpart \in 1 .. n
    <3>1. lastpart = 0 \/ lastpart = n
      BY <1>2, <2>1, Zenon
    <3>2. n # 0 => n \in 1 .. n
      OBVIOUS
    <3> QED
      BY <3>1, <3>2, Zenon
  <2> QED
    BY <1>2, <2>1, <2>2, Zenon DEF HasError
<1>3. ASSUME NEW x \in Boundaries, SetBoundary(x) PROVE WrittenInv'
  <2>1. UNCHANGED <<parts, lastpart>> /\ (~broken' => ~broken) /\ (done' => ~broken')
    BY <1>1, <1>3 DEF SetBoundary
  <2>2. HasError' = HasError
    BY <2>1 DEF HasError
  <2>3. ~broken' /\ ~HasError' => Written'
    BY <1>1, <1>3, <2>1, <2>2, SetBoundaryWrites
  <2> QED
    BY <2>1, <2>3 DEF WrittenInv
<1>4. ASSUME Refused, HasError PROVE WrittenInv'
  <2>1. parts' = ClosedParts /\ UNCHANGED <<lastpart, done, broken>>
    BY <1>4 DEF Refused
  <2>2. HasError'
    <3>1. lastpart # 0 /\ parts[lastpart].we /\ lastpart \in DOMAIN parts
      BY <1>a, <1>4
    <3>2. ClosedParts[lastpart].we = parts[lastpart].we
      BY <1>1, <3>1, ClosedPartsOK
    <3> QED
      BY <2>1, <3>1, <3>2 DEF HasError
  <2> QED
    BY <1>1, <2>1, <2>2 DEF WrittenInv
<1>5. ASSUME NEW h \in {<<"H">>, CRLF}, CreatePart(h) PROVE WrittenInv'
  <2>1. CASE HasError
    <3>1. Refused
      BY <1>5, <2>1 DEF CreatePart
    <3> QED
      BY <1>4, <2>1, <3>1
  <2>2. CASE ~HasError
    <3>1. done' = FALSE /\ (~broken' => ~broken)
      BY <1>5, <2>2 DEF CreatePart
    <3>2. ~broken' => Written'
      BY <1>1, <1>5, <2>2, <3>1, CreatePartWrites
    <3> QED
      BY <3>1, <3>2 DEF WrittenInv
  <2> QED
    BY <2>1, <2>2
<1>6. ASSUME NEW q \in DOMAIN parts, NEW d \in Chunks, Write(q, d) PROVE WrittenInv'
  <2>1. UNCHANGED <<lastpart, done, broken>>
    BY <1>6 DEF Write
  <2>2. ~HasError' => ~HasError
    <3> SUFFICES ASSUME HasError PROVE HasError'
      OBVIOUS
    <3>1. lastpart # 0 /\ parts[lastpart].we /\ lastpart \in DOMAIN parts
      BY <1>a
    <3>2. parts'[lastpart].we
      <4>1. CASE parts' = parts
        BY <3>1, <4>1
      <4>2. CASE parts' = [parts EXCEPT ![q].we = TRUE]
        <5>1. parts[q] \in Part /\ parts'[q] = [parts[q] EXCEPT !.we = TRUE]
          BY <1>2, <4>2
        <5>2. parts'[q].we
          BY <5>1 DEF Part
        <5>3. q # lastpart => parts'[lastpart] = parts[lastpart]
          BY <1>2, <3>1, <4>2
        <5> QED
          BY <3>1, <5>2, <5>3
      <4> QED
        BY <1>6, <4>1, <4>2 DEF Write
    <3> QED
      BY <2>1, <3>1, <3>2 DEF HasError
  <2>3. ~broken' /\ ~HasError' => Written'
    BY <1>1, <1>6, <2>1, <2>2, WriteWrites
  <2> QED
    BY <1>1, <2>1, <2>3 DEF WrittenInv
<1>7. ASSUME Close PROVE WrittenInv'
  <2>1. CASE HasError
    <3>1. Refused
      BY <1>7, <2>1 DEF Close
    <3> QED
      BY <1>4, <2>1, <3>1
  <2>2. CASE ~HasError
    <3>1. (~broken' => ~broken) /\ (done' => ~broken')
      <4>1. (done' = ~broken /\ broken' = broken) \/ (done' = FALSE /\ broken' = TRUE)
        BY <1>7, <2>2, Zenon DEF Close
      <4>2. done' = FALSE /\ broken' = TRUE => (~broken' => ~broken) /\ (done' => ~broken')
        OBVIOUS
      <4>3. ASSUME done' = ~broken, broken' = broken PROVE (~broken' => ~broken) /\ (done' => ~broken')
        <5>1. CASE broken
          <6>1. done' = FALSE
            BY <1>2, <4>3, <5>1, Zenon
          <6> QED
            BY <4>3, <5>1, <6>1
        <5>2. CASE ~broken
          BY <4>3, <5>2
        <5> QED
          BY <5>1, <5>2
      <4> QED
        BY <4>1, <4>2, <4>3
    <3>2. ~broken' => Written'
      BY <1>1, <1>7, <2>2, <3>1, CloseWrites
    <3> QED
      BY <3>1, <3>2 DEF WrittenInv
  <2> QED
    BY <2>1, <2>2
<1>8. CASE UNCHANGED wvars
  <2>1. UNCHANGED <<out, boundary, parts, bodies, lastpart, done, broken>>
    BY <1>8 DEF wvars
  <2>2. HasError' = HasError
    BY <2>1 DEF HasError
  <2>3. Written => Written'
    BY <2>1, WrittenKept
  <2> QED
    BY <1>1, <2>1, <2>2, <2>3 DEF WrittenInv
<1> QED
  BY <1>3, <1>5, <1>6, <1>7, <1>8 DEF WNext

LEMMA WrittenInit == WInit => WrittenInv
<1> SUFFICES ASSUME WInit PROVE WrittenInv
  OBVIOUS
<1>1. WTypeOK
  BY InitOK DEF WInv
<1>2. parts = <<>> /\ out = <<>> /\ done = FALSE
  BY DEF WInit
<1> QED
  BY <1>1, <1>2, WrittenEmpty DEF WrittenInv

-----------------------------------------------------------------------------
(* The reader's proofs, about the message as the reader sees it.            *)
Symbols == {"cr", "lf", "-", "b", "sp", "x", "H"}

P == INSTANCE MultipartReaderProofs
         WITH stream <- Message, Streams <- Seq(Symbols), Endings <- {"eof"}

Plain == {"cr", "lf", "-", "x", "H"}

LEMMA MessageIs ==
    ASSUME WTypeOK
    PROVE  /\ Message \in Seq(Symbols) /\ Len(Message) = Len(out) /\ Len(Message) \in Nat
           /\ \A j \in 1 .. Len(out) : /\ out[j] \in Plain => Message[j] = out[j]
                                       /\ out[j] = boundary => Message[j] = "b"
                                       /\ Message[j] # "sp"
<1>1. out \in Seq(Put) /\ boundary \in Valid \union {Random}
  BY Facts
<1>2. PICK m \in Nat : m = Len(out) /\ DOMAIN out = 1 .. m
  BY <1>1, LenProperties
<1>3. \A x \in Valid \union {Random} : x \notin Plain
  BY BoundarySymbols DEF Plain
<1>4. ASSUME NEW j \in 1 .. m
      PROVE  /\ Message[j] = IF out[j] = boundary THEN "b" ELSE IF out[j] \in Valid \union {Random} THEN "x" ELSE out[j]
             /\ out[j] \in Plain \/ out[j] \in Valid \union {Random}
  <2>1. out[j] \in Put
    BY <1>1, <1>2
  <2>2. out[j] \in Plain \/ out[j] \in Valid \union {Random}
    BY <2>1 DEF Put, Plain
  <2>3. Message[j] = IF out[j] = boundary THEN "b" ELSE IF out[j] \in Valid \union {Random} THEN "x" ELSE out[j]
    BY <1>2 DEF Message
  <2> QED
    BY <2>2, <2>3
<1>5. ASSUME NEW j \in 1 .. m
      PROVE  /\ out[j] \in Plain => Message[j] = out[j]
             /\ out[j] = boundary => Message[j] = "b"
             /\ Message[j] # "sp" /\ Message[j] \in Symbols
  <2>1. CASE out[j] \in Plain
    <3>1. Message[j] = out[j] /\ out[j] # boundary
      BY <1>1, <1>3, <1>4, <2>1
    <3> QED
      BY <2>1, <3>1 DEF Plain, Symbols
  <2>2. CASE out[j] \in Valid \union {Random}
    <3>1. out[j] \notin Plain
      BY <1>3, <2>2
    <3>2. Message[j] = IF out[j] = boundary THEN "b" ELSE "x"
      BY <1>4, <2>2
    <3> QED
      BY <3>1, <3>2 DEF Symbols
  <2> QED
    BY <1>4, <2>1, <2>2
<1>6. Message \in [1 .. m -> Symbols]
  <2>1. DOMAIN Message = 1 .. m /\ Message = [j \in 1 .. m |-> Message[j]]
    BY <1>2 DEF Message
  <2> HIDE DEF Message, Symbols
  <2> QED
    BY <1>5, <2>1
<1>7. Message \in Seq(Symbols) /\ Len(Message) = m
  <2> HIDE DEF Message, Symbols
  <2> QED
    BY <1>6
<1> QED
  BY <1>2, <1>5, <1>7

LEMMA PlainStands ==
    ASSUME WTypeOK, NEW j \in Nat, NEW s \in Seq(Plain), Holds(out, j, s)
    PROVE  P!Stands(s, j, Len(Message))
<1>1. PICK m \in Nat : m = Len(out) /\ m = Len(Message)
  BY MessageIs
<1>2. PICK k \in Nat : k = Len(s)
  BY LenProperties
<1>3. j + k <= m /\ \A i \in 1 .. k : out[j + i] = s[i] /\ s[i] \in Plain /\ j + i \in 1 .. m
  <2>1. j + k <= m /\ \A i \in 1 .. k : out[j + i] = s[i]
    BY <1>1, <1>2 DEF Holds
  <2>2. \A i \in 1 .. k : s[i] \in Plain
    BY <1>2, ElementOfSeq
  <2>3. \A i \in 1 .. k : j + i \in 1 .. m
    BY <2>1
  <2> QED
    BY <2>1, <2>2, <2>3
<1>4. \A i \in 1 .. k : Message[j + i] = s[i]
  BY <1>1, <1>3, MessageIs
<1> HIDE DEF Message
<1> QED
  BY <1>1, <1>2, <1>3, <1>4 DEF P!Stands

LEMMA BoundaryStands ==
    ASSUME WTypeOK, NEW j \in Nat
    PROVE  /\ Holds(out, j, Dashed) => P!Stands(P!Dash, j, Len(Message))
           /\ Holds(out, j, DashedLast) => P!Stands(P!DashDash, j, Len(Message))
<1>1. PICK m \in Nat : m = Len(out) /\ m = Len(Message)
  BY MessageIs
<1>2. \A i \in 1 .. m : (out[i] = "-" => Message[i] = "-") /\ (out[i] = boundary => Message[i] = "b")
  BY <1>1, MessageIs DEF Plain
<1> HIDE DEF Message
<1>3. ASSUME Holds(out, j, Dashed) PROVE P!Stands(P!Dash, j, Len(Message))
  <2>1. Len(Dashed) = 3 /\ Dashed[1] = "-" /\ Dashed[2] = "-" /\ Dashed[3] = boundary
    BY DEF Dashed
  <2>2. j + 3 <= m /\ out[j + 1] = "-" /\ out[j + 2] = "-" /\ out[j + 3] = boundary
    BY <1>1, <1>3, <2>1 DEF Holds
  <2>3. Message[j + 1] = "-" /\ Message[j + 2] = "-" /\ Message[j + 3] = "b"
    BY <1>2, <2>2
  <2>4. Len(P!Dash) = 3 /\ P!Dash[1] = "-" /\ P!Dash[2] = "-" /\ P!Dash[3] = "b"
    BY DEF P!Dash
  <2>5. \A i \in 1 .. 3 : i = 1 \/ i = 2 \/ i = 3
    OBVIOUS
  <2>6. \A i \in 1 .. 3 : Message[j + i] = P!Dash[i]
    BY <2>3, <2>4, <2>5
  <2> QED
    BY <1>1, <2>2, <2>4, <2>6 DEF P!Stands
<1>4. ASSUME Holds(out, j, DashedLast) PROVE P!Stands(P!DashDash, j, Len(Message))
  <2>1. /\ Len(DashedLast) = 5 /\ DashedLast[1] = "-" /\ DashedLast[2] = "-" /\ DashedLast[3] = boundary
        /\ DashedLast[4] = "-" /\ DashedLast[5] = "-"
    BY DEF DashedLast
  <2>2. /\ j + 5 <= m /\ out[j + 1] = "-" /\ out[j + 2] = "-" /\ out[j + 3] = boundary
        /\ out[j + 4] = "-" /\ out[j + 5] = "-"
    BY <1>1, <1>4, <2>1 DEF Holds
  <2>3. /\ Message[j + 1] = "-" /\ Message[j + 2] = "-" /\ Message[j + 3] = "b"
        /\ Message[j + 4] = "-" /\ Message[j + 5] = "-"
    BY <1>2, <2>2
  <2>4. /\ Len(P!DashDash) = 5 /\ P!DashDash[1] = "-" /\ P!DashDash[2] = "-" /\ P!DashDash[3] = "b"
        /\ P!DashDash[4] = "-" /\ P!DashDash[5] = "-"
    <3>1. P!DashDash = <<"-", "-", "b">> \o <<"-", "-">>
      BY DEF P!DashDash, P!Dash
    <3>2. <<"-", "-", "b">> \in Seq(Plain \union {"b"}) /\ <<"-", "-">> \in Seq(Plain \union {"b"})
      BY DEF Plain
    <3>3. PICK u \in Seq(Plain \union {"b"}) : u = <<"-", "-", "b">>
      BY <3>2
    <3>4. Len(u) = 3 /\ u[1] = "-" /\ u[2] = "-" /\ u[3] = "b"
      BY <3>3
    <3>5. PICK v \in Seq(Plain \union {"b"}) : v = <<"-", "-">>
      BY <3>2
    <3>6. Len(v) = 2 /\ v[1] = "-" /\ v[2] = "-"
      BY <3>5
    <3>7. PICK w : w = u \o v
      OBVIOUS
    <3>8. /\ Len(w) = Len(u) + Len(v)
          /\ \A i \in 1 .. Len(u) : w[i] = u[i]
          /\ \A i \in Len(u) + 1 .. Len(u) + Len(v) : w[i] = v[i - Len(u)]
      BY <3>7, ConcatProperties
    <3>9. Len(w) = 5 /\ w[1] = u[1] /\ w[2] = u[2] /\ w[3] = u[3]
      BY <3>4, <3>6, <3>8
    <3>10. w[4] = v[1] /\ w[5] = v[2]
      <4>1. 4 \in 4 .. 5 /\ 5 \in 4 .. 5 /\ 4 - 3 = 1 /\ 5 - 3 = 2
        OBVIOUS
      <4>2. \A i \in 4 .. 5 : w[i] = v[i - 3]
        BY <3>4, <3>6, <3>8
      <4> QED
        BY <4>1, <4>2
    <3>11. P!DashDash = w
      BY <3>1, <3>3, <3>5, <3>7
    <3> QED
      BY <3>4, <3>6, <3>9, <3>10, <3>11
  <2>5. \A i \in 1 .. 5 : i = 1 \/ i = 2 \/ i = 3 \/ i = 4 \/ i = 5
    OBVIOUS
  <2>6. \A i \in 1 .. 5 : Message[j + i] = P!DashDash[i]
    BY <2>3, <2>4, <2>5
  <2> QED
    BY <1>1, <2>2, <2>4, <2>6 DEF P!Stands
<1> QED
  BY <1>3, <1>4

(* What the writer has finished is a message for the reader.                *)
LEMMA MessageLaid ==
    ASSUME WTypeOK, NEW n, n = Len(parts), NEW L, NEW S, Laid(n, L, S), Closed(L[n + 1])
    PROVE  P!Laid(n, L, S)
<1>1. /\ out \in Seq(Put) /\ bodies \in Seq(Seq(Text)) /\ Len(bodies) = n /\ n \in Nat
      /\ L \in [1 .. n + 1 -> Nat] /\ S \in [1 .. n -> Nat] /\ L[1] = IF n = 0 THEN 2 ELSE 0
  BY Facts DEF Laid
<1>2. PICK m \in Nat : m = Len(Message) /\ m = Len(out)
  BY MessageIs
<1>3. CRLF \in Seq(Plain) /\ P!CR = CRLF /\ <<"H">> \in Seq(Plain) /\ Len(CRLF) = 2
  BY DEF CRLF, P!CR, Plain
<1>4. \A j \in Nat : (Holds(out, j, CRLF) => P!Stands(P!CR, j, m)) /\ (Holds(out, j, <<"H">>) => P!Stands(<<"H">>, j, m))
  BY <1>2, <1>3, PlainStands
<1>5. \A j \in Nat : /\ Holds(out, j, Dashed) => P!Stands(P!Dash, j, m)
                     /\ Holds(out, j, DashedLast) => P!Stands(P!DashDash, j, m)
  BY <1>2, BoundaryStands
<1>6. \A i \in 1 .. m : Message[i] # "sp"
  BY <1>2, MessageIs
<1>7. \A i \in 1 .. m : out[i] \in Text => Message[i] # "b"
  <2> SUFFICES ASSUME NEW i \in 1 .. m, out[i] \in Text PROVE Message[i] # "b"
    OBVIOUS
  <2>1. out[i] \in Plain /\ out[i] # "b"
    BY DEF Text, Plain
  <2>2. Message[i] = out[i]
    BY <1>2, <2>1, MessageIs
  <2> QED
    BY <2>1, <2>2
<1> HIDE DEF Message
<1>8. PICK e \in Nat : e = L[n + 1]
  <2>1. n + 1 \in 1 .. n + 1
    BY <1>1
  <2> QED
    BY <1>1, <2>1
<1>9. Holds(out, e - 2, CRLF) /\ Holds(out, e, DashedLast) /\ Holds(out, e + 5, CRLF)
  BY <1>8 DEF Closed
<1>10. P!Closing(e)
  BY <1>2, <1>4, <1>5, <1>9 DEF P!Closing
<1>11. ASSUME NEW p \in 1 .. n PROVE P!Opening(L[p], S[p]) /\ P!Content(S[p], L[p + 1])
  <2>1. /\ Begun(out, L[p], S[p]) /\ Holds(out, S[p], bodies[p])
        /\ L[p + 1] = S[p] + Len(bodies[p]) + 2
        /\ p < n => Holds(out, L[p + 1] - 2, CRLF)
    BY DEF Laid
  <2>2. bodies[p] \in Seq(Text)
    BY <1>1
  <2>3. PICK l \in Nat : l = L[p]
    <3>1. p \in 1 .. n + 1
      BY <1>1
    <3> QED
      BY <1>1, <3>1
  <2>4. PICK s \in Nat : s = S[p]
    BY <1>1
  <2>5. PICK k \in Nat : k = Len(bodies[p])
    BY <2>2, LenProperties
  <2>6. PICK c \in Nat : c = L[p + 1] /\ c = s + k + 2 /\ c - 2 = s + k
    BY <2>1, <2>4, <2>5
  <2>7. P!Opening(l, s)
    <3>1. Begun(out, l, s)
      BY <2>1, <2>3, <2>4
    <3> QED
      BY <1>2, <1>4, <1>5, <3>1 DEF Begun, P!Opening
  <2>8. P!Stands(P!CR, c - 2, m)
    <3>1. Holds(out, c - 2, CRLF)
      <4>1. CASE p < n
        BY <2>1, <2>6, <4>1
      <4>2. CASE p = n
        BY <1>8, <1>9, <2>6, <4>2
      <4> QED
        BY <1>1, <4>1, <4>2
    <3> QED
      BY <1>4, <2>6, <3>1
  <2>9. \A i \in s + 1 .. c - 2 : Message[i] # "b"
    <3> SUFFICES ASSUME NEW i \in s + 1 .. s + k PROVE Message[i] # "b"
      BY <2>6
    <3>1. i - s \in 1 .. k /\ s + (i - s) = i
      OBVIOUS
    <3>2. s + k <= m /\ \A x \in 1 .. k : out[s + x] = bodies[p][x]
      BY <1>2, <2>1, <2>4, <2>5 DEF Holds
    <3>3. i \in 1 .. m
      BY <3>2
    <3>4. bodies[p][i - s] \in Text
      BY <2>2, <2>5, <3>1, ElementOfSeq
    <3>5. out[i] \in Text
      BY <3>1, <3>2, <3>4
    <3> QED
      BY <1>7, <3>3, <3>5
  <2>10. s + 2 <= c
    BY <2>6
  <2>11. P!Content(s, c)
    BY <1>2, <2>8, <2>9, <2>10 DEF P!Content
  <2> QED
    BY <2>3, <2>4, <2>6, <2>7, <2>11
<1>12. IF n = 0 THEN L[1] = 2 /\ P!Stands(P!CR, 0, m) ELSE L[1] = 0
  <2>1. n = 0 => P!Stands(P!CR, 0, m)
    <3> SUFFICES ASSUME n = 0 PROVE P!Stands(P!CR, 0, m)
      OBVIOUS
    <3>1. e = 2 /\ e - 2 = 0
      BY <1>1, <1>8
    <3> QED
      BY <1>4, <1>9, <3>1
  <2> QED
    BY <1>1, <2>1
<1> QED
  BY <1>1, <1>2, <1>6, <1>8, <1>10, <1>11, <1>12, Zenon DEF P!Laid

-----------------------------------------------------------------------------
(* The reader of MultipartRoundTrip is the one of the reader's proofs: it   *)
(* takes the same steps, and its assumptions hold.                          *)

LEMMA SameRead ==
    ASSUME NEW k, R!Read(k) PROVE P!Read(k)
BY DEF R!Read, P!Read, R!Window, P!Window, R!NCopy, P!NCopy, R!Rest, P!Rest, R!PartRead, P!PartRead,
       R!Took, P!Took, R!SeparatorIndex, P!SeparatorIndex, R!Separators, P!Separators, R!Dash, P!Dash,
       R!IsEnd, P!IsEnd, R!Ends, P!Ends, R!SkipLWSP, P!SkipLWSP, R!IsEmptyPart, P!IsEmptyPart,
       R!DashDash, P!DashDash, R!After, P!After, R!Short, P!Short, R!Safe, P!Safe,
       R!Min, P!Min, R!Max, P!Max, R!SelectInSeq, P!SelectInSeq, R!IsPrefix, P!IsPrefix

LEMMA SameNextPart ==
    ASSUME R!NextPart PROVE P!NextPart
BY DEF R!NextPart, P!NextPart

LEMMA SameCloseRead ==
    ASSUME R!CloseRead PROVE P!CloseRead
BY DEF R!CloseRead, P!CloseRead, R!Window, P!Window, R!NCopy, P!NCopy, R!Rest, P!Rest, R!PartRead, P!PartRead,
       R!Took, P!Took, R!SeparatorIndex, P!SeparatorIndex, R!Separators, P!Separators, R!Dash, P!Dash,
       R!IsEnd, P!IsEnd, R!Ends, P!Ends, R!SkipLWSP, P!SkipLWSP, R!IsEmptyPart, P!IsEmptyPart,
       R!DashDash, P!DashDash, R!After, P!After, R!Short, P!Short, R!Safe, P!Safe,
       R!Min, P!Min, R!Max, P!Max, R!SelectInSeq, P!SelectInSeq, R!IsPrefix, P!IsPrefix

LEMMA SameLines ==
    /\ R!NextLine => P!NextLine
    /\ R!NoLine => P!NoLine
BY DEF R!NextLine, P!NextLine, R!NoLine, P!NoLine, R!FirstLF, P!FirstLF, R!Advance, P!Advance, R!Rest, P!Rest,
       R!Judge, P!Judge, R!SkipLWSP, P!SkipLWSP, R!After, P!After, R!Dash, P!Dash, R!DashDash, P!DashDash,
       R!Returns, P!Returns, R!Closed, P!Closed, R!Min, P!Min, R!SelectInSeq, P!SelectInSeq, R!IsPrefix, P!IsPrefix

LEMMA SameHeaders ==
    /\ R!Header => P!Header
    /\ R!OtherHeader => P!OtherHeader
    /\ R!HeaderError => P!HeaderError
BY DEF R!Header, P!Header, R!OtherHeader, P!OtherHeader, R!HeaderError, P!HeaderError,
       R!FirstLF, P!FirstLF, R!Advance, P!Advance, R!Rest, P!Rest, R!AtHeader, P!AtHeader, R!NewPart, P!NewPart,
       R!Returns, P!Returns, R!Closed, P!Closed, R!Min, P!Min, R!SelectInSeq, P!SelectInSeq, R!IsPrefix, P!IsPrefix

LEMMA SameProceed ==
    ASSUME R!Proceed PROVE P!Proceed
BY SameCloseRead, SameLines, SameHeaders DEF R!Proceed, P!Proceed

(* What the reader's proofs assume of it.                                   *)
LEMMA ReaderAssumed ==
    /\ PeekSize \in Nat /\ PeekSize >= 2 + Len(P!Dash) + 2 /\ Sizes \subseteq Nat \ {0}
    /\ Seq(Symbols) \subseteq Seq(P!Symbols) /\ {"eof"} \subseteq {"eof", "fail"}
<1>1. R!Dash = P!Dash
  BY DEF R!Dash, P!Dash
<1>2. Symbols = P!Symbols
  BY DEF Symbols, P!Symbols
<1> QED
  BY <1>1, <1>2, ReaderAssumption

LEMMA ReaderInit == ASSUME P!Init PROVE P!NInv
  BY ReaderAssumed, P!NInitOK

LEMMA ReaderStep == ASSUME P!NInv, [P!Next]_P!vars PROVE P!NInv'
  BY ReaderAssumed, P!NInductive

LEMMA ReaderMessageInit ==
    ASSUME P!Init, ending = "eof", NEW n \in Nat, NEW L, NEW S
    PROVE  P!InMessage(n, L, S)
  BY ReaderAssumed, P!MessageInit

LEMMA ReaderMessageStep ==
    ASSUME P!NInv, NEW n, NEW L, NEW S, P!Laid(n, L, S), P!InMessage(n, L, S),
           (\E k \in Sizes : P!Read(k)) \/ P!NextPart \/ P!Proceed
    PROVE  P!InMessage(n, L, S)'
  BY ReaderAssumed, P!MessageStep

LEMMA ReaderPart ==
    ASSUME P!NInv, NEW n, NEW L, NEW S, P!Laid(n, L, S), P!InMessage(n, L, S), pc = "idle", part.open
    PROVE  /\ partsRead \in 1 .. n /\ S[partsRead] \in Nat /\ L[partsRead + 1] \in Nat
           /\ delivered \in Seq(Nat)
           /\ \A j \in 1 .. Len(delivered) : delivered[j] = S[partsRead] + j
           /\ S[partsRead] + Len(delivered) + 2 <= L[partsRead + 1]
           /\ ended => S[partsRead] + Len(delivered) + 2 = L[partsRead + 1]
  BY ReaderAssumed, P!PartOfMessage

-----------------------------------------------------------------------------
(* Both together.                                                           *)

(* The reader has not begun; it is in the message, or through with it.      *)
Unread ==
    /\ ending = "eof" /\ at = 0 /\ buffered = 0 /\ nl = <<"cr", "lf">> /\ partsRead = 0
    /\ part = [buffer |-> <<>>, fresh |-> FALSE, open |-> FALSE, some |-> FALSE]
    /\ pc = "idle" /\ expect = FALSE /\ ret = "none"
    /\ start = 0 /\ delivered = <<>> /\ ended = FALSE /\ checked = "none"

InIt == \E L, S : /\ Laid(Len(parts), L, S) /\ Closed(L[Len(parts) + 1])
                  /\ P!InMessage(Len(parts), L, S)

TripInv ==
    /\ WInv /\ WrittenInv
    /\ reading => done
    /\ Unread \/ (reading /\ P!NInv /\ InIt)

LEMMA UnreadIs ==
    /\ R!Init => Unread
    /\ WTypeOK /\ Unread => P!Init
    /\ Unread /\ UNCHANGED rvars => Unread'
<1>1. R!Init => Unread
  BY DEF R!Init, R!NoPart, Unread
<1>2. WTypeOK /\ Unread => P!Init
  <2>1. WTypeOK => Message \in Seq(Symbols)
    BY MessageIs
  <2> HIDE DEF Message
  <2> QED
    BY <2>1 DEF Unread, P!Init, P!NoPart
<1>3. Unread /\ UNCHANGED rvars => Unread'
  BY DEF Unread, rvars
<1> QED
  BY <1>1, <1>2, <1>3

LEMMA TripInit == Init => TripInv
BY InitOK, WrittenInit, UnreadIs DEF Init, TripInv

(* The message stays what it is while it is read.                           *)
LEMMA MessageStays ==
    ASSUME UNCHANGED wvars, NEW n, NEW L, NEW S
    PROVE  /\ Message' = Message
           /\ Laid(n, L, S) => Laid(n, L, S)'
           /\ Closed(L[n + 1]) => Closed(L[n + 1])'
<1>1. UNCHANGED <<out, boundary, bodies>>
  BY DEF wvars
<1>2. Message' = Message
  BY <1>1 DEF Message
<1>3. Laid(n, L, S) => Laid(n, L, S)'
  <2>1. Dashed' = Dashed
    BY <1>1 DEF Dashed
  <2>2. \A j, s : Holds(out, j, s)' = Holds(out, j, s)
    BY <1>1 DEF Holds
  <2>3. \A l, s : Begun(out, l, s)' = Begun(out, l, s)
    BY <1>1, <2>1 DEF Begun, Holds
  <2> QED
    BY <1>1, <2>2, <2>3 DEF Laid
<1>4. Closed(L[n + 1]) => Closed(L[n + 1])'
  BY <1>1 DEF Closed, Holds, DashedLast
<1> QED
  BY <1>2, <1>3, <1>4

(* What is written when the message is handed over.                         *)
LEMMA HandedOver ==
    ASSUME WInv, WrittenInv, done
    PROVE  \E L, S : Laid(Len(parts), L, S) /\ Closed(L[Len(parts) + 1])
<1>1. ~broken /\ lastpart = 0
  BY DEF WrittenInv, WInv, LastHolds
<1>2. Written
  BY <1>1 DEF WrittenInv, HasError
<1> QED
  BY <1>2 DEF Written

LEMMA InItWhenUnread ==
    ASSUME TripInv, reading
    PROVE  P!NInv /\ InIt
<1>1. WTypeOK /\ WInv /\ WrittenInv /\ done
  BY DEF TripInv, WInv
<1>2. CASE Unread
  <2>1. P!Init /\ ending = "eof"
    BY <1>1, <1>2, UnreadIs DEF Unread
  <2>2. PICK L, S : Laid(Len(parts), L, S) /\ Closed(L[Len(parts) + 1])
    BY <1>1, HandedOver
  <2>3. Len(parts) \in Nat
    BY <2>2 DEF Laid
  <2>4. P!InMessage(Len(parts), L, S)
    BY <2>1, <2>3, ReaderMessageInit
  <2>5. P!NInv
    BY <2>1, ReaderInit
  <2> QED
    BY <2>2, <2>4, <2>5 DEF InIt
<1>3. CASE P!NInv /\ InIt
  BY <1>3
<1> QED
  BY <1>2, <1>3 DEF TripInv

LEMMA Reads ==
    ASSUME TripInv, Reading
    PROVE  P!NInv' /\ InIt'
<1>1. reading /\ UNCHANGED wvars /\ ((\E k \in Sizes : P!Read(k)) \/ P!NextPart \/ P!Proceed)
  BY SameRead, SameNextPart, SameProceed DEF Reading
<1>2. P!NInv /\ InIt /\ WTypeOK
  BY <1>1, InItWhenUnread DEF TripInv, WInv
<1>3. P!Next
  BY <1>1 DEF P!Next
<1>4. P!NInv'
  BY <1>2, <1>3, ReaderStep
<1>5. PICK L, S : /\ Laid(Len(parts), L, S) /\ Closed(L[Len(parts) + 1])
                  /\ P!InMessage(Len(parts), L, S)
  BY <1>2 DEF InIt
<1>6. PICK n : n = Len(parts)
  OBVIOUS
<1>7. n = Len(parts)'
  BY <1>1, <1>6 DEF wvars
<1>8. P!Laid(n, L, S)
  BY <1>2, <1>5, <1>6, MessageLaid
<1>9. P!InMessage(n, L, S)'
  BY <1>1, <1>2, <1>5, <1>6, <1>8, ReaderMessageStep
<1>10. Laid(n, L, S)' /\ Closed(L[n + 1])'
  BY <1>1, <1>5, <1>6, MessageStays
<1>11. InIt'
  BY <1>7, <1>9, <1>10 DEF InIt
<1> QED
  BY <1>4, <1>11

LEMMA Rests ==
    ASSUME WTypeOK, P!NInv, InIt, UNCHANGED <<wvars, rvars>>
    PROVE  P!NInv' /\ InIt'
<1>1. UNCHANGED wvars /\ UNCHANGED rvars
  OBVIOUS
<1>2. PICK L, S : /\ Laid(Len(parts), L, S) /\ Closed(L[Len(parts) + 1])
                  /\ P!InMessage(Len(parts), L, S)
  BY DEF InIt
<1>3. PICK n : n = Len(parts)
  OBVIOUS
<1>4. n = Len(parts)'
  BY <1>1, <1>3 DEF wvars
<1>5. Message' = Message /\ Laid(n, L, S)' /\ Closed(L[n + 1])'
  BY <1>1, <1>2, <1>3, MessageStays
<1> HIDE DEF Message
<1>6. P!NInv'
  <2>1. UNCHANGED P!vars
    BY <1>1, <1>5 DEF P!vars, rvars
  <2> QED
    BY <2>1, ReaderStep
<1>7. P!InMessage(n, L, S)'
  <2>1. P!InMessage(n, L, S)
    BY <1>2, <1>3
  <2> QED
    BY <1>1, <2>1 DEF rvars, P!InMessage, P!NothingBad, P!AtFirst, P!AtPart, P!AtHead, P!Through, P!CR
<1>8. InIt'
  BY <1>4, <1>5, <1>7 DEF InIt
<1> QED
  BY <1>6, <1>8

LEMMA TripStep == TripInv /\ [Next]_<<wvars, rvars, reading>> => TripInv'
<1> SUFFICES ASSUME TripInv, [Next]_<<wvars, rvars, reading>> PROVE TripInv'
  OBVIOUS
<1>1. WInv /\ WrittenInv /\ WTypeOK /\ (reading => done) /\ (Unread \/ (reading /\ P!NInv /\ InIt))
  BY DEF TripInv, WInv
<1>2. WInv'
  BY <1>1, StepOK, StepIs
<1>3. WrittenInv'
  <2>1. [WNext]_wvars
    BY DEF Next, Writing, HandOver, Reading, Finished
  <2> QED
    BY <1>1, <2>1, WrittenStep
<1>4. (reading => done)' /\ (Unread \/ (reading /\ P!NInv /\ InIt))'
  <2>1. CASE Writing
    <3>1. ~reading /\ UNCHANGED reading /\ UNCHANGED rvars
      BY <2>1 DEF Writing
    <3>2. Unread'
      BY <1>1, <3>1, UnreadIs
    <3> QED
      BY <3>1, <3>2
  <2>2. CASE HandOver
    <3>1. ~reading /\ done /\ reading' = TRUE /\ UNCHANGED wvars /\ UNCHANGED rvars
      BY <2>2 DEF HandOver
    <3>2. Unread'
      BY <1>1, <3>1, UnreadIs
    <3>3. done'
      BY <3>1 DEF wvars
    <3> QED
      BY <3>2, <3>3
  <2>3. CASE Reading
    <3>1. reading /\ UNCHANGED reading /\ UNCHANGED wvars
      BY <2>3 DEF Reading
    <3>2. done'
      BY <1>1, <3>1 DEF wvars
    <3>3. P!NInv' /\ InIt'
      BY <2>3, Reads
    <3> QED
      BY <3>1, <3>2, <3>3
  <2>4. CASE UNCHANGED <<wvars, rvars, reading>>
    <3>1. UNCHANGED wvars /\ UNCHANGED rvars /\ UNCHANGED reading /\ UNCHANGED done
      BY <2>4 DEF wvars
    <3>2. Unread => Unread'
      BY <3>1, UnreadIs
    <3>3. P!NInv /\ InIt => P!NInv' /\ InIt'
      BY <1>1, <3>1, Rests
    <3> QED
      BY <1>1, <3>1, <3>2, <3>3
  <2> QED
    BY <2>1, <2>2, <2>3, <2>4 DEF Next, Finished
<1> QED
  BY <1>2, <1>3, <1>4 DEF TripInv

(* What is delivered of a part begins what has been written to it.          *)
LEMMA PartIs ==
    ASSUME WTypeOK, P!NInv, InIt, pc = "idle", part.open
    PROVE  /\ IsPrefix([j \in DOMAIN delivered |-> Message[delivered[j]]], bodies[partsRead])
           /\ ended => Len(delivered) = Len(bodies[partsRead])
<1>1. PICK L, S : /\ Laid(Len(parts), L, S) /\ Closed(L[Len(parts) + 1])
                  /\ P!InMessage(Len(parts), L, S)
  BY DEF InIt
<1>2. PICK n : n = Len(parts)
  OBVIOUS
<1>3. Laid(n, L, S) /\ Closed(L[n + 1]) /\ P!InMessage(n, L, S)
  BY <1>1, <1>2
<1>4. P!Laid(n, L, S)
  BY <1>2, <1>3, MessageLaid
<1>5. /\ partsRead \in 1 .. n /\ S[partsRead] \in Nat /\ L[partsRead + 1] \in Nat
      /\ delivered \in Seq(Nat)
      /\ \A j \in 1 .. Len(delivered) : delivered[j] = S[partsRead] + j
      /\ S[partsRead] + Len(delivered) + 2 <= L[partsRead + 1]
      /\ ended => S[partsRead] + Len(delivered) + 2 = L[partsRead + 1]
  BY <1>3, <1>4, ReaderPart
<1>6. PICK p : p = partsRead /\ p \in 1 .. n
  BY <1>5
<1>7. PICK s \in Nat : s = S[p]
  BY <1>5, <1>6
<1>8. PICK d \in Nat : d = Len(delivered) /\ DOMAIN delivered = 1 .. d
  BY <1>5, LenProperties
<1>9. /\ bodies \in Seq(Seq(Text)) /\ Len(bodies) = n /\ n \in Nat
  BY <1>2, <1>3, Facts DEF Laid
<1>10. PICK w \in Seq(Text) : w = bodies[p]
  BY <1>6, <1>9
<1>11. PICK k \in Nat : k = Len(w) /\ DOMAIN w = 1 .. k
  BY LenProperties
<1>12. L[p + 1] = s + k + 2 /\ Holds(out, s, w)
  BY <1>3, <1>6, <1>7, <1>10, <1>11 DEF Laid
<1>13. d <= k /\ (ended => d = k)
  <2>1. s + d + 2 <= s + k + 2 /\ (ended => s + d + 2 = s + k + 2)
    BY <1>5, <1>6, <1>7, <1>8, <1>12
  <2> QED
    BY <2>1
<1>14. PICK m \in Nat : m = Len(out)
  BY MessageIs
<1>15. s + k <= m /\ \A j \in 1 .. k : out[s + j] = w[j]
  BY <1>11, <1>12, <1>14 DEF Holds
<1>16. \A j \in 1 .. m : out[j] \in Plain => Message[j] = out[j]
  BY <1>14, MessageIs
<1> DEFINE got == [j \in DOMAIN delivered |-> Message[delivered[j]]]
<1>17. got = [j \in 1 .. d |-> got[j]]
  BY <1>8
<1> HIDE DEF Message
<1>18. ASSUME NEW j \in 1 .. d PROVE got[j] = w[j] /\ got[j] \in Text
  <2>1. delivered[j] = s + j
    BY <1>5, <1>6, <1>7, <1>8
  <2>2. j \in 1 .. k /\ s + j \in 1 .. m
    BY <1>13, <1>15
  <2>3. out[s + j] = w[j] /\ w[j] \in Text
    BY <1>11, <1>15, <2>2, ElementOfSeq
  <2>4. Message[s + j] = out[s + j]
    BY <1>16, <2>2, <2>3 DEF Text, Plain
  <2>5. got[j] = Message[delivered[j]]
    BY <1>8
  <2> QED
    BY <2>1, <2>3, <2>4, <2>5
<1> HIDE DEF got
<1>19. got \in Seq(Text) /\ Len(got) = d
  <2>1. got \in [1 .. d -> Text]
    BY <1>17, <1>18
  <2> QED
    BY <2>1
<1>20. SubSeq(got, 1, d) = SubSeq(w, 1, d)
  <2>1. /\ SubSeq(got, 1, d) \in Seq(Text) /\ Len(SubSeq(got, 1, d)) = d
        /\ \A i \in 1 .. d : SubSeq(got, 1, d)[i] = got[i]
    BY <1>19, <1>8
  <2>2. /\ SubSeq(w, 1, d) \in Seq(Text) /\ Len(SubSeq(w, 1, d)) = d
        /\ \A i \in 1 .. d : SubSeq(w, 1, d)[i] = w[i]
    BY <1>8, <1>11, <1>13
  <2> QED
    BY <1>18, <2>1, <2>2, SeqEqual
<1>21. IsPrefix(got, w)
  BY <1>11, <1>13, <1>19, <1>20 DEF IsPrefix
<1> QED
  BY <1>6, <1>8, <1>10, <1>11, <1>13, <1>21 DEF got

LEMMA TripHolds == TripInv => RoundTrip
<1> SUFFICES ASSUME TripInv PROVE RoundTrip
  OBVIOUS
<1>1. WTypeOK /\ (Unread \/ (P!NInv /\ InIt))
  BY DEF TripInv, WInv
<1>2. CASE Unread
  <2>1. ret = "none" /\ partsRead = 0 /\ pc = "idle" /\ part.open = FALSE
    BY <1>2 DEF Unread
  <2>2. Len(parts) \in Nat
    BY <1>1, Facts
  <2>3. 0 <= Len(parts)
    BY <2>2
  <2> HIDE DEF Message
  <2> QED
    BY <2>1, <2>3 DEF RoundTrip
<1>3. CASE P!NInv /\ InIt
  <2>1. PICK L, S : P!InMessage(Len(parts), L, S)
    BY <1>3 DEF InIt
  <2>2. ret \notin {"error", "malformed", "headererror", "panic"} /\ partsRead <= Len(parts)
    BY <2>1 DEF P!InMessage, P!NothingBad
  <2>3. pc = "eof" => partsRead = Len(parts)
    BY <2>1 DEF P!InMessage, P!AtFirst, P!AtPart, P!AtHead, P!Through
  <2> QED
    BY <1>1, <1>3, <2>2, <2>3, PartIs DEF RoundTrip
<1> QED
  BY <1>1, <1>2, <1>3

(* Whatever calls of whatever kind the writer's caller has made, and in     *)
(* whatever sizes it is read: a message whose Close has returned nil, and   *)
(* that is whole, is read back as it was written.  The reader finds the     *)
(* parts that were created and no others, gives of each the bytes that were *)
(* written to it, all of them before its io.EOF, and no call fails.         *)
THEOREM ReadAsWritten == Spec => []RoundTrip
<1>1. Spec => []TripInv
  BY TripInit, TripStep, PTL DEF Spec
<1> QED
  BY <1>1, TripHolds, PTL
=============================================================================
