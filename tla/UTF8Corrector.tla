--------------------------- MODULE UTF8Corrector ---------------------------
(***************************************************************************)
(* quotedprintable/qputf8.go: the reader that NewUTF8Reader puts behind a  *)
(* quoted-printable reader.  It removes an end of line that a mailer put   *)
(* in the middle of a multi-byte UTF-8 character and passes every other    *)
(* byte on.  It holds back the bytes of a character that may go on, in a   *)
(* six byte array (own), across calls of Read, and asks its source for no  *)
(* more bytes than the caller's slice can take beside the held ones.       *)
(*                                                                         *)
(* A byte is its position in the input, so that loss, duplication and      *)
(* reordering all show; the code looks only at its class.  One step is one *)
(* turn of the loop of cycle or of release.                                *)
(***************************************************************************)
EXTENDS Integers, Sequences, SequencesExt, Subsequences

CONSTANTS
    BufMax,     \* len(q.buf), 512 in the code
    Sizes,      \* the lengths of the slices the caller passes to Read
    Inputs      \* what the source may hold: sequences of byte classes

Classes == {"lead", "cont", "cr", "lf", "other"}

ASSUME BufMaxAssumption == BufMax \in Nat \ {0}
ASSUME SizesAssumption  == Sizes \subseteq Nat
ASSUME InputsAssumption == Inputs \subseteq Seq(Classes)

OwnSize == 6
UTFMaxLong == 7         \* mutant: the length of six-byte UTF-8 and one more
UTFMax  == 4

States == {"Normal", "Start", "0D", "0A", "10XXXXXX", "Release", "ReleaseRestart"}

VARIABLES
    input,      \* the whole stream of the source
    taken,      \* how many bytes of it the source has returned
    state,      \* q.state
    pos,        \* q.pos: index in own of the first end-of-line byte
    own,        \* q.own
    pco,        \* q.pco: bytes put in own
    cco,        \* q.cco: bytes taken out of own
    base,       \* q.buf[i] is byte base + i + 1 of the input
    pcb,        \* q.pcb
    ccb,        \* q.ccb
    last,       \* q.last
    err,        \* q.err # nil
    pc,         \* where the call of Read is
    carry,      \* the running cycle is the one over bytes left from an earlier call
    max,        \* len(p)
    count,      \* bytes stored in p
    i,          \* the loop index of cycle
    n,          \* the loop bound of cycle
    delivered,  \* every byte stored in a p so far
    dropped     \* bytes read in state stRelease, which no case of cycle takes

source == <<input, taken, base>>
corrector == <<state, pos, own, pco, cco, pcb, ccb, last, err>>
call == <<pc, carry, max, count, i, n>>
history == <<delivered, dropped>>
vars == <<source, corrector, call, history>>

-----------------------------------------------------------------------------
Init ==
    /\ input \in Inputs
    /\ taken = 0 /\ base = 0
    /\ state = "Normal"
    /\ pos = 0 /\ pco = 0 /\ cco = 0 /\ pcb = 0 /\ ccb = 0 /\ last = 0
    /\ own = [k \in 0 .. OwnSize - 1 |-> 0]
    /\ err = FALSE
    /\ pc = "idle" /\ carry = FALSE /\ max = 0 /\ count = 0 /\ i = 0 /\ n = 0
    /\ delivered = <<>> /\ dropped = {}

Byte  == base + i + 1               \* b := q.buf[i]
Class == input[Byte]
Held  == pco - cco

(* Read(p) with len(p) = m: bytes left in buf go first. *)
Read(m) ==
    /\ pc = "idle"
    /\ max' = m /\ count' = 0
    /\ IF pcb > ccb
       THEN pc' = "cycle" /\ carry' = TRUE /\ i' = ccb /\ n' = pcb
       ELSE pc' = "fetch" /\ carry' = FALSE /\ i' = 0 /\ n' = 0
    /\ UNCHANGED <<source, corrector, history>>

(* mutant: the held bytes are forgotten at the error *)
ReturnErrorAtOnce ==
    /\ pc = "fetch" /\ err /\ pc' = "done"
    /\ UNCHANGED <<source, corrector, carry, max, count, i, n, history>>

(* A remembered error is returned, after what own may still give. *)
ReturnError ==
    /\ pc = "fetch" /\ err
    /\ pc' = IF state = "10XXXXXX" \/ (state = "Start" /\ Held > 1)
             THEN "drain" ELSE "done"
    /\ UNCHANGED <<source, corrector, carry, max, count, i, n, history>>

AllowedAll == max - count               \* mutant: no room for the held bytes
AllowedLess == (max - count) - OwnSize  \* mutant: room for all of own, whatever is held

(* How much the caller's slice can take beside the held bytes. *)
Allowed == (max - count) - Held

(* The source returns k bytes, and its error with the last ones or after   *)
(* them.                                                                   *)
Fetch ==
    /\ pc = "fetch" /\ ~err /\ Allowed > 0
    /\ \E k \in 0 .. BufMax :
          /\ k <= Allowed /\ k <= Len(input) - taken
          /\ taken < Len(input) => k > 0
          /\ taken' = taken + k /\ base' = taken /\ n' = k
          /\ \/ k > 0 /\ err' = FALSE
             \/ taken + k = Len(input) /\ err' = TRUE
    /\ pc' = "cycle" /\ carry' = FALSE /\ i' = 0
    /\ UNCHANGED <<input, state, pos, own, pco, cco, pcb, ccb, last, max, count, history>>

NoRoom ==
    /\ pc = "fetch" /\ ~err /\ Allowed <= 0
    /\ pc' = "cycle" /\ carry' = FALSE /\ i' = 0 /\ n' = 0
    /\ UNCHANGED <<source, corrector, max, count, history>>

-----------------------------------------------------------------------------
(* cycle returns false: the slice is full, the rest of buf is left. *)
Suspend == pcb' = n /\ ccb' = i + 1 /\ pc' = "idle" /\ UNCHANGED i

(* The switch of cycle is done with a byte: release, or the next byte. *)
Turn ==
    IF state' \in {"Release", "ReleaseRestart"}
    THEN pc' = "release" /\ UNCHANGED i
    ELSE pc' = "cycle" /\ i' = i + 1

InCycle(s) == pc = "cycle" /\ i < n /\ state = s

HoldBehind(at) == own' = [own EXCEPT ![pco] = Byte] /\ pco' = pco + 1     \* mutant: the end of line stays

(* q.own[at] = b; the bytes held end there. *)
Hold(at) == own' = [own EXCEPT ![at] = Byte] /\ pco' = at + 1

(* p[*count] = b; *count++ *)
Store(b) == delivered' = Append(delivered, b) /\ count' = count + 1

Normal ==
    /\ InCycle("Normal")
    /\ \/ /\ Class = "lead"
          /\ state' = "Start" /\ Hold(0) /\ Turn
          /\ UNCHANGED <<pcb, ccb, delivered, count>>
       \/ /\ Class # "lead" /\ count < max
          /\ Store(Byte)
          /\ IF count' >= max THEN Suspend
             ELSE pc' = "cycle" /\ i' = i + 1 /\ UNCHANGED <<pcb, ccb>>
          /\ UNCHANGED <<state, own, pco>>
    /\ UNCHANGED <<source, pos, cco, last, err, carry, max, n, dropped>>

(* A lead byte inside an unfinished character starts the next one. *)
Restart ==
    /\ Class = "lead"
    /\ last' = Byte /\ state' = "ReleaseRestart"
    /\ UNCHANGED <<own, pco, pos>>

Start ==
    /\ InCycle("Start")
    /\ \/ Restart
       \/ /\ Class # "lead"
          /\ Hold(pco)
          /\ pos' = IF Class \in {"cr", "lf"} THEN pco ELSE pos
          /\ state' = CASE Class = "cr" -> "0D"
                        [] Class = "lf" -> "0A"
                        [] Class = "cont" /\ pco' < UTFMax -> "Start"
                        [] OTHER -> "Release"
          /\ UNCHANGED last
    /\ Turn
    /\ UNCHANGED <<source, cco, pcb, ccb, err, carry, max, count, n, history>>

AfterCR ==
    /\ InCycle("0D")
    /\ \/ Restart
       \/ /\ Class # "lead"
          /\ Hold(pco)
          /\ state' = IF Class = "lf" THEN "0A" ELSE "Release"
          /\ UNCHANGED <<pos, last>>
    /\ Turn
    /\ UNCHANGED <<source, cco, pcb, ccb, err, carry, max, count, n, history>>

(* A continuation byte after the end of line takes the place of the line   *)
(* end: this is the correction.                                            *)
AfterLF ==
    /\ InCycle("0A")
    /\ \/ Restart
       \/ Class = "cont" /\ Hold(pos) /\ state' = "10XXXXXX" /\ UNCHANGED <<pos, last>>
       \/ Class \notin {"lead", "cont"} /\ Hold(pco) /\ state' = "Release" /\ UNCHANGED <<pos, last>>
    /\ Turn
    /\ UNCHANGED <<source, cco, pcb, ccb, err, carry, max, count, n, history>>

Joined ==
    /\ InCycle("10XXXXXX")
    /\ \/ Restart
       \/ /\ Class # "lead"
          /\ Hold(pco)
          /\ state' = IF Class # "cont" \/ pco' = OwnSize THEN "Release" ELSE state
          /\ UNCHANGED <<pos, last>>
    /\ Turn
    /\ UNCHANGED <<source, cco, pcb, ccb, err, carry, max, count, n, history>>

(* The state a full slice left behind in the middle of release: no case of *)
(* the switch takes the byte.                                              *)
Unhandled ==
    /\ \E s \in {"Release", "ReleaseRestart"} : InCycle(s)
    /\ dropped' = dropped \union {Byte}
    /\ UNCHANGED state /\ Turn
    /\ UNCHANGED <<source, pos, own, pco, cco, pcb, ccb, last, err, carry, max, count, n, delivered>>

(* One held byte goes out; a full slice ends release with false. *)
Emit ==
    /\ pc \in {"release", "drain"} /\ cco < pco /\ count < max
    /\ Store(own[cco]) /\ cco' = cco + 1
    /\ IF count' < max THEN UNCHANGED <<pc, i, pcb, ccb>>
       ELSE IF pc = "release" THEN Suspend
       ELSE pc' = "done" /\ UNCHANGED <<i, pcb, ccb>>
    /\ UNCHANGED <<source, state, pos, own, pco, last, err, carry, max, n, dropped>>

(* mutant: the state is left as it is *)
ResetHeld ==
    /\ pc \in {"release", "drain"} /\ cco >= pco
    /\ cco' = 0 /\ pco' = 0
    /\ IF pc = "release" THEN pc' = "cycle" /\ i' = i + 1 ELSE pc' = "done" /\ UNCHANGED i
    /\ UNCHANGED <<source, state, own, pos, pcb, ccb, last, err, carry, max, count, n, history>>

(* Everything held is out: reset, and hold the byte that restarts. *)
Reset ==
    /\ pc \in {"release", "drain"} /\ cco >= pco
    /\ cco' = 0
    /\ IF state = "ReleaseRestart"
       THEN own' = [own EXCEPT ![0] = last] /\ pco' = 1 /\ state' = "Start"
       ELSE UNCHANGED own /\ pco' = 0 /\ state' = "Normal"
    /\ IF pc = "release" THEN pc' = "cycle" /\ i' = i + 1 ELSE pc' = "done" /\ UNCHANGED i
    /\ UNCHANGED <<source, pos, pcb, ccb, last, err, carry, max, count, n, history>>

(* p[*count] with *count = len(p): the index panics. *)
Storing ==
    IF pc = "cycle" THEN InCycle("Normal") /\ Class # "lead"
    ELSE pc \in {"release", "drain"} /\ cco < pco

Overrun ==
    /\ Storing /\ count >= max
    /\ pc' = "panic"
    /\ UNCHANGED <<source, corrector, carry, max, count, i, n, history>>

(* cycle has seen every byte; the call over carried bytes goes on to read. *)
CycleDone ==
    /\ pc = "cycle" /\ i >= n
    /\ IF carry
       THEN pc' = "fetch" /\ UNCHANGED <<pcb, ccb>>
       ELSE /\ pcb' = 0 /\ ccb' = 0
            /\ pc' = IF err /\ cco >= pco THEN "done" ELSE "idle"
    /\ UNCHANGED <<source, state, pos, own, pco, cco, last, err, carry, max, count, i, n, history>>

Cycle == Normal \/ Start \/ AfterCR \/ AfterLF \/ Joined \/ Unhandled
Release == Emit \/ Reset

(* The caller stops at the first error, and a panic ends the program. *)
Stopped == pc \in {"done", "panic"} /\ UNCHANGED vars

Next ==
    \/ \E m \in Sizes : Read(m)
    \/ ReturnError \/ Fetch \/ NoRoom
    \/ Cycle \/ Release \/ CycleDone \/ Overrun
    \/ Stopped

Spec == Init /\ [][Next]_vars

(* The caller keeps reading until an error, as io.ReadAll does. *)
FairSpec == Spec /\ WF_vars(Next)

-----------------------------------------------------------------------------
(* What the correction should be, said of the whole stream: the positions  *)
(* of the bytes of s that are kept, in order.                              *)

(* Before position j stand a lead byte and up to two continuation bytes.   *)
(* The code does not look at the length that the lead byte announces, so   *)
(* that to it such a character may go on, whether it is finished or not.   *)
MayGoOn(s, j) ==
    \E k \in 0 .. UTFMax - 2 :
        /\ j - 1 - k >= 1
        /\ s[j - 1 - k] = "lead"
        /\ \A l \in j - k .. j - 1 : s[l] = "cont"

At(s, j, c) == j \in DOMAIN s /\ s[j] = c

(* Position j belongs to an end of line between such a character and one   *)
(* more continuation byte.                                                 *)
Stray(s, j) ==
    \/ At(s, j, "lf") /\ At(s, j + 1, "cont") /\ MayGoOn(s, j)
    \/ At(s, j, "lf") /\ At(s, j + 1, "cont") /\ At(s, j - 1, "cr") /\ MayGoOn(s, j - 1)
    \/ At(s, j, "cr") /\ At(s, j + 1, "lf") /\ At(s, j + 2, "cont") /\ MayGoOn(s, j)

(* What the code loses at the end of the stream: a lead byte with nothing  *)
(* behind it, and a character that may go on with the end of line behind   *)
(* it.  The latter may be a whole one: of a two- or three-byte character,  *)
(* CR LF and the end of the stream nothing is passed on, because Read      *)
(* drains neither st0x0D nor st0x0A (line 48).                             *)
EofTail(s, j) ==
    LET e == Len(s)
    IN  \E t \in 1 .. j :
          /\ s[t] = "lead" /\ \A l \in t + 1 .. e : s[l] # "lead"
          /\ \/ t = e
             \/ s[e] \in {"cr", "lf"} /\ MayGoOn(s, e)
             \/ s[e] = "lf" /\ At(s, e - 1, "cr") /\ MayGoOn(s, e - 1)

(* The positions of a stream s that pass, and those delivered by its end. *)
Kept(s) == { j \in DOMAIN s : ~Stray(s, j) }
Positions(s) == [j \in DOMAIN s |-> j]
Corrected(s) == Only(Positions(s), Kept(s))
Complete(s)  == Only(Corrected(s), { j \in DOMAIN s : ~EofTail(s, j) })

(* The positions of the stream that some state handles, or may yet. *)
Seen == Only(Positions(input), DOMAIN input \ dropped)
Text(q) == [j \in DOMAIN q |-> input[q[j]]]

-----------------------------------------------------------------------------
TypeOK ==
    /\ input \in Seq(Classes)
    /\ taken \in 0 .. Len(input) /\ base \in 0 .. taken
    /\ state \in States
    /\ pos \in 0 .. OwnSize - 1
    /\ own \in [0 .. OwnSize - 1 -> 0 .. Len(input)]
    /\ pco \in 0 .. OwnSize /\ cco \in 0 .. pco
    /\ pcb \in 0 .. BufMax /\ ccb \in 0 .. BufMax
    /\ last \in 0 .. Len(input)
    /\ err \in BOOLEAN /\ carry \in BOOLEAN
    /\ pc \in {"idle", "fetch", "cycle", "release", "drain", "done", "panic"}
    /\ max \in Nat /\ count \in 0 .. max
    /\ i \in 0 .. BufMax /\ n \in 0 .. BufMax
    /\ delivered \in Seq(0 .. Len(input))
    /\ dropped \subseteq 1 .. Len(input)

(* Writes of cycle into the six byte array stay inside it: every state     *)
(* that holds one more byte has room for it (own[q.pco] = b).              *)
OwnFits ==
    pc = "cycle" /\ i < n =>
        /\ state \in {"Start", "0D", "0A", "10XXXXXX"} => pco < OwnSize
        /\ state = "0A" => pos > 0 /\ pos < pco

(* Read never stores behind the caller's slice, unless the slice is empty  *)
(* and there is an error to return with held bytes (the drain in Read does *)
(* not look at len(p)).                                                    *)
NoOverrun == pc = "panic" => max = 0 /\ err

(* The rest of buf is always empty when Read is called again: the read     *)
(* sizes keep a slice from filling before the last byte of buf, so the     *)
(* branch of Read that goes on with carried bytes is never taken.          *)
NoCarry == pc = "idle" => pcb = ccb

(* When Read returns, every byte that cycle has looked at is delivered     *)
(* once and in order or still held, but for the ends of line inside a      *)
(* character, whatever the sizes of the caller's slices and of the         *)
(* source's reads.                                                         *)
OnlyStrayRemoved ==
    LET all == Corrected(Text(Seen))
    IN  pc \in {"idle", "done"} =>
            /\ Len(delivered) <= Len(all)
            /\ \A k \in DOMAIN delivered : delivered[k] = Seen[all[k]]

(* Nothing held is lost at the end if the slice of the last call has six   *)
(* bytes or more, whatever the slices before: all of the stream has been   *)
(* delivered when the error is returned, but for the bytes no state        *)
(* handled and for EofTail, the lone lead byte, or the character of up to  *)
(* three bytes, finished or not, with its end of line, that ends it.       *)
CompleteAtError ==
    pc = "done" /\ max >= OwnSize => Len(delivered) = Len(Complete(Text(Seen)))

(* "only proper end of line pattern (\n or \r\n) will be filtered"         *)
(* (qputf8_test.go): no other byte is missing from what is delivered.      *)
OnlyEndOfLineFiltered ==
    pc \in {"idle", "done"} => IsPrefix(delivered, Corrected(input))

(* The tests let an "improper EOF" be filtered, which is a lead byte with  *)
(* at most an end of line behind it (qputf8_test.go:324, 327), and say of  *)
(* a "proper unicode EOF" that it "will be allowed to output" (:333): of   *)
(* the bytes some state handles nothing else is missing at the end.        *)
LoneLead(s, j) ==
    \E t \in 1 .. j :
        s[t] = "lead" /\ SubSeq(s, t + 1, Len(s)) \in {<<>>, <<"cr">>, <<"lf">>, <<"cr", "lf">>}
ProperEndDelivered ==
    pc = "done" /\ max >= OwnSize =>
        Len(delivered) = Len(Only(Corrected(Text(Seen)), { j \in DOMAIN Seen : ~LoneLead(Text(Seen), j) }))

(* A caller that reads until an error gets one, if from some time on its   *)
(* slices have six bytes or more, whatever they were before: no call       *)
(* returns (0, nil) for ever.  (Smaller ones may be no longer than what is *)
(* held; then Read neither reads nor releases anything.)                   *)
ReachesError == <>[](max >= OwnSize) => <>(pc = "done")

(* A byte that no state handles is the first one of a read, and by then    *)
(* all that was held has been delivered: the corrector loses one byte and  *)
(* not a character it had begun to hold, and is back in step after it.     *)
DropsOnlyFirst == [][dropped' # dropped => i = 0 /\ cco = pco /\ dropped' = dropped \union {Byte}]_vars
=============================================================================
