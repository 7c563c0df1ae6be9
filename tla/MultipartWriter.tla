-------------------------- MODULE MultipartWriter --------------------------
(***************************************************************************)
(* multipart/writer.go: Writer and part.  The writer puts boundary lines   *)
(* and headers between the parts' bodies; an error in a body is kept by    *)
(* its part and comes back from every later CreatePart and Close.          *)
(*                                                                         *)
(* Symbols are those of MultipartReader: a boundary is one symbol, "H" is  *)
(* a header block with its blank line.  Every write to the underlying      *)
(* writer may fail and leave some of its bytes behind.                     *)
(***************************************************************************)
EXTENDS Integers, Sequences, SequencesExt, FiniteSetsExt

CONSTANTS
    Boundaries,     \* what SetBoundary may be given; the valid ones are symbols
    Valid,          \* the ones of legal length and characters
    Random,         \* the boundary NewWriter makes up
    Chunks,         \* what may be written to a part at a time
    MaxCalls,       \* bound: calls that may write
    MaxFailures     \* bound: failures of the underlying writer

ASSUME BoundariesAssumption == Valid \subseteq Boundaries

(* A boundary is a symbol of its own: no header or body contains one.  The *)
(* code leaves it to the caller, or to chance, that this is so.            *)
ASSUME BoundarySymbols == (Valid \union {Random}) \intersect {"cr", "lf", "-", "x", "H"} = {}
ASSUME ChunksAssumption ==
    Chunks \subseteq Seq({"cr", "lf", "-", "x"}) /\ {MaxCalls, MaxFailures} \subseteq Nat

VARIABLES
    out,        \* what the underlying writer has got
    boundary,   \* w.boundary
    parts,      \* the parts given out: closed, and whether we is set
    lastpart,   \* w.lastpart: its index, or 0
    bodies,     \* what has been written to each part
    done,       \* Close has returned nil, and the message is as it should be
    broken,     \* a boundary line could not be written, or the boundary was
                \* changed or a part created after the start or after Close
    result,     \* what the last call returned
    calls, failures

wvars == <<out, boundary, parts, lastpart, bodies, done, broken, result, calls, failures>>

WInit ==
    /\ out = <<>> /\ boundary = Random
    /\ parts = <<>> /\ lastpart = 0 /\ bodies = <<>>
    /\ done = FALSE /\ broken = FALSE /\ result = "nil"
    /\ calls = 0 /\ failures = 0

CRLF == <<"cr", "lf">>

(* The underlying writer takes all of s, or fails with none of it written, *)
(* or with all but its last byte.                                          *)
Takes(s) == out' = out \o s /\ UNCHANGED failures
Fails(s) ==
    /\ failures < MaxFailures /\ failures' = failures + 1
    /\ \E n \in {0, Max({0, Len(s) - 1})} : out' = out \o SubSeq(s, 1, n)

SetBoundary(x) ==
    /\ IF lastpart = 0 /\ x \in Valid
       THEN boundary' = x /\ result' = "nil" /\ done' = FALSE /\ broken' = (broken \/ out # <<>>)
       ELSE result' = "error" /\ UNCHANGED <<boundary, broken, done>>
    /\ UNCHANGED <<out, parts, lastpart, bodies, calls, failures>>

ClosedPartsOpen == parts    \* mutant: the part before stays open

(* part.close, of the last part if there is one *)
ClosedParts == [p \in DOMAIN parts |-> IF p = lastpart THEN [parts[p] EXCEPT !.closed = TRUE] ELSE parts[p]]

NoError  == FALSE       \* mutant: the part's error is not looked at
HasError == lastpart # 0 /\ parts[lastpart].we

NoLead == <<>>          \* mutant: a boundary begins where the body ends
Lead   == IF lastpart = 0 THEN <<>> ELSE CRLF

(* Its error is all that CreatePart and Close return, and they do no more. *)
Refused ==
    /\ parts' = ClosedParts /\ result' = "error"
    /\ UNCHANGED <<out, boundary, lastpart, bodies, done, broken, failures>>

(* The header, h, is a block of its own or a blank line. *)
CreatePart(h) ==
    /\ calls < MaxCalls /\ calls' = calls + 1
    /\ \/ HasError /\ Refused
       \/ /\ ~HasError
          /\ LET s == Lead \o <<"-", "-", boundary>> \o CRLF \o h IN
             \/ /\ Takes(s) /\ result' = "nil"
                /\ parts' = Append(ClosedParts, [closed |-> FALSE, we |-> FALSE])
                /\ lastpart' = Len(parts) + 1 /\ bodies' = Append(bodies, <<>>)
                /\ broken' = (broken \/ (lastpart = 0 /\ out # <<>>))
             \/ /\ Fails(s) /\ result' = "error" /\ parts' = ClosedParts
                /\ broken' = TRUE /\ UNCHANGED <<lastpart, bodies>>
          /\ done' = FALSE
          /\ UNCHANGED boundary

(* part.Write, also to a part that is long finished *)
Write(p, d) ==
    /\ calls < MaxCalls /\ calls' = calls + 1
    /\ \/ /\ parts[p].closed /\ result' = "error"
          /\ UNCHANGED <<out, parts, bodies, failures>>
       \/ /\ ~parts[p].closed /\ Takes(d) /\ result' = "nil"
          /\ bodies' = [bodies EXCEPT ![p] = @ \o d] /\ UNCHANGED parts
       \/ /\ ~parts[p].closed /\ Fails(d) /\ result' = "error"
          /\ parts' = [parts EXCEPT ![p].we = TRUE] /\ UNCHANGED bodies
    /\ UNCHANGED <<boundary, lastpart, done, broken>>

(* The last part is given up before the closing boundary is written. *)
Close ==
    /\ calls < MaxCalls /\ calls' = calls + 1
    /\ \/ HasError /\ Refused
       \/ /\ ~HasError
          /\ parts' = ClosedParts /\ lastpart' = 0
          /\ LET s == CRLF \o <<"-", "-", boundary, "-", "-">> \o CRLF IN
             \/ Takes(s) /\ result' = "nil" /\ done' = ~broken /\ UNCHANGED broken
             \/ Fails(s) /\ result' = "error" /\ done' = FALSE /\ broken' = TRUE
          /\ UNCHANGED <<boundary, bodies>>

WNext ==
    \/ \E x \in Boundaries : SetBoundary(x)
    \/ \E h \in {<<"H">>, CRLF} : CreatePart(h)
    \/ \E p \in DOMAIN parts, d \in Chunks : Write(p, d)
    \/ Close

-----------------------------------------------------------------------------
WTypeOK ==
    /\ out \in Seq({"cr", "lf", "-", "x", "H"} \union Valid \union {Random})
    /\ boundary \in Valid \union {Random}
    /\ parts \in Seq([closed : BOOLEAN, we : BOOLEAN])
    /\ lastpart \in {0, Len(parts)} /\ bodies \in [DOMAIN parts -> Seq({"cr", "lf", "-", "x"})]
    /\ done \in BOOLEAN /\ broken \in BOOLEAN /\ result \in {"nil", "error"}
    /\ calls \in 0 .. MaxCalls /\ failures \in 0 .. MaxFailures
    /\ \A p \in DOMAIN parts : p # lastpart => parts[p].closed

(* CreatePart's comment: after it "any previous part may no longer be      *)
(* written to".  When a write to a part has failed, the next CreatePart or *)
(* Close is the end of it: neither it nor any later call of any method     *)
(* writes anything, so that what has lost bytes is never a whole message.  *)
ErrorIsFinal ==
    [][\A p \in DOMAIN parts : parts'[p].we /\ parts'[p].closed => out' = out /\ ~done']_wvars
=============================================================================
