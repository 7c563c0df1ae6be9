------------------------- MODULE MultipartRoundTrip -------------------------
(***************************************************************************)
(* What multipart.Writer has written, read by multipart.Reader: the writer *)
(* makes calls of any kind, until Close has returned nil; then the reader, *)
(* made with the Boundary() of the writer, goes through the message.       *)
(***************************************************************************)
EXTENDS MultipartWriter

CONSTANTS PeekSize, Sizes

VARIABLES
    reading,    \* whether the message has been handed to the reader
    ending, at, buffered, nl, partsRead, part, pc, expect, ret, start, delivered, ended, checked

rvars == <<ending, at, buffered, nl, partsRead, part, pc, expect, ret, start, delivered, ended, checked>>

(* The reader's own boundary is the symbol "b"; another one is text to it. *)
Message ==
    [j \in DOMAIN out |->
        IF out[j] = boundary THEN "b" ELSE IF out[j] \in Valid \union {Random} THEN "x" ELSE out[j]]

R == INSTANCE MultipartReader
         WITH stream <- Message, Streams <- {<<>>}, Endings <- {"eof"}

(* The peek buffer is as large as the reader needs it. *)
ASSUME ReaderAssumption == PeekSize \in Nat /\ PeekSize >= 2 + Len(R!Dash) + 2 /\ Sizes \subseteq Nat \ {0}

Init == WInit /\ reading = FALSE /\ R!Init

Writing == ~reading /\ WNext /\ UNCHANGED <<reading, rvars>>

(* The message is complete when Close has returned nil. *)
HandOver ==
    /\ ~reading /\ done /\ reading' = TRUE
    /\ UNCHANGED <<wvars, rvars>>

Reading ==
    /\ reading /\ UNCHANGED <<wvars, reading>>
    /\ (\E k \in Sizes : R!Read(k)) \/ R!NextPart \/ R!Proceed

Finished == (pc = "eof" \/ (~reading /\ ~done /\ calls = MaxCalls)) /\ UNCHANGED <<wvars, rvars, reading>>

Next == Writing \/ HandOver \/ Reading \/ Finished

Spec == Init /\ [][Next]_<<wvars, rvars, reading>>

-----------------------------------------------------------------------------
(* The reader finds the parts that were created, in order and each with a  *)
(* header, gives of each the bytes that were written to it and no others,  *)
(* all of them before its io.EOF, and meets the end behind the last one    *)
(* and nowhere else.                                                       *)
RoundTrip ==
    /\ ret \notin {"error", "malformed", "headererror", "panic"}
    /\ partsRead <= Len(parts)
    /\ pc = "idle" /\ part.open =>
           /\ IsPrefix([j \in DOMAIN delivered |-> Message[delivered[j]]], bodies[partsRead])
           /\ ended => Len(delivered) = Len(bodies[partsRead])
    /\ pc = "eof" => partsRead = Len(parts)
=============================================================================
