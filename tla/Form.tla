-------------------------------- MODULE Form --------------------------------
(***************************************************************************)
(* multipart/formdata.go: Reader.ReadForm and Form.RemoveAll.  Values are  *)
(* kept in memory up to a limit of their own; files are kept in memory as  *)
(* long as they fit in what is left of maxMemory, and go to temporary      *)
(* files otherwise.                                                        *)
(*                                                                         *)
(* A part is what NextPart and its reader make of it: whether it has a     *)
(* form name and a file name, how many bytes it gives, and whether an      *)
(* error or io.EOF follows them.  Contents are their lengths.              *)
(***************************************************************************)
EXTENDS Integers, Sequences, FiniteSets

CONSTANTS
    Messages,       \* what is read: parts, and how NextPart ends
    MemoryLimits,   \* the arguments of ReadForm
    MaxValueBytes,  \* maxValueBytes at the start, 10 << 20 in the code
    MaxInt          \* the largest int64

PartType == [named : BOOLEAN, file : BOOLEAN, size : Nat, fails : BOOLEAN]

ASSUME MessagesAssumption ==
    \A m \in Messages : m.parts \in Seq(PartType) /\ m.fails \in BOOLEAN
ASSUME LimitsAssumption ==
    /\ MaxInt \in Nat /\ MemoryLimits \subseteq -MaxInt - 1 .. MaxInt
    /\ MaxValueBytes \in 1 .. MaxInt

VARIABLES
    parts, fails,   \* the message
    limit,          \* maxMemory as it was passed
    maxMemory, maxValueBytes,
    i,              \* the part that is being stored, or the one before
    b,              \* how many bytes are in the buffer
    values,         \* form.Value: the lengths
    files,          \* form.File: part, length in memory, or temporary file
    disk,           \* the temporary files: how many bytes each holds, by part
    stuck,          \* the ones that os.Remove cannot remove
    open,           \* the descriptors that a deferred Close will close
    err,            \* the error to be returned
    pc

vars == <<parts, fails, limit, maxMemory, maxValueBytes, i, b, values, files, disk, stuck, open, err, pc>>

Init ==
    /\ \E m \in Messages : parts = m.parts /\ fails = m.fails
    /\ limit \in MemoryLimits /\ maxMemory = limit /\ maxValueBytes = MaxValueBytes
    /\ i = 0 /\ b = 0 /\ values = <<>> /\ files = <<>>
    /\ disk = <<>>
    /\ stuck \in SUBSET DOMAIN parts
    /\ open = {} /\ err = "nil" /\ pc = "next"

-----------------------------------------------------------------------------
part == parts[i]

(* int64 arithmetic *)
Wrap(n) == IF n > MaxInt THEN n - 2 * (MaxInt + 1) ELSE n

CopiedAll(n) == part.size      \* mutant: CopyN's limit is not kept

(* io.CopyN(&b, p, n): how much arrives, and whether with an error other   *)
(* than io.EOF.  The reader is not asked for more than n bytes.            *)
Copied(n)     == IF n <= 0 THEN 0 ELSE IF part.size < n THEN part.size ELSE n
CopyFails(n)  == n > 0 /\ part.size < n /\ part.fails

(* os.Remove of the temporary files ks, as far as the system lets it. *)
Without(ks) == [k \in DOMAIN disk \ (ks \ stuck) |-> disk[k]]

(* A return with an error; the deferred calls follow. *)
Fail(e) == err' = e /\ pc' = "close"

NextPart ==
    /\ pc = "next" /\ i < Len(parts)
    /\ i' = i + 1
    /\ pc' = CASE ~parts[i + 1].named -> "next"
               [] parts[i + 1].named /\ parts[i + 1].file -> "file"
               [] OTHER -> "value"
    /\ UNCHANGED <<parts, fails, limit, maxMemory, maxValueBytes, b, values, files, disk, stuck, open, err>>

NoMoreParts ==
    /\ pc = "next" /\ i = Len(parts)
    /\ IF fails THEN Fail("read") ELSE pc' = "close" /\ UNCHANGED err
    /\ UNCHANGED <<parts, fails, limit, maxMemory, maxValueBytes, i, b, values, files, disk, stuck, open>>

ValueUncounted ==   \* mutant: what the values take is not counted
    /\ pc = "value"
    /\ IF CopyFails(maxValueBytes)
       THEN Fail("read") /\ UNCHANGED <<values, maxValueBytes>>
       ELSE /\ values' = Append(values, Copied(maxValueBytes)) /\ pc' = "next"
            /\ UNCHANGED <<err, maxValueBytes>>
    /\ UNCHANGED <<parts, fails, limit, maxMemory, i, b, files, disk, stuck, open>>

(* A value that ends just where the limit is is refused like a longer one. *)
Value ==
    /\ pc = "value"
    /\ IF CopyFails(maxValueBytes)
       THEN Fail("read") /\ UNCHANGED <<values, maxValueBytes>>
       ELSE /\ maxValueBytes' = maxValueBytes - Copied(maxValueBytes)
            /\ IF maxValueBytes' = 0
               THEN Fail("toolarge") /\ UNCHANGED values
               ELSE values' = Append(values, Copied(maxValueBytes)) /\ pc' = "next" /\ UNCHANGED err
    /\ UNCHANGED <<parts, fails, limit, maxMemory, i, b, files, disk, stuck, open>>

(* A file: one byte more than fits is asked for. *)
File ==
    /\ pc = "file"
    /\ LET n == Copied(Wrap(maxMemory + 1)) IN
       IF CopyFails(Wrap(maxMemory + 1)) THEN Fail("read") /\ UNCHANGED <<b, files, maxMemory>>
       ELSE IF n > maxMemory THEN pc' = "temp" /\ b' = n /\ UNCHANGED <<err, files, maxMemory>>
       ELSE /\ maxMemory' = maxMemory - n
            /\ files' = Append(files, [part |-> i, memory |-> n, temp |-> FALSE])
            /\ pc' = "next" /\ UNCHANGED <<err, b>>
    /\ UNCHANGED <<parts, fails, limit, maxValueBytes, i, values, disk, stuck, open>>

(* ioutil.TempFile, which may fail. *)
TempFile ==
    /\ pc = "temp"
    /\ \/ Fail("temp") /\ UNCHANGED <<disk, open>>
       \/ /\ disk' = [k \in DOMAIN disk \union {i} |-> IF k = i THEN 0 ELSE disk[k]]
          /\ open' = open \union {i} /\ pc' = "copy" /\ UNCHANGED err
    /\ UNCHANGED <<parts, fails, limit, maxMemory, maxValueBytes, i, b, values, files, stuck>>

Unread == part.size - b     \* what the part has still to give

CopyUnread ==       \* mutant: the bytes that have been read already are forgotten
    /\ pc = "copy" /\ ~part.fails
    /\ disk' = [disk EXCEPT ![i] = Unread]
    /\ files' = Append(files, [part |-> i, memory |-> 0, temp |-> TRUE])
    /\ b' = 0 /\ pc' = "next"
    /\ UNCHANGED <<parts, fails, limit, maxMemory, maxValueBytes, i, values, stuck, open, err>>

CopyDone ==
    /\ pc = "copy" /\ ~part.fails
    /\ disk' = [disk EXCEPT ![i] = b + Unread]
    /\ files' = Append(files, [part |-> i, memory |-> 0, temp |-> TRUE])
    /\ b' = 0 /\ pc' = "next"
    /\ UNCHANGED <<parts, fails, limit, maxMemory, maxValueBytes, i, values, stuck, open, err>>

CopyFailsKept ==    \* mutant: the file that could not be written is left to RemoveAll
    /\ pc = "copy" /\ Fail("copy")
    /\ UNCHANGED <<parts, fails, limit, maxMemory, maxValueBytes, i, b, values, files, disk, stuck, open>>

(* The part or the disk fails in io.Copy: the file is no part of the form  *)
(* yet, and is removed here.                                               *)
CopyFailed ==
    /\ pc = "copy" /\ Fail("copy")
    /\ disk' = Without({i})
    /\ UNCHANGED <<parts, fails, limit, maxMemory, maxValueBytes, i, b, values, files, stuck, open>>

(* The deferred calls: the files are closed, the last one first; then, if  *)
(* there is an error, RemoveAll.                                           *)
Close ==
    /\ pc = "close" /\ open # {}
    /\ open' = open \ {CHOOSE k \in open : \A j \in open : j <= k}
    /\ UNCHANGED <<parts, fails, limit, maxMemory, maxValueBytes, i, b, values, files, disk, stuck, err, pc>>

Temps == { files[k].part : k \in { k \in DOMAIN files : files[k].temp } }

(* RemoveAll goes on after an error. *)
Return ==
    /\ pc = "close" /\ open = {}
    /\ pc' = "returned"
    /\ disk' = IF err = "nil" THEN disk ELSE Without(Temps)
    /\ UNCHANGED <<parts, fails, limit, maxMemory, maxValueBytes, i, b, values, files, stuck, open, err>>

(* The caller has done with the form. *)
RemoveAll ==
    /\ pc = "returned" /\ err = "nil"
    /\ pc' = "removed" /\ disk' = Without(Temps)
    /\ UNCHANGED <<parts, fails, limit, maxMemory, maxValueBytes, i, b, values, files, stuck, open, err>>

Next ==
    \/ NextPart \/ NoMoreParts \/ Value \/ File \/ TempFile \/ CopyDone \/ CopyFailed
    \/ Close \/ Return \/ RemoveAll

Spec == Init /\ [][Next]_vars

-----------------------------------------------------------------------------
(* What the first n numbers of s make together, for each n. *)
Sums(s) == LET sum[n \in 0 .. Len(s)] == IF n = 0 THEN 0 ELSE sum[n - 1] + s[n] IN sum

(* The form's files, or its values, among the first n parts, for each n. *)
Picked(ps, file) ==
    LET picked[n \in 0 .. Len(ps)] ==
            IF n = 0 THEN <<>>
            ELSE IF ps[n].named /\ ps[n].file = file THEN Append(picked[n - 1], n)
            ELSE picked[n - 1]
    IN  picked

TypeOK ==
    /\ parts \in Seq(PartType) /\ fails \in BOOLEAN
    /\ limit \in MemoryLimits /\ maxMemory \in Int /\ maxMemory <= limit
    /\ maxValueBytes \in 0 .. MaxValueBytes
    /\ i \in 0 .. Len(parts) /\ b \in Nat
    /\ values \in Seq(Nat) /\ files \in Seq([part : 1 .. i, memory : Nat, temp : BOOLEAN])
    /\ disk \in [DOMAIN disk -> Nat] /\ DOMAIN disk \subseteq 1 .. i
    /\ stuck \subseteq DOMAIN parts /\ open \subseteq 1 .. i
    /\ err \in {"nil", "read", "toolarge", "temp", "copy"}
    /\ pc \in {"next", "value", "file", "temp", "copy", "close", "returned", "removed"}

(* After an error no temporary file is left, neither of the files that     *)
(* were stored nor of the one that was being written, and after RemoveAll  *)
(* none either, but for what the system refuses to remove; while the form  *)
(* is in use its files are there, and no others; no descriptor stays open. *)
NothingLeft ==
    /\ pc \in {"returned", "removed"} => open = {}
    /\ (pc = "returned" /\ err # "nil") \/ pc = "removed" => DOMAIN disk \subseteq stuck
    /\ pc = "returned" /\ err = "nil" => DOMAIN disk = Temps

(* What a caller gets without an error is the message: every named part,   *)
(* in order, with all of its bytes, wherever they are kept.  (Not for the  *)
(* largest maxMemory, which wraps around.)                                 *)
Content(f) == IF f.temp THEN disk[f.part] ELSE f.memory    \* what Open gives
Wanted(file) == Picked(parts, file)[Len(parts)]

FilesExact ==
    pc = "returned" /\ err = "nil" =>
        [k \in DOMAIN files |-> <<files[k].part, Content(files[k])>>]
        = [k \in DOMAIN Wanted(TRUE) |-> <<Wanted(TRUE)[k], parts[Wanted(TRUE)[k]].size>>]
ValuesExact ==
    pc = "returned" /\ err = "nil" =>
        values = [k \in DOMAIN Wanted(FALSE) |-> parts[Wanted(FALSE)[k]].size]
FormExact == ValuesExact /\ (limit < MaxInt => FilesExact)

(* A file goes to disk if and only if it does not fit in what the files    *)
(* before it have left of maxMemory, and all the values together stay      *)
(* below their limit: what is held in memory is bounded.                   *)
Memory    == [k \in DOMAIN files |-> files[k].memory]
Before(k) == Sums(Memory)[k - 1]
BudgetsKept ==
    /\ limit < MaxInt =>
          \A k \in DOMAIN files : files[k].temp <=> parts[files[k].part].size > limit - Before(k)
    /\ Sums(values)[Len(values)] < MaxValueBytes

(* ReadForm's comment: "It stores up to maxMemory bytes of the file parts  *)
(* in memory and the remainder on disk", for every maxMemory.              *)
StoresAll == FilesExact
=============================================================================
