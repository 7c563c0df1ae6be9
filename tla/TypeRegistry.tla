---------------------------- MODULE TypeRegistry ----------------------------
(***************************************************************************)
(* type.go, type_unix.go: TypeByExtension, ExtensionsByType and            *)
(* AddExtensionType, called from any number of goroutines.  The first call *)
(* fills the three maps under once, partly without the lock; all later     *)
(* accesses hold the read-write lock.  One step is one access to a map, or *)
(* one operation on once or on the lock.                                   *)
(*                                                                         *)
(* sync.RWMutex: Lock keeps out other writers and new readers at once, and *)
(* waits for the readers there are; Unlock lets in the readers that wait.  *)
(***************************************************************************)
EXTENDS TypeTable

CONSTANTS
    Threads,
    Asked,      \* the calls the threads make
    Files,      \* what the mime.types files may hold, and whether reading fails
    MaxCalls    \* bound: calls made in all

ASSUME AskedAssumption == Asked \subseteq Calls
ASSUME FilesAssumption ==
    /\ \A f \in Files : f.fails \in BOOLEAN /\ f.entries \in Seq([ext : Exts, type : MimeTypes])
    /\ MaxCalls \in Nat

VARIABLES
    files,          \* what initMimeUnix finds
    mimeTypes,      \* ext to type
    mimeTypesLower, \* lower-case ext to type
    extensions,     \* just type to the list of lower-case extensions
    once,           \* "new", "running" or "done"
    entry,          \* the entry of the files that is next
    holder,         \* the threads that have called Lock: one at most
    pc,             \* where each thread is
    call,           \* what it was called with
    job,            \* what setExtensionType sets for it
    answer,         \* what its last call returned
    calls           \* how many calls have been made

maps == <<mimeTypes, mimeTypesLower, extensions>>
vars == <<files, maps, once, entry, holder, pc, call, job, answer, calls>>

Job == [ext : Exts, type : MimeTypes]

Init ==
    /\ files \in Files
    /\ mimeTypes = [e \in Exts |-> Nothing]
    /\ mimeTypesLower = [l \in LowerExts |-> Nothing]
    /\ extensions = [j \in JustTypes |-> <<>>]
    /\ once = "new" /\ entry = 1
    /\ holder = {}
    /\ pc = [t \in Threads |-> "idle"]
    /\ call = [t \in Threads |-> CHOOSE c \in Calls : TRUE]
    /\ job = [t \in Threads |-> CHOOSE x \in Job : TRUE]
    /\ answer = [t \in Threads |-> Plain("none")]
    /\ calls = 0

Go(t, from, to) == pc[t] = from /\ pc' = [pc EXCEPT ![t] = to]
Says(t, a)      == answer' = [answer EXCEPT ![t] = a]

-----------------------------------------------------------------------------
(* A call comes in; what can be refused without the tables is. *)
Call(t) ==
    /\ calls < MaxCalls /\ calls' = calls + 1
    /\ \E c \in Asked : call' = [call EXCEPT ![t] = c]
    /\ Go(t, "idle", "enter") /\ Says(t, Plain("none"))
    /\ UNCHANGED <<files, maps, once, entry, holder, job>>

RefusedAtOnce(c) == Refused(c) /\ ~(c.op = "add" /\ c.ext \in Dotted)

Enter(t) ==
    /\ IF RefusedAtOnce(call[t])
       THEN Go(t, "enter", "return") /\ Says(t, Plain("error"))
       ELSE Go(t, "enter", "once") /\ UNCHANGED answer
    /\ UNCHANGED <<files, maps, once, entry, holder, call, job, calls>>

(* once.Do(initMime): the first goes in, the others wait till it is out. *)
OnceFirst(t) ==
    /\ once = "new" /\ once' = "running"
    /\ Go(t, "once", "set")
    /\ UNCHANGED <<files, maps, entry, holder, call, job, answer, calls>>

AfterOnce(t) == IF call[t].op = "add" THEN "parse" ELSE "rlock"
TheJob(t)    == IF call[t].op = "add" THEN [ext |-> call[t].ext, type |-> call[t].type] ELSE job[t]

OnceEarly(t) ==     \* mutant: initMime begun is taken for initMime done
    /\ once # "new"
    /\ Go(t, "once", AfterOnce(t))
    /\ job' = [job EXCEPT ![t] = TheJob(t)]
    /\ UNCHANGED <<files, maps, once, entry, holder, call, answer, calls>>

OnceDone(t) ==
    /\ once = "done"
    /\ Go(t, "once", AfterOnce(t))
    /\ job' = [job EXCEPT ![t] = TheJob(t)]
    /\ UNCHANGED <<files, maps, once, entry, holder, call, answer, calls>>

(* setMimeTypes: without the lock.  invert lists the extensions of a type  *)
(* in whatever order the map gives them.                                   *)
SetMimeTypes(t) ==
    /\ Go(t, "set", "load")
    /\ mimeTypesLower' = BuiltinTable.lower /\ mimeTypes' = BuiltinTypes
    /\ extensions' \in { f \in [JustTypes -> UNION { SetToSeqs(BuiltinLists[j]) : j \in JustTypes }] :
                           \A j \in JustTypes : f[j] \in SetToSeqs(BuiltinLists[j]) }
    /\ UNCHANGED <<files, once, entry, holder, call, job, answer, calls>>

(* loadMimeFile: one entry after the other. *)
LoadEntry(t) ==
    /\ entry <= Len(files.entries) /\ entry' = entry + 1
    /\ Go(t, "load", "parse")
    /\ job' = [job EXCEPT ![t] = files.entries[entry]]
    /\ UNCHANGED <<files, maps, once, holder, call, answer, calls>>

(* A scanner error panics: once is done all the same. *)
LoadEnd(t) ==
    /\ entry > Len(files.entries) /\ once' = "done"
    /\ IF files.fails
       THEN Go(t, "load", "return") /\ Says(t, Plain("panic")) /\ UNCHANGED job
       ELSE /\ Go(t, "load", AfterOnce(t)) /\ job' = [job EXCEPT ![t] = TheJob(t)]
            /\ UNCHANGED answer
    /\ UNCHANGED <<files, maps, entry, holder, call, calls>>

-----------------------------------------------------------------------------
(* setExtensionType, for AddExtensionType and for the files. *)
Parse(t) ==
    /\ IF job[t].type.clean THEN Go(t, "parse", "lock") /\ UNCHANGED answer
       ELSE IF once = "running" THEN Go(t, "parse", "load") /\ UNCHANGED answer
       ELSE Go(t, "parse", "return") /\ Says(t, Plain("error"))
    /\ UNCHANGED <<files, maps, once, entry, holder, call, job, calls>>

LockAlways(t) ==    \* mutant: writers do not exclude each other
    /\ Go(t, "lock", "drain") /\ holder' = holder \union {t}
    /\ UNCHANGED <<files, maps, once, entry, call, job, answer, calls>>

Lock(t) ==
    /\ holder = {} /\ holder' = {t}
    /\ Go(t, "lock", "drain")
    /\ UNCHANGED <<files, maps, once, entry, call, job, answer, calls>>

Reading(t) == pc[t] \in {"read", "readlower"}

(* Lock returns, and mimeTypes[extension] = mimeType.  What the call       *)
(* returns is settled.                                                     *)
SetType(t) ==
    /\ \A s \in Threads : ~Reading(s)
    /\ Go(t, "drain", "lower")
    /\ mimeTypes' = [mimeTypes EXCEPT ![job[t].ext] = Stored(job[t].type)]
    /\ IF once = "running" THEN UNCHANGED answer ELSE Says(t, Plain("nil"))
    /\ UNCHANGED <<files, mimeTypesLower, extensions, once, entry, holder, call, job, calls>>

SetLower(t) ==
    /\ Go(t, "lower", "append")
    /\ mimeTypesLower' = [mimeTypesLower EXCEPT ![Lower[job[t].ext]] = Stored(job[t].type)]
    /\ UNCHANGED <<files, mimeTypes, extensions, once, entry, holder, call, job, answer, calls>>

AppendAlways(list, l) == Append(list, l)    \* mutant: what is listed is not looked at

AppendNew(list, l) == IF Contains(list, l) THEN list ELSE Append(list, l)

AfterSet(t) == IF once = "running" THEN "load" ELSE "return"

(* mutant: the readers that wait are not let in *)
AddExtensionOnly(t) ==
    /\ pc[t] = "append"
    /\ pc' = [pc EXCEPT ![t] = AfterSet(t)]
    /\ extensions' = [extensions EXCEPT ![job[t].type.just] = AppendNew(@, Lower[job[t].ext])]
    /\ holder' = {}
    /\ UNCHANGED <<files, mimeTypes, mimeTypesLower, once, entry, call, job, answer, calls>>

(* The last access, and Unlock. *)
AddExtension(t) ==
    /\ pc[t] = "append"
    /\ pc' = [s \in Threads |-> IF s = t THEN AfterSet(t) ELSE IF pc[s] = "rwait" THEN "read" ELSE pc[s]]
    /\ extensions' = [extensions EXCEPT ![job[t].type.just] = AppendNew(@, Lower[job[t].ext])]
    /\ holder' = {}
    /\ UNCHANGED <<files, mimeTypes, mimeTypesLower, once, entry, call, job, answer, calls>>

-----------------------------------------------------------------------------
(* TypeByExtension and ExtensionsByType. *)
RLockAtOnce(t) ==   \* mutant: a writer does not keep readers out
    /\ Go(t, "rlock", "read")
    /\ UNCHANGED <<files, maps, once, entry, holder, call, job, answer, calls>>

RLock(t) ==
    /\ Go(t, "rlock", IF holder = {} THEN "read" ELSE "rwait")
    /\ UNCHANGED <<files, maps, once, entry, holder, call, job, answer, calls>>

(* The case-sensitive look-up, or the list.  RUnlock goes with the last    *)
(* access.                                                                 *)
Read(t) ==
    /\ IF call[t].op = "exts"
       THEN Go(t, "read", "return") /\ Says(t, Answer("exts", Nothing, ToSet(extensions[call[t].type.just])))
       ELSE IF mimeTypes[call[t].ext] # Nothing
       THEN Go(t, "read", "return") /\ Says(t, Answer("type", mimeTypes[call[t].ext], {}))
       ELSE Go(t, "read", "readlower") /\ UNCHANGED answer
    /\ UNCHANGED <<files, maps, once, entry, holder, call, job, calls>>

ReadLower(t) ==
    /\ Go(t, "readlower", "return")
    /\ Says(t, Answer("type", mimeTypesLower[Lower[call[t].ext]], {}))
    /\ UNCHANGED <<files, maps, once, entry, holder, call, job, calls>>

Return(t) ==
    /\ Go(t, "return", "idle")
    /\ UNCHANGED <<files, maps, once, entry, holder, call, job, answer, calls>>

-----------------------------------------------------------------------------
Step(t) ==
    \/ Enter(t) \/ OnceFirst(t) \/ OnceDone(t) \/ SetMimeTypes(t) \/ LoadEntry(t) \/ LoadEnd(t)
    \/ Parse(t) \/ Lock(t) \/ SetType(t) \/ SetLower(t) \/ AddExtension(t)
    \/ RLock(t) \/ Read(t) \/ ReadLower(t) \/ Return(t)

Finished == calls = MaxCalls /\ (\A t \in Threads : pc[t] = "idle") /\ UNCHANGED vars

Next == (\E t \in Threads : Call(t) \/ Step(t)) \/ Finished

(* The scheduler runs some goroutine as long as there is one that can run. *)
Spec == Init /\ [][Next]_vars /\ WF_vars(\E t \in Threads : Step(t))

-----------------------------------------------------------------------------
TypeOK ==
    /\ files \in Files
    /\ mimeTypes \in [Exts -> Values] /\ mimeTypesLower \in [LowerExts -> Values]
    /\ extensions \in [JustTypes -> Seq(LowerExts)]
    /\ once \in {"new", "running", "done"} /\ entry \in 1 .. Len(files.entries) + 1
    /\ holder \in {{}} \union { {t} : t \in Threads } /\ calls \in 0 .. MaxCalls
    /\ pc \in [Threads -> {"idle", "enter", "once", "set", "load", "parse", "lock", "drain", "lower",
                           "append", "rlock", "rwait", "read", "readlower", "return"}]
    /\ call \in [Threads -> Calls] /\ job \in [Threads -> Job] /\ answer \in [Threads -> Answers]

(* No map is read or written while another goroutine writes one, also      *)
(* while initMime fills them without the lock.                             *)
Writing(t) == pc[t] \in {"set", "lower", "append"}
NoRace == \A s, t \in Threads : s # t /\ Writing(s) => ~Writing(t) /\ ~Reading(t)

(* Whenever the maps may be read, an extension to which the lower-case map *)
(* gives a type is listed under that type, no list names an extension      *)
(* twice, and what the lower-case map holds for an extension, a type or    *)
(* nothing, mimeTypes holds for one of its spellings.                      *)
Current == once = "done" /\ \A t \in Threads : ~Writing(t)
ListsAgree ==
    Current =>
        /\ \A l \in LowerExts : mimeTypesLower[l] # Nothing =>
               Contains(extensions[mimeTypesLower[l].just], l)
        /\ \A j \in JustTypes : IsInjective(extensions[j])
        /\ \A l \in LowerExts : mimeTypesLower[l] \in { mimeTypes[e] : e \in { e \in Exts : Lower[e] = l } }

(* "ExtensionsByType returns the extensions known to be associated with    *)
(* the MIME type typ" (type.go:134): a listed extension has a type.  A     *)
(* text type with parameters and no charset is listed and "" is stored     *)
(* (type.go:172, 178).                                                     *)
ListedIsKnown ==
    Current => \A j \in JustTypes : \A l \in ToSet(extensions[j]) : mimeTypesLower[l] # Nothing

(* Every call takes effect, or is answered, by one table at one moment,    *)
(* and no table is seen that initMime is still filling.  A goroutine that  *)
(* is setting its entries has done so already as far as others can see.    *)
Table == [types |-> mimeTypes, lower |-> mimeTypesLower, lists |-> [j \in JustTypes |-> ToSet(extensions[j])]]
Setting == { t \in Threads : pc[t] \in {"lower", "append"} }
Seen ==
    IF once # "done" THEN Loaded(files.entries)
    ELSE IF Setting = {} THEN Table
    ELSE LET x == job[CHOOSE t \in Setting : TRUE] IN Put(Table, x.ext, x.type)
Phase(t) ==
    IF pc[t] = "idle" THEN "idle"
    ELSE IF pc[t] = "return" \/ (once = "done" /\ t \in Setting) THEN "performed"
    ELSE "asked"

Abstract == INSTANCE Registry
    WITH table <- Seen, ready <- (once = "done"), phase <- [t \in Threads |-> Phase(t)]

Implements == Abstract!Spec

(* Every call returns: no goroutine waits for ever for once or the lock,   *)
(* and when no new calls come all of them are out.                         *)
AllIdle == \A t \in Threads : pc[t] = "idle"
EveryCallReturns == ~AllIdle ~> AllIdle
=============================================================================
