------------------------------ MODULE Registry ------------------------------
(***************************************************************************)
(* What the extension registry of type.go promises its callers: one table, *)
(* complete before anyone sees it, that every call looks up or changes at  *)
(* one moment between its start and its end.                               *)
(***************************************************************************)
EXTENDS TypeTable

CONSTANTS Threads, Files

VARIABLES
    table,      \* the table in force
    ready,      \* whether it may be used
    call,       \* what each thread asks
    phase,      \* "idle", "asked", "performed"
    answer,     \* what its last call returned
    files       \* what initMime finds

Init ==
    /\ files \in Files
    /\ table = Loaded(files.entries) /\ ready = FALSE
    /\ call \in [Threads -> Calls]
    /\ phase = [t \in Threads |-> "idle"]
    /\ answer = [t \in Threads |-> Plain("none")]

Ask(t) ==
    /\ phase[t] = "idle"
    /\ phase' = [phase EXCEPT ![t] = "asked"]
    /\ call'[t] \in Calls /\ call' = [call EXCEPT ![t] = call'[t]]
    /\ answer' = [answer EXCEPT ![t] = Plain("none")]
    /\ UNCHANGED <<table, ready, files>>

GetReady == ~ready /\ ready' = TRUE /\ UNCHANGED <<table, call, phase, answer, files>>

Perform(t, a) ==
    /\ phase[t] = "asked"
    /\ phase' = [phase EXCEPT ![t] = "performed"]
    /\ answer' = [answer EXCEPT ![t] = a]
    /\ UNCHANGED <<call, files>>

(* A call that is in order is answered by the table as it is now. *)
LookUpNow(t) ==
    /\ phase[t] = "asked" /\ ready /\ ~Refused(call[t])
    /\ \/ call[t].op = "type" /\ Perform(t, Answer("type", LookUp(table, call[t].ext), {}))
       \/ call[t].op = "exts" /\ Perform(t, Answer("exts", Nothing, table.lists[call[t].type.just]))
    /\ UNCHANGED <<table, ready>>

Add(t) ==
    /\ ready /\ call[t].op = "add" /\ ~Refused(call[t])
    /\ Perform(t, Plain("nil"))
    /\ table' = Put(table, call[t].ext, call[t].type)
    /\ UNCHANGED ready

Refuse(t) == Refused(call[t]) /\ Perform(t, Plain("error")) /\ UNCHANGED <<table, ready>>

(* A types file that cannot be read to its end brings down the call that   *)
(* reads it, and no other.                                                 *)
Panic(t) ==
    /\ files.fails /\ ~ready /\ ready' = TRUE
    /\ Perform(t, Plain("panic"))
    /\ UNCHANGED table

Return(t) ==
    /\ phase[t] = "performed"
    /\ phase' = [phase EXCEPT ![t] = "idle"]
    /\ UNCHANGED <<table, ready, call, answer, files>>

Next ==
    \/ GetReady
    \/ \E t \in Threads : Ask(t) \/ LookUpNow(t) \/ Add(t) \/ Refuse(t) \/ Panic(t) \/ Return(t)

Spec == Init /\ [][Next]_<<table, ready, call, phase, answer, files>>
=============================================================================
