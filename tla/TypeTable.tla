----------------------------- MODULE TypeTable -----------------------------
(***************************************************************************)
(* type.go: what the tables of extensions and media types hold, and what a *)
(* look-up or an addition makes of them, as functions of one table.        *)
(*                                                                         *)
(* A media type is kept by what this code asks about it: the type without  *)
(* its parameters, whether it begins with "text/", whether it has a        *)
(* charset, whether there is nothing but the type (no parameter, no        *)
(* space), and whether ParseMediaType finds no fault in it at all.         *)
(***************************************************************************)
EXTENDS Integers, Sequences, SequencesExt, FiniteSets

CONSTANTS
    Exts,       \* extensions; the ones in lower case are among them
    Lower,      \* strings.ToLower
    Dotted,     \* the extensions that begin with a dot
    MimeTypes,  \* the media types callers and files speak of
    Builtin     \* builtinTypesLower

LowerExts == { Lower[e] : e \in Exts }
JustTypes == { m.just : m \in MimeTypes }

ASSUME ExtsAssumption    == Lower \in [Exts -> Exts] /\ \A e \in Exts : Lower[Lower[e]] = Lower[e]
ASSUME DottedAssumption  == Dotted \subseteq Exts
ASSUME TypesAssumption   ==
    MimeTypes \subseteq [just : STRING, text : BOOLEAN, charset : BOOLEAN, bare : BOOLEAN, clean : BOOLEAN]
ASSUME BuiltinAssumption ==
    /\ DOMAIN Builtin # {} /\ IsFiniteSet(DOMAIN Builtin)
    /\ DOMAIN Builtin \subseteq LowerExts
    /\ \A e \in DOMAIN Builtin : Builtin[e] \in MimeTypes /\ Builtin[e].clean

(* The empty string: what a map gives for a key it has not. *)
Nothing == [just |-> "", text |-> FALSE, charset |-> FALSE, bare |-> FALSE, clean |-> FALSE]

(* A text type without a charset gets utf-8; FormatMediaType refuses a     *)
(* type that still has its parameters, and "" is stored.                   *)
Stored(m) ==
    IF ~m.text \/ m.charset THEN m
    ELSE IF m.bare THEN [m EXCEPT !.charset = TRUE, !.bare = FALSE]
    ELSE Nothing

Values == MimeTypes \union { Stored(m) : m \in MimeTypes } \union {Nothing}

(* A table: mimeTypes, mimeTypesLower, and extensions as sets. *)
BuiltinTypes == [e \in Exts |-> IF e \in DOMAIN Builtin THEN Builtin[e] ELSE Nothing]
BuiltinLists == [j \in JustTypes |-> { e \in DOMAIN Builtin : Builtin[e].just = j }]
BuiltinTable ==
    [types |-> BuiltinTypes, lower |-> [l \in LowerExts |-> BuiltinTypes[l]], lists |-> BuiltinLists]

Put(table, e, m) ==
    [types |-> [table.types EXCEPT ![e] = Stored(m)],
     lower |-> [table.lower EXCEPT ![Lower[e]] = Stored(m)],
     lists |-> [table.lists EXCEPT ![m.just] = @ \union {Lower[e]}]]

(* The tables that come to be when one entry after the other is read: the  *)
(* faulty ones are passed over.  Loaded is in force after the last.        *)
WithEntry(table, x) == IF x.type.clean THEN Put(table, x.ext, x.type) ELSE table

TablesOf(entries) ==
    LET table[n \in 0 .. Len(entries)] ==
            IF n = 0 THEN BuiltinTable ELSE WithEntry(table[n - 1], entries[n])
    IN  table

Loaded(entries) == TablesOf(entries)[Len(entries)]

LookUp(table, e) == IF table.types[e] # Nothing THEN table.types[e] ELSE table.lower[Lower[e]]

(* Calls and what they return. *)
Calls ==
    { [op |-> "type", ext |-> e, type |-> Nothing] : e \in Exts }
    \union [op : {"exts"}, ext : {""}, type : MimeTypes]
    \union [op : {"add"}, ext : Exts, type : MimeTypes]

(* An addition without a dot, or a type with any fault, even one that      *)
(* IsOkPMTError would let through, is refused.                             *)
Refused(c) ==
    \/ c.op \in {"exts", "add"} /\ ~c.type.clean
    \/ c.op = "add" /\ c.ext \notin Dotted

Answer(kind, type, exts) == [kind |-> kind, type |-> type, exts |-> exts]
Plain(kind) == Answer(kind, Nothing, {})
Answers == [kind : {"none", "nil", "error", "panic", "type", "exts"}, type : Values, exts : SUBSET LowerExts]
=============================================================================
