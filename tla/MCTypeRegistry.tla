--------------------------- MODULE MCTypeRegistry ---------------------------
(* An instance of TypeRegistry for TLC. *)
EXTENDS TypeRegistry

MCLower   == [e \in Exts |-> IF e = ".A" THEN ".a" ELSE IF e = "A" THEN "a" ELSE e]

Type(j, text, bare, clean) == [just |-> j, text |-> text, charset |-> FALSE, bare |-> bare, clean |-> clean]
App      == Type("app", FALSE, TRUE, TRUE)
Text     == Type("text", TRUE, TRUE, TRUE)
TextWith == Type("text", TRUE, FALSE, TRUE)      \* text/x; a=b
Faulty   == Type("app", FALSE, FALSE, FALSE)

MCMimeTypes == {App, Text, TextWith, Faulty}
MCBuiltin == (".b" :> App)

Ask(op, ext, type) == [op |-> op, ext |-> ext, type |-> type]
MCAsked == { Ask("type", ".A", Nothing), Ask("exts", "", App), Ask("add", ".A", App),
             Ask("add", ".a", TextWith), Ask("add", ".b", Faulty), Ask("add", "a", App) }
MCFiles ==
    { [entries |-> <<[ext |-> ".a", type |-> Text], [ext |-> ".b", type |-> Faulty]>>, fails |-> FALSE],
      [entries |-> <<[ext |-> ".A", type |-> App]>>, fails |-> TRUE] }
=============================================================================
