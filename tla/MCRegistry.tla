------------------------------ MODULE MCRegistry ------------------------------
(* Lines of every command that reads a field, with too few fields, another  *)
(* spelling, another type of the same file and a blank too many.            *)
EXTENDS Registry

S == " "

MCLines ==
    {<<"preload", S, "sound", S, "a">>, <<"preload", S, "model", S, "a">>,
     <<"PRELOAD", S, "Sound", S, "b", S, "a">>, <<"preload", S, "thing", S, "b">>,
     <<"preload", S, "sound">>, <<"preload">>, <<"preload", S, S, "a">>,
     <<"playsound", S, "b">>, <<"playsound">>,
     <<"emitambientsound", S, "a", S, "b">>,
     <<"loadplugin">>, <<"unloadplugin">>, <<"host_timescale">>,
     <<"help">>, <<"cmd", S, "a">>, <<"CMD">>, <<S, "cmd">>}

MCLower == [w \in {"PRELOAD", "Sound", "CMD"} |->
               CASE w = "PRELOAD" -> "preload" [] w = "Sound" -> "sound" [] OTHER -> "cmd"]

MCCommands == {<<"cmd">>, <<"CMD">>, <<"preload">>}

MCItems == {[type |-> "model", name |-> <<"b">>]}

\* Functions are called alike.
MCSymmetry == Permutations(Functions)

\* Every text of at most five characters, and plain ones with more words than
\* are kept.
MCTexts ==
    UNION {[1 .. n -> {"a", Space, NewLine, Quote, Slash}] : n \in 0 .. 5}
      \cup {<<"a", S, "b", S, "c", S, "d">>, <<"a", S, "b", "c", S, "d">>}

\* Texts are taken apart while nothing is registered: the tokens depend on
\* nothing else, and nothing depends on them.
TextsAlone ==
    text # <<>> \/ parsed =>
        /\ precacheinf = <<>> /\ known = {} /\ addedcommands = <<>>
        /\ Len(cells) = 1 /\ maps = 0
=============================================================================
