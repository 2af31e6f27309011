------------------------------ MODULE MCPlugins ------------------------------
(* A small table of plugins.  One file stands in the plugins' directory, two *)
(* share a further directory, and one of these is broken.                    *)
EXTENDS Plugins

MCFiles == {<<"a">>, <<"dir", "b">>, <<"dir", "bad">>}

MCBroken == {<<"dir", "bad">>}

PlainFiles == {<<"a">>, <<"b">>}

=============================================================================
