------------------------------ MODULE MCGameMode ------------------------------
(* The life of the gamemode under the configurations a host may write.      *)
EXTENDS GameMode

\* The configuration of readme.md.
Readme == <<"gamemode", "updaterate">>

\* "without gamemode support".
NoGamemode == <<"updaterate">>

\* With and without a gamemode, with plugins before and after it, twice, and
\* with a gamemode that cannot be loaded; the empty file is also the absent one.
AllConfigs ==
    {Readme, NoGamemode, <<>>, <<"plugins">>, <<"missing", "plugins">>,
     <<"gamemode", "updaterate", "plugins">>, <<"plugins", "gamemode">>,
     <<"updaterate", "gamemode", "plugins", "plugins">>,
     <<"gamemode", "gamemode", "plugins">>, <<"gamemode", "missing">>}

ReadmeOnly == {Readme}

NoGamemodeOnly == {NoGamemode}

===============================================================================
