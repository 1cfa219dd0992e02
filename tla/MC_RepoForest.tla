---------------------------- MODULE MC_RepoForest ----------------------------
\* A repository with two remotes, one of them over HTTPS, and two with one.
EXTENDS RepoForest

MCItem == {"app", "lib", "doc"}
MCRemote == {"origin", "mirror"}
MCRemotesOf == [i \in MCItem |-> IF i = "app" THEN <<"origin", "mirror">> ELSE <<"origin">>]
MCHttps == {<<"app", "mirror">>}
MCSelection == {<<"app", "lib">>, <<"lib", "doc">>}
=============================================================================
