------------------------------- MODULE MCShell -------------------------------
EXTENDS Shell

MCProgram == <<"p", "q">>

\* "t" is a text file, "n" names nothing.
MCLine ==
    { <<>>, <<"p">>, <<"p", "t", "n">>, <<"p", "&", "q">>,
      <<"q", "t", "&", "p", "n">>, <<"t", "&", "p">>, <<"p", "&">>, <<"&", "q">>,
      <<"p", "&", "q", "&">> }
=============================================================================
