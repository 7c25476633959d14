------------------------------ MODULE MCConfig ------------------------------
EXTENDS Config, TLC

Line(opt, name) == [opt |-> opt, name |-> name, val |-> ""]

\* Sequences of at most n lines.
Texts(lines, n) == UNION {[1 .. k -> lines] : k \in 0 .. n}

\* Files, their inclusions, and the options that files and the command line
\* both have.
CliStructure ==
  Texts({Line("mode", "bare"), Line("jail", "named"), Line("dir", "d"),
         Line("xdir", "d"), Line("storage", "st")}, 1)
    \cup {<<Line("dir", "d"), Line("xdir", "d")>>, <<Line("xdir", "d"), Line("dir", "d")>>,
          <<Line("jail", "named"), Line("mode", "bare")>>,
          <<Line("storage", "st"), Line("jail", "named")>>,
          <<Line("mode", "bare"), Line("mode", "casual")>>}
    \cup {<<Line("-C", "x")>>, <<Line("-u", "")>>, <<Line("-u", ""), Line("dir", "d")>>,
          <<Line("--init", "")>>, <<Line("unknown", "")>>, <<Line("jail", "")>>,
          <<Line("mode", "other")>>, <<Line("dir", "missing")>>}

ConfLines == {Line("mode", "casual"), Line("jail", "named"), Line("dir", "d"),
              Line("storage", "st"), Line("conf", ".defaults"), Line("conf", "x")}
XTexts == {<<>>, <<Line("jail", "default")>>, <<Line("conf", ".defaults")>>,
           <<Line("conf", "default.conf")>>}

FilesStructure ==
  {[f \in {"default.conf", ".defaults", "x"} |->
      IF f = "x" THEN x ELSE IF f = "default.conf" THEN text ELSE <<>>]
     : x \in XTexts, text \in Texts(ConfLines, 2)}
  \cup {[f \in {"x"} |-> <<Line("conf", "none")>>], [f \in {"prog.conf"} |-> <<>>]}

JailStructure == {<<Line("mode", "strict"), Line("storage", "st2")>>,
                  <<Line("conf", "x"), Line("xdir", "d")>>, <<Line("-u", "")>>}

\* The environment: two variables and a pattern for both.
CliEnv ==
  {<<Line("mask", "m")>>, <<Line("unmask", "m")>>, <<Line("mask", "m"), Line("unmask", "m")>>,
   <<Line("nocwd", "")>>} \cup
  Texts({Line("unsetenv", "A*"), Line("unsetenv", "A1"), Line("setenv", "A1"),
         [opt |-> "assign", name |-> "A1", val |-> "new"]}, 2)
FilesEnv ==
  {[f \in {"default.conf"} |-> text] : text \in
     Texts({Line("unsetenv", "A*"), Line("setenv", "A1"), Line("mask", "m"),
            Line("unmask", "m"), Line("nocwd", ""), Line("command", "c"),
            [opt |-> "assign", name |-> "A1", val |-> "new"],
            [opt |-> "assignref", name |-> "A2", val |-> "A1"]}, 2)}
JailEnv == {<<Line("unsetenv", "A1")>>, <<Line("setenv", "A1")>>,
            <<Line("mask", "/abs")>>, <<Line("unsetenv", "A B"), Line("setenv", "A B")>>,
            <<Line("setenv", "A B")>>}

EnvMatches == {<<"A*", "A1">>, <<"A*", "A2">>}

StructureSuite == [cli |-> CliStructure, cmd |-> {<<>>, <<"prog">>},
                   files |-> FilesStructure, jail |-> JailStructure]
EnvSuite == [cli |-> CliEnv, cmd |-> {<<>>}, files |-> FilesEnv, jail |-> JailEnv]

BothSuites == {StructureSuite, EnvSuite}
OnlyEnv == {EnvSuite}
=============================================================================
