---- MODULE MCFigpar ----
\* Every very short file, the longer ones with a last line that is ended, and of
\* the longest those that begin with a name, under each way of reading them.
EXTENDS FigparLexer

ShortOrEnded(f) ==
  /\ Len(f) > 3 => Last(f) = "\n"
  /\ Len(f) > 5 => f[1] = "a" /\ f[2] \in {" ", "="}
Letters == {"a", " ", "\n", "#", "=", "\"", "\\", ";"}
AnyFlags == {{}, {"="}, {"=", ";"}, {"=", "strict"}, {"=", "require"}}
AnyTable == {<<<<>>, FALSE>>, <<<<>>, TRUE>>, <<<<<<"a">>, Anyone>>, TRUE>>}
====
