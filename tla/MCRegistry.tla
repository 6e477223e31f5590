------------------------------ MODULE MCRegistry ------------------------------
EXTENDS RegexModule

\* Two libraries that share a constructor's name, one has a second one; and
\* what an earlier program left where the module is built
MCFiles ==
  [p \in {"globs", "web", "missing", "module"} |->
     CASE p = "globs" -> {"match"} [] p = "web" -> {"match", "url"}
       [] p = "missing" -> {} [] p = "module" -> {"url"}]

Calls(path, names, params) == [path : {path}, name : names, params : params]

\* Names that are there, in either library or only the other, and one that is
\* nowhere; parameters that a constructor takes and refuses
MCCalls ==
  Calls("globs", {"match"}, {Null, "p", "["}) \cup Calls("globs", {"url"}, {Null})
  \cup Calls("web", {"match", "url"}, {Null}) \cup Calls("missing", {"match"}, {Null})
  \cup Calls("module", {"match", "quote"}, {Null})
===============================================================================
