-------------------------- MODULE MCProfiledKernel --------------------------
(* Sources of one to four functions for ProfiledKernel: alone, in a row,   *)
(* nested, in a scope, after an item that could be mistaken for theirs.    *)
EXTENDS ProfiledKernel

Plain(name) == Fn(name, "", FALSE, FALSE, FALSE, <<<<>>>>)

\* every form of one function
Forms ==
    {Fn("f", m, c, g, a, b) : m \in {"", "not_profiled", "naked"}, c \in BOOLEAN,
                              g \in BOOLEAN, a \in BOOLEAN,
                              b \in {<<>>, <<<<>>>>, <<<<Plain("g")>>>>}}

\* two functions are hooked, one of them a method
Running == <<Static("const"), Scope("impl", <<Plain("f")>>), Plain("f")>>

SmallSources ==
    {Running}
    \cup {<<f>> : f \in Forms}
    \cup {<<f, Plain("h")>> : f \in Forms}
    \cup {<<Static(s), Scope(k, <<f>>)>> : f \in Forms, s \in {"const", "use"},
                                           k \in {"impl", "trait", "mod"}}
    \cup {<<Scope("mod", <<Scope("impl", <<Plain("f"), f>>), Plain("h")>>)>> : f \in Forms}

SmallKernels == {Running}
==============================================================================
