---------------------------- MODULE ProfileMacro ----------------------------
(***************************************************************************)
(* What profile-macro does to a module's source: transform_scope and the   *)
(* scans it makes over token trees (profile-macro/src/lib.rs).             *)
(*                                                                         *)
(* A token is a record [kind, text, body]; a group holds its tokens in     *)
(* body and its opening delimiter in text.  Wording that no scan looks at  *)
(* is left out, and so are the parts of profiled_module that only move     *)
(* files and make relative paths absolute.                                 *)
(*                                                                         *)
(* Items describe the same source by its grammar.  Rendered gives their    *)
(* tokens with or without profiling hooks: the reference the scans are     *)
(* compared with.                                                          *)
(***************************************************************************)
EXTENDS Integers, Sequences
LOCAL INSTANCE SequencesExt
LOCAL INSTANCE FiniteSetsExt

Ident(name) == [kind |-> "ident", text |-> name, body |-> <<>>]
Punct(char) == [kind |-> "punct", text |-> char, body |-> <<>>]
Group(delimiter, tokens) == [kind |-> "group", text |-> delimiter, body |-> tokens]

IsIdent(token, name) == token.kind = "ident" /\ token.text = name
IsGroup(token, delimiter) == token.kind = "group" /\ token.text = delimiter

\* the call of profiling::enter, named after the context and the function
Hook(context, name) ==
    [kind |-> "hook", text |-> "enter", body |-> Append(context, Ident(name))]

------------------------------------------------------------------------------
(* Scans over the tokens of one scope.                                     *)

\* the tokens of the item before index: since the last semicolon or brace
ItemBefore(tokens, index) ==
    LET ends == {p \in 1 .. index - 1 : tokens[p] = Punct(";") \/ IsGroup(tokens[p], "{")}
    IN  SubSeq(tokens, Max(ends \cup {0}) + 1, index - 1)

\* function_name gives a name here
IsFunction(tokens, index) ==
    /\ IsIdent(tokens[index], "fn")
    /\ index < Len(tokens) /\ tokens[index + 1].kind = "ident"

\* the text of an attribute contains the marker, at any depth
RECURSIVE Mentions(_, _)
Mentions(token, marker) ==
    token.text = marker \/ \E t \in Range(token.body) : Mentions(t, marker)

HasMarkerBefore(tokens, index, marker) ==
    \E t \in Range(ItemBefore(tokens, index)) : IsGroup(t, "[") /\ Mentions(t, marker)

IsConstFunction(tokens, index) ==
    \E t \in Range(ItemBefore(tokens, index)) : IsIdent(t, "const")

\* mutant: the first brace after the name is taken for the body
FirstBrace(tokens, index) ==
    LET braces == {p \in index + 2 .. Len(tokens) : IsGroup(tokens[p], "{")}
    IN  {p \in braces : /\ \A q \in braces : p <= q
                        /\ \A q \in index + 2 .. p : tokens[q] # Punct(";")}

\* function_body_index, as a set of at most one index: the first brace outside
\* angle brackets, where the arrow does not close one, and before a semicolon
FunctionBodyIndex(tokens, index) ==
    LET depth[p \in index + 2 .. Len(tokens) + 1] ==
            IF p = index + 2 THEN 0
            ELSE IF tokens[p - 1] = Punct("<") THEN depth[p - 1] + 1
            ELSE IF tokens[p - 1] = Punct(">") /\ tokens[p - 2] # Punct("-") /\ depth[p - 1] > 0
            THEN depth[p - 1] - 1
            ELSE depth[p - 1]
        bodies == {p \in index + 2 .. Len(tokens) : IsGroup(tokens[p], "{") /\ depth[p] = 0}
    IN  {p \in bodies : /\ \A q \in bodies : p <= q
                        /\ \A q \in index + 2 .. p : tokens[q] # Punct(";")}

\* scope_context: the impl or trait header before a brace, <<>> for none
ScopeContext(tokens, index) ==
    LET window == ItemBefore(tokens, index)
        heads == {p \in 1 .. Len(window) : IsIdent(window[p], "impl") \/ IsIdent(window[p], "trait")}
    IN  IF heads = {} \/ \E t \in Range(window) : IsIdent(t, "fn") THEN <<>>
        ELSE SubSeq(window, Min(heads), Len(window))

\* transform_scope: braces are transformed inside, parentheses are not; then
\* the bodies of the functions found here get their hook
RECURSIVE TransformScope(_, _)
TransformScope(tokens, context) ==
    LET inner(index) ==
            LET header == ScopeContext(tokens, index)
            IN  TransformScope(tokens[index].body, IF header = <<>> THEN context ELSE header)
        hooked == {i \in 1 .. Len(tokens) :
                      /\ IsFunction(tokens, i)
                      /\ ~ HasMarkerBefore(tokens, i, "not_profiled")
                      /\ ~ HasMarkerBefore(tokens, i, "naked")
                      /\ ~ IsConstFunction(tokens, i)}
        hooks(index) == {Hook(context, tokens[i + 1].text) :
                            i \in {j \in hooked : index \in FunctionBodyIndex(tokens, j)}}
    IN  [index \in 1 .. Len(tokens) |->
            IF IsGroup(tokens[index], "{")
            THEN Group("{", SetToSeq(hooks(index)) \o inner(index))
            ELSE tokens[index]]

------------------------------------------------------------------------------
(* The reference: items and their tokens.                                  *)

\* A function: marker is "" or what its attribute mentions; generic and arrow
\* give it const arguments in braces; body is <<>> for a declaration, else
\* <<items>>.
Fn(name, marker, const, generic, arrow, body) ==
    [kind |-> "fn", name |-> name, marker |-> marker, const |-> const,
     generic |-> generic, arrow |-> arrow, body |-> body]

\* impl, trait or mod with the items in its braces
Scope(keyword, items) == [kind |-> "scope", name |-> keyword, body |-> <<items>>]

\* an item without functions that ends in a semicolon
Static(keyword) == [kind |-> "static", name |-> keyword, body |-> <<>>]

ConstArgument == <<Punct("<"), Group("{", <<>>), Punct(">")>>

RECURSIVE Rendered(_, _, _)
Rendered(items, context, hooks) ==
    LET if(condition, tokens) == IF condition THEN tokens ELSE <<>>
        header(item) == <<Ident(item.name), Ident("Type")>>
        profiled(item) == hooks /\ item.marker = "" /\ ~ item.const
        of(item) ==
            CASE item.kind = "fn" ->
                   if(item.marker # "", <<Punct("#"), Group("[", <<Group("(", <<Ident(item.marker)>>)>>)>>)
                   \o if(item.const, <<Ident("const")>>)
                   \o <<Ident("fn"), Ident(item.name)>>
                   \o if(item.generic, ConstArgument)
                   \o <<Group("(", <<>>)>>
                   \o if(item.arrow, <<Punct("-"), Punct(">"), Ident("Type")>> \o ConstArgument)
                   \o IF item.body = <<>> THEN <<Punct(";")>>
                      ELSE <<Group("{", if(profiled(item), <<Hook(context, item.name)>>)
                                        \o Rendered(item.body[1], context, hooks))>>
              [] item.kind = "scope" ->
                   header(item) \o <<Group("{", Rendered(item.body[1],
                       IF item.name = "mod" THEN context ELSE header(item), hooks))>>
              [] item.kind = "static" ->
                   <<Punct("#"), Group("[", <<Ident("naked")>>), Ident(item.name), Ident("N"), Punct(";")>>
    IN  FlattenSeq([i \in 1 .. Len(items) |-> of(items[i])])

==============================================================================
