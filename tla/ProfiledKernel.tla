--------------------------- MODULE ProfiledKernel ---------------------------
(***************************************************************************)
(* A kernel built with profiling: ProfileMacro rewrites a source, and the  *)
(* functions that got a hook call profiling::enter as they run.            *)
(***************************************************************************)
EXTENDS Profiling, ProfileMacro
LOCAL INSTANCE SequencesExt

CONSTANTS
    Sources,  \* sequences of items
    Kernels   \* the ones that are also run

ASSUME KernelAssumption == Kernels \subseteq Sources

VARIABLES
    source,  \* the items of the module
    image    \* the tokens the macro leaves for the compiler

built == <<source, image>>

KernelInit ==
    /\ source \in Sources
    /\ image = TransformScope(Rendered(source, <<>>, FALSE), <<>>)
    /\ Init

\* the functions of the image that call enter, by the name they pass
RECURSIVE Hooks(_)
Hooks(tokens) ==
    UNION {IF t.kind = "hook" THEN {t.body} ELSE Hooks(t.body) : t \in Range(tokens)}

Run ==
    /\ source \in Kernels
    /\ \/ \E name \in Hooks(image) : Enter(name)
       \/ Suspend
       \/ EnterUnrecorded
       \/ Drop
       \/ Dump

NotRun == source \notin Kernels /\ UNCHANGED vars

KernelNext == (Run \/ NotRun) /\ UNCHANGED built

KernelSpec == KernelInit /\ [][KernelNext]_<<vars, built>>

------------------------------------------------------------------------------
(* Properties.                                                             *)

\* The macro changes nothing but what it should: every function with a body
\* that is neither const nor excluded starts with one hook, named after its
\* innermost impl or trait; const arguments in braces, declarations, nested
\* functions and the attributes of neighbouring items do not mislead it.
HooksAreExact == image = Rendered(source, <<>>, TRUE)

==============================================================================
