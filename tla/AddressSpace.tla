---------------------------- MODULE AddressSpace ----------------------------
(***************************************************************************)
(* What paging.rs promises its callers, without tables: an address space   *)
(* is a set of pages, each with the frame it stands for and its rights.    *)
(* A call adds one run of pages, mapped to a run of frames with the same   *)
(* rights (perhaps only the front of the run it was asked for, when it     *)
(* fails), or removes one page.  No call changes a page that is mapped     *)
(* before and after it.                                                    *)
(***************************************************************************)
EXTENDS Integers

VARIABLE mapping   \* page -> [frame, rights]

Init == mapping = <<>>

Kept(before, after) ==
    \A p \in DOMAIN before \cap DOMAIN after : after[p] = before[p]

Map(before, after) ==
    LET added == DOMAIN after \ DOMAIN before
    IN  /\ DOMAIN before \subseteq DOMAIN after
        /\ \A p, q \in added :
              /\ p .. q \subseteq added
              /\ after[p].frame - p = after[q].frame - q
              /\ after[p].rights = after[q].rights
        /\ Kept(before, after)

Unmap(before, after) ==
    /\ \E p \in DOMAIN before : DOMAIN after = DOMAIN before \ {p}
    /\ Kept(before, after)

\* the two address spaces of a step, bound once
Next ==
    \E before \in {mapping}, after \in {mapping'} :
        Map(before, after) \/ Unmap(before, after)

Spec == Init /\ [][Next]_mapping

==============================================================================
