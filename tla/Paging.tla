------------------------------- MODULE Paging -------------------------------
(***************************************************************************)
(* The page tables of paging.rs.  Addresses are in pages.  The storage of  *)
(* the kernel image is a sequence of tables, the root first and then the   *)
(* tables the arena has handed out; a table maps the indices in use to     *)
(* entries.  An entry of levels 4 to 2 names a table by its place in the   *)
(* storage, an entry of level 1 a frame.                                   *)
(*                                                                         *)
(* map_to and unmap are the mappers' of the x86_64 crate, modelled from    *)
(* what paging.rs relies on.  The recursive and the offset mapper reach    *)
(* the same tables by different addresses, so one definition serves both.  *)
(***************************************************************************)
EXTENDS Integers, Sequences

CONSTANTS
    TABLE_ENTRIES,          \* 512
    MAX_PAGE_TABLE_FRAMES,  \* tables in the arena, besides the root
    RECURSIVE_INDEX,        \* the root's entry for itself
    ADDRESS_PAGES           \* pages of the 64-bit address space

\* pages the four levels can tell apart, and their two canonical halves
TREE_PAGES == TABLE_ENTRIES * TABLE_ENTRIES * TABLE_ENTRIES * TABLE_ENTRIES

ASSUME PagingAssumption ==
    /\ TABLE_ENTRIES \in Nat \ {0, 1}
    /\ MAX_PAGE_TABLE_FRAMES \in Nat
    /\ RECURSIVE_INDEX \in 0 .. TABLE_ENTRIES - 1
    /\ ADDRESS_PAGES \in Nat \ {0} /\ ADDRESS_PAGES % TREE_PAGES = 0

IsCanonical(page) ==
    \/ page < TREE_PAGES \div 2
    \/ page >= ADDRESS_PAGES - TREE_PAGES \div 2

\* VirtualRange::new for whole pages; a page number is aligned by its unit
VirtualRangeError(start, length) ==
    IF length = 0 THEN "Empty"
    ELSE IF start + length > ADDRESS_PAGES THEN "Overflow"
    ELSE IF ~ IsCanonical(start) \/ ~ IsCanonical(start + length - 1)
    THEN "NonCanonical"
    ELSE "None"

NewTable == <<>>      \* PageTable::new(): no index in use
Root == 1             \* the root's place in the storage
NewRoot == <<NewTable>>

\* pages below one entry of a table
Span(level) ==
    CASE level = 1 -> 1
      [] level = 2 -> TABLE_ENTRIES
      [] level = 3 -> TABLE_ENTRIES * TABLE_ENTRIES
      [] level = 4 -> TABLE_ENTRIES * TABLE_ENTRIES * TABLE_ENTRIES
Index(page, level) == (page \div Span(level)) % TABLE_ENTRIES

Uses(table, i) == i \in DOMAIN table
Set(table, i, to, flags) ==
    [j \in DOMAIN table \cup {i} |->
        IF j = i THEN [to |-> to, flags |-> flags] ELSE table[j]]

\* rights a page has only if every table above it has them too
TableRights == {"PRESENT", "WRITABLE", "USER_ACCESSIBLE"}

\* flags a mapper gives to, or adds to, the tables above a page
TableFlags(flags) == flags \cap TableRights

------------------------------------------------------------------------------
(* map_to: a walk is the storage, the table reached and the error met.     *)

\* mutant: a table that exists already keeps the flags it was created with
NextTableFlagsKept(walk, i, flags) ==
    LET table == walk.tables[walk.at]
    IN  IF walk.error # "None" THEN walk
        ELSE IF Uses(table, i) THEN [walk EXCEPT !.at = table[i].to]
        ELSE IF Len(walk.tables) = MAX_PAGE_TABLE_FRAMES + 1
        THEN [walk EXCEPT !.error = "NoPageTable"]
        ELSE LET new == Len(walk.tables) + 1
             IN  [walk EXCEPT
                     !.tables = Append([@ EXCEPT ![walk.at] =
                                    Set(table, i, new, TableFlags(flags))], NewTable),
                     !.at = new]

\* one level down, through an existing table or through the next one of the
\* arena (reserve_frame), which stays in place if a later level fails
NextTable(walk, i, flags) ==
    LET table == walk.tables[walk.at]
    IN  IF walk.error # "None" THEN walk
        ELSE IF Uses(table, i)
        THEN [walk EXCEPT
                 !.tables[walk.at][i].flags = @ \cup TableFlags(flags),
                 !.at = table[i].to]
        ELSE IF Len(walk.tables) = MAX_PAGE_TABLE_FRAMES + 1
        THEN [walk EXCEPT !.error = "NoPageTable"]
        ELSE LET new == Len(walk.tables) + 1
             IN  [walk EXCEPT
                     !.tables = Append([@ EXCEPT ![walk.at] =
                                    Set(table, i, new, TableFlags(flags))], NewTable),
                     !.at = new]

\* the entry of level 1, unless it is in use
SetPage(walk, i, frame, flags) ==
    IF walk.error # "None" THEN walk
    ELSE IF Uses(walk.tables[walk.at], i)
    THEN [walk EXCEPT !.error = "AlreadyMapped"]
    ELSE [walk EXCEPT !.tables[walk.at] = Set(@, i, frame, flags)]

\* map_page (map_on_mapper): nothing is touched unless the page is canonical
MapPage(tables, page, frame, flags) ==
    LET start == [tables |-> tables, at |-> Root,
                  error |-> VirtualRangeError(page, 1)]
        level3 == NextTable(start, Index(page, 4), flags)
        level2 == NextTable(level3, Index(page, 3), flags)
        level1 == NextTable(level2, Index(page, 2), flags)
    IN  SetPage(level1, Index(page, 1), frame, flags)

\* map_range: identity-maps a run page by page and stops at the first error,
\* with the pages before it mapped
MapRange(tables, run, flags) ==
    LET After[n \in 0 .. run.frames] ==
            IF n = 0 THEN [tables |-> tables, at |-> Root, error |-> "None"]
            ELSE LET walk == After[n - 1]
                     page == run.start + n - 1
                 IN  IF walk.error # "None" THEN walk
                     ELSE MapPage(walk.tables, page, page, flags)
    IN  After[run.frames]

------------------------------------------------------------------------------
(* What the hardware makes of the tables.                                  *)

\* the entries met on the way from the root to a page, as far as they go
Path(tables, page) ==
    LET level4 == tables[Root]
        down(table, level) == tables[table[Index(page, level)].to]
    IN  IF ~ Uses(level4, Index(page, 4)) THEN <<>>
        ELSE LET level3 == down(level4, 4)
             IN  IF ~ Uses(level3, Index(page, 3)) THEN <<>>
        ELSE LET level2 == down(level3, 3)
             IN  IF ~ Uses(level2, Index(page, 2)) THEN <<>>
        ELSE LET level1 == down(level2, 2)
             IN  IF ~ Uses(level1, Index(page, 1)) THEN <<>>
        ELSE <<level4[Index(page, 4)], level3[Index(page, 3)],
               level2[Index(page, 2)], level1[Index(page, 1)]>>

\* the pages below each entry of the root
PagesBelow ==
    [i \in 0 .. TABLE_ENTRIES - 1 |->
        {p \in 0 .. ADDRESS_PAGES - 1 : IsCanonical(p) /\ Index(p, 4) = i}]
InRecursiveWindow(page) == Index(page, 4) = RECURSIVE_INDEX

IsMapped(tables, page) == Path(tables, page) # <<>>
LeafFlags(tables, page) == Path(tables, page)[4].flags

\* the pages mapped outside the root's entry for itself
MappedPages(tables) ==
    {p \in UNION {PagesBelow[i] : i \in DOMAIN tables[Root] \ {RECURSIVE_INDEX}} :
        IsMapped(tables, p)}

\* a page is present, writable and the user's if every level says so
Translation(tables, page) ==
    LET path == Path(tables, page)
        every == path[1].flags \cap path[2].flags \cap path[3].flags
    IN  [frame |-> path[4].to,
         rights |-> {r \in path[4].flags :
                        r \in TableRights => r \in every}]

\* mutant: unmapping a page drops the table it is in
UnmapTable(tables, page) ==
    LET path == Path(tables, page)
    IN  [tables EXCEPT ![path[3].to] = NewTable]

\* unmap_page clears the entry; no table goes back to the arena
UnmapPage(tables, page) ==
    LET table == Path(tables, page)[3].to
    IN  [tables EXCEPT ![table] =
            [i \in DOMAIN @ \ {Index(page, 1)} |-> @[i]]]

\* the root's entry for itself, by which the active mapper reaches the tables
WithRecursiveEntry(tables) ==
    [tables EXCEPT ![Root] =
        Set(@, RECURSIVE_INDEX, Root, {"PRESENT", "WRITABLE"})]

==============================================================================
