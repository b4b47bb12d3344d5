-------------------------- MODULE MCHeapAllocator --------------------------
(* Layouts for HeapAllocator, with a header of four bytes aligned to two.  *)
EXTENDS HeapAllocator

\* what String and Vec<u8> ask for: any size
ByteLayouts ==
    [size : {1, 5, 6, 9}, align : {1}] \cup [size : {6}, align : {8}]

\* sizes that end up as multiples of the header's
WholeLayouts ==
    [size : {1, 4}, align : {1, 2, 4}] \cup [size : {8, 12}, align : {4}]

SmallWorkloads == {ByteLayouts, WholeLayouts}
==============================================================================
