-------------------------- MODULE MCFrameAllocator --------------------------
(* Small memories for FrameAllocator.                                      *)
EXTENDS FrameAllocator

Run(s, n) == [start |-> s, frames |-> n]

\* descriptors in address order (apart, touching, a single one, a full
\* table), then the same memory as a firmware may list it in another order
SmallLists ==
    { <<Run(1, 2), Run(4, 3)>>, <<Run(1, 2), Run(3, 3)>>, <<Run(0, 7)>>,
      <<Run(0, 1), Run(2, 1), Run(4, 2)>>,
      <<Run(4, 3), Run(1, 2)>>, <<Run(3, 3), Run(1, 2)>>,
      <<Run(4, 2), Run(0, 1), Run(2, 1)>> }

==============================================================================
