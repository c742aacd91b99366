--------------------------- MODULE MCKernelStart ---------------------------
(***************************************************************************)
(* A small instance of KernelStart: an address space of thirteen pages,    *)
(* of which a task can use twelve.                                         *)
(***************************************************************************)
EXTENDS KernelStart

Pages(a, b) == [start |-> a, end |-> b]
Loaded(a, b) == [start |-> a, end |-> b, kind |-> "mem"]

\* Regions at the reserved page 0, where the loader stack would go, next to each
\* other, and in the last page of all; areas before and behind them.
MCLayouts ==
    {[regions |-> R, areas |-> A] :
        R \in SUBSET {Loaded(0, 1), Loaded(4, 4), Loaded(5, 5), Loaded(7, 7), Loaded(12, 12)},
        A \in {{}, {Pages(4, 4)}, {Pages(6, 6), Pages(8, 8)}, {Pages(10, 12)}}}
MCReserved == {Pages(11, 11)}
=============================================================================
