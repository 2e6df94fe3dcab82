----------------------------- MODULE MCSections -----------------------------
(* Every test program of up to N statements, for Sections. *)
EXTENDS Sections

CONSTANT N
ASSUME N \in Nat

MCNodes == 1..N
NoFilter == [new |-> FALSE, path |-> <<>>]
Only(new, path) == [new |-> new, path |-> path]
IntoSection(n) == [for |-> "section", what |-> n]
Element(i) == [for |-> "generator", what |-> i]

MCNoFilters == {NoFilter}
MCFilters ==
  {NoFilter,
   Only(FALSE, <<IntoSection(1)>>), Only(FALSE, <<IntoSection(2), IntoSection(4)>>),
   Only(TRUE, <<IntoSection(1), IntoSection(3)>>), Only(TRUE, <<IntoSection(2), Element(1)>>),
   Only(TRUE, <<Element(AnyElement), IntoSection(3)>>), Only(TRUE, <<Element(1)>>),
   Only(TRUE, <<Element(Values)>>)}
=============================================================================
