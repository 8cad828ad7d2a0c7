------------------------------- MODULE MCBoot -------------------------------
(* Boot with pages of four bytes and memory of up to ten pages. *)
EXTENDS Boot

Region(addr, len, type) == [addr |-> addr, len |-> len, type |-> type]

\* A hole between two regions; a region that starts inside a page, with the
\* bitmap not at 0; memory in which no region has room for the bitmap; a
\* region too small to be followed by a bump region; no usable memory.
SomeMaps ==
  { <<Region(0, 12, 1), Region(12, 8, 2), Region(20, 20, 1)>>,
    <<Region(0, 6, 2), Region(6, 35, 1)>>,
    <<Region(0, 4, 2), Region(4, 5, 1), Region(9, 7, 2), Region(16, 7, 1), Region(23, 5, 2)>>,
    <<Region(0, 8, 2), Region(8, 8, 1), Region(16, 4, 2), Region(20, 16, 1)>>,
    <<Region(0, 4, 1), Region(4, 12, 2), Region(16, 20, 1)>>,
    <<Region(0, 4, 2)>> }
=============================================================================
