------------------------------- MODULE MCWalk -------------------------------
(* The graphs and the gallery together.                                     *)
EXTENDS MCGraphs, MCGallery

AllCells == GraphCells \cup GalleryCells
AllDumps == Graphs \cup GalleryDumps

\* What the constants are given.
MCCells == AllCells
GivenDumps == AllDumps
MCNames == {"main", "f", "g", "x", "y", "data", "refcount", "crate"}
MCTypes == {"T", "Derived", "Enum", "Union"}
=============================================================================
