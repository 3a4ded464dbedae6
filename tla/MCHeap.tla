------------------------------- MODULE MCHeap -------------------------------
(* Small heaps for TLC: two texts, and room for two objects with a text or a *)
(* shape, or for more texts and shapes beside one object.                   *)
EXTENDS Heap
CONSTANTS a, b
MCTexts == {a, b}
=============================================================================
