--------------------------- MODULE MCLocalProdCons ---------------------------
(* The three local programs, for TLC. *)
EXTENDS LocalProdCons

Threads == 1 .. 4

Items == 0 .. 1

CondVars == {"cv", "queueEmptyCv", "queueFullCv"}

SingleCV ==
  [producers |-> {1}, consumers |-> {2},
   notFull |-> "cv", notEmpty |-> "cv", notifyAll |-> TRUE]

TwoCV ==
  [producers |-> {1}, consumers |-> {2},
   notFull |-> "queueFullCv", notEmpty |-> "queueEmptyCv", notifyAll |-> FALSE]

(* Four of the eight threads of the program. *)
TwoCVMulti ==
  [producers |-> {1, 3}, consumers |-> {2, 4},
   notFull |-> "queueFullCv", notEmpty |-> "queueEmptyCv", notifyAll |-> TRUE]

Programs == {SingleCV, TwoCV, TwoCVMulti}

ThreeEach == [t \in Threads |-> 3]
=============================================================================
