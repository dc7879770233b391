---------------------------- MODULE MCNamLibrary ----------------------------
(* Small sets for TLC.  Models are 1 .. 4, so that a folder is a sequence.  *)
EXTENDS NamLibrary, TLC

SomeOptions ==
  {[kinds |-> 0, overwrite |-> FALSE],
   [kinds |-> 1, overwrite |-> TRUE],
   [kinds |-> 2, overwrite |-> FALSE]}

P(n, b) == Name("nam", n, b)
U(b)    == Name("nam", -1, b)

(* Equal base names, a gap and numbers against the alphabet; a duplicate   *)
(* number and a long name; one file too many.                              *)
SomeStarts ==
  {<<U(0), P(1, 1), P(2, 1), Absent>>,
   <<P(1, 0), U(2), P(1, 1), Absent>>,
   <<P(0, 0), P(1, 1), P(2, 0), U(1)>>}
=============================================================================
