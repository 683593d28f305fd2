------------------------- MODULE MCRequestPipeline -------------------------
(* Small instances of RequestPipeline for TLC: passwords around both       *)
(* bounds, in characters and in bytes.                                     *)
EXTENDS RequestPipeline, TLC

Password(chars, bytes, classes, id) ==
  [chars |-> chars, bytes |-> bytes, classes |-> classes, id |-> id]
MCPasswords ==
  { Password(8, 72, Classes, 1),
    Password(72, 72, Classes, 1),
    Password(72, 73, Classes, 1),
    Password(7, 7, Classes, 1),
    Password(8, 8, Classes \ {"digit"}, 1) }
FewPasswords == {Password(72, 72, Classes, 1), Password(72, 73, Classes, 1)}

Interchangeable == Permutations(Requests)
=============================================================================
