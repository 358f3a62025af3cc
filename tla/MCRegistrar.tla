----------------------------- MODULE MCRegistrar -----------------------------
(***************************************************************************)
(* Instances of Registrar for TLC.                                         *)
(***************************************************************************)
EXTENDS Registrar, TLC

\* Nothing tells two users or two passwords apart.
Symmetry == Permutations(Users) \cup Permutations(Passwords)

\* A time in the past, an unregistration and a binding of one tick.
SomeExpiries == {-1, 0, 1}

=============================================================================
