----------------------- MODULE MCCredentialRegistration -----------------------
(***************************************************************************)
(* Instances of CredentialRegistration for TLC.                            *)
(***************************************************************************)
EXTENDS CredentialRegistration, TLC

\* Nothing tells two calls, two keys or two bookings apart.
FullSymmetry == Permutations(Call) \cup Permutations(Key) \cup Permutations(Booking)
=============================================================================
