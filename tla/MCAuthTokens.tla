---------------------------- MODULE MCAuthTokens ----------------------------
(* Requests are interchangeable: no property tells them apart. *)
EXTENDS AuthTokens, TLC

Interchangeable == Permutations(Requests)
=============================================================================
