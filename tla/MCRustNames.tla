------------------------------ MODULE MCRustNames ------------------------------
(***************************************************************************)
(* RustNames alone, for what the docs promise of every call.               *)
(***************************************************************************)
EXTENDS NameInputs

VARIABLES input, result

(* The calls of a method, whose type may have a member of the name.        *)
InMethod == [RustScopes EXCEPT !.calls = {RustCall(2, <<"f">>, 0)}]
Rust == INSTANCE RustNames WITH Inputs <- {InMethod}

Spec == Rust!Spec

(* A bare call is never resolved to what it cannot mean (RustNames).       *)
CallsAreProven == Rust!CallsAreProven
=============================================================================
