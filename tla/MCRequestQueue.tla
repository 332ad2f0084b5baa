--------------------------- MODULE MCRequestQueue ---------------------------
(***************************************************************************)
(* Small instances of RequestQueue: one thread, a few interchangeable      *)
(* requests.                                                               *)
(***************************************************************************)
EXTENDS RequestQueue, TLC

CONSTANTS q1, q2, q3, q4

FourRequests  == {q1, q2, q3, q4}

EnqueueOnly == {"enqueue"}

RequestSymmetry == Permutations(Requests)
=============================================================================
