----------------------------- MODULE MCListing ------------------------------
(* Model checking of Listing. *)
EXTENDS Listing

\* No filter, and a window that ends in the past.
TwoWindows == {[from |-> 0, to |-> MaxNow + 1], [from |-> 1, to |-> 2]}
=============================================================================
