------------------------------ MODULE Pointers ------------------------------
(* The null pointer, which the models of tree.h and of queue.h share. *)
CONSTANT NULL
=============================================================================
