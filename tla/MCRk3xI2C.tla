------------------------------ MODULE MCRk3xI2C ------------------------------
(* A write that needs two chunks (its address takes a byte of the first),  *)
(* and a request of a write of no bytes followed by a read of two chunks.  *)
EXTENDS Rk3xI2C

W(n) == [dir |-> "write", len |-> n]
R(n) == [dir |-> "read", len |-> n]

SomeRequests == {<<W(2)>>, <<W(0), R(3)>>}

=============================================================================
