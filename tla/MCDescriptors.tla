---------------------------- MODULE MCDescriptors ----------------------------
(* Instances of Descriptors: a short and an overlong name, an endpoint for    *)
(* each direction.                                                            *)
EXTENDS Descriptors

MCNames == {[id |-> "short", chars |-> 4], [id |-> "long", chars |-> 127]}
MCEndpoints == {[fifo |-> 1, adr |-> 2, dir |-> "out"], [fifo |-> 1, adr |-> 3, dir |-> "in"]}
=============================================================================
