------------------------------ MODULE MCQmrom ------------------------------
(* Parts of one to four bytes, so that on B0 a certificate and the image    *)
(* take several chunks, and on C0 the image and the certificate do.         *)
EXTENDS Qmrom

MCChunkSize == [A0 |-> 3, B0 |-> 2, C0 |-> 3]
MCSizes     == [key1 |-> 1, key2 |-> 3, crt |-> 2, img |-> 4, cert |-> 4]
=============================================================================
