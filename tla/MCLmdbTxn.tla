----------------------------- MODULE MCLmdbTxn -----------------------------
(* Two keys, one reader.  The writer alone with every fault; and the writer,
   which may be killed, beside the reader.                                 *)
EXTENDS LmdbTxn

CONSTANTS k1, k2, r1

MCScenarios ==
    {[failures |-> Fault, flags |-> BOOLEAN, reads |-> 0],
     [failures |-> {"die"}, flags |-> {FALSE}, reads |-> 1]}
=============================================================================
