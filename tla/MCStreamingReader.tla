-------------------------- MODULE MCStreamingReader --------------------------
(* StreamingReader with slices of two parts, and with parts of the file in *)
(* the cache.                                                              *)
EXTENDS StreamingReader

MCSliceOf == [p \in Parts |-> (p + 1) \div 2]

First == {{1}}
Second == {{2}}
Third == {{3}}
Nothing == {{}}
=============================================================================
