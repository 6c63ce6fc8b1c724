--------------------------- MODULE MCKafkaPipeline ---------------------------
(* The programs share nothing but the log; the consumers do not write it and *)
(* no producer reads it.  So each producer runs alone, and each consumer     *)
(* alone with a log that may hold anything.                                  *)
EXTENDS KafkaPipeline

Apart == {{"cpp"}, {"py"}, {"counter"}, {"pricer"}}
=============================================================================
