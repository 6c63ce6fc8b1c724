-------------------------- MODULE MCLiveBinanceEngine -------------------------
(* Three messages and a ring of two slots, which holds one packet: the feed  *)
(* finds it full, retries and gives up; each thread may see the stop first.  *)
EXTENDS LiveBinanceEngine
==============================================================================
