----------------------------- MODULE MCCrawl -----------------------------
(* Instances of Crawl for TLC. *)
EXTENDS Crawl, TLC
RequestSymmetry == Permutations(Requests)
=============================================================================
