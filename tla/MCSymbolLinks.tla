---------------------------- MODULE MCSymbolLinks ----------------------------
(***************************************************************************)
(* Every roster over a few symbols and two dates, valid or not, of at most *)
(* two links.                                                              *)
(***************************************************************************)
EXTENDS SymbolLinks, TLC

SmallRosters == {{k, l} : k, l \in Link}

SymbolsAlike == Permutations(Symbols)

Alike == SymbolsAlike \cup Permutations(Writers)

=============================================================================
