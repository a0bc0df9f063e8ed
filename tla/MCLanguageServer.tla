-------------------------- MODULE MCLanguageServer --------------------------
(* LanguageServer for TLC: two files, and the requests of the cfg.           *)
EXTENDS LanguageServer, TLC

CONSTANTS f1, f2

MCFiles == {f1, f2}

\* Files are alike: the properties are all safety.
MCSymmetry == Permutations(MCFiles)
=============================================================================
