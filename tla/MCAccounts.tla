----------------------------- MODULE MCAccounts -----------------------------
(***************************************************************************)
(* Accounts for TLC: requests, wallet addresses and spellings are          *)
(* interchangeable.                                                        *)
(***************************************************************************)
EXTENDS Accounts, TLC

CONSTANTS r1, r2, a1, a2, bare, spaced

symmetry == Permutations({r1, r2}) \cup Permutations({a1, a2})
              \cup Permutations({bare, spaced})
=============================================================================
