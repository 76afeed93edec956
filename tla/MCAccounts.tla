----------------------------- MODULE MCAccounts -----------------------------
(***************************************************************************)
(* Instances of Accounts.tla for TLC.                                      *)
(***************************************************************************)
EXTENDS Accounts, TLC

CONSTANTS LastTime

TimesUpTo == 0 .. LastTime

(* Requests that overlap, fail and go wrong in different ways, each with   *)
(* as many tokens as leave a number of states that TLC can visit.          *)
SomeEnvironments ==
  {{"overlap"}, {"overlap", "expiry"}, {"overlap", "replay"}, {"overlap", "mistake", "replay"},
   {"mistake", "error", "replay"}, {"error", "expiry", "replay"}}

OneEnvironment == {{"replay"}}

TokensFor ==
  [e \in SomeEnvironments \cup OneEnvironment |->
     CASE {"overlap", "mistake"} \subseteq e -> 1
       [] {"overlap", "expiry"} \subseteq e -> 2
       [] OTHER -> 3]

AccountsSymmetry == Permutations(Calls) \cup Permutations(Tokens)
                    \cup Permutations(Sessions) \cup Permutations(Passwords)

=============================================================================
