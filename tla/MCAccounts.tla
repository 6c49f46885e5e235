----------------------------- MODULE MCAccounts -----------------------------
(* Instances of Accounts for TLC. *)
EXTENDS Accounts, TLC

\* Requests are interchangeable in the safety runs.
Symmetry == Permutations(Requests)

\* Every instance can be started, and has an admin password that can be hashed.
GoodConfigs == [password : Passwords \ Unhashable, parses : {TRUE}]

\* An instance may have any password, and its JWT_TTL may be no duration.
AnyConfigs == GoodConfigs \cup [password : Unhashable, parses : {TRUE}]
                          \cup [password : Passwords \ Unhashable, parses : {FALSE}]
=============================================================================
