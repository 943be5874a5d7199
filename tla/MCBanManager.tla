---------------------------- MODULE MCBanManager ----------------------------
EXTENDS BanManager, TLC

\* Bans and discouragements treat all addresses alike.
AddressSymmetry == Permutations(Addresses)
=============================================================================
