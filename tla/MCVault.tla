------------------------------ MODULE MCVault ------------------------------
EXTENDS Vault, TLC

Symmetric ==
  Permutations(VaultId) \cup Permutations(Passphrase) \cup Permutations(Salt)
    \cup Permutations(Thread)
=============================================================================
