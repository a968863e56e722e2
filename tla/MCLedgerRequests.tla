-------------------------- MODULE MCLedgerRequests --------------------------
(***************************************************************************)
(* LedgerRequests on a small instance: two requests, and wallets that are  *)
(* deleted between their steps.                                            *)
(***************************************************************************)
EXTENDS LedgerRequests, TLC

Symmetric ==
  Permutations(TxId) \cup Permutations(WalletId) \cup Permutations(WalletName)
    \cup Permutations(Req)

(* Every wallet was created before, each under a name of its own. *)
BusyInit ==
  /\ req = [q \in Req |-> Idle]
  /\ txs = [t \in TxId |->
              [state |-> "unused", type |-> "expense", wallet |-> Nil, transfer |-> Nil,
               amount |-> 0, currency |-> "JOD", rate |-> 0, base |-> 0, date |-> Nil]]
  /\ \E name \in [WalletId -> WalletName] :
       /\ \A v, w \in WalletId : v # w => name[v] # name[w]
       /\ wallets = [w \in WalletId |->
                        [state |-> "active", name |-> name[w], opening |-> 0]]

BusyNext == Serve \/ \E w \in WalletId : DeleteWallet(w) /\ UNCHANGED req

BusySpec == BusyInit /\ [][BusyNext]_allVars
=============================================================================
