----------------------------- MODULE PolicyWallet -----------------------------
(***************************************************************************)
(* PolicyControlledWallet: a contract wallet that pays what its policy     *)
(* signer has authorized, under consecutive nonces.  The executor may send *)
(* any authorization, any number of times and in any order; the owner      *)
(* rotates the signer.                                                     *)
(***************************************************************************)
EXTENDS Naturals, FiniteSets

CONSTANTS Authorizations,  \* signed authorizations
          AuthNonce,       \* the nonce each one is for
          AuthSigner,      \* who signed it
          Signers,
          Funds            \* ETH in the wallet; every authorization pays 1

ASSUME WalletAssumption ==
  /\ AuthNonce \in [Authorizations -> Nat]
  /\ AuthSigner \in [Authorizations -> Signers]
  /\ Funds \in Nat

VARIABLES wallet,   \* nextNonce, policySigner and balance
          expired,  \* authorizations past their deadline
          executed  \* transfers made: the authorization and the signer in force

walletVars == <<wallet, expired, executed>>

WalletTypeOK ==
  /\ wallet \in [nextNonce : 0..Funds, policySigner : Signers, balance : 0..Funds]
  /\ expired \subseteq Authorizations
  /\ executed \subseteq Authorizations \X Signers

(* Any signer: SetPolicySigner leads to all the others. *)
WalletInit ==
  /\ wallet = [nextNonce |-> 0, policySigner |-> CHOOSE s \in Signers : TRUE,
               balance |-> Funds]
  /\ expired = {}
  /\ executed = {}

(* Mutant: a nonce that was not used before will do. *)
NonceUnused(x) == AuthNonce[x] >= wallet.nextNonce

NonceIsNext(x) == AuthNonce[x] = wallet.nextNonce

SignedByPolicy(x) == AuthSigner[x] = wallet.policySigner

ExecuteAuthorizedTransfer(x) ==
  /\ x \notin expired /\ NonceIsNext(x) /\ SignedByPolicy(x)
  /\ wallet.balance > 0                            \* else the transfer reverts
  /\ wallet' = [wallet EXCEPT !.nextNonce = @ + 1, !.balance = @ - 1]
  /\ executed' = executed \cup {<<x, wallet.policySigner>>}
  /\ UNCHANGED expired

SetPolicySigner(s) ==
  /\ s # wallet.policySigner
  /\ wallet' = [wallet EXCEPT !.policySigner = s]
  /\ UNCHANGED <<expired, executed>>

DeadlinePasses(x) ==
  /\ expired' = expired \cup {x}
  /\ UNCHANGED <<wallet, executed>>

WalletNext ==
  \/ \E x \in Authorizations : ExecuteAuthorizedTransfer(x) \/ DeadlinePasses(x)
  \/ \E s \in Signers : SetPolicySigner(s)

WalletSpec == WalletInit /\ [][WalletNext]_walletVars

(* What the wallet has paid is one transfer per nonce, each authorized by   *)
(* the signer in force when it was made: an authorization that is sent      *)
(* twice, or after its signer was replaced, moves nothing.                  *)
PaidAsAuthorized ==
  /\ \A e \in executed : AuthSigner[e[1]] = e[2]
  /\ \A e, g \in executed : AuthNonce[e[1]] = AuthNonce[g[1]] => e = g
  /\ Funds - wallet.balance = Cardinality(executed)
  /\ {AuthNonce[e[1]] : e \in executed} = 0..(wallet.nextNonce - 1)
=============================================================================
