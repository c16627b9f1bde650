--------------------------- MODULE AccountContract ---------------------------
(***************************************************************************)
(* What the creation of manufacturer users promises, without services,     *)
(* compensation or retries.  An account is there as a whole or not at all, *)
(* one for an address.  It may be withdrawn until it has been confirmed,   *)
(* never after; and a caller hears of success only when an account of its  *)
(* was confirmed.  A caller who hears of a failure learns nothing.         *)
(***************************************************************************)

CONSTANTS Caller,    \* submissions of the form
          Account,   \* the accounts that could be made
          AddressOf, \* AddressOf[a]: the e-mail address of a
          OwnerOf    \* OwnerOf[a]: the submission that a belongs to

VARIABLES accounts,   \* the accounts that can be used
          confirmed,  \* those that were reported as made
          heard       \* what each caller has heard

accountVars == <<accounts, confirmed, heard>>

ContractInit ==
    /\ accounts = {}
    /\ confirmed = {}
    /\ heard = [k \in Caller |-> "nothing"]

Open(a) ==
    /\ \A b \in accounts : AddressOf[b] # AddressOf[a]
    /\ accounts' = accounts \cup {a}
    /\ UNCHANGED <<confirmed, heard>>

Withdraw(a) ==
    /\ a \in accounts \ confirmed
    /\ accounts' = accounts \ {a}
    /\ UNCHANGED <<confirmed, heard>>

Confirm(a) ==
    /\ a \in accounts \ confirmed
    /\ confirmed' = confirmed \cup {a}
    /\ UNCHANGED <<accounts, heard>>

Hear(k) ==
    /\ heard[k] = "nothing"
    /\ \/ /\ \E a \in confirmed : OwnerOf[a] = k
          /\ heard' = [heard EXCEPT ![k] = "ok"]
       \/ heard' = [heard EXCEPT ![k] = "failed"]
    /\ UNCHANGED <<accounts, confirmed>>

ContractNext ==
    \/ \E a \in Account : Open(a) \/ Withdraw(a) \/ Confirm(a)
    \/ \E k \in Caller : Hear(k)

ContractSpec == ContractInit /\ [][ContractNext]_accountVars
=============================================================================
