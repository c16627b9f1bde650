---------------------------- MODULE ScanContract ----------------------------
(***************************************************************************)
(* What the scanner promises to the users of the buckets, without requests,*)
(* handlers or copies: a document that was handed in is examined and filed *)
(* once, by what the examination found, and stays where it was filed; until*)
(* then its owner may take it back.                                        *)
(***************************************************************************)

CONSTANT Document

VARIABLES home,  \* where readers see each document
          found  \* what examinations have found

contractVars == <<home, found>>

ContractInit ==
    /\ home = [x \in Document |-> "nowhere"]
    /\ found = [x \in Document |-> "unknown"]

HandIn(x) ==
    /\ home[x] = "nowhere"
    /\ home' = [home EXCEPT ![x] = "inbox"]
    /\ UNCHANGED found

TakeBack(x) ==
    /\ home[x] = "inbox"
    /\ home' = [home EXCEPT ![x] = "withdrawn"]
    /\ UNCHANGED found

Examine(x) ==
    /\ home[x] = "inbox"
    /\ found[x] = "unknown"
    /\ found' \in {[found EXCEPT ![x] = v] : v \in {"clean", "infected"}}
    /\ UNCHANGED home

File(x) ==
    /\ home[x] = "inbox"
    /\ found[x] # "unknown"
    /\ home' = [home EXCEPT ![x] = found[x]]
    /\ UNCHANGED found

ContractNext == \E x \in Document : HandIn(x) \/ TakeBack(x) \/ Examine(x) \/ File(x)

ContractSpec == ContractInit /\ [][ContractNext]_contractVars
=============================================================================
