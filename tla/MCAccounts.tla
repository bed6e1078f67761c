------------------------------ MODULE MCAccounts ------------------------------
(***************************************************************************)
(* The instances of Accounts that TLC checks.                              *)
(***************************************************************************)
EXTENDS Accounts, TLC

CONSTANTS root, ann, p1

\* The founder is no player; the other account is one's.
OneLinked == root :> NoPlayer @@ ann :> p1

\* Clients are interchangeable, and so are the leagues that may be created.
Interchangeable ==
    {f @@ g : f \in Permutations(Clients), g \in Permutations(Leagues)}

\* Bound: of the requests made before the last any two may administer accounts
\* at once, with the last one none other does.
FewAdministrators ==
    started = MaxRequests =>
        \A c, d \in Clients :
            /\ request[c].op = "call" /\ Administrative(request[c].call)
            /\ request[d].op = "call" /\ Administrative(request[d].call)
            => c = d
=============================================================================
