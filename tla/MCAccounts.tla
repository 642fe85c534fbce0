------------------------------ MODULE MCAccounts ------------------------------
(***************************************************************************)
(* Instances of the modules about accounts, their sessions, what their     *)
(* organizations own, the keyed requests that change it and the pages that *)
(* show it.  They share no variable, so a behaviour follows one of them    *)
(* while the others rest in an initial state: every behaviour of each is   *)
(* checked, and no product of them.                                        *)
(***************************************************************************)
EXTENDS RosterPage, ListPages, KeysPage, Sessions, Projects, Refunds, MCIdempotency, MCLogPages,
        ConsolePages, TLC

CONSTANTS ann, bob, call1, call2, pay1, pay2

VARIABLE following    \* the module the behaviour follows

Swap == Permutations({call1, call2})
Twos == [payment \in Refundable |-> 2]

tenantVars == <<orgVars, projectVars, refundVars>>
accountPageVars == <<rosterVars, listPageVars, keyVars>>
pageVars == <<logVars, consoleVars, accountPageVars>>
accountsVars == <<sesVars, tenantVars, vars, pageVars, following>>

AccountsInit ==
    /\ OrgInit /\ ProjectInit /\ RefundInit /\ SesInit /\ Init /\ LogInit /\ ConsoleInit
    /\ RosterInit /\ ListInit /\ KeysInit
    /\ following \in {"organizations", "projects", "refunds", "sessions", "keys", "logs", "console",
                     "roster", "lists", "api-keys"}
    /\ following # "logs" => surface = "requests" /\ route = pay1
    /\ following # "roster" => reader = Founder /\ \A a \in Accounts \ {Founder} : holds[a] = NONE
                               /\ \A i \in Invitations : asked[i] = NONE
    /\ following # "lists" => listView = "overview" /\ \A t \in Tenants : rights[t] = NONE
    /\ following # "api-keys" => keyView = "shell" /\ chosen = "test" /\ ~mayManage
                                 /\ \A k \in Issued : issued.state[k] = NONE
    /\ following # "console" => open = "webhooks" /\ selected = "test"

AccountsNext ==
    \/ /\ following = "organizations" /\ OrgNext
       /\ UNCHANGED <<projectVars, refundVars, sesVars, vars, pageVars, following>>
    \/ /\ following = "projects" /\ ProjectNext
       /\ UNCHANGED <<orgVars, refundVars, sesVars, vars, pageVars, following>>
    \/ /\ following = "refunds" /\ RefundNext
       /\ UNCHANGED <<orgVars, projectVars, sesVars, vars, pageVars, following>>
    \/ /\ following = "sessions" /\ SesNext
       /\ UNCHANGED <<tenantVars, vars, pageVars, following>>
    \/ /\ following = "keys" /\ Next
       /\ UNCHANGED <<tenantVars, sesVars, pageVars, following>>
    \/ /\ following = "logs" /\ LogNext
       /\ UNCHANGED <<tenantVars, sesVars, vars, consoleVars, accountPageVars, following>>
    \/ /\ following = "console" /\ ConsoleNext
       /\ UNCHANGED <<tenantVars, sesVars, vars, logVars, accountPageVars, following>>
    \/ /\ following = "roster" /\ RosterNext
       /\ UNCHANGED <<tenantVars, sesVars, vars, logVars, consoleVars, listPageVars, keyVars, following>>
    \/ /\ following = "lists" /\ ListNext
       /\ UNCHANGED <<tenantVars, sesVars, vars, logVars, consoleVars, rosterVars, keyVars, following>>
    \/ /\ following = "api-keys" /\ KeysNext
       /\ UNCHANGED <<tenantVars, sesVars, vars, logVars, consoleVars, rosterVars, listPageVars, following>>

AccountsSpec == AccountsInit /\ [][AccountsNext]_accountsVars

AccountsTypeOK ==
    /\ OrgTypeOK /\ SesTypeOK /\ ProjectTypeOK /\ RefundTypeOK
    /\ TypeOK /\ LogTypeOK /\ ConsoleTypeOK
    /\ RosterTypeOK /\ ListTypeOK /\ KeysTypeOK
===============================================================================
