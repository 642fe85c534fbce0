------------------------------- MODULE Projects -------------------------------
(***************************************************************************)
(* One project with its API keys, customers and payment rows: the dual-    *)
(* mode access guards and ProjectsService, ApiKeysService and              *)
(* CustomersService (apps/api/src/projects, api-keys, customers,           *)
(* common/project-scope), with the insert of PaymentsService.create that   *)
(* competes with them.                                                     *)
(*                                                                         *)
(* A call is authorized, reads, and then writes in one transaction; what   *)
(* it has read may be stale by then, and only the constraints of the       *)
(* database stand in its way.  A customer is the environment it lives in   *)
(* and one mutable field.                                                  *)
(***************************************************************************)
EXTENDS Naturals, FiniteSets, Absence

CONSTANTS Environments, KeyIds, CustomerIds, PaymentIds, ProjectCalls,
          Emails,           \* values of the mutable field of a customer
          MaxProjectCalls   \* bound of the model: calls started

ASSUME ProjectAssumption == NONE \notin Environments \cup CustomerIds /\ MaxProjectCalls \in Nat

VARIABLES project,    \* "live" or "deleted"
          keys,       \* api_keys rows
          customers,  \* customers rows
          paymentRows,\* payments rows: environment and customer
          entries,    \* audit entries, by action and resource
          pcall,      \* what each call has been granted and has read
          pstarted    \* calls started

projectTables == <<project, keys, customers, paymentRows, entries>>
projectVars == <<projectTables, pcall, pstarted>>

KeyRow == [environment : Environments, revoked : BOOLEAN]
CustomerRow == [environment : Environments, email : Emails]
PaymentRow == [environment : Environments, customer : CustomerIds]
Actions == {"created", "updated", "revoked", "deleted"}
NoCall == [step |-> "none"]
KeyOps == {"createKey", "revokeKey"}
CustomerOps == {"createCustomer", "updateCustomer", "deleteCustomer"}
SessionOnly == KeyOps \cup {"deleteProject"}
ProjectCall == [step : {"granted", "read", "ready"},
                op : CustomerOps \cup SessionOnly \cup {"createPayment"},
                key : KeyIds \cup {NONE}, target : KeyIds \cup CustomerIds \cup {NONE},
                environment : Environments, email : Emails \cup {NONE},
                seen : KeyRow \cup CustomerRow \cup {NONE}]

ASSUME NoneIsNoProjectRow == NONE \notin KeyRow \cup CustomerRow \cup PaymentRow

ProjectTypeOK ==
    /\ project \in {"live", "deleted"}
    /\ keys \in [KeyIds -> KeyRow \cup {NONE}]
    /\ customers \in [CustomerIds -> CustomerRow \cup {NONE}]
    /\ paymentRows \in [PaymentIds -> PaymentRow \cup {NONE}]
    /\ entries \in [KeyIds \cup CustomerIds -> [Actions -> Nat]]
    /\ pstarted \in 0 .. MaxProjectCalls
    /\ pcall \in [ProjectCalls -> ProjectCall \cup {NoCall}]

ProjectInit ==
    /\ project = "live"
    /\ keys = [k \in KeyIds |-> NONE]
    /\ customers = [u \in CustomerIds |-> NONE]
    /\ paymentRows = [p \in PaymentIds |-> NONE]
    /\ entries = [x \in KeyIds \cup CustomerIds |-> [a \in Actions |-> 0]]
    /\ pcall = [c \in ProjectCalls |-> NoCall] /\ pstarted = 0

--------------------------------------------------------------------------------
(* Access *)

(* Session mode: the project exists and the member holds the capability.   *)
(* The environment is the one the request names.                           *)
SessionScope(key, environment) == key = NONE /\ project = "live" /\ environment \in Environments

(* API-key mode: the key is live, and its own environment is the only one  *)
(* it may name.                                                            *)
ApiKeyScope(key, environment) ==
    /\ key # NONE /\ keys[key] # NONE /\ ~ keys[key].revoked
    /\ environment = keys[key].environment

Authorize(c, op, key, environment, target, email) ==
    /\ pcall[c] = NoCall /\ pstarted < MaxProjectCalls
    /\ IF op \in SessionOnly THEN SessionScope(key, environment)
       ELSE SessionScope(key, environment) \/ ApiKeyScope(key, environment)
    /\ pstarted' = pstarted + 1
    /\ pcall' = [pcall EXCEPT ![c] = [step |-> "granted", op |-> op, key |-> key, target |-> target,
                                      environment |-> environment, email |-> email, seen |-> NONE]]
    /\ UNCHANGED projectTables

--------------------------------------------------------------------------------
(* Reads *)

EndCall(c) == pcall' = [pcall EXCEPT ![c] = NoCall] /\ UNCHANGED pstarted

GoOn(c, step, seen) ==
    /\ pcall' = [pcall EXCEPT ![c].step = step, ![c].seen = seen]
    /\ UNCHANGED <<projectTables, pstarted>>

Give(c) == EndCall(c) /\ UNCHANGED projectTables

Asked(c, ops) == pcall[c].step = "granted" /\ pcall[c].op \in ops

(* A key sees the customers of its environment, a session those of both.   *)
Scoped(r, row) == row # NONE /\ (r.key # NONE => row.environment = r.environment)

findScopedCustomer(c) ==
    LET r == pcall[c]
        row == customers[r.target]
    IN
    /\ Asked(c, {"updateCustomer", "deleteCustomer"})
    /\ IF Scoped(r, row) /\ (r.op = "updateCustomer" => r.email # row.email)
       THEN GoOn(c, IF r.op = "deleteCustomer" THEN "read" ELSE "ready", row)
       ELSE Give(c)

CountPayments(c) ==
    /\ pcall[c].step = "read"
    /\ IF \E p \in PaymentIds : paymentRows[p] # NONE /\ paymentRows[p].customer = pcall[c].target
       THEN Give(c)
       ELSE GoOn(c, "ready", pcall[c].seen)

(* revoke(): an already revoked key is a no-op.                            *)
FindKey(c) ==
    LET row == keys[pcall[c].target] IN
    /\ Asked(c, {"revokeKey"})
    /\ IF row # NONE /\ ~ row.revoked THEN GoOn(c, "ready", row) ELSE Give(c)

(* Mutant: any customer of the project will do.                            *)
PayableInProject(r, row) == row # NONE

(* create() of a payment: a customer of the same environment.              *)
Payable(r, row) == row # NONE /\ row.environment = r.environment

FindCustomer(c) ==
    LET row == customers[pcall[c].target] IN
    /\ Asked(c, {"createPayment"})
    /\ IF Payable(pcall[c], row) THEN GoOn(c, "ready", row) ELSE Give(c)

--------------------------------------------------------------------------------
(* Writes: a row and its audit entry in one transaction *)

Ready(c, op) == pcall[c].step = "ready" /\ pcall[c].op = op

Entry(x, action) == entries' = [entries EXCEPT ![x][action] = @ + 1]

(* The foreign keys to the project refuse a row of a deleted one.          *)
ProjectExists == project = "live"

createKey(c) ==
    /\ Asked(c, {"createKey"}) /\ ProjectExists
    /\ \E k \in KeyIds :
          /\ keys[k] = NONE /\ entries[k]["created"] = 0
          /\ keys' = [keys EXCEPT ![k] = [environment |-> pcall[c].environment, revoked |-> FALSE]]
          /\ Entry(k, "created")
    /\ UNCHANGED <<project, customers, paymentRows>> /\ EndCall(c)

(* The update asks for the id only: two revocations may both write.        *)
revokeKey(c) ==
    LET k == pcall[c].target IN
    /\ Ready(c, "revokeKey") /\ keys[k] # NONE
    /\ keys' = [keys EXCEPT ![k].revoked = TRUE]
    /\ Entry(k, "revoked")
    /\ UNCHANGED <<project, customers, paymentRows>> /\ EndCall(c)

createCustomer(c) ==
    LET r == pcall[c] IN
    /\ Asked(c, {"createCustomer"}) /\ ProjectExists
    /\ \E u \in CustomerIds :
          /\ customers[u] = NONE /\ entries[u]["created"] = 0
          /\ customers' = [customers EXCEPT ![u] = [environment |-> r.environment, email |-> r.email]]
          /\ Entry(u, "created")
    /\ UNCHANGED <<project, keys, paymentRows>> /\ EndCall(c)

updateCustomer(c) ==
    LET u == pcall[c].target IN
    /\ Ready(c, "updateCustomer") /\ customers[u] # NONE
    /\ customers' = [customers EXCEPT ![u].email = pcall[c].email]
    /\ Entry(u, "updated")
    /\ UNCHANGED <<project, keys, paymentRows>> /\ EndCall(c)

Restricts(u) == \E p \in PaymentIds : paymentRows[p] # NONE /\ paymentRows[p].customer = u

deleteCustomer(c) ==
    LET u == pcall[c].target IN
    /\ Ready(c, "deleteCustomer") /\ customers[u] # NONE /\ ~ Restricts(u)
    /\ customers' = [customers EXCEPT ![u] = NONE]
    /\ Entry(u, "deleted")
    /\ UNCHANGED <<project, keys, paymentRows>> /\ EndCall(c)

createPayment(c) ==
    LET r == pcall[c] IN
    /\ Ready(c, "createPayment") /\ customers[r.target] # NONE
    /\ \E p \in PaymentIds :
          /\ paymentRows[p] = NONE
          /\ paymentRows' = [paymentRows EXCEPT ![p] = [environment |-> r.environment, customer |-> r.target]]
    /\ UNCHANGED <<project, keys, customers, entries>> /\ EndCall(c)

(* delete(): the foreign keys cascade to everything the project has; the   *)
(* restriction is checked when the payments have gone as well.             *)
deleteProject(c) ==
    /\ Asked(c, {"deleteProject"}) /\ project = "live"
    /\ project' = "deleted"
    /\ keys' = [k \in KeyIds |-> NONE]
    /\ customers' = [u \in CustomerIds |-> NONE]
    /\ paymentRows' = [p \in PaymentIds |-> NONE]
    /\ UNCHANGED entries /\ EndCall(c)

(* A constraint refuses, the row has gone, or the database does not answer. *)
RollsBack(c) == pcall[c] # NoCall /\ Give(c)

--------------------------------------------------------------------------------
ProjectStart(c) ==
    \E key \in KeyIds \cup {NONE}, env \in Environments :
        \/ Authorize(c, "createKey", key, env, NONE, NONE)
        \/ \E k \in KeyIds : Authorize(c, "revokeKey", key, env, k, NONE)
        \/ Authorize(c, "deleteProject", key, env, NONE, NONE)
        \/ \E email \in Emails : Authorize(c, "createCustomer", key, env, NONE, email)
        \/ \E u \in CustomerIds :
              \/ \E email \in Emails : Authorize(c, "updateCustomer", key, env, u, email)
              \/ \E op \in {"deleteCustomer", "createPayment"} : Authorize(c, op, key, env, u, NONE)

ProjectStep(c) ==
    \/ findScopedCustomer(c) \/ CountPayments(c) \/ FindKey(c) \/ FindCustomer(c)
    \/ createKey(c) \/ revokeKey(c) \/ createCustomer(c) \/ updateCustomer(c)
    \/ deleteCustomer(c) \/ createPayment(c) \/ deleteProject(c) \/ RollsBack(c)

ProjectNext == \E c \in ProjectCalls : ProjectStart(c) \/ ProjectStep(c)

ProjectSpec == ProjectInit /\ [][ProjectNext]_projectVars

--------------------------------------------------------------------------------
(* Properties *)

(* A payment never loses its customer, and the two live in the same        *)
(* environment, whatever is created and deleted at the same time; a        *)
(* deleted project leaves nothing behind.                                  *)
PaymentKeepsCustomer ==
    /\ \A p \in PaymentIds :
          paymentRows[p] # NONE =>
              LET u == customers[paymentRows[p].customer] IN
              u # NONE /\ u.environment = paymentRows[p].environment
    /\ project = "deleted" =>
          \A p \in PaymentIds, u \in CustomerIds, k \in KeyIds :
              paymentRows[p] = NONE /\ customers[u] = NONE /\ keys[k] = NONE

================================================================================
