----------------------------- MODULE ConsolePages -----------------------------
(***************************************************************************)
(* The environment-scoped pages of a project in the dashboard (apps/web):  *)
(* customers, payments, refunds and webhooks.  One page is open.  The      *)
(* shell's selector changes the environment under it at any time, and an   *)
(* answer finds the closure that asked: the environment of that render and *)
(* whether its effect was cleaned up.                                      *)
(*                                                                         *)
(* A row is the environment and the page of the list it came with; what a  *)
(* customer, a payment or an endpoint holds is left out.  A failed call    *)
(* only sets an alert, so a failure is an answer that changes nothing      *)
(* else.                                                                   *)
(***************************************************************************)
EXTENDS Naturals, Sequences, Absence

CONSTANTS ConsoleViews,   \* of customers, payments, refunds and webhooks
          ConsoleEnvironments,
          LastPart,       \* pages of every list
          MaxConsoleActs  \* bound of the model: acts of the operator and timer ticks

ASSUME ConsoleViewsAssumption == ConsoleViews \subseteq {"customers", "payments", "refunds", "webhooks"}

ASSUME NoneIsNoSecret == NONE \notin Nat

VARIABLES open,       \* the page: customers, payments, refunds or webhooks
          selected,   \* selectedEnvironment
          consoleProject,    \* NONE (null), ready or notFound
          manages,    \* canManage
          loading,
          list,       \* customers, payments or endpoints
          side,       \* customerOptions, refunds or events
          deliveries,
          detail,     \* environment of the open record (of payment, on the refunds page), NONE
          appended,   \* appendedPages
          pages,      \* pages of list so far: next_cursor and has_more
          revealed,   \* the signing secret on display, NONE
          pending,    \* calls in flight
          burnt,      \* history: secrets on display when the environment changed
          consoleActs

consoleView == <<consoleProject, manages, loading>>
consoleData == <<list, side, deliveries, detail, appended, pages, revealed>>
consoleVars == <<open, selected, consoleView, consoleData, pending, burnt, consoleActs>>

Part(e, k) == [environment |-> e, part |-> k]
Parts == [environment : ConsoleEnvironments, part : 1 .. LastPart]
Secrets == 0 .. MaxConsoleActs

ConsoleTypeOK ==
    /\ selected \in ConsoleEnvironments /\ consoleProject \in {NONE, "ready", "notFound"}
    /\ {list, side, deliveries} \subseteq Seq(Parts)
    /\ detail \in ConsoleEnvironments \cup {NONE}
    /\ pages \in 0 .. LastPart /\ revealed \in Secrets \cup {NONE}
    /\ \A c \in pending : c.by <= consoleActs /\ c.environment \in ConsoleEnvironments
    /\ appended => open = "payments"

\* A call: what it asks and of which environment, the page wanted, the act it serves, and the
\* selection and the open record of the closure that asks.
Ask(what, e, part) ==
    [what |-> what, environment |-> e, part |-> part, by |-> consoleActs, live |-> TRUE,
     under |-> selected, of |-> detail]

CleanUp(effects) == {IF c.what \in effects THEN [c EXCEPT !.live = FALSE] ELSE c : c \in pending}

Displayed == ~loading /\ consoleProject = "ready"

(***************************************************************************)
(* Effects of a mount or of a change of environment.                       *)
(***************************************************************************)

customersEffect(e) == {Ask("list", e, 1)}

paymentsEffect(e) == {Ask("list", e, 1)} \cup IF manages THEN {Ask("options", e, 1)} ELSE {}

refundsEffect(e) == {Ask("main", e, 1)}

\* The event filter's effect runs in the same commit, with loading as it was.
webhooksEffect(e) == {Ask("main", e, 1)} \cup IF loading THEN {} ELSE {Ask("side", e, 1)}

ConsoleInit ==
    /\ open \in ConsoleViews /\ selected \in ConsoleEnvironments
    /\ consoleProject = NONE /\ manages = FALSE /\ loading = TRUE
    /\ list = <<>> /\ side = <<>> /\ deliveries = <<>> /\ detail = NONE
    /\ appended = FALSE /\ pages = 0 /\ revealed = NONE /\ burnt = {} /\ consoleActs = 0
    /\ pending = CASE open = "customers" -> {Ask("project", selected, 1)} \cup customersEffect(selected)
                   [] open = "payments" -> {Ask("project", selected, 1)} \cup paymentsEffect(selected)
                   [] open = "refunds" -> refundsEffect(selected)
                   [] open = "webhooks" -> webhooksEffect(selected)

Switched(e) == consoleActs < MaxConsoleActs /\ consoleActs' = consoleActs + 1
               /\ e # selected /\ selected' = e
               /\ burnt' = burnt \cup ({revealed} \ {NONE})

SwitchCustomers ==
    \E e \in ConsoleEnvironments :
        /\ open = "customers" /\ Switched(e) /\ pending' = pending \cup customersEffect(e)
        /\ UNCHANGED <<open, consoleView, consoleData>>

SwitchPayments ==
    \E e \in ConsoleEnvironments :
        /\ open = "payments" /\ Switched(e) /\ pending' = CleanUp({"options"}) \cup paymentsEffect(e)
        /\ UNCHANGED <<open, consoleView, consoleData>>

SwitchRefunds ==
    \E e \in ConsoleEnvironments :
        /\ open = "refunds" /\ Switched(e) /\ pending' = CleanUp({"main", "linked"}) \cup refundsEffect(e)
        /\ loading' = TRUE /\ consoleProject' = NONE /\ detail' = NONE /\ side' = <<>> /\ list' = <<>>
        /\ UNCHANGED <<open, manages, deliveries, appended, pages, revealed>>

\* Mutant: the effect forgets the secret.
SwitchKeepsSecret ==
    \E e \in ConsoleEnvironments :
        /\ open = "webhooks" /\ Switched(e) /\ pending' = CleanUp({"main"}) \cup webhooksEffect(e)
        /\ loading' = TRUE /\ consoleProject' = IF consoleProject = "notFound" THEN NONE ELSE consoleProject
        /\ detail' = NONE /\ deliveries' = <<>>
        /\ UNCHANGED <<open, manages, list, side, appended, pages, revealed>>

SwitchWebhooks ==
    \E e \in ConsoleEnvironments :
        /\ open = "webhooks" /\ Switched(e) /\ pending' = CleanUp({"main"}) \cup webhooksEffect(e)
        /\ loading' = TRUE /\ consoleProject' = IF consoleProject = "notFound" THEN NONE ELSE consoleProject
        /\ revealed' = NONE /\ detail' = NONE /\ deliveries' = <<>>
        /\ UNCHANGED <<open, manages, list, side, appended, pages>>

(***************************************************************************)
(* The operator.  Every control of a page asks for something.              *)
(***************************************************************************)

Press(page, calls) ==
    /\ open = page /\ Displayed /\ consoleActs < MaxConsoleActs /\ consoleActs' = consoleActs + 1
    /\ pending' = pending \cup calls
    /\ UNCHANGED <<open, selected, consoleView, consoleData, burnt>>

HasMore == 0 < pages /\ pages < LastPart

NotBusy(what) == \A c \in pending : c.what # what

Shows(rows) == {rows[n].environment : n \in 1 .. Len(rows)}

CustomersPressed ==
    \/ HasMore /\ Press("customers", {Ask("list", selected, pages + 1)})
    \/ Press("customers", {Ask("list", selected, 1)})               \* the search term settles
    \/ manages /\ NotBusy("create") /\ Press("customers", {Ask("create", selected, 1)})
    \/ \E e \in Shows(list) : Press("customers", {Ask("view", e, 1)})
    \/ manages /\ detail # NONE /\ NotBusy("save") /\ Press("customers", {Ask("save", detail, 1)})
    \/ manages /\ \E n \in 1 .. Len(list) :
          Press("customers", {Ask("delete", list[n].environment, list[n].part)})

\* The timer: it stands down once the operator has paged deeper.
Poll == ~appended /\ list # <<>> /\ Press("payments", {Ask("list", selected, 1)})

PaymentsPressed ==
    \/ HasMore /\ Press("payments", {Ask("list", selected, pages + 1)})
    \/ NotBusy("refresh") /\ Press("payments", {Ask("refresh", selected, 1)})
    \/ manages /\ side # <<>> /\ NotBusy("create") /\ Press("payments", {Ask("create", selected, 1)})
    \/ \E e \in Shows(list) : Press("payments", {Ask("view", e, 1)})

RefundsPressed ==
    \/ HasMore /\ Press("refunds", {Ask("list", selected, pages + 1)})
    \/ detail # NONE /\ Press("refunds", {Ask("side", detail, 1)})
    \/ detail # NONE /\ manages /\ NotBusy("create") /\ Press("refunds", {Ask("create", detail, 1)})

\* selectPayment clears the pane and compares the answer with the environment it closed over.
selectPayment ==
    \E e \in Shows(list) :
        /\ open = "refunds" /\ Displayed /\ consoleActs < MaxConsoleActs /\ consoleActs' = consoleActs + 1
        /\ pending' = pending \cup IF e = selected THEN {Ask("view", e, 1)} ELSE {}
        /\ side' = <<>> /\ detail' = NONE
        /\ UNCHANGED <<open, selected, consoleView, list, deliveries, appended, pages, revealed, burnt>>

WebhooksPressed ==
    \/ HasMore /\ Press("webhooks", {Ask("list", selected, pages + 1)})
    \/ Press("webhooks", {Ask("side", selected, 1)})                \* the type filter changes
    \/ manages /\ NotBusy("create") /\ Press("webhooks", {Ask("create", selected, 1)})
    \/ detail # NONE /\ Press("webhooks", {Ask("deliveries", detail, 1)})
    \/ manages /\ detail # NONE /\ Press("webhooks", {Ask("replay", detail, 1)})
    \/ manages /\ \E n \in 1 .. Len(list) :
          Press("webhooks", {Ask("delete", list[n].environment, list[n].part)})

\* An endpoint is selected by the click itself, its deliveries by the answer.
onSelect ==
    \E e \in Shows(list) :
        /\ open = "webhooks" /\ Displayed /\ consoleActs < MaxConsoleActs /\ consoleActs' = consoleActs + 1
        /\ detail' = e /\ pending' = pending \cup {Ask("deliveries", e, 1)}
        /\ UNCHANGED <<open, selected, consoleView, list, side, deliveries, appended, pages, revealed, burnt>>

Dismiss ==
    /\ open = "webhooks" /\ Displayed /\ revealed # NONE /\ revealed' = NONE
    /\ UNCHANGED <<open, selected, consoleView, list, side, deliveries, detail, appended, pages,
                   pending, burnt, consoleActs>>

(***************************************************************************)
(* Answers.                                                                *)
(***************************************************************************)

Answered(c, next) ==
    /\ c \in pending /\ pending' = (pending \ {c}) \cup next
    /\ UNCHANGED <<open, selected, burnt, consoleActs>>

Then(what, c) == {[c EXCEPT !.what = what, !.part = 1]}

After(c) == CASE c.what = "create" /\ open \in {"customers", "payments"} -> Then("list", c)
              [] c.what = "create" /\ open = "refunds" -> Then("reload", c)
              [] c.what = "reload" -> Then("fresh", c)
              [] c.what = "refresh" /\ c.of # NONE -> {[c EXCEPT !.what = "view", !.environment = c.of]}
              [] c.what = "main" /\ c.live /\ open = "webhooks" -> {Ask("side", selected, 1)}
              [] c.what = "replay" -> Then("deliveries", c)
              [] OTHER -> {}

Failed(c) ==
    /\ Answered(c, IF c.what \in {"refresh", "reload", "main"} THEN After(c) ELSE {})
    /\ loading' = (loading /\ ~(c.live /\ c.what \in {"list", "project", "main", "linked", "refresh"}))
    /\ \/ consoleProject' = consoleProject
       \/ c.live /\ c.what \in {"project", "main"} /\ consoleProject' = "notFound"
    /\ side' = IF c.live /\ c.what = "options" THEN <<>> ELSE side
    /\ UNCHANGED <<manages, list, deliveries, detail, appended, pages, revealed>>

projectAnswered(c) ==
    /\ c.what = "project" /\ consoleProject' = "ready" /\ loading' = FALSE /\ manages' \in BOOLEAN
    /\ Answered(c, IF open = "payments" /\ manages' THEN {Ask("options", selected, 1)} ELSE {})
    /\ UNCHANGED consoleData

Loaded(c) == IF c.part = 1 THEN <<Part(c.environment, 1)>> ELSE Append(list, Part(c.environment, c.part))

loadCustomers(c) ==
    /\ open = "customers" /\ c.what = "list" /\ Answered(c, {})
    /\ list' = Loaded(c) /\ pages' = c.part /\ loading' = FALSE
    /\ UNCHANGED <<consoleProject, manages, side, deliveries, detail, appended, revealed>>

loadPayments(c) ==
    /\ open = "payments" /\ c.what \in {"list", "refresh"} /\ Answered(c, After(c))
    /\ list' = Loaded(c) /\ pages' = c.part /\ loading' = FALSE /\ appended' = (c.part > 1)
    /\ UNCHANGED <<consoleProject, manages, side, deliveries, detail, revealed>>

\* loadMorePayments and loadEndpoints.
loadOthers(c) ==
    /\ open \in {"refunds", "webhooks"} /\ c.what = "list" /\ Answered(c, {})
    /\ list' = Append(list, Part(c.environment, c.part)) /\ pages' = c.part
    /\ UNCHANGED <<consoleView, side, deliveries, detail, appended, revealed>>

customerOptions(c) ==
    /\ c.what = "options" /\ Answered(c, {})
    /\ side' = IF c.live THEN <<Part(c.environment, 1)>> ELSE side
    /\ UNCHANGED <<consoleView, list, deliveries, detail, appended, pages, revealed>>

\* loadRefunds and loadEvents.
loadSide(c) ==
    /\ c.what \in {"side", "reload"} /\ Answered(c, After(c)) /\ side' = <<Part(c.environment, 1)>>
    /\ UNCHANGED <<consoleView, list, deliveries, detail, appended, pages, revealed>>

loadDeliveries(c) ==
    /\ c.what = "deliveries" /\ Answered(c, {}) /\ deliveries' = <<Part(c.environment, 1)>>
    /\ UNCHANGED <<consoleView, list, side, detail, appended, pages, revealed>>

\* retrieveCustomer, retrievePayment, updateCustomer; on the refunds page, its refunds next.
onView(c) ==
    /\ c.what \in {"view", "save"} /\ detail' = c.environment
    /\ Answered(c, IF open = "refunds" THEN Then("side", c) ELSE {})
    /\ UNCHANGED <<consoleView, list, side, deliveries, appended, pages, revealed>>

freshPayment(c) ==
    /\ c.what = "fresh" /\ Answered(c, {})
    /\ detail' = IF c.environment = c.under THEN c.environment ELSE detail
    /\ UNCHANGED <<consoleView, list, side, deliveries, appended, pages, revealed>>

\* The new endpoint is appended, and its secret shown.
onCreate(c) ==
    /\ c.what = "create" /\ Answered(c, After(c))
    /\ IF open = "webhooks"
       THEN revealed' = c.by /\ list' = Append(list, Part(c.environment, LastPart))
       ELSE UNCHANGED <<revealed, list>>
    /\ UNCHANGED <<consoleView, side, deliveries, detail, appended, pages>>

onReplay(c) == c.what = "replay" /\ Answered(c, After(c)) /\ UNCHANGED <<consoleView, consoleData>>

onDelete(c) ==
    /\ c.what = "delete" /\ Answered(c, {})
    /\ list' = SelectSeq(list, LAMBDA row : row # Part(c.environment, c.part))
    /\ \/ c.of = c.environment /\ detail' = NONE
          /\ deliveries' = IF open = "webhooks" THEN <<>> ELSE deliveries
       \/ UNCHANGED <<detail, deliveries>>
    /\ UNCHANGED <<consoleView, side, appended, pages, revealed>>

\* Webhooks: loading ends, which makes the event filter's effect ask once more.
mainWebhooks(c) ==
    /\ open = "webhooks" /\ c.what = "main"
    /\ IF c.live THEN /\ consoleProject' = "ready" /\ manages' \in BOOLEAN /\ loading' = FALSE
                      /\ list' = <<Part(c.environment, 1)>> /\ side' = list' /\ pages' = 1
       ELSE UNCHANGED <<consoleView, list, side, pages>>
    /\ Answered(c, After(c))
    /\ UNCHANGED <<deliveries, detail, appended, revealed>>

\* Refunds: a payment in the link is fetched next, before loading ends.
mainRefunds(c) ==
    /\ open = "refunds" /\ c.what = "main"
    /\ IF c.live THEN /\ consoleProject' = "ready" /\ manages' \in BOOLEAN
                      /\ list' = <<Part(c.environment, 1)>> /\ pages' = 1
                      /\ \/ loading' = FALSE /\ Answered(c, {})
                         \/ loading' = loading /\ Answered(c, Then("linked", c))
       ELSE Answered(c, {}) /\ UNCHANGED <<consoleView, list, pages>>
    /\ UNCHANGED <<side, deliveries, detail, appended, revealed>>

\* The linked payment is opened only when it is of the selected environment.
linkedPayment(c) ==
    /\ c.what = "linked"
    /\ \/ c.live /\ loading' = FALSE /\ detail' = c.environment /\ Answered(c, Then("side", c))
       \/ c.live /\ loading' = FALSE /\ detail' = detail /\ Answered(c, {})
       \/ ~c.live /\ UNCHANGED <<loading, detail>> /\ Answered(c, {})
    /\ UNCHANGED <<consoleProject, manages, list, side, deliveries, appended, pages, revealed>>

ConsoleNext ==
    \/ SwitchCustomers \/ SwitchPayments \/ SwitchRefunds \/ SwitchWebhooks
    \/ CustomersPressed \/ Poll \/ PaymentsPressed \/ RefundsPressed \/ selectPayment
    \/ WebhooksPressed \/ onSelect \/ Dismiss
    \/ \E c \in pending :
          \/ Failed(c) \/ projectAnswered(c) \/ loadCustomers(c) \/ loadPayments(c) \/ loadOthers(c)
          \/ customerOptions(c) \/ loadSide(c) \/ loadDeliveries(c) \/ onView(c) \/ freshPayment(c)
          \/ onCreate(c) \/ onReplay(c) \/ onDelete(c)
          \/ mainWebhooks(c) \/ mainRefunds(c) \/ linkedPayment(c)

ConsoleSpec == ConsoleInit /\ [][ConsoleNext]_consoleVars

(***************************************************************************)
(* Properties.                                                             *)
(***************************************************************************)

\* "A reload (or an environment change) must never re-show secret material": a signing secret
\* that was on display when the environment changed is not displayed again, whatever answers
\* arrive later.
SecretNotReshown == revealed \notin burnt

\* "TEST/LIVE data is never mixed": the rows of a table are of one environment.
NeverMixed == \A n, k \in 1 .. Len(list) : list[n].environment = list[k].environment
===============================================================================
