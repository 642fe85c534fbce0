-------------------------------- MODULE KeysPage --------------------------------
(***************************************************************************)
(* The project shell and the API-key page of the dashboard (apps/web,      *)
(* projects/[projectId] and api-keys).  The load has no clean-up: it comes *)
(* in whenever it does.  A rotation is two calls, the second one made when *)
(* the first is answered.                                                  *)
(***************************************************************************)
EXTENDS Naturals, Absence

CONSTANTS KeyViews,         \* of shell and keys
          KeyEnvironments,
          Issued,           \* ids of API keys
          MaxKeyActs        \* bound of the model: presses, effects and changes by others

ASSUME KeysAssumption == "test" \in KeyEnvironments /\ MaxKeyActs \in Nat

ASSUME NoneIsNoKey == NONE \notin Issued \cup {"ok", "failed", "active", "revoked"}

VARIABLES keyView,
          chosen,       \* the environment of the query
          keyFrame,     \* loading, whether a project is known, notFound, whether the page is left
          manager,      \* canManage
          keyRows,      \* keys: whether each row on display is active or revoked
          formFor,      \* createEnvironment
          plain,        \* revealed
          rotateSource,
          keyCalls,     \* calls in flight
          issued,       \* server: the keys of the project, or "deleted" for all of it
          mayManage,    \* server: the reader is an owner or an admin
          keyActs

keyServer == <<issued, mayManage>>
keyShown == <<keyRows, plain, rotateSource>>
keyVars == <<keyView, chosen, keyFrame, manager, keyShown, formFor, keyCalls, keyServer, keyActs>>

KeyState == {"active", "revoked", NONE}

KeyTable == [project : {"live", "deleted"}, state : [Issued -> KeyState],
             environment : [Issued -> KeyEnvironments \cup {NONE}]]

KeyFrame == [loading : BOOLEAN, known : BOOLEAN, missing : BOOLEAN, left : BOOLEAN]

KeyLoading == [op : {"load"}, project : {NONE, "found", "missing"},
               role : [manages : BOOLEAN] \cup {NONE}, rows : [Issued -> KeyState] \cup {NONE},
               by : 0 .. MaxKeyActs]

KeyChange == [op : {"create", "revoke"}, key : Issued \cup {NONE},
              environment : KeyEnvironments \cup {NONE}, rotates : Issued \cup {NONE},
              made : Issued \cup {NONE}, answer : {NONE, "ok", "failed"}, by : 0 .. MaxKeyActs]

KeysTypeOK ==
    /\ {chosen, formFor} \subseteq KeyEnvironments /\ keyFrame \in KeyFrame
    /\ manager \in BOOLEAN /\ mayManage \in BOOLEAN
    /\ keyRows \in [Issued -> KeyState] /\ issued \in KeyTable
    /\ {plain, rotateSource} \subseteq Issued \cup {NONE}
    /\ keyCalls \subseteq KeyLoading \cup KeyChange /\ keyActs \in 0 .. MaxKeyActs

KeyLoad == [op |-> "load", project |-> NONE, role |-> NONE, rows |-> NONE, by |-> keyActs]

KeyOpened == [loading |-> TRUE, known |-> FALSE, missing |-> FALSE, left |-> FALSE]

KeysInit ==
    /\ keyActs = 0 /\ keyView \in KeyViews /\ chosen \in KeyEnvironments /\ formFor = chosen
    /\ keyFrame = KeyOpened /\ manager = FALSE
    /\ keyRows = [k \in Issued |-> NONE] /\ plain = NONE /\ rotateSource = NONE
    /\ keyCalls = {KeyLoad}
    /\ mayManage \in BOOLEAN
    /\ \E state \in [Issued -> KeyState] :
          issued = [project |-> "live", state |-> state,
                    environment |-> [k \in Issued |-> IF state[k] = NONE THEN NONE ELSE "test"]]

KeyAct == keyActs < MaxKeyActs /\ keyActs' = keyActs + 1

KeyScreen == ~keyFrame.loading /\ keyFrame.known /\ ~keyFrame.missing /\ ~keyFrame.left

--------------------------------------------------------------------------------
(* Effects *)

\* Of the key page: it takes the environment over, forgets the plain text and loads.
keysEffect(e) ==
    /\ formFor' = e /\ plain' = NONE
    /\ keyFrame' = [keyFrame EXCEPT !.loading = TRUE] /\ keyCalls' = keyCalls \cup {KeyLoad}

\* The shell's selector rewrites the query; its own effect does not depend on it.
selectEnvironment ==
    /\ KeyAct /\ \E e \in KeyEnvironments \ {chosen} :
          /\ chosen' = e
          /\ IF keyView = "keys" THEN keysEffect(e) ELSE KeyScreen /\ UNCHANGED <<formFor, plain, keyFrame, keyCalls>>
    /\ UNCHANGED <<keyView, manager, keyRows, rotateSource, keyServer>>

KeyTokenRenewed ==
    /\ KeyAct /\ ~keyFrame.left
    /\ IF keyView = "keys" THEN keysEffect(chosen)
       ELSE /\ keyFrame' = [keyFrame EXCEPT !.loading = TRUE] /\ keyCalls' = keyCalls \cup {KeyLoad}
            /\ UNCHANGED <<formFor, plain>>
    /\ UNCHANGED <<keyView, chosen, manager, keyRows, rotateSource, keyServer>>

--------------------------------------------------------------------------------
(* The server *)

Replaced(c, d) == c \in keyCalls /\ keyCalls' = (keyCalls \ {c}) \cup {d}

NewKey(k, e) ==
    /\ issued.state[k] = NONE
    /\ issued' = [issued EXCEPT !.state[k] = "active", !.environment[k] = e]

\* Revoking a revoked key changes nothing and succeeds.
RevokeKey(k) == issued.state[k] # NONE /\ issued' = [issued EXCEPT !.state[k] = "revoked"]

Admitted == mayManage /\ issued.project = "live"

\* What was done may be answered in vain: a lost answer is a failure to the page.
KeyServed(c) ==
    /\ c.op \in {"create", "revoke"} /\ c.answer = NONE
    /\ \/ /\ Admitted /\ c.op = "create" /\ \E k \in Issued, answer \in {"ok", "failed"} :
             NewKey(k, c.environment) /\ Replaced(c, [c EXCEPT !.answer = answer, !.made = k])
       \/ /\ Admitted /\ c.op = "revoke" /\ \E answer \in {"ok", "failed"} :
             RevokeKey(c.key) /\ Replaced(c, [c EXCEPT !.answer = answer])
       \/ /\ Replaced(c, [c EXCEPT !.answer = "failed"]) /\ UNCHANGED issued
    /\ UNCHANGED <<keyView, chosen, keyFrame, manager, keyShown, formFor, mayManage, keyActs>>

\* Others create and revoke keys, promote and demote the reader, and delete the project.
KeysElsewhere ==
    /\ KeyAct
    /\ \/ mayManage' = ~mayManage /\ UNCHANGED issued
       \/ /\ issued.project = "live" /\ UNCHANGED mayManage
          /\ \/ issued' = [issued EXCEPT !.project = "deleted", !.state = [k \in Issued |-> NONE]]
             \/ \E k \in Issued : RevokeKey(k) \/ \E e \in KeyEnvironments : NewKey(k, e)
    /\ UNCHANGED <<keyView, chosen, keyFrame, manager, keyShown, formFor, keyCalls>>

\* The project, then its keys and the roster that tells the role.
KeyRead(l) ==
    /\ l.op = "load"
    /\ \/ l.project = NONE /\ Replaced(l, [l EXCEPT !.project = IF issued.project = "live" THEN "found" ELSE "missing"])
       \/ l.project = "found" /\ l.rows = NONE /\ keyView = "keys" /\ Replaced(l, [l EXCEPT !.rows = issued.state])
       \/ /\ l.project = "found" /\ l.role = NONE
          /\ \E role \in {FALSE, mayManage} : Replaced(l, [l EXCEPT !.role = [manages |-> role]])
    /\ UNCHANGED <<keyView, chosen, keyFrame, manager, keyShown, formFor, keyServer, keyActs>>

--------------------------------------------------------------------------------
(* The reader *)

KeyCall(op, k, e, rotation) ==
    [op |-> op, key |-> k, environment |-> e, rotates |-> rotation, made |-> NONE, answer |-> NONE, by |-> keyActs]

Creating == \E c \in keyCalls : c.op = "create" \/ (c.op = "revoke" /\ c.rotates # NONE)

KeyPressed(c, source) ==
    /\ keyView = "keys" /\ KeyScreen /\ manager /\ KeyAct
    /\ keyCalls' = keyCalls \cup {c} /\ rotateSource' = source
    /\ UNCHANGED <<keyView, chosen, keyFrame, manager, keyRows, plain, formFor, keyServer>>

onPickEnvironment ==
    /\ keyView = "keys" /\ KeyScreen /\ manager /\ \E e \in KeyEnvironments \ {formFor} : formFor' = e
    /\ UNCHANGED <<keyView, chosen, keyFrame, manager, keyShown, keyCalls, keyServer, keyActs>>

onCreateKey == ~Creating /\ KeyPressed(KeyCall("create", NONE, formFor, NONE), NONE)

onRevoke ==
    \E k \in Issued : keyRows[k] = "active" /\ KeyPressed(KeyCall("revoke", k, NONE, NONE), rotateSource)

\* The button stands at the rows that are revoked already.
onRotate ==
    \E k \in Issued : keyRows[k] = "revoked" /\ KeyPressed(KeyCall("create", k, issued.environment[k], k), rotateSource)

\* Done dismisses the plain text.
onDone ==
    /\ keyView = "keys" /\ KeyScreen /\ plain # NONE /\ plain' = NONE
    /\ UNCHANGED <<keyView, chosen, keyFrame, manager, keyRows, rotateSource, formFor, keyCalls, keyServer, keyActs>>

onDeleteProject ==
    /\ keyView = "shell" /\ KeyScreen /\ manager /\ KeyAct
    /\ \/ /\ Admitted /\ issued' = [issued EXCEPT !.project = "deleted", !.state = [k \in Issued |-> NONE]]
          /\ keyFrame' = [keyFrame EXCEPT !.left = TRUE]
       \/ UNCHANGED <<issued, keyFrame>>
    /\ UNCHANGED <<keyView, chosen, manager, keyShown, formFor, keyCalls, mayManage>>

--------------------------------------------------------------------------------
(* Answers *)

Dropped(c) == c \in keyCalls /\ keyCalls' = keyCalls \ {c}

\* The shell knows its project before the role; a failure shows an alert or, for a 404, notFound.
KeysLanded(l) ==
    /\ l.op = "load" /\ Dropped(l)
    /\ \/ /\ l.project = "found" /\ l.role # NONE /\ (keyView = "keys" => l.rows # NONE)
          /\ manager' = l.role.manages
          /\ keyRows' = IF keyView = "keys" THEN l.rows ELSE keyRows
          /\ keyFrame' = [keyFrame EXCEPT !.loading = FALSE, !.known = TRUE, !.missing = FALSE]
       \/ /\ l.project = "missing" /\ keyFrame' = [keyFrame EXCEPT !.loading = FALSE, !.missing = TRUE]
          /\ UNCHANGED <<manager, keyRows>>
       \/ /\ l.project # "missing" /\ keyFrame' = [keyFrame EXCEPT !.loading = FALSE]
          /\ UNCHANGED <<manager, keyRows>>
    /\ UNCHANGED <<keyView, chosen, plain, rotateSource, formFor, keyServer, keyActs>>

Prepended(rows, k) == [rows EXCEPT ![k] = "active"]

\* Mutant: the row is marked whatever the answer is.
MarkedAnyway(c, rows) == [rows EXCEPT ![c.key] = IF @ = NONE THEN NONE ELSE "revoked"]

\* The row that an answered revocation marks, if it is still on display.
Marked(c, rows) ==
    IF c.answer = "ok" /\ rows[c.key] # NONE THEN [rows EXCEPT ![c.key] = "revoked"] ELSE rows

\* A rotation reveals the new key at once, and lists it only when the old one is revoked.
CreatedKey(c) ==
    /\ c.op = "create" /\ c.answer = "ok" /\ plain' = c.made
    /\ IF c.rotates = NONE
       THEN /\ Dropped(c) /\ keyRows' = Prepended(keyRows, c.made) /\ UNCHANGED rotateSource
       ELSE /\ rotateSource' = c.rotates /\ UNCHANGED keyRows
            /\ Replaced(c, [c EXCEPT !.op = "revoke", !.answer = NONE])
    /\ UNCHANGED <<keyView, chosen, keyFrame, manager, formFor, keyServer, keyActs>>

KeyRefused(c) ==
    /\ c.op = "create" /\ c.answer = "failed" /\ Dropped(c)
    /\ UNCHANGED <<keyView, chosen, keyFrame, manager, keyShown, formFor, keyServer, keyActs>>

RevokedKey(c) ==
    /\ c.op = "revoke" /\ c.answer # NONE /\ Dropped(c)
    /\ keyRows' = IF c.rotates # NONE /\ c.answer = "ok" THEN Prepended(Marked(c, keyRows), c.made)
                                                         ELSE Marked(c, keyRows)
    /\ UNCHANGED <<keyView, chosen, keyFrame, manager, plain, rotateSource, formFor, keyServer, keyActs>>

KeysNext ==
    \/ selectEnvironment \/ KeyTokenRenewed \/ KeysElsewhere \/ onPickEnvironment \/ onCreateKey
    \/ onRevoke \/ onRotate \/ onDone \/ onDeleteProject
    \/ \E c \in keyCalls :
          \/ KeyServed(c) \/ KeyRead(c) \/ KeysLanded(c) \/ CreatedKey(c) \/ KeyRefused(c) \/ RevokedKey(c)

KeysSpec == KeysInit /\ [][KeysNext]_keyVars

--------------------------------------------------------------------------------
(* Properties *)

(* A key that the page calls revoked opens nothing any more, whatever      *)
(* loads, rotations, failures and other administrators are under way: the  *)
(* reader who has seen it may stop worrying.                               *)
RevokedMeansRevoked ==
    \A k \in Issued : keyRows[k] = "revoked" => issued.state[k] # "active"
================================================================================
