------------------------------ MODULE ConsoleProofs ------------------------------
(***************************************************************************)
(* Proofs about the pages of the dashboard, for any environments, keys,    *)
(* tenants, accounts, projects, lists and any number of answers in flight: *)
(* what each page shows is true of the server, or of one list, however     *)
(* loads, answers, failures and other people's changes interleave.         *)
(***************************************************************************)
EXTENDS KeysPage, ListPages, RosterPage, LogPages, ConsolePages, SequenceTheorems, TLAPS

--------------------------------------------------------------------------------
(* The API-key page *)

(* A key is buried when it can never open anything again: it is revoked,   *)
(* or the whole project is deleted.                                        *)
Buried(k) == issued.state[k] = "revoked" \/ issued.project = "deleted"

(* What a call of the page says of revoked keys is true: each is buried,   *)
(* and so is the key of a revocation that succeeded.                       *)
KeyCallInv(c) ==
    /\ c.op = "load" /\ c.rows # NONE => \A k \in Issued : c.rows[k] = "revoked" => Buried(k)
    /\ c.op = "revoke" => c.key \in Issued /\ (c.answer = "ok" => Buried(c.key))
    /\ c.op = "create" => /\ c.rotates # NONE => c.key \in Issued
                          /\ c.answer = "ok" => c.made \in Issued

(* A deleted project has no keys, and whatever the page or a call calls    *)
(* revoked is buried.                                                      *)
KeysInv ==
    /\ issued.project = "deleted" => \A k \in Issued : issued.state[k] = NONE
    /\ \A k \in Issued : keyRows[k] = "revoked" => Buried(k)
    /\ \A c \in keyCalls : KeyCallInv(c)

(* The two kinds of calls are told apart by their operation.               *)
LEMMA KeyCallKinds ==
    ASSUME NEW c \in KeyLoading \cup KeyChange
    PROVE  /\ c.op = "load" => c \in KeyLoading
           /\ c.op \in {"create", "revoke"} => c \in KeyChange
BY DEF KeyLoading, KeyChange

(* What others and the reader may do to the keys of the project.           *)
KeyTableStep ==
    \/ UNCHANGED issued
    \/ issued.project = "live" /\ \E k \in Issued, e \in KeyEnvironments \cup {NONE} : NewKey(k, e)
    \/ \E k \in Issued : RevokeKey(k)
    \/ issued' = [issued EXCEPT !.project = "deleted", !.state = [k \in Issued |-> NONE]]

(* Whatever happens to the keys, what is buried stays buried and a deleted *)
(* project stays empty.                                                    *)
LEMMA BuriedForGood ==
    ASSUME issued \in KeyTable, KeyTableStep,
           issued.project = "deleted" => \A k \in Issued : issued.state[k] = NONE
    PROVE  /\ issued' \in KeyTable
           /\ \A k \in Issued : Buried(k) => Buried(k)'
           /\ issued'.project = "deleted" => \A k \in Issued : issued'.state[k] = NONE
<1>1. CASE UNCHANGED issued
  BY <1>1 DEF Buried
<1>2. ASSUME issued.project = "live", NEW k \in Issued, NEW e \in KeyEnvironments \cup {NONE}, NewKey(k, e)
      PROVE  /\ issued' \in KeyTable
             /\ \A j \in Issued : Buried(j) => Buried(j)'
             /\ issued'.project = "deleted" => \A j \in Issued : issued'.state[j] = NONE
  <2>1. /\ issued' \in KeyTable /\ issued'.project = "live"
        /\ issued'.state = [issued.state EXCEPT ![k] = "active"]
    BY <1>2 DEF NewKey, KeyTable, KeyState
  <2>2. issued.state \in [Issued -> KeyState] /\ issued.state[k] = NONE
    BY <1>2 DEF NewKey, KeyTable
  <2>3. ASSUME NEW j \in Issued, Buried(j)
        PROVE  Buried(j)'
    <3>1. issued.state[j] = "revoked" /\ issued.state[k] = NONE /\ issued.state \in [Issued -> KeyState]
      BY <1>2, <2>3 DEF Buried, NewKey, KeyTable
    <3>2. j # k
      BY <3>1, NoneIsNoKey
    <3> QED BY <2>1, <3>1, <3>2 DEF Buried
  <2> QED BY <2>1, <2>3
<1>3. ASSUME NEW k \in Issued, RevokeKey(k)
      PROVE  /\ issued' \in KeyTable
             /\ \A j \in Issued : Buried(j) => Buried(j)'
             /\ issued'.project = "deleted" => \A j \in Issued : issued'.state[j] = NONE
  <2>1. /\ issued' \in KeyTable /\ issued'.project = issued.project
        /\ issued'.state = [issued.state EXCEPT ![k] = "revoked"]
        /\ issued.state \in [Issued -> KeyState] /\ issued.state[k] # NONE
    BY <1>3 DEF RevokeKey, KeyTable, KeyState
  <2> QED BY <2>1 DEF Buried
<1>4. CASE issued' = [issued EXCEPT !.project = "deleted", !.state = [k \in Issued |-> NONE]]
  BY <1>4 DEF Buried, KeyTable, KeyState
<1> QED BY <1>1, <1>2, <1>3, <1>4 DEF KeyTableStep

(* A call keeps its invariant while the keys change.                       *)
LEMMA KeyCallInvStays ==
    ASSUME NEW c \in KeyLoading \cup KeyChange, KeyCallInv(c), \A k \in Issued : Buried(k) => Buried(k)'
    PROVE  KeyCallInv(c)'
BY DEF KeyCallInv

(* A step that changes the keys as KeyTableStep says, and whose calls and  *)
(* rows say nothing new of revoked keys, keeps the invariant.              *)
LEMMA KeysInvKept ==
    ASSUME KeysTypeOK, KeysInv, KeyTableStep,
           \A k \in Issued : keyRows'[k] = "revoked" => Buried(k)',
           \A c \in keyCalls' : c \in keyCalls \/ KeyCallInv(c)'
    PROVE  KeysInv'
<1>1. /\ \A k \in Issued : Buried(k) => Buried(k)'
      /\ issued'.project = "deleted" => \A k \in Issued : issued'.state[k] = NONE
  BY BuriedForGood DEF KeysTypeOK, KeysInv
<1>2. ASSUME NEW c \in keyCalls'
      PROVE  KeyCallInv(c)'
  BY <1>1, <1>2, KeyCallInvStays DEF KeysTypeOK, KeysInv
<1> QED BY <1>1, <1>2 DEF KeysInv

(* A fresh load, like a fresh press, says nothing of any key yet.          *)
LEMMA KeyLoadIsFresh ==
    ASSUME KeysTypeOK
    PROVE  KeyLoad \in KeyLoading /\ \A c : c = KeyLoad => KeyCallInv(c)'
BY DEF KeysTypeOK, KeyLoad, KeyLoading, KeyCallInv

(* The page opens with no row shown and one load in flight.                *)
LEMMA KeysInitially == KeysInit => KeysTypeOK /\ KeysInv
<1> SUFFICES ASSUME KeysInit PROVE KeysTypeOK /\ KeysInv
  OBVIOUS
<1>1. PICK state \in [Issued -> KeyState] :
         issued = [project |-> "live", state |-> state,
                   environment |-> [k \in Issued |-> IF state[k] = NONE THEN NONE ELSE "test"]]
  BY DEF KeysInit
<1>2. issued \in KeyTable /\ issued.project = "live"
  BY <1>1, KeysAssumption DEF KeyTable
<1>3. keyRows \in [Issued -> KeyState] /\ \A k \in Issued : keyRows[k] = NONE
  BY DEF KeysInit, KeyState
<1>4. KeyLoad \in KeyLoading /\ KeyLoad.op = "load" /\ KeyLoad.rows = NONE
  BY KeysAssumption DEF KeysInit, KeyLoad, KeyLoading
<1>5. KeysTypeOK
  <2>1. keyFrame \in KeyFrame
    BY DEF KeysInit, KeyFrame, KeyOpened
  <2>2. manager \in BOOLEAN /\ mayManage \in BOOLEAN
    BY DEF KeysInit
  <2>3. {chosen, formFor} \subseteq KeyEnvironments /\ {plain, rotateSource} \subseteq Issued \cup {NONE}
    BY DEF KeysInit
  <2>4. keyCalls \subseteq KeyLoading \cup KeyChange /\ keyActs \in 0 .. MaxKeyActs
    BY <1>4, KeysAssumption DEF KeysInit
  <2> QED BY <1>2, <1>3, <2>1, <2>2, <2>3, <2>4 DEF KeysTypeOK
<1>6. KeysInv
  BY <1>2, <1>3, <1>4, NoneIsNoKey DEF KeysInit, KeysInv, KeyCallInv
<1> QED BY <1>5, <1>6

(* The effects of the key page and of the shell.                           *)
LEMMA KeyEffectsKeep ==
    ASSUME KeysTypeOK, KeysInv, selectEnvironment \/ KeyTokenRenewed
    PROVE  KeysTypeOK' /\ KeysInv'
<1>1. /\ UNCHANGED <<keyView, manager, keyRows, rotateSource, issued, mayManage>>
      /\ keyActs' \in 0 .. MaxKeyActs /\ chosen' \in KeyEnvironments /\ formFor' \in KeyEnvironments
      /\ plain' \in Issued \cup {NONE} /\ keyCalls' \subseteq keyCalls \cup {KeyLoad}
      /\ keyFrame' = keyFrame \/ keyFrame' = [keyFrame EXCEPT !.loading = TRUE]
  BY KeysAssumption DEF selectEnvironment, KeyTokenRenewed, keysEffect, KeyAct, keyServer, KeysTypeOK
<1>2. keyFrame' \in KeyFrame
  BY <1>1 DEF KeysTypeOK, KeyFrame
<1>3. KeyLoad \in KeyLoading /\ \A c : c = KeyLoad => KeyCallInv(c)'
  BY KeyLoadIsFresh
<1>4. KeysTypeOK'
  BY <1>1, <1>2, <1>3 DEF KeysTypeOK
<1>5. \A k \in Issued : keyRows'[k] = "revoked" => Buried(k)'
  BY <1>1 DEF KeysInv, Buried
<1>6. \A c \in keyCalls' : c \in keyCalls \/ KeyCallInv(c)'
  BY <1>1, <1>3
<1> QED BY <1>1, <1>4, <1>5, <1>6, KeysInvKept DEF KeyTableStep

(* What others do to the keys, the project and the reader's role.          *)
LEMMA KeysElsewhereKeeps ==
    ASSUME KeysTypeOK, KeysInv, KeysElsewhere
    PROVE  KeysTypeOK' /\ KeysInv'
<1>1. /\ UNCHANGED <<keyView, chosen, keyFrame, manager, keyRows, plain, rotateSource, formFor, keyCalls>>
      /\ KeyTableStep /\ keyActs' \in 0 .. MaxKeyActs
  BY KeysAssumption DEF KeysElsewhere, KeyTableStep, KeyAct, keyShown, KeysTypeOK
<1>2. mayManage' \in BOOLEAN
  BY Zenon DEF KeysElsewhere, KeysTypeOK
<1>3. issued' \in KeyTable /\ \A k \in Issued : Buried(k) => Buried(k)'
  BY <1>1, BuriedForGood DEF KeysTypeOK, KeysInv
<1>4. KeysTypeOK'
  BY <1>1, <1>2, <1>3 DEF KeysTypeOK
<1>5. \A k \in Issued : keyRows'[k] = "revoked" => Buried(k)'
  BY <1>1, <1>3 DEF KeysInv
<1> QED BY <1>1, <1>4, <1>5, KeysInvKept

(* A call served: what it did to the keys, and what its answer says.       *)
LEMMA KeyServedKeeps ==
    ASSUME KeysTypeOK, KeysInv, NEW c \in keyCalls, KeyServed(c)
    PROVE  KeysTypeOK' /\ KeysInv'
<1>1. /\ UNCHANGED <<keyView, chosen, keyFrame, manager, keyRows, plain, rotateSource, formFor, mayManage, keyActs>>
      /\ c \in KeyChange /\ KeyCallInv(c) /\ c.op \in {"create", "revoke"} /\ c.answer = NONE
  <2>1. c.op \in {"create", "revoke"} /\ c \in KeyLoading \cup KeyChange
    BY DEF KeyServed, KeysTypeOK
  <2> QED BY <2>1, KeyCallKinds DEF KeyServed, KeysInv, keyShown
<1>2. \E d \in KeyChange :
         /\ keyCalls' = (keyCalls \ {c}) \cup {d} /\ KeyTableStep /\ KeyCallInv(d)'
  <2>1. CASE Admitted /\ c.op = "create" /\ \E k \in Issued, answer \in {"ok", "failed"} :
               NewKey(k, c.environment) /\ Replaced(c, [c EXCEPT !.answer = answer, !.made = k])
    <3>1. PICK k \in Issued : \E answer \in {"ok", "failed"} :
                 NewKey(k, c.environment) /\ Replaced(c, [c EXCEPT !.answer = answer, !.made = k])
      BY <2>1
    <3>2. PICK answer \in {"ok", "failed"} :
                 NewKey(k, c.environment) /\ Replaced(c, [c EXCEPT !.answer = answer, !.made = k])
      BY <3>1
    <3> DEFINE d == [c EXCEPT !.answer = answer, !.made = k]
    <3>3. d \in KeyChange /\ d.op = "create" /\ d.key = c.key /\ d.rotates = c.rotates /\ d.made = k
      BY <1>1, <2>1 DEF KeyChange
    <3>4. keyCalls' = (keyCalls \ {c}) \cup {d}
      BY <3>2 DEF Replaced
    <3>5. KeyTableStep
      BY <1>1, <2>1, <3>2 DEF KeyTableStep, Admitted, KeyChange
    <3> HIDE DEF d
    <3>6. KeyCallInv(d)'
      BY <1>1, <2>1, <3>3 DEF KeyCallInv
    <3> QED BY <3>3, <3>4, <3>5, <3>6
  <2>2. CASE Admitted /\ c.op = "revoke" /\ \E answer \in {"ok", "failed"} :
               RevokeKey(c.key) /\ Replaced(c, [c EXCEPT !.answer = answer])
    <3>1. PICK answer \in {"ok", "failed"} : RevokeKey(c.key) /\ Replaced(c, [c EXCEPT !.answer = answer])
      BY <2>2
    <3> DEFINE d == [c EXCEPT !.answer = answer]
    <3>2. d \in KeyChange /\ d.op = "revoke" /\ d.key = c.key
      BY <1>1, <2>2 DEF KeyChange
    <3>3. c.key \in Issued
      BY <1>1, <2>2 DEF KeyCallInv
    <3>4. keyCalls' = (keyCalls \ {c}) \cup {d} /\ KeyTableStep
      BY <3>1, <3>3 DEF Replaced, KeyTableStep
    <3>5. issued' = [issued EXCEPT !.state[c.key] = "revoked"] /\ issued \in KeyTable
      BY <3>1 DEF RevokeKey, KeysTypeOK
    <3>6. issued'.state[c.key] = "revoked"
      BY <3>3, <3>5 DEF KeyTable
    <3> HIDE DEF d
    <3>7. KeyCallInv(d)'
      BY <3>2, <3>3, <3>6 DEF KeyCallInv, Buried
    <3> QED BY <3>2, <3>4, <3>7
  <2>3. CASE Replaced(c, [c EXCEPT !.answer = "failed"]) /\ UNCHANGED issued
    <3> DEFINE d == [c EXCEPT !.answer = "failed"]
    <3>1. /\ d \in KeyChange /\ d.op = c.op /\ d.key = c.key /\ d.rotates = c.rotates
          /\ d.made = c.made /\ d.answer = "failed"
      BY <1>1 DEF KeyChange
    <3>2. keyCalls' = (keyCalls \ {c}) \cup {d} /\ KeyTableStep
      BY <2>3 DEF Replaced, KeyTableStep
    <3> HIDE DEF d
    <3>3. KeyCallInv(d)'
      BY <1>1, <3>1 DEF KeyCallInv
    <3> QED BY <3>1, <3>2, <3>3
  <2> QED BY <2>1, <2>2, <2>3 DEF KeyServed
<1>3. PICK d \in KeyChange : keyCalls' = (keyCalls \ {c}) \cup {d} /\ KeyTableStep /\ KeyCallInv(d)'
  BY <1>2
<1>4. issued' \in KeyTable /\ \A k \in Issued : Buried(k) => Buried(k)'
  BY <1>3, BuriedForGood DEF KeysTypeOK, KeysInv
<1>5. KeysTypeOK'
  BY <1>1, <1>3, <1>4 DEF KeysTypeOK
<1>6. \A k \in Issued : keyRows'[k] = "revoked" => Buried(k)'
  BY <1>1, <1>4 DEF KeysInv
<1> QED BY <1>3, <1>5, <1>6, KeysInvKept

(* A read of a load: the keys it reads revoked are revoked at this moment. *)
LEMMA KeyReadKeeps ==
    ASSUME KeysTypeOK, KeysInv, NEW l \in keyCalls, KeyRead(l)
    PROVE  KeysTypeOK' /\ KeysInv'
<1>1. /\ UNCHANGED <<keyView, chosen, keyFrame, manager, keyRows, plain, rotateSource, formFor, issued,
                     mayManage, keyActs>>
      /\ l \in KeyLoading /\ l.op = "load" /\ KeyCallInv(l) /\ mayManage \in BOOLEAN /\ issued \in KeyTable
  <2>1. l.op = "load" /\ l \in KeyLoading \cup KeyChange
    BY DEF KeyRead, KeysTypeOK
  <2> QED BY <2>1, KeyCallKinds DEF KeyRead, KeysInv, KeysTypeOK, keyShown, keyServer
<1>2. \E d \in KeyLoading : /\ keyCalls' = (keyCalls \ {l}) \cup {d} /\ d.op = "load"
                            /\ d.rows # NONE => d.rows = l.rows \/ d.rows = issued.state
  <2>1. CASE \E p \in {"found", "missing"} : Replaced(l, [l EXCEPT !.project = p])
    <3>1. PICK p \in {"found", "missing"} : Replaced(l, [l EXCEPT !.project = p])
      BY <2>1
    <3>2. [l EXCEPT !.project = p] \in KeyLoading /\ [l EXCEPT !.project = p].op = "load"
          /\ [l EXCEPT !.project = p].rows = l.rows
      BY <1>1 DEF KeyLoading
    <3> QED BY <3>1, <3>2 DEF Replaced
  <2>2. CASE Replaced(l, [l EXCEPT !.rows = issued.state])
    <3>1. issued.state \in [Issued -> KeyState]
      BY <1>1 DEF KeyTable
    <3>2. /\ [l EXCEPT !.rows = issued.state] \in KeyLoading
          /\ [l EXCEPT !.rows = issued.state].op = "load"
          /\ [l EXCEPT !.rows = issued.state].rows = issued.state
      BY <1>1, <3>1 DEF KeyLoading
    <3> QED BY <2>2, <3>2 DEF Replaced
  <2>3. CASE \E role \in {FALSE, mayManage} : Replaced(l, [l EXCEPT !.role = [manages |-> role]])
    <3>1. PICK role \in BOOLEAN : Replaced(l, [l EXCEPT !.role = [manages |-> role]])
      BY <1>1, <2>3
    <3>2. /\ [l EXCEPT !.role = [manages |-> role]] \in KeyLoading
          /\ [l EXCEPT !.role = [manages |-> role]].op = "load"
          /\ [l EXCEPT !.role = [manages |-> role]].rows = l.rows
      BY <1>1 DEF KeyLoading
    <3> QED BY <3>1, <3>2 DEF Replaced
  <2> QED BY <2>1, <2>2, <2>3 DEF KeyRead
<1>3. PICK d \in KeyLoading : /\ keyCalls' = (keyCalls \ {l}) \cup {d} /\ d.op = "load"
                              /\ d.rows # NONE => d.rows = l.rows \/ d.rows = issued.state
  BY <1>2
<1>4. KeysTypeOK'
  BY <1>1, <1>3 DEF KeysTypeOK
<1>5. KeyCallInv(d)'
  BY <1>1, <1>3 DEF KeyCallInv, Buried
<1>6. \A k \in Issued : keyRows'[k] = "revoked" => Buried(k)'
  BY <1>1 DEF KeysInv, Buried
<1> QED BY <1>1, <1>3, <1>4, <1>5, <1>6, KeysInvKept DEF KeyTableStep

(* The reader's presses.                                                   *)
LEMMA KeyPressKeeps ==
    ASSUME KeysTypeOK, KeysInv, onCreateKey \/ onRevoke \/ onRotate
    PROVE  KeysTypeOK' /\ KeysInv'
<1>1. \E op \in {"create", "revoke"}, k \in Issued \cup {NONE}, e \in KeyEnvironments \cup {NONE} :
         \E r \in Issued \cup {NONE}, source \in Issued \cup {NONE} :
            /\ KeyPressed(KeyCall(op, k, e, r), source)
            /\ op = "revoke" \/ r # NONE => k \in Issued
  <2>1. CASE onCreateKey
    BY <2>1 DEF onCreateKey, KeysTypeOK
  <2>2. CASE onRevoke
    BY <2>2 DEF onRevoke, KeysTypeOK
  <2>3. CASE onRotate
    <3>1. PICK k \in Issued : KeyPressed(KeyCall("create", k, issued.environment[k], k), rotateSource)
      BY <2>3 DEF onRotate
    <3>2. issued.environment[k] \in KeyEnvironments \cup {NONE} /\ rotateSource \in Issued \cup {NONE}
      BY DEF KeysTypeOK, KeyTable
    <3> QED BY <3>1, <3>2
  <2> QED BY <2>1, <2>2, <2>3
<1>2. PICK op \in {"create", "revoke"}, k \in Issued \cup {NONE}, e \in KeyEnvironments \cup {NONE} :
         \E r \in Issued \cup {NONE}, source \in Issued \cup {NONE} :
            /\ KeyPressed(KeyCall(op, k, e, r), source)
            /\ op = "revoke" \/ r # NONE => k \in Issued
  BY <1>1
<1>3. PICK r \in Issued \cup {NONE}, source \in Issued \cup {NONE} :
            /\ KeyPressed(KeyCall(op, k, e, r), source)
            /\ op = "revoke" \/ r # NONE => k \in Issued
  BY <1>2
<1>4. /\ KeyCall(op, k, e, r) \in KeyChange /\ KeyCall(op, k, e, r).op = op
      /\ KeyCall(op, k, e, r).key = k /\ KeyCall(op, k, e, r).rotates = r
      /\ KeyCall(op, k, e, r).answer = NONE
  BY DEF KeyCall, KeyChange, KeysTypeOK
<1>5. PICK d \in KeyChange :
         d = KeyCall(op, k, e, r) /\ d.op = op /\ d.key = k /\ d.rotates = r /\ d.answer = NONE
  BY <1>4
<1>6. /\ UNCHANGED <<keyView, chosen, keyFrame, manager, keyRows, plain, formFor, issued, mayManage>>
      /\ keyCalls' = keyCalls \cup {d} /\ rotateSource' = source /\ keyActs' \in 0 .. MaxKeyActs
  BY <1>3, <1>5, KeysAssumption DEF KeyPressed, KeyAct, keyServer, KeysTypeOK
<1>7. KeyCallInv(d)'
  BY <1>3, <1>5, NoneIsNoKey DEF KeyCallInv
<1>8. KeysTypeOK'
  BY <1>6 DEF KeysTypeOK
<1>9. \A j \in Issued : keyRows'[j] = "revoked" => Buried(j)'
  BY <1>6 DEF KeysInv, Buried
<1> QED BY <1>6, <1>7, <1>8, <1>9, KeysInvKept DEF KeyTableStep

(* What the reader does without a call of this page.                       *)
LEMMA KeyControlsKeep ==
    ASSUME KeysTypeOK, KeysInv, onPickEnvironment \/ onDone \/ onDeleteProject
    PROVE  KeysTypeOK' /\ KeysInv'
<1>1. /\ UNCHANGED <<keyView, chosen, manager, keyRows, rotateSource, keyCalls, mayManage>>
      /\ keyActs' \in 0 .. MaxKeyActs /\ formFor' \in KeyEnvironments /\ plain' \in Issued \cup {NONE}
      /\ KeyTableStep
      /\ keyFrame' = keyFrame \/ keyFrame' = [keyFrame EXCEPT !.left = TRUE]
  BY KeysAssumption DEF onPickEnvironment, onDone, onDeleteProject, KeyAct, keyShown, keyServer, KeysTypeOK,
     KeyTableStep
<1>2. keyFrame' \in KeyFrame
  BY <1>1 DEF KeysTypeOK, KeyFrame
<1>3. issued' \in KeyTable /\ \A k \in Issued : Buried(k) => Buried(k)'
  BY <1>1, BuriedForGood DEF KeysTypeOK, KeysInv
<1>4. KeysTypeOK'
  BY <1>1, <1>2, <1>3 DEF KeysTypeOK
<1>5. \A k \in Issued : keyRows'[k] = "revoked" => Buried(k)'
  BY <1>1, <1>3 DEF KeysInv
<1> QED BY <1>1, <1>4, <1>5, KeysInvKept

(* A load that comes in, however late.                                     *)
LEMMA KeysLandedKeeps ==
    ASSUME KeysTypeOK, KeysInv, NEW l \in keyCalls, KeysLanded(l)
    PROVE  KeysTypeOK' /\ KeysInv'
<1>1. /\ UNCHANGED <<keyView, chosen, plain, rotateSource, formFor, issued, mayManage, keyActs>>
      /\ keyCalls' = keyCalls \ {l} /\ l.op = "load" /\ l \in KeyLoading /\ KeyCallInv(l)
  <2>1. l.op = "load" /\ l \in KeyLoading \cup KeyChange
    BY DEF KeysLanded, KeysTypeOK
  <2> QED BY <2>1, KeyCallKinds DEF KeysLanded, KeysInv, Dropped, keyServer
<1>2. manager' \in BOOLEAN
  <2>1. CASE manager' = manager
    BY <2>1 DEF KeysTypeOK
  <2>2. CASE l.role # NONE /\ manager' = l.role.manages
    BY <1>1, <2>2 DEF KeyLoading
  <2> QED BY <2>1, <2>2 DEF KeysLanded
<1>3. keyRows' = keyRows \/ (l.rows # NONE /\ keyRows' = l.rows)
  BY DEF KeysLanded
<1>4. keyFrame' \in KeyFrame
  BY DEF KeysLanded, KeysTypeOK, KeyFrame
<1>5. keyRows' \in [Issued -> KeyState]
  BY <1>1, <1>3 DEF KeysTypeOK, KeyLoading
<1>6. KeysTypeOK'
  BY <1>1, <1>2, <1>4, <1>5 DEF KeysTypeOK
<1>7. \A k \in Issued : keyRows'[k] = "revoked" => Buried(k)'
  BY <1>1, <1>3 DEF KeysInv, KeyCallInv, Buried
<1> QED BY <1>1, <1>6, <1>7, KeysInvKept DEF KeyTableStep

(* The answers to what the reader pressed.                                 *)
LEMMA KeyAnswersKeep ==
    ASSUME KeysTypeOK, KeysInv, NEW c \in keyCalls, CreatedKey(c) \/ KeyRefused(c) \/ RevokedKey(c)
    PROVE  KeysTypeOK' /\ KeysInv'
<1>1. /\ UNCHANGED <<keyView, chosen, keyFrame, manager, formFor, issued, mayManage, keyActs>>
      /\ c.op \in {"create", "revoke"} /\ c \in KeyChange /\ KeyCallInv(c)
  <2>1. c.op \in {"create", "revoke"} /\ c \in KeyLoading \cup KeyChange
    BY DEF CreatedKey, KeyRefused, RevokedKey, KeysTypeOK
  <2> QED BY <2>1, KeyCallKinds DEF CreatedKey, KeyRefused, RevokedKey, KeysInv, keyServer, keyShown
<1>2. ASSUME NEW rows_ \in [Issued -> KeyState], NEW k \in Issued \cup {NONE}
      PROVE  /\ Prepended(rows_, k) \in [Issued -> KeyState]
             /\ \A j \in Issued : Prepended(rows_, k)[j] = "revoked" => rows_[j] = "revoked"
  BY DEF Prepended, KeyState
<1>3. ASSUME c.op = "revoke", c.answer # NONE
      PROVE  /\ Marked(c, keyRows) \in [Issued -> KeyState]
             /\ \A j \in Issued : Marked(c, keyRows)[j] = "revoked" => Buried(j)
  <2>1. c.key \in Issued /\ (c.answer = "ok" => Buried(c.key))
    BY <1>1, <1>3 DEF KeyCallInv
  <2> QED BY <2>1 DEF Marked, KeysTypeOK, KeysInv, KeyState
<1>4. /\ keyRows' \in [Issued -> KeyState]
      /\ \A j \in Issued : keyRows'[j] = "revoked" => Buried(j)
  <2>1. CASE CreatedKey(c)
    BY <1>1, <1>2, <2>1 DEF CreatedKey, KeysTypeOK, KeysInv, KeyChange
  <2>2. CASE KeyRefused(c)
    BY <2>2 DEF KeyRefused, KeysTypeOK, KeysInv, keyShown
  <2>3. CASE RevokedKey(c)
    <3>1. c.made \in Issued \cup {NONE}
      BY <1>1 DEF KeyChange
    <3> QED BY <1>2, <1>3, <2>3, <3>1 DEF RevokedKey
  <2> QED BY <2>1, <2>2, <2>3
<1>5. \A j \in Issued : Buried(j) => Buried(j)'
  BY <1>1 DEF Buried
<1>6. plain' \in Issued \cup {NONE} /\ rotateSource' \in Issued \cup {NONE}
  BY <1>1 DEF CreatedKey, KeyRefused, RevokedKey, KeysTypeOK, KeyChange, keyShown
<1>7. \/ keyCalls' = keyCalls \ {c}
      \/ \E d \in KeyChange : keyCalls' = (keyCalls \ {c}) \cup {d} /\ KeyCallInv(d)'
  <2>1. CASE Replaced(c, [c EXCEPT !.op = "revoke", !.answer = NONE]) /\ CreatedKey(c) /\ c.rotates # NONE
    <3> DEFINE d == [c EXCEPT !.op = "revoke", !.answer = NONE]
    <3>1. d \in KeyChange /\ d.op = "revoke" /\ d.answer = NONE /\ d.key = c.key
      BY <1>1 DEF KeyChange
    <3>2. c.key \in Issued
      BY <1>1, <2>1 DEF CreatedKey, KeyCallInv
    <3>3. keyCalls' = (keyCalls \ {c}) \cup {d}
      BY <2>1 DEF Replaced
    <3> HIDE DEF d
    <3>4. KeyCallInv(d)'
      BY <3>1, <3>2, NoneIsNoKey DEF KeyCallInv
    <3> QED BY <3>1, <3>3, <3>4
  <2> QED BY <2>1 DEF CreatedKey, KeyRefused, RevokedKey, Dropped
<1>8. KeysTypeOK'
  BY <1>1, <1>4, <1>6, <1>7 DEF KeysTypeOK
<1> QED BY <1>1, <1>4, <1>5, <1>7, <1>8, KeysInvKept DEF KeyTableStep

(* Every step of the API-key page.                                         *)
LEMMA KeysStep == KeysTypeOK /\ KeysInv /\ [KeysNext]_keyVars => KeysTypeOK' /\ KeysInv'
<1> SUFFICES ASSUME KeysTypeOK, KeysInv, [KeysNext]_keyVars PROVE KeysTypeOK' /\ KeysInv'
  OBVIOUS
<1>1. CASE selectEnvironment \/ KeyTokenRenewed
  BY <1>1, KeyEffectsKeep
<1>2. CASE KeysElsewhere
  BY <1>2, KeysElsewhereKeeps
<1>3. CASE onCreateKey \/ onRevoke \/ onRotate
  BY <1>3, KeyPressKeeps
<1>4. CASE onPickEnvironment \/ onDone \/ onDeleteProject
  BY <1>4, KeyControlsKeep
<1>5. ASSUME NEW c \in keyCalls,
             KeyServed(c) \/ KeyRead(c) \/ KeysLanded(c) \/ CreatedKey(c) \/ KeyRefused(c) \/ RevokedKey(c)
      PROVE  KeysTypeOK' /\ KeysInv'
  BY <1>5, KeyServedKeeps, KeyReadKeeps, KeysLandedKeeps, KeyAnswersKeep
<1>6. CASE UNCHANGED keyVars
  BY <1>6 DEF keyVars, keyShown, keyServer, KeysTypeOK, KeysInv, KeyCallInv, Buried
<1> QED BY <1>1, <1>2, <1>3, <1>4, <1>5, <1>6 DEF KeysNext

(* The rows, the calls and the keys of the API-key page have their types   *)
(* (apps/web, api-keys/page.tsx 82-288).                                   *)
THEOREM KeysTypesOk == KeysSpec => []KeysTypeOK
<1>1. KeysInit => KeysTypeOK /\ KeysInv
  BY KeysInitially
<1>2. KeysTypeOK /\ KeysInv /\ [KeysNext]_keyVars => KeysTypeOK' /\ KeysInv'
  BY KeysStep
<1> QED BY <1>1, <1>2, PTL DEF KeysSpec

(* A key that the page calls revoked opens nothing any more, whatever      *)
(* loads, rotations, lost answers and other administrators are under way.  *)
THEOREM RevokedStaysRevoked == KeysSpec => []RevokedMeansRevoked
<1>1. KeysInit => KeysTypeOK /\ KeysInv
  BY KeysInitially
<1>2. KeysTypeOK /\ KeysInv /\ [KeysNext]_keyVars => KeysTypeOK' /\ KeysInv'
  BY KeysStep
<1>3. KeysInv => RevokedMeansRevoked
  BY NoneIsNoKey DEF KeysInv, RevokedMeansRevoked, Buried
<1> QED BY <1>1, <1>2, <1>3, PTL DEF KeysSpec

--------------------------------------------------------------------------------
(* The lists of the reader's organizations and projects *)

(* A live load has everything that was created and still exists in each    *)
(* list that it has read.                                                  *)
LoadInv(l) ==
    l.live => /\ l.organizations # NONE => made \subseteq l.organizations
              /\ listView = "projects" /\ l.projects # NONE => made \subseteq l.projects

ListInv ==
    /\ \A t \in made : StillThere(t)
    /\ \A l \in loads : LoadInv(l)
    /\ creating # NONE /\ (creating.answer = "ok" \/ listView = "projects") => creating.tenant \in Tenants
    /\ CreatedIsListed

(* A list opens with one load in flight and nothing made yet.              *)
LEMMA ListInitially == ListInit => ListTypeOK /\ ListInv
<1> SUFFICES ASSUME ListInit PROVE ListTypeOK /\ ListInv
  OBVIOUS
<1>1. FreshLoad \in ListLoad
  BY ListAssumption DEF ListInit, FreshLoad, ListLoad, Standing
<1>2. rights \in Standing /\ listRows \in [organizations : Standing, projects : SUBSET Tenants]
  BY DEF ListInit, Standing, RolesShown
<1>3. waits \in BOOLEAN /\ failed \in BOOLEAN
  BY DEF ListInit
<1>4. ListTypeOK
  BY <1>1, <1>2, <1>3, ListAssumption DEF ListInit, ListTypeOK
<1>5. ListInv
  BY DEF ListInit, ListInv, LoadInv, CreatedIsListed
<1> QED BY <1>4, <1>5

(* Nothing of what was created is missed by a load that is called off or   *)
(* that is asked for now.                                                  *)
LEMMA EffectAsks ==
    ASSUME ListTypeOK, Effect, UNCHANGED listView
    PROVE  /\ loads' \subseteq ListLoad
           /\ \A l \in loads' : LoadInv(l)'
<1>1. FreshLoad \in ListLoad /\ FreshLoad.organizations = NONE
      /\ FreshLoad.projects = IF listView = "organizations" THEN {} ELSE NONE
  BY DEF ListTypeOK, FreshLoad, ListLoad, Standing
<1>2. ASSUME NEW l \in CalledOff
      PROVE  l \in ListLoad /\ ~l.live
  BY DEF CalledOff, ListTypeOK, ListLoad
<1>3. ASSUME NEW l \in loads'
      PROVE  LoadInv(l)'
  <2>1. CASE l \in CalledOff
    BY <1>2, <2>1 DEF LoadInv
  <2>2. CASE l = FreshLoad
    BY <1>1, <2>2 DEF LoadInv
  <2> QED BY <1>3, <2>1, <2>2 DEF Effect
<1> QED BY <1>1, <1>2, <1>3 DEF Effect

(* Whatever exists fewer of, a load misses no more than before.            *)
LEMMA LoadInvStays ==
    ASSUME made' \subseteq made, UNCHANGED listView, NEW l, LoadInv(l)
    PROVE  LoadInv(l)'
BY DEF LoadInv

(* A renewed token asks again and calls the load before it off.            *)
LEMMA RenewedKeeps ==
    ASSUME ListTypeOK, ListInv, Renewed
    PROVE  ListTypeOK' /\ ListInv'
<1>1. loads' \subseteq ListLoad /\ \A l \in loads' : LoadInv(l)'
  BY EffectAsks DEF Renewed
<1>2. /\ UNCHANGED <<listView, rights, owned, listRows, offers, picked, creating, made>>
      /\ waits' = TRUE /\ failed' = FALSE /\ listActs' \in 0 .. MaxListActs
  BY ListAssumption DEF Renewed, Effect, ListAct, listServer, ListTypeOK
<1>3. ListTypeOK'
  BY <1>1, <1>2 DEF ListTypeOK
<1>4. ListInv'
  BY <1>1, <1>2 DEF ListInv, StillThere, CreatedIsListed
<1> QED BY <1>3, <1>4

(* What others take away is not owed to any load.                          *)
LEMMA ChangedElsewhereKeeps ==
    ASSUME ListTypeOK, ListInv, ChangedElsewhere
    PROVE  ListTypeOK' /\ ListInv'
<1>1. /\ UNCHANGED <<listView, listRows, offers, picked, waits, failed, loads, creating>>
      /\ listActs' \in 0 .. MaxListActs
  BY ListAssumption DEF ChangedElsewhere, ListAct, listShown, ListTypeOK
<1>2. /\ made' \subseteq made /\ \A t \in made' : StillThere(t)'
      /\ rights' \in Standing /\ owned' \subseteq Tenants
  <2>1. PICK t \in Tenants :
          \/ /\ \E role \in RolesShown \cup {NONE} : rights' = [rights EXCEPT ![t] = role]
             /\ made' = IF rights'[t] = NONE THEN made \ {t} ELSE made
             /\ UNCHANGED owned
          \/ /\ t \in owned /\ owned' = owned \ {t} /\ UNCHANGED rights
             /\ made' = IF listView = "projects" THEN made \ {t} ELSE made
    BY DEF ChangedElsewhere
  <2>2. rights \in Standing /\ owned \subseteq Tenants /\ made \subseteq Tenants /\ \A u \in made : StillThere(u)
    BY DEF ListTypeOK, ListInv
  <2>3. CASE /\ \E role \in RolesShown \cup {NONE} : rights' = [rights EXCEPT ![t] = role]
             /\ made' = IF rights'[t] = NONE THEN made \ {t} ELSE made
             /\ UNCHANGED owned
    <3>1. rights' \in Standing /\ \A u \in Tenants \ {t} : rights'[u] = rights[u]
      BY <2>2, <2>3 DEF Standing
    <3> QED BY <1>1, <2>2, <2>3, <3>1 DEF StillThere
  <2>4. CASE /\ t \in owned /\ owned' = owned \ {t} /\ UNCHANGED rights
             /\ made' = IF listView = "projects" THEN made \ {t} ELSE made
    BY <1>1, <2>2, <2>4 DEF StillThere
  <2> QED BY <2>1, <2>3, <2>4
<1>3. ListTypeOK'
  BY <1>1, <1>2 DEF ListTypeOK
<1>4. \A l \in loads' : LoadInv(l)'
  BY <1>1, <1>2, LoadInvStays DEF ListInv
<1>5. CreatedIsListed'
  BY <1>1, <1>2 DEF ListInv, CreatedIsListed
<1>6. ListInv'
  BY <1>1, <1>2, <1>4, <1>5 DEF ListInv
<1> QED BY <1>3, <1>6

(* A load that reads one list more, or one role, stays a load that misses  *)
(* nothing.                                                                *)
LEMMA ReadsKeep ==
    ASSUME ListTypeOK, ListInv, NEW l \in loads,
           ReadOrganizations(l) \/ ReadProjects(l) \/ \E t \in Tenants : ReadRole(l, t)
    PROVE  ListTypeOK' /\ ListInv'
<1>1. l \in ListLoad /\ LoadInv(l) /\ rights \in Standing
  BY DEF ListTypeOK, ListInv
<1>2. \E d \in ListLoad : ReadInto(l, d) /\ LoadInv(d)
  <2>1. CASE ReadOrganizations(l)
    <3> DEFINE d == [l EXCEPT !.organizations = Mine]
    <3>1. d \in ListLoad /\ d.live = l.live /\ d.organizations = Mine /\ d.projects = l.projects
      BY <1>1 DEF ListLoad, Mine
    <3>2. made \subseteq Mine
      BY DEF ListInv, ListTypeOK, StillThere, Mine
    <3>3. ReadInto(l, d)
      BY <2>1 DEF ReadOrganizations
    <3> HIDE DEF d
    <3>4. LoadInv(d)
      BY <1>1, <3>1, <3>2 DEF LoadInv
    <3> QED BY <3>1, <3>3, <3>4
  <2>2. CASE ReadProjects(l)
    <3> DEFINE d == [l EXCEPT !.projects = owned \cap Mine]
    <3>1. d \in ListLoad /\ d.live = l.live /\ d.organizations = l.organizations /\ d.projects = owned \cap Mine
      BY <1>1 DEF ListLoad, Mine
    <3>2. listView = "projects" => made \subseteq owned \cap Mine
      BY DEF ListInv, ListTypeOK, StillThere, Mine
    <3>3. ReadInto(l, d)
      BY <2>2 DEF ReadProjects
    <3> HIDE DEF d
    <3>4. LoadInv(d)
      BY <1>1, <3>1, <3>2 DEF LoadInv
    <3> QED BY <3>1, <3>3, <3>4
  <2>3. ASSUME NEW t \in Tenants, ReadRole(l, t)
        PROVE  \E d \in ListLoad : ReadInto(l, d) /\ LoadInv(d)
    <3>1. PICK role \in {"viewer", IF rights[t] = NONE THEN "viewer" ELSE rights[t]} :
             ReadInto(l, [l EXCEPT !.roles[t] = role])
      BY <2>3 DEF ReadRole
    <3>2. role \in RolesShown \cup {NONE}
      BY <1>1 DEF Standing, RolesShown
    <3> DEFINE d == [l EXCEPT !.roles[t] = role]
    <3>3. d \in ListLoad /\ d.live = l.live /\ d.organizations = l.organizations /\ d.projects = l.projects
      BY <1>1, <3>2 DEF ListLoad, Standing
    <3>4. ReadInto(l, d)
      BY <3>1
    <3> HIDE DEF d
    <3>5. LoadInv(d)
      BY <1>1, <3>3 DEF LoadInv
    <3> QED BY <3>3, <3>4, <3>5
  <2> QED BY <2>1, <2>2, <2>3
<1>3. PICK d \in ListLoad : ReadInto(l, d) /\ LoadInv(d)
  BY <1>2
<1>4. /\ UNCHANGED <<listView, rights, owned, listRows, offers, picked, waits, failed, creating, made, listActs>>
      /\ loads' = (loads \ {l}) \cup {d}
  BY <1>3 DEF ReadInto, listServer, listShown
<1>5. ListTypeOK'
  BY <1>4 DEF ListTypeOK
<1>6. \A x \in loads' : LoadInv(x)'
  BY <1>3, <1>4, LoadInvStays DEF ListInv
<1>7. ListInv'
  BY <1>4, <1>6 DEF ListInv, StillThere, CreatedIsListed
<1> QED BY <1>5, <1>7

(* A load that has come in, or that has failed.                            *)
LEMMA LandsKeeps ==
    ASSUME ListTypeOK, ListInv, NEW l \in loads, Lands(l) \/ LoadFails(l)
    PROVE  ListTypeOK' /\ ListInv'
<1>1. /\ UNCHANGED <<listView, rights, owned, creating, made, listActs>> /\ loads' = loads \ {l}
      /\ l \in ListLoad /\ LoadInv(l)
  BY DEF Lands, LoadFails, listServer, ListTypeOK, ListInv
<1>2. CASE Lands(l) /\ l.live
  <2>1. /\ l.organizations \subseteq Tenants /\ l.projects \subseteq Tenants /\ l.roles \in Standing
        /\ made \subseteq l.organizations /\ (listView = "projects" => made \subseteq l.projects)
        /\ \A t \in l.organizations : l.roles[t] # NONE
    BY <1>1, <1>2 DEF Lands, ListsRead, ListLoad, LoadInv
  <2>2. /\ listRows' = [organizations |-> l.roles, projects |-> l.projects]
        /\ waits' = FALSE /\ UNCHANGED failed
    BY <1>2 DEF Lands
  <2>3. listRows' \in [organizations : Standing, projects : SUBSET Tenants]
        /\ listRows'.organizations = l.roles /\ listRows'.projects = l.projects
    BY <2>1, <2>2
  <2>4. offers' \subseteq Tenants /\ picked' \in Tenants \cup {NONE}
    BY <1>2, <2>1 DEF Lands, Creatable, ListTypeOK
  <2>5. ListTypeOK'
    BY <1>1, <2>2, <2>3, <2>4 DEF ListTypeOK
  <2>6. CreatedIsListed'
    BY <1>1, <2>1, <2>3 DEF CreatedIsListed
  <2>7. \A x \in loads' : LoadInv(x)'
    BY <1>1, LoadInvStays DEF ListInv
  <2>8. ListInv'
    BY <1>1, <2>6, <2>7 DEF ListInv, StillThere
  <2> QED BY <2>5, <2>8
<1>3. CASE ~(Lands(l) /\ l.live)
  <2>1. /\ UNCHANGED <<listRows, offers, picked>>
        /\ waits' \in BOOLEAN /\ failed' \in BOOLEAN
        /\ ~waits' /\ ~failed' => ~waits /\ ~failed
    BY <1>3 DEF Lands, LoadFails, listShown, ListTypeOK
  <2>2. ListTypeOK'
    BY <1>1, <2>1 DEF ListTypeOK
  <2>3. \A x \in loads' : LoadInv(x)'
    BY <1>1, LoadInvStays DEF ListInv
  <2>4. ListInv'
    BY <1>1, <2>1, <2>3 DEF ListInv, StillThere, CreatedIsListed
  <2> QED BY <2>2, <2>4
<1> QED BY <1>2, <1>3

(* The create forms and what the server makes of a create call.            *)
LEMMA FormsKeep ==
    ASSUME ListTypeOK, ListInv, onPick \/ onCreateTenant \/ CreateServed
    PROVE  ListTypeOK' /\ ListInv'
<1>1. UNCHANGED <<listView, listRows, offers, waits, failed, loads, made>>
      /\ listActs' \in 0 .. MaxListActs /\ picked' \in Tenants \cup {NONE}
  BY ListAssumption DEF onPick, onCreateTenant, CreateServed, ListAct, listShown, ListTypeOK
<1>2. /\ creating' \in [tenant : Tenants \cup {NONE}, answer : {NONE, "ok", "refused"}] \cup {NONE}
      /\ creating' # NONE /\ (creating'.answer = "ok" \/ listView = "projects") => creating'.tenant \in Tenants
      /\ rights' \in Standing /\ owned' \subseteq Tenants /\ \A t \in made : StillThere(t) => StillThere(t)'
  <2>1. CASE onPick
    BY <2>1 DEF onPick, listServer, ListTypeOK, ListInv, StillThere
  <2>2. CASE onCreateTenant
    <3>1. /\ creating' = [tenant |-> IF listView = "projects" THEN picked ELSE NONE, answer |-> NONE]
          /\ listView = "projects" => picked # NONE
          /\ UNCHANGED <<listView, rights, owned>>
      BY <2>2 DEF onCreateTenant, CanSubmit, listServer
    <3> QED BY <3>1, ListAssumption DEF ListTypeOK, StillThere
  <2>3. CASE CreateServed
    <3>1. creating \in [tenant : Tenants \cup {NONE}, answer : {NONE, "ok", "refused"}] /\ UNCHANGED listView
      BY <2>3 DEF CreateServed, ListTypeOK
    <3>2. CASE listView = "organizations"
      <4>1. PICK t \in Tenants : rights[t] = NONE /\ rights' = [rights EXCEPT ![t] = "owner"]
                                 /\ creating' = [tenant |-> t, answer |-> "ok"]
        BY <2>3, <3>2 DEF CreateServed
      <4>2. UNCHANGED owned /\ rights' \in Standing /\ \A u \in Tenants \ {t} : rights'[u] = rights[u]
        BY <2>3, <3>2, <4>1 DEF CreateServed, ListTypeOK, Standing, RolesShown
      <4> QED BY <1>1, <3>2, <4>1, <4>2 DEF ListTypeOK, StillThere
    <3>3. CASE listView = "projects"
      <4>1. creating.tenant \in Tenants
        BY <2>3, <3>3 DEF CreateServed, ListInv
      <4>2. /\ UNCHANGED rights /\ owned' \in {owned, owned \cup {creating.tenant}}
            /\ \E a \in {"ok", "refused"} : creating' = [creating EXCEPT !.answer = a]
        BY <2>3, <3>3 DEF CreateServed
      <4>3. PICK a \in {"ok", "refused"} : creating' = [creating EXCEPT !.answer = a]
        BY <4>2
      <4>4. creating' \in [tenant : Tenants \cup {NONE}, answer : {NONE, "ok", "refused"}]
            /\ creating'.tenant = creating.tenant
        BY <3>1, <4>3
      <4> QED BY <3>1, <4>1, <4>2, <4>4 DEF ListTypeOK, StillThere
    <3> QED BY <2>3, <3>2, <3>3 DEF CreateServed
  <2> QED BY <2>1, <2>2, <2>3
<1>3. ListTypeOK'
  BY <1>1, <1>2 DEF ListTypeOK
<1>4. \A x \in loads' : LoadInv(x)'
  BY <1>1, LoadInvStays DEF ListInv
<1>5. ListInv'
  BY <1>1, <1>2, <1>4 DEF ListInv, CreatedIsListed
<1> QED BY <1>3, <1>5

(* The answer: only a successful one adds to what must be listed, and then *)
(* the page waits for a load that has not read anything yet.               *)
LEMMA CreateAnsweredKeeps ==
    ASSUME ListTypeOK, ListInv, CreateAnswered
    PROVE  ListTypeOK' /\ ListInv'
<1>1. /\ UNCHANGED <<listView, rights, owned, listRows, offers, picked, listActs>> /\ creating' = NONE
      /\ creating # NONE
  BY DEF CreateAnswered, listServer
<1>2. CASE creating.answer = "ok"
  <2>1. Effect /\ made' = made \cup {t \in {creating.tenant} : StillThere(t)} /\ creating.tenant \in Tenants
    BY <1>1, <1>2 DEF CreateAnswered, ListInv
  <2>2. loads' \subseteq ListLoad /\ \A l \in loads' : LoadInv(l)'
    BY <1>1, <2>1, EffectAsks
  <2>3. waits' = TRUE /\ failed' = FALSE
    BY <2>1 DEF Effect
  <2>4. ListTypeOK'
    BY <1>1, <2>1, <2>2, <2>3 DEF ListTypeOK
  <2>5. ListInv'
    BY <1>1, <2>1, <2>2, <2>3 DEF ListInv, StillThere, CreatedIsListed
  <2> QED BY <2>4, <2>5
<1>3. CASE creating.answer # "ok"
  <2>1. UNCHANGED <<loads, waits, failed, made>>
    BY <1>3 DEF CreateAnswered
  <2>2. ListTypeOK'
    BY <1>1, <2>1 DEF ListTypeOK
  <2>3. ListInv'
    BY <1>1, <2>1 DEF ListInv, LoadInv, StillThere, CreatedIsListed
  <2> QED BY <2>2, <2>3
<1> QED BY <1>2, <1>3

(* Every step of a list page.                                              *)
LEMMA ListStep == ListTypeOK /\ ListInv /\ [ListNext]_listPageVars => ListTypeOK' /\ ListInv'
<1> SUFFICES ASSUME ListTypeOK, ListInv, [ListNext]_listPageVars PROVE ListTypeOK' /\ ListInv'
  OBVIOUS
<1>1. CASE Renewed
  BY <1>1, RenewedKeeps
<1>2. CASE ChangedElsewhere
  BY <1>2, ChangedElsewhereKeeps
<1>3. CASE onPick \/ onCreateTenant \/ CreateServed
  BY <1>3, FormsKeep
<1>4. CASE CreateAnswered
  BY <1>4, CreateAnsweredKeeps
<1>5. ASSUME NEW l \in loads,
             \/ ReadOrganizations(l) \/ ReadProjects(l) \/ Lands(l) \/ LoadFails(l)
             \/ \E t \in Tenants : ReadRole(l, t)
      PROVE  ListTypeOK' /\ ListInv'
  BY <1>5, ReadsKeep, LandsKeeps
<1>6. CASE UNCHANGED listPageVars
  BY <1>6 DEF listPageVars, listServer, listShown, ListTypeOK, ListInv, LoadInv, StillThere, CreatedIsListed
<1> QED BY <1>1, <1>2, <1>3, <1>4, <1>5, <1>6 DEF ListNext

(* Lists, loads, forms and create calls have their types (apps/web, the    *)
(* overview, organizations and projects pages).                            *)
THEOREM ListTypesOk == ListSpec => []ListTypeOK
<1>1. ListInit => ListTypeOK /\ ListInv
  BY ListInitially
<1>2. ListTypeOK /\ ListInv /\ [ListNext]_listPageVars => ListTypeOK' /\ ListInv'
  BY ListStep
<1> QED BY <1>1, <1>2, PTL DEF ListSpec

(* Once a page has stopped loading without an error, everything that was   *)
(* created on it and still exists is listed, however many loads that were  *)
(* asked for before the creation come in, and however late.                *)
THEOREM NewOnesAreListed == ListSpec => []CreatedIsListed
<1>1. ListInit => ListTypeOK /\ ListInv
  BY ListInitially
<1>2. ListTypeOK /\ ListInv /\ [ListNext]_listPageVars => ListTypeOK' /\ ListInv'
  BY ListStep
<1>3. ListInv => CreatedIsListed
  BY DEF ListInv
<1> QED BY <1>1, <1>2, <1>3, PTL DEF ListSpec

--------------------------------------------------------------------------------
(* The environment-scoped pages *)

(* A call in flight: what it asks and the act that it serves.              *)
IsCall(c) ==
    c = [what |-> c.what, environment |-> c.environment, part |-> c.part, by |-> c.by,
         live |-> c.live, under |-> c.under, of |-> c.of]

(* Secrets are numbered by the act that asked for them: the one on display *)
(* and those still to come are later acts than any that has been burnt.    *)
ConsoleInv ==
    /\ open # "webhooks" => revealed = NONE
    /\ consoleActs \in Nat
    /\ \A s \in burnt : s \in Nat /\ s < consoleActs
    /\ revealed # NONE => revealed \in Nat /\ revealed < consoleActs
    /\ revealed \notin burnt
    /\ \A c \in pending : /\ IsCall(c)
                          /\ c.what = "create" => /\ c.by \in Nat /\ c.by < consoleActs
                                                  /\ c.by \notin burnt /\ c.by # revealed
                                                  /\ \A d \in pending : d.what = "create" => d = c

(* A call that is cleaned up is a call, of the same thing.                 *)
LEMMA CleanedIsCall ==
    ASSUME NEW c, IsCall(c), NEW d, d = [c EXCEPT !.live = FALSE]
    PROVE  IsCall(d) /\ d.what = c.what /\ d.by = c.by
<1>1. d = [what |-> c.what, environment |-> c.environment, part |-> c.part, by |-> c.by,
           live |-> FALSE, under |-> c.under, of |-> c.of]
  BY DEF IsCall
<1> QED BY <1>1 DEF IsCall

(* So is the one that follows it for the same act.                         *)
LEMMA FollowingIsCall ==
    ASSUME NEW c, IsCall(c), NEW w, NEW d, d = [c EXCEPT !.what = w, !.part = 1]
    PROVE  IsCall(d) /\ d.what = w
<1>1. d = [what |-> w, environment |-> c.environment, part |-> 1, by |-> c.by,
           live |-> c.live, under |-> c.under, of |-> c.of]
  BY DEF IsCall
<1> QED BY <1>1 DEF IsCall

(* And the one that opens the record beside it.                            *)
LEMMA ReopenedIsCall ==
    ASSUME NEW c, IsCall(c), NEW d, d = [c EXCEPT !.what = "view", !.environment = c.of]
    PROVE  IsCall(d) /\ d.what = "view"
<1>1. d = [what |-> "view", environment |-> c.of, part |-> c.part, by |-> c.by,
           live |-> c.live, under |-> c.under, of |-> c.of]
  BY DEF IsCall
<1> QED BY <1>1 DEF IsCall

(* What the page asks is a call.                                           *)
LEMMA AskIsCall ==
    ASSUME NEW w, NEW e, NEW p
    PROVE  IsCall(Ask(w, e, p)) /\ Ask(w, e, p).what = w /\ Ask(w, e, p).by = consoleActs
BY DEF IsCall, Ask

(* What follows an answer is never a create.                               *)
LEMMA NothingCreatesAfter ==
    ASSUME NEW c, IsCall(c), NEW d \in After(c)
    PROVE  IsCall(d) /\ d.what # "create"
<1>1. ASSUME NEW w, d \in Then(w, c)
      PROVE  IsCall(d) /\ d.what = w
  BY <1>1, FollowingIsCall DEF Then
<1>2. CASE c.what = "create"
  <2>1. d \in Then("list", c) \/ d \in Then("reload", c)
    BY <1>2 DEF After
  <2> QED BY <1>1, <2>1
<1>3. CASE c.what = "reload"
  BY <1>1, <1>3 DEF After
<1>4. CASE c.what = "replay"
  BY <1>1, <1>4 DEF After
<1>5. CASE c.what = "refresh"
  <2>1. d = [c EXCEPT !.what = "view", !.environment = c.of]
    BY <1>5 DEF After
  <2> QED BY <2>1, ReopenedIsCall
<1>6. CASE c.what = "main"
  <2>1. d = Ask("side", selected, 1)
    BY <1>6 DEF After
  <2> QED BY <2>1, AskIsCall
<1> QED BY <1>2, <1>3, <1>4, <1>5, <1>6 DEF After

(* Calls that are cleaned up are calls, and the creates among them the     *)
(* same as before.                                                         *)
LEMMA CleanedCalls ==
    ASSUME NEW effects \in SUBSET {"main", "options", "linked"}, NEW d \in CleanUp(effects),
           \A c \in pending : IsCall(c)
    PROVE  IsCall(d) /\ (d.what = "create" => d \in pending)
<1>1. PICK c \in pending : d = IF c.what \in effects THEN [c EXCEPT !.live = FALSE] ELSE c
  BY DEF CleanUp
<1>2. CASE c.what \in effects
  BY <1>1, <1>2, CleanedIsCall
<1>3. CASE c.what \notin effects
  BY <1>1, <1>3
<1> QED BY <1>2, <1>3

(* A step that creates nothing and shows no other secret.                  *)
LEMMA NothingCreated ==
    ASSUME ConsoleInv, UNCHANGED <<open, burnt>>, revealed' \in {revealed, NONE},
           consoleActs' \in {consoleActs, consoleActs + 1},
           \A d \in pending' : IsCall(d) /\ (d.what = "create" => d \in pending)
    PROVE  ConsoleInv'
<1>1. consoleActs \in Nat /\ consoleActs' \in Nat /\ \A s \in Nat : s < consoleActs => s < consoleActs'
  BY DEF ConsoleInv
<1>2. \A s \in burnt : s \in Nat
  BY DEF ConsoleInv
<1>3. revealed' \notin burnt
  BY <1>2, NoneIsNoSecret DEF ConsoleInv
<1>4. ASSUME NEW c \in pending'
      PROVE  /\ IsCall(c)
             /\ c.what = "create" => /\ c.by \in Nat /\ c.by < consoleActs'
                                     /\ c.by \notin burnt /\ c.by # revealed'
                                     /\ \A d \in pending' : d.what = "create" => d = c
  <2>1. CASE c.what = "create"
    <3>1. c \in pending /\ IsCall(c)
      BY <1>4, <2>1
    <3>2. /\ c.by \in Nat /\ c.by < consoleActs /\ c.by \notin burnt /\ c.by # revealed
          /\ \A d \in pending : d.what = "create" => d = c
      BY <2>1, <3>1 DEF ConsoleInv
    <3>3. c.by # NONE
      BY <3>2, NoneIsNoSecret
    <3> QED BY <1>1, <3>1, <3>2, <3>3
  <2> QED BY <1>4, <2>1
<1> QED BY <1>1, <1>3, <1>4 DEF ConsoleInv

(* A change of environment burns the secret on display.                    *)
LEMMA SwitchKeeps ==
    ASSUME ConsoleInv, SwitchCustomers \/ SwitchPayments \/ SwitchRefunds \/ SwitchWebhooks
    PROVE  ConsoleInv'
<1>1. \A c \in pending : IsCall(c)
  BY DEF ConsoleInv
<1>2. /\ UNCHANGED open /\ consoleActs' = consoleActs + 1 /\ burnt' = burnt \cup ({revealed} \ {NONE})
      /\ revealed' = NONE
  BY DEF SwitchCustomers, SwitchPayments, SwitchRefunds, SwitchWebhooks, Switched, consoleData, ConsoleInv
<1>3. ASSUME NEW d \in pending'
      PROVE  IsCall(d) /\ (d.what = "create" => d \in pending)
  <2>1. PICK e : \/ pending' = pending \cup customersEffect(e)
                 \/ pending' = CleanUp({"options"}) \cup paymentsEffect(e)
                 \/ pending' = CleanUp({"main", "linked"}) \cup refundsEffect(e)
                 \/ pending' = CleanUp({"main"}) \cup webhooksEffect(e)
    BY DEF SwitchCustomers, SwitchPayments, SwitchRefunds, SwitchWebhooks
  <2>2. d \in pending \/ \E effects \in SUBSET {"main", "options", "linked"} : d \in CleanUp(effects)
        \/ \E w \in {"list", "options", "main", "side"} : d = Ask(w, e, 1)
    BY <1>3, <2>1 DEF customersEffect, paymentsEffect, refundsEffect, webhooksEffect
  <2> QED BY <1>1, <2>2, CleanedCalls, AskIsCall
<1>4. consoleActs \in Nat /\ consoleActs' \in Nat /\ \A s \in Nat : s < consoleActs => s < consoleActs'
  BY <1>2 DEF ConsoleInv
<1>5. \A s \in burnt' : s \in Nat /\ s < consoleActs'
  BY <1>2, <1>4 DEF ConsoleInv
<1>6. ASSUME NEW c \in pending', c.what = "create"
      PROVE  /\ c.by \in Nat /\ c.by < consoleActs' /\ c.by \notin burnt' /\ c.by # revealed'
             /\ \A d \in pending' : d.what = "create" => d = c
  <2>1. /\ c.by \in Nat /\ c.by < consoleActs /\ c.by \notin burnt /\ c.by # revealed
        /\ \A d \in pending : d.what = "create" => d = c
    BY <1>3, <1>6 DEF ConsoleInv
  <2> QED BY <1>2, <1>3, <1>4, <2>1, NoneIsNoSecret
<1>7. revealed' \notin burnt'
  BY <1>2, <1>5, NoneIsNoSecret
<1> QED BY <1>2, <1>3, <1>4, <1>5, <1>6, <1>7 DEF ConsoleInv

(* A press asks for one thing, and for a creation only when none is asked. *)
LEMMA PressKeeps ==
    ASSUME ConsoleInv, NEW page, NEW w, NEW e, NEW p, Press(page, {Ask(w, e, p)}),
           w = "create" => NotBusy("create")
    PROVE  ConsoleInv'
<1>1. /\ UNCHANGED <<open, burnt, revealed>> /\ consoleActs' = consoleActs + 1
      /\ pending' = pending \cup {Ask(w, e, p)}
  BY DEF Press, consoleData
<1>2. IsCall(Ask(w, e, p)) /\ Ask(w, e, p).what = w /\ Ask(w, e, p).by = consoleActs
  BY AskIsCall
<1>3. CASE w # "create"
  BY <1>1, <1>2, <1>3, NothingCreated DEF ConsoleInv
<1>4. CASE w = "create"
  <2>1. PICK new : new = Ask(w, e, p)
    OBVIOUS
  <2>2. \A c \in pending : c.what # "create"
    BY <1>4 DEF NotBusy
  <2>3. consoleActs \in Nat /\ consoleActs' \in Nat /\ consoleActs < consoleActs'
        /\ \A s \in Nat : s < consoleActs => s < consoleActs' /\ s # consoleActs
    BY <1>1 DEF ConsoleInv
  <2>4. consoleActs \notin burnt /\ consoleActs # revealed
    BY <2>3, NoneIsNoSecret DEF ConsoleInv
  <2>5. ASSUME NEW c \in pending'
        PROVE  /\ IsCall(c)
               /\ c.what = "create" => /\ c.by \in Nat /\ c.by < consoleActs'
                                       /\ c.by \notin burnt /\ c.by # revealed
                                       /\ \A d \in pending' : d.what = "create" => d = c
    BY <1>1, <1>2, <2>5, <2>1, <2>2, <2>3, <2>4 DEF ConsoleInv
  <2> QED BY <1>1, <2>3, <2>5 DEF ConsoleInv
<1> QED BY <1>3, <1>4

(* Everything the operator may press asks for one thing.                   *)
LEMMA PressedOne ==
    ASSUME CustomersPressed \/ Poll \/ PaymentsPressed \/ RefundsPressed \/ WebhooksPressed
    PROVE  \E page, w, e, p : Press(page, {Ask(w, e, p)}) /\ (w = "create" => NotBusy("create"))
<1>0. \A w \in {"list", "view", "save", "delete", "refresh", "side", "deliveries", "replay"} : w # "create"
  OBVIOUS
<1>1. CASE CustomersPressed
  <2>1. CASE HasMore /\ Press("customers", {Ask("list", selected, pages + 1)})
    BY <1>0, <2>1
  <2>2. CASE Press("customers", {Ask("list", selected, 1)})
    BY <1>0, <2>2
  <2>3. CASE manages /\ NotBusy("create") /\ Press("customers", {Ask("create", selected, 1)})
    BY <1>0, <2>3
  <2>4. CASE \E e \in Shows(list) : Press("customers", {Ask("view", e, 1)})
    BY <1>0, <2>4
  <2>5. CASE manages /\ detail # NONE /\ NotBusy("save") /\ Press("customers", {Ask("save", detail, 1)})
    BY <1>0, <2>5
  <2>6. CASE manages /\ \E n \in 1 .. Len(list) :
               Press("customers", {Ask("delete", list[n].environment, list[n].part)})
    BY <1>0, <2>6
  <2> QED BY <1>1, <2>5, <2>1, <2>2, <2>3, <2>4, <2>6 DEF CustomersPressed
<1>2. CASE Poll
  BY <1>0, <1>2 DEF Poll
<1>3. CASE PaymentsPressed
  <2>1. CASE HasMore /\ Press("payments", {Ask("list", selected, pages + 1)})
    BY <1>0, <2>1
  <2>2. CASE NotBusy("refresh") /\ Press("payments", {Ask("refresh", selected, 1)})
    BY <1>0, <2>2
  <2>3. CASE manages /\ side # <<>> /\ NotBusy("create") /\ Press("payments", {Ask("create", selected, 1)})
    BY <1>0, <2>3
  <2>4. CASE \E e \in Shows(list) : Press("payments", {Ask("view", e, 1)})
    BY <1>0, <2>4
  <2> QED BY <1>3, <2>1, <2>2, <2>3, <2>4 DEF PaymentsPressed
<1>4. CASE RefundsPressed
  <2>1. CASE HasMore /\ Press("refunds", {Ask("list", selected, pages + 1)})
    BY <1>0, <2>1
  <2>2. CASE detail # NONE /\ Press("refunds", {Ask("side", detail, 1)})
    BY <1>0, <2>2
  <2>3. CASE detail # NONE /\ manages /\ NotBusy("create") /\ Press("refunds", {Ask("create", detail, 1)})
    BY <1>0, <2>3
  <2> QED BY <1>4, <2>1, <2>2, <2>3 DEF RefundsPressed
<1>5. CASE WebhooksPressed
  <2>1. CASE HasMore /\ Press("webhooks", {Ask("list", selected, pages + 1)})
    BY <1>0, <2>1
  <2>2. CASE Press("webhooks", {Ask("side", selected, 1)})
    BY <1>0, <2>2
  <2>3. CASE manages /\ NotBusy("create") /\ Press("webhooks", {Ask("create", selected, 1)})
    BY <1>0, <2>3
  <2>4. CASE detail # NONE /\ Press("webhooks", {Ask("deliveries", detail, 1)})
    BY <1>0, <2>4
  <2>5. CASE manages /\ detail # NONE /\ Press("webhooks", {Ask("replay", detail, 1)})
    BY <1>0, <2>5
  <2>6. CASE manages /\ \E n \in 1 .. Len(list) :
               Press("webhooks", {Ask("delete", list[n].environment, list[n].part)})
    BY <1>0, <2>6
  <2> QED BY <1>5, <2>5, <2>1, <2>2, <2>3, <2>4, <2>6 DEF WebhooksPressed
<1> QED BY <1>1, <1>2, <1>3, <1>4, <1>5

(* Opening a record, and dismissing the secret.                            *)
LEMMA SelectionKeeps ==
    ASSUME ConsoleInv, selectPayment \/ onSelect \/ Dismiss
    PROVE  ConsoleInv'
<1>1. /\ UNCHANGED <<open, burnt>> /\ revealed' \in {revealed, NONE}
      /\ consoleActs' \in {consoleActs, consoleActs + 1}
  BY DEF selectPayment, onSelect, Dismiss
<1>2. ASSUME NEW d \in pending'
      PROVE  IsCall(d) /\ (d.what = "create" => d \in pending)
  <2>1. d \in pending \/ \E w \in {"view", "deliveries"} : \E e : d = Ask(w, e, 1)
    BY <1>2 DEF selectPayment, onSelect, Dismiss
  <2> QED BY <2>1, AskIsCall DEF ConsoleInv
<1> QED BY <1>1, <1>2, NothingCreated

(* An answer that is not to a create, followed by nothing that is one.     *)
LEMMA AnswerKeeps ==
    ASSUME ConsoleInv, NEW c, NEW next, Answered(c, next), revealed' = revealed,
           \A d \in next : IsCall(d) /\ d.what # "create"
    PROVE  ConsoleInv'
<1>1. UNCHANGED <<open, burnt, consoleActs>> /\ pending' = (pending \ {c}) \cup next
  BY DEF Answered
<1>2. \A d \in pending' : IsCall(d) /\ (d.what = "create" => d \in pending)
  BY <1>1 DEF ConsoleInv
<1> QED BY <1>1, <1>2, NothingCreated

(* The answers of all pages but the one that shows a secret.               *)
LEMMA OtherAnswersKeep ==
    ASSUME ConsoleInv, NEW c \in pending,
           \/ Failed(c) \/ projectAnswered(c) \/ loadCustomers(c) \/ loadPayments(c) \/ loadOthers(c)
           \/ customerOptions(c) \/ loadSide(c) \/ loadDeliveries(c) \/ onView(c) \/ freshPayment(c)
           \/ onReplay(c) \/ onDelete(c)
           \/ mainWebhooks(c) \/ mainRefunds(c) \/ linkedPayment(c)
    PROVE  ConsoleInv'
<1>1. IsCall(c)
  BY DEF ConsoleInv
<1>2. \A d \in After(c) : IsCall(d) /\ d.what # "create"
  BY <1>1, NothingCreatesAfter
<1>3. \A w, d : w # "create" /\ d \in Then(w, c) => IsCall(d) /\ d.what # "create"
  BY <1>1, FollowingIsCall DEF Then
<1>4. \A d : d \in {Ask("options", selected, 1)} => IsCall(d) /\ d.what # "create"
  BY AskIsCall
<1>5. revealed' = revealed
  BY DEF Failed, projectAnswered, loadCustomers, loadPayments, loadOthers, customerOptions, loadSide,
         loadDeliveries, onView, freshPayment, onReplay, onDelete, mainWebhooks, mainRefunds, linkedPayment,
         consoleData
<1>6. \E next \in {{}, {Ask("options", selected, 1)}, After(c), Then("side", c), Then("linked", c)} :
         Answered(c, next)
  <2>1. CASE Failed(c)
    BY <2>1 DEF Failed
  <2>2. CASE projectAnswered(c)
    BY <2>2 DEF projectAnswered
  <2>3. CASE loadCustomers(c) \/ loadOthers(c) \/ customerOptions(c) \/ loadDeliveries(c)
             \/ freshPayment(c) \/ onDelete(c)
    BY <2>3 DEF loadCustomers, loadOthers, customerOptions, loadDeliveries, freshPayment, onDelete
  <2>4. CASE loadPayments(c) \/ loadSide(c) \/ onReplay(c) \/ mainWebhooks(c)
    BY <2>4 DEF loadPayments, loadSide, onReplay, mainWebhooks
  <2>5. CASE onView(c)
    BY <2>5 DEF onView
  <2>6. CASE mainRefunds(c)
    BY <2>6 DEF mainRefunds
  <2>7. CASE linkedPayment(c)
    BY <2>7 DEF linkedPayment
  <2> QED BY <2>5, <2>1, <2>2, <2>3, <2>4, <2>6, <2>7
<1>7. PICK next \in {{}, {Ask("options", selected, 1)}, After(c), Then("side", c), Then("linked", c)} :
         Answered(c, next)
  BY <1>6
<1>8. \A d \in next : IsCall(d) /\ d.what # "create"
  BY <1>2, <1>3, <1>4, <1>7
<1> QED BY <1>5, <1>7, <1>8, AnswerKeeps

(* The new secret is shown: it has not been burnt, and none is to follow.  *)
LEMMA onCreateKeeps ==
    ASSUME ConsoleInv, NEW c \in pending, onCreate(c)
    PROVE  ConsoleInv'
<1>1. /\ UNCHANGED <<open, burnt, consoleActs>> /\ pending' = (pending \ {c}) \cup After(c)
      /\ c.what = "create" /\ IsCall(c)
  BY DEF onCreate, Answered, ConsoleInv
<1>2. /\ c.by \in Nat /\ c.by < consoleActs /\ c.by \notin burnt
      /\ \A d \in pending : d.what = "create" => d = c
  BY <1>1 DEF ConsoleInv
<1>3. \A d \in After(c) : IsCall(d) /\ d.what # "create"
  BY <1>1, NothingCreatesAfter
<1>4. \A d \in pending' : IsCall(d) /\ d.what # "create"
  BY <1>1, <1>2, <1>3 DEF ConsoleInv
<1>5. IF open = "webhooks" THEN revealed' = c.by ELSE revealed' = revealed
  BY DEF onCreate
<1> QED BY <1>1, <1>2, <1>4, <1>5 DEF ConsoleInv

(* A view opens with loads in flight and no creation among them.           *)
LEMMA ConsoleInitially == ConsoleInit => ConsoleInv
<1> SUFFICES ASSUME ConsoleInit PROVE ConsoleInv
  OBVIOUS
<1>1. \A c \in pending : \E w \in {"project", "list", "options", "main", "side"} : \E e : c = Ask(w, e, 1)
  <2>1. CASE open = "customers"
    BY <2>1 DEF ConsoleInit, customersEffect
  <2>2. CASE open = "payments"
    BY <2>2 DEF ConsoleInit, paymentsEffect
  <2>3. CASE open = "refunds"
    BY <2>3 DEF ConsoleInit, refundsEffect
  <2>4. CASE open = "webhooks"
    BY <2>4 DEF ConsoleInit, webhooksEffect
  <2> QED BY <2>1, <2>2, <2>3, <2>4, ConsoleViewsAssumption DEF ConsoleInit
<1>2. \A c \in pending : IsCall(c) /\ c.what # "create"
  BY <1>1, AskIsCall
<1> QED BY <1>2 DEF ConsoleInit, ConsoleInv

(* A signing secret that was on display when the environment changed is    *)
(* not displayed again, however late the answers to the reader's creations *)
(* come in and however often the environment changes meanwhile.            *)
THEOREM SecretsStayBurnt == ConsoleSpec => []SecretNotReshown
<1>1. ConsoleInit => ConsoleInv
  BY ConsoleInitially
<1>2. ConsoleInv /\ [ConsoleNext]_consoleVars => ConsoleInv'
  <2> SUFFICES ASSUME ConsoleInv, [ConsoleNext]_consoleVars PROVE ConsoleInv'
    OBVIOUS
  <2>1. CASE SwitchCustomers \/ SwitchPayments \/ SwitchRefunds \/ SwitchWebhooks
    BY <2>1, SwitchKeeps
  <2>2. CASE CustomersPressed \/ Poll \/ PaymentsPressed \/ RefundsPressed \/ WebhooksPressed
    BY <2>2, PressedOne, PressKeeps
  <2>3. CASE selectPayment \/ onSelect \/ Dismiss
    BY <2>3, SelectionKeeps
  <2>4. ASSUME NEW c \in pending,
               \/ Failed(c) \/ projectAnswered(c) \/ loadCustomers(c) \/ loadPayments(c) \/ loadOthers(c)
               \/ customerOptions(c) \/ loadSide(c) \/ loadDeliveries(c) \/ onView(c) \/ freshPayment(c)
               \/ onCreate(c) \/ onReplay(c) \/ onDelete(c)
               \/ mainWebhooks(c) \/ mainRefunds(c) \/ linkedPayment(c)
        PROVE  ConsoleInv'
    BY <2>4, OtherAnswersKeep, onCreateKeeps
  <2>5. CASE UNCHANGED consoleVars
    BY <2>5 DEF consoleVars, consoleData, ConsoleInv
  <2> QED BY <2>5, <2>1, <2>2, <2>3, <2>4 DEF ConsoleNext
<1>3. ConsoleInv => SecretNotReshown
  BY DEF ConsoleInv, SecretNotReshown
<1> QED BY <1>1, <1>2, <1>3, PTL DEF ConsoleSpec

--------------------------------------------------------------------------------
(* The page of an organization *)

(* The rows that the calls of changes are about.                           *)
AboutRow(op) == op \in {"updateMember", "removeMember"}

(* A change carries what its operation needs, and was on offer for the     *)
(* roles that its reader saw; a refusal means that the server met others.  *)
ChangeInv(c) ==
    /\ c.op \in {"updateMember", "createInvitation"} => c.role \in Roles
    /\ c.op = "cancelInvitation" => c.invitation \in Invitations
    /\ AboutRow(c.op) => c.saw[2] # NONE
    /\ IF AboutRow(c.op) THEN Offered(c.op, c.saw[1], c.saw[2], c.user = reader, c.role)
                         ELSE Offered(c.op, c.saw[1], NONE, FALSE, c.role)
    /\ c.answer = "forbidden" => c.saw # c.met

RosterInv == \A c \in sent : c.op \in Changes => ChangeInv(c)

(* What the selector calls lower is a step down by the server's ranks.     *)
LEMMA LowerIsDownward ==
    ASSUME NEW actor \in Roles, NEW role \in lowerOf(actor)
    PROVE  role \in Roles /\ IsDownward(actor, role)
<1>1. PICK m \in 1 .. 4 : role = ROLE_ORDER[m] /\ \E k \in 1 .. m - 1 : ROLE_ORDER[k] = actor
  BY DEF lowerOf
<1>2. PICK k \in 1 .. m - 1 : ROLE_ORDER[k] = actor
  BY <1>1
<1>3. m \in {2, 3, 4} /\ k \in {1, 2, 3} /\ k < m
  BY <1>2
<1> QED BY <1>1, <1>2, <1>3 DEF ROLE_ORDER, IsDownward, Rank, Roles

(* "Presentation-side mirror of the role matrix": what the page offers for *)
(* the roles it shows, the server permits for the same roles.              *)
LEMMA OfferedIsPermitted ==
    ASSUME NEW op \in Changes, NEW actor \in Roles, NEW target \in Held, NEW isSelf \in BOOLEAN,
           NEW role \in Held, Offered(op, actor, target, isSelf, role)
    PROVE  Permitted(op, actor, target, isSelf, role)
<1>1. CASE op = "updateMember"
  <2>1. role \in roleOptions(actor, target, isSelf)
    BY <1>1 DEF Offered
  <2>2. CASE actor = "owner"
    BY <1>1, <2>2 DEF Permitted, Can, CapabilityOf, MayAssign
  <2>3. CASE actor = "admin"
    <3>1. role # "owner" /\ (isSelf \/ target # "owner")
      BY <2>1, <2>3 DEF roleOptions
    <3> QED BY <1>1, <2>3, <3>1 DEF Permitted, Can, CapabilityOf, MayAssign
  <2>4. CASE actor \notin {"owner", "admin"}
    <3>1. isSelf /\ role \in lowerOf(actor)
      BY <2>1, <2>4 DEF roleOptions
    <3>2. IsDownward(actor, role) /\ role # "owner"
      <4>1. IsDownward(actor, role)
        BY <3>1, LowerIsDownward
      <4>2. actor \in {"member", "viewer"}
        BY <2>4 DEF Roles
      <4>3. Rank(actor) \in {1, 2} /\ Rank("owner") = 4
        BY <4>2 DEF Rank
      <4> QED BY <4>1, <4>3 DEF IsDownward
    <3> QED BY <1>1, <2>4, <3>1, <3>2 DEF Permitted, MayAssign
  <2> QED BY <2>2, <2>3, <2>4
<1>2. CASE op = "removeMember"
  <2>1. managerMayRemove(actor, target, isSelf)
    BY <1>2 DEF Offered
  <2> QED BY <1>2, <2>1 DEF managerMayRemove, Permitted, Can, CapabilityOf, MayRemove
<1>3. CASE op = "createInvitation"
  BY <1>3 DEF Offered, canManageInvitations, inviteRoles, Permitted, Can, CapabilityOf
<1>4. CASE op = "cancelInvitation"
  BY <1>4 DEF Offered, canManageInvitations, Permitted, Can, CapabilityOf
<1>5. CASE op = "delete"
  BY <1>5 DEF Offered, Permitted, Can, CapabilityOf
<1> QED BY <1>1, <1>2, <1>3, <1>4, <1>5 DEF Changes

(* The kinds of calls are told apart by their operation.                   *)
LEMMA RosterCallKinds ==
    ASSUME RosterTypeOK, NEW c \in sent
    PROVE  /\ c.op \in Changes => c \in ChangeCall
           /\ c.op = "load" => c \in LoadCall
           /\ c.op = "refresh" => c \in RefreshCall
BY DEF RosterTypeOK, ChangeCall, LoadCall, RefreshCall, Changes

(* What a step makes of the calls and of the rest, kept types and offers.  *)
LEMMA RosterKept ==
    ASSUME RosterTypeOK, RosterInv, UNCHANGED reader,
           roster' \in View, board' \in Statuses, holds' \in View,
           asked' \in [Invitations -> AskedRow \cup {NONE}], frame' \in Frame,
           rosterActs' \in 0 .. MaxRosterActs,
           \A c \in sent' : \/ c \in sent
                            \/ c \in LoadCall \cup RefreshCall
                            \/ c \in ChangeCall /\ ChangeInv(c)
    PROVE  RosterTypeOK' /\ RosterInv'
<1>1. sent' \subseteq LoadCall \cup ChangeCall \cup RefreshCall
  BY DEF RosterTypeOK
<1>2. RosterTypeOK'
  BY <1>1 DEF RosterTypeOK
<1>3. ASSUME NEW c \in sent', c.op \in Changes
      PROVE  ChangeInv(c)'
  <2>1. ChangeInv(c)
    <3>1. c \notin LoadCall \cup RefreshCall
      BY <1>3 DEF LoadCall, RefreshCall, Changes
    <3> QED BY <1>3, <3>1 DEF RosterInv
  <2> QED BY <2>1 DEF ChangeInv
<1> QED BY <1>2, <1>3 DEF RosterInv

(* The page opens with one load in flight and no change pressed.           *)
LEMMA RosterInitially == RosterInit => RosterTypeOK /\ RosterInv
<1> SUFFICES ASSUME RosterInit PROVE RosterTypeOK /\ RosterInv
  OBVIOUS
<1>1. holds \in View /\ reader \in Accounts /\ rosterActs \in 0 .. MaxRosterActs
  BY RosterAssumption DEF RosterInit
<1>2. roster \in View /\ board \in Statuses
  BY DEF RosterInit, View, Statuses
<1>3. asked \in [Invitations -> AskedRow \cup {NONE}]
  <2>1. PICK first \in Invitations,
             waiting \in {[email |-> a, role |-> "admin", status |-> "pending"] :
                             a \in {b \in Accounts : holds[b] = NONE}} \cup {NONE} :
          asked = [i \in Invitations |-> IF i = first THEN waiting ELSE NONE]
    BY DEF RosterInit
  <2>2. waiting \in AskedRow \cup {NONE}
    BY DEF AskedRow, Roles
  <2> QED BY <2>1, <2>2
<1>4. frame \in Frame
  BY DEF RosterInit, Frame, Opened
<1>5. Load \in LoadCall /\ Load.op \notin Changes
  BY <1>1 DEF Load, LoadCall, Changes
<1>6. RosterTypeOK
  BY <1>1, <1>2, <1>3, <1>4, <1>5 DEF RosterInit, RosterTypeOK
<1>7. RosterInv
  BY <1>5 DEF RosterInit, RosterInv
<1> QED BY <1>6, <1>7

(* What an accepted change makes of the tables keeps their types.          *)
LEMMA ApplyKeepsTables ==
    ASSUME RosterTypeOK, NEW op \in Changes, NEW u \in Accounts, NEW role \in Held,
           NEW i \in Invitations \cup {NONE}, Apply(op, u, role, i),
           op \in {"updateMember", "createInvitation"} => role \in Roles,
           op = "cancelInvitation" => i \in Invitations /\ asked[i] # NONE
    PROVE  holds' \in View /\ asked' \in [Invitations -> AskedRow \cup {NONE}]
<1>1. CASE op = "updateMember"
  BY <1>1 DEF Apply, RosterTypeOK, View
<1>2. CASE op = "removeMember"
  BY <1>2 DEF Apply, RosterTypeOK, View
<1>3. CASE op = "createInvitation"
  <2>1. UNCHANGED holds /\ \E j \in Invitations : asked' = [asked EXCEPT ![j] =
             [email |-> u, role |-> role, status |-> "pending"]]
    BY <1>3 DEF Apply
  <2>2. [email |-> u, role |-> role, status |-> "pending"] \in AskedRow
    BY <1>3 DEF AskedRow
  <2> QED BY <2>1, <2>2 DEF RosterTypeOK
<1>4. CASE op = "cancelInvitation"
  <2>1. UNCHANGED holds /\ asked' = [asked EXCEPT ![i].status = "canceled"]
    BY <1>4 DEF Apply
  <2>2. asked[i] \in AskedRow /\ i \in Invitations
    BY <1>4 DEF RosterTypeOK
  <2>3. [asked[i] EXCEPT !.status = "canceled"] \in AskedRow
    BY <2>2 DEF AskedRow
  <2> QED BY <2>1, <2>2, <2>3 DEF RosterTypeOK
<1>5. CASE op = "delete"
  BY <1>5 DEF Apply, View
<1> QED BY <1>1, <1>2, <1>3, <1>4, <1>5 DEF Changes

(* Who joins by an invitation gets its role.                               *)
LEMMA JoinsKeepsTables ==
    ASSUME RosterTypeOK, NEW a \in Accounts, NEW i \in Invitations, Joins(a, i)
    PROVE  holds' \in View /\ asked' \in [Invitations -> AskedRow \cup {NONE}]
<1>1. asked[i] \in AskedRow
  BY DEF Joins, RosterTypeOK
<1>2. [asked[i] EXCEPT !.status = "accepted"] \in AskedRow /\ asked[i].role \in Roles
  BY <1>1 DEF AskedRow
<1> QED BY <1>2 DEF Joins, RosterTypeOK, View

(* Others act by their own right.                                          *)
LEMMA ElsewhereKeeps ==
    ASSUME RosterTypeOK, RosterInv, Elsewhere
    PROVE  RosterTypeOK' /\ RosterInv'
<1>1. UNCHANGED <<reader, frame, roster, board, sent>> /\ rosterActs' \in 0 .. MaxRosterActs
  BY RosterAssumption DEF Elsewhere, Act, RosterTypeOK
<1>2. holds' \in View /\ asked' \in [Invitations -> AskedRow \cup {NONE}]
  <2>1. \/ \E a \in Accounts, i \in Invitations : Joins(a, i)
        \/ \E u \in Accounts, role \in Roles : Apply("updateMember", u, role, NONE)
        \/ \E u \in Accounts : Apply("removeMember", u, NONE, NONE)
        \/ \E u \in Accounts : Apply("delete", u, NONE, NONE)
    BY DEF Elsewhere, ByRight
  <2>2. CASE \E a \in Accounts, i \in Invitations : Joins(a, i)
    BY <2>2, JoinsKeepsTables
  <2>3. CASE \E u \in Accounts, role \in Roles : Apply("updateMember", u, role, NONE)
    BY <2>3, ApplyKeepsTables DEF Changes, Held
  <2>4. CASE \E u \in Accounts : Apply("removeMember", u, NONE, NONE)
    BY <2>4, ApplyKeepsTables DEF Changes, Held
  <2>5. CASE \E u \in Accounts : Apply("delete", u, NONE, NONE)
    BY <2>5, ApplyKeepsTables DEF Changes, Held
  <2> QED BY <2>5, <2>1, <2>2, <2>3, <2>4
<1> QED BY <1>1, <1>2, RosterKept DEF RosterTypeOK

(* What the reader presses was on offer, for the roles on display.         *)
LEMMA RosterPressKeeps ==
    ASSUME RosterTypeOK, RosterInv,
           onChangeRole \/ onRemoveMember \/ onInvite \/ onCancelInvitation \/ onDeleteOrganization
    PROVE  RosterTypeOK' /\ RosterInv'
<1>1. actorRole \in Roles /\ NONE \notin Roles
  BY OrgAssumption DEF actorRole, RosterTypeOK, View, Roles
<1>2. \E op \in Changes, u \in Accounts, role \in Held, i \in Invitations \cup {NONE} :
         /\ Pressed(Change(op, u, role, i))
         /\ op \in {"updateMember", "createInvitation"} => role \in Roles
         /\ op = "cancelInvitation" => i \in Invitations
         /\ AboutRow(op) => roster[u] # NONE
         /\ IF AboutRow(op) THEN Offered(op, actorRole, roster[u], u = reader, role)
                            ELSE Offered(op, actorRole, NONE, FALSE, role)
  <2>1. CASE onChangeRole
    <3>1. PICK u \in Accounts, role \in Roles :
             /\ roster[u] # NONE /\ Offered("updateMember", actorRole, roster[u], u = reader, role)
             /\ Pressed(Change("updateMember", u, role, NONE))
      BY <2>1 DEF onChangeRole
    <3>2. "updateMember" \in Changes /\ role \in Held /\ AboutRow("updateMember")
      BY DEF Changes, Held, AboutRow
    <3> QED BY <3>1, <3>2
  <2>2. CASE onRemoveMember
    <3>1. PICK u \in Accounts :
             /\ roster[u] # NONE /\ Offered("removeMember", actorRole, roster[u], u = reader, NONE)
             /\ Pressed(Change("removeMember", u, NONE, NONE))
      BY <2>2 DEF onRemoveMember
    <3>2. "removeMember" \in Changes /\ NONE \in Held /\ AboutRow("removeMember")
      BY DEF Changes, Held, AboutRow
    <3> QED BY <3>1, <3>2
  <2>3. CASE onInvite
    <3>1. PICK u \in Accounts, role \in Roles :
             /\ Offered("createInvitation", actorRole, NONE, FALSE, role)
             /\ Pressed(Change("createInvitation", u, role, NONE))
      BY <2>3 DEF onInvite
    <3>2. "createInvitation" \in Changes /\ role \in Held /\ ~AboutRow("createInvitation")
      BY DEF Changes, Held, AboutRow
    <3> QED BY <3>1, <3>2
  <2>4. CASE onCancelInvitation
    <3>1. PICK i \in Invitations :
             /\ Offered("cancelInvitation", actorRole, NONE, FALSE, NONE)
             /\ Pressed(Change("cancelInvitation", reader, NONE, i))
      BY <2>4 DEF onCancelInvitation
    <3>2. "cancelInvitation" \in Changes /\ NONE \in Held /\ ~AboutRow("cancelInvitation") /\ reader \in Accounts
      BY DEF Changes, Held, AboutRow, RosterTypeOK
    <3> QED BY <3>1, <3>2
  <2>5. CASE onDeleteOrganization
    <3>1. "delete" \in Changes /\ NONE \in Held /\ ~AboutRow("delete") /\ reader \in Accounts
      BY DEF Changes, Held, AboutRow, RosterTypeOK
    <3> QED BY <2>5, <3>1 DEF onDeleteOrganization
  <2> QED BY <2>5, <2>1, <2>2, <2>3, <2>4
<1>3. PICK op \in Changes, u \in Accounts, role \in Held, i \in Invitations \cup {NONE} :
         /\ Pressed(Change(op, u, role, i))
         /\ op \in {"updateMember", "createInvitation"} => role \in Roles
         /\ op = "cancelInvitation" => i \in Invitations
         /\ AboutRow(op) => roster[u] # NONE
         /\ IF AboutRow(op) THEN Offered(op, actorRole, roster[u], u = reader, role)
                            ELSE Offered(op, actorRole, NONE, FALSE, role)
  BY <1>2
<1>4. roster[u] \in Held
  BY DEF RosterTypeOK, View, Held
<1>5. /\ Change(op, u, role, i) \in ChangeCall
      /\ Change(op, u, role, i).op = op /\ Change(op, u, role, i).user = u
      /\ Change(op, u, role, i).role = role /\ Change(op, u, role, i).invitation = i
      /\ Change(op, u, role, i).saw[1] = actorRole /\ Change(op, u, role, i).saw[2] = roster[u]
      /\ Change(op, u, role, i).answer = NONE
  BY <1>1, <1>4 DEF Change, ChangeCall, RosterTypeOK
<1>6. ChangeInv(Change(op, u, role, i))
  BY <1>3, <1>5, NoneIsNoAnswer DEF ChangeInv
<1>7. /\ UNCHANGED <<reader, frame, roster, board, holds, asked>> /\ rosterActs' \in 0 .. MaxRosterActs
      /\ sent' = sent \cup {Change(op, u, role, i)}
  BY <1>3, RosterAssumption DEF Pressed, Act, rosterServer, RosterTypeOK
<1> QED BY <1>5, <1>6, <1>7, RosterKept DEF RosterTypeOK

(* The server says forbidden only when it meets other roles than the       *)
(* reader saw.                                                             *)
LEMMA ForbiddenWhenStale ==
    ASSUME RosterTypeOK, NEW c \in ChangeCall, ChangeInv(c),
           Verdict(reader, c.op, c.user, c.role, c.invitation) = "forbidden"
    PROVE  c.saw # <<holds[reader], holds[c.user]>>
<1> SUFFICES ASSUME c.saw = <<holds[reader], holds[c.user]>> PROVE FALSE
  OBVIOUS
<1>1. /\ c.op \in Changes /\ c.saw[1] \in Roles /\ c.saw[2] \in Held /\ c.role \in Held /\ c.user \in Accounts
      /\ c.saw[1] = holds[reader] /\ c.saw[2] = holds[c.user]
  BY DEF ChangeCall
<1>2. holds[reader] # NONE
  BY <1>1, OrgAssumption
<1>3. CASE AboutRow(c.op)
  <2>1. holds[c.user] # NONE /\ Offered(c.op, holds[reader], holds[c.user], c.user = reader, c.role)
    BY <1>1, <1>3 DEF ChangeInv
  <2>2. Permitted(c.op, holds[reader], holds[c.user], c.user = reader, c.role)
    BY <1>1, <2>1, OfferedIsPermitted
  <2>3. Permitted(c.op, holds[reader], holds[c.user], reader = c.user, c.role)
    BY <2>2 DEF Permitted
  <2>4. c.op \in {"updateMember", "removeMember"} /\ c.op \notin {"createInvitation", "cancelInvitation", "delete"}
    BY <1>3 DEF AboutRow
  <2> QED BY <1>2, <2>1, <2>3, <2>4, NoneIsNoAnswer DEF Verdict
<1>4. CASE ~AboutRow(c.op)
  <2>1. Offered(c.op, holds[reader], NONE, FALSE, c.role)
    BY <1>1, <1>4 DEF ChangeInv
  <2>2. Permitted(c.op, holds[reader], NONE, FALSE, c.role)
    BY <1>1, <2>1, OfferedIsPermitted DEF Held
  <2>3. c.op \notin {"updateMember", "removeMember"}
    BY <1>4 DEF AboutRow
  <2> QED BY <1>2, <2>2, <2>3 DEF Verdict
<1> QED BY <1>3, <1>4

(* A change served: the answer, the roles it met, and the tables.          *)
LEMMA ServeKeeps ==
    ASSUME RosterTypeOK, RosterInv, NEW c \in sent, Serve(c)
    PROVE  RosterTypeOK' /\ RosterInv'
<1> DEFINE verdict == Verdict(reader, c.op, c.user, c.role, c.invitation)
           d == [c EXCEPT !.answer = verdict, !.met = <<holds[reader], holds[c.user]>>]
<1>1. /\ c \in ChangeCall /\ ChangeInv(c) /\ c.op \in Changes
      /\ UNCHANGED <<reader, frame, roster, board, rosterActs>> /\ sent' = (sent \ {c}) \cup {d}
  BY RosterCallKinds DEF Serve, Replace, RosterInv
<1>2. verdict \in {"ok", "missing", "forbidden", "conflict"}
  BY DEF Verdict
<1>3. holds[reader] \in Held /\ holds[c.user] \in Held
  BY <1>1 DEF RosterTypeOK, View, Held, ChangeCall
<1>4. /\ d \in ChangeCall /\ d.op = c.op /\ d.user = c.user /\ d.role = c.role
      /\ d.invitation = c.invitation /\ d.saw = c.saw /\ d.answer = verdict
      /\ d.met = <<holds[reader], holds[c.user]>>
  <2> HIDE DEF verdict
  <2> QED BY <1>1, <1>2, <1>3 DEF ChangeCall
<1>5. verdict = "forbidden" => c.saw # <<holds[reader], holds[c.user]>>
  BY <1>1, ForbiddenWhenStale
<1>6. ChangeInv(d)
  <2> HIDE DEF d, verdict
  <2> QED BY <1>1, <1>4, <1>5 DEF ChangeInv
<1>7. holds' \in View /\ asked' \in [Invitations -> AskedRow \cup {NONE}]
  <2>1. CASE verdict = "ok"
    <3>1. Apply(c.op, c.user, c.role, c.invitation)
      BY <2>1 DEF Serve
    <3>2. c.op = "cancelInvitation" => asked[c.invitation] # NONE
      <4>1. SUFFICES ASSUME c.op = "cancelInvitation", asked[c.invitation] = NONE PROVE FALSE
        OBVIOUS
      <4>2. verdict \in {"missing", "forbidden", "conflict"}
        BY <4>1 DEF Verdict
      <4> QED BY <2>1, <4>2
    <3> QED BY <1>1, <3>1, <3>2, ApplyKeepsTables DEF ChangeInv, ChangeCall
  <2>2. CASE verdict # "ok"
    BY <2>2 DEF Serve, rosterServer, RosterTypeOK
  <2> QED BY <2>1, <2>2
<1> HIDE DEF d, verdict
<1> QED BY <1>1, <1>4, <1>6, <1>7, RosterKept DEF RosterTypeOK

(* A load reads, and an invitation list is read again.                     *)
LEMMA RosterReadKeeps ==
    ASSUME RosterTypeOK, RosterInv, NEW c \in sent, Read(c) \/ Refresh(c)
    PROVE  RosterTypeOK' /\ RosterInv'
<1>1. StatusesNow \in Statuses
  BY DEF StatusesNow, Statuses, RosterTypeOK, AskedRow
<1>2. CASE Read(c)
  <2>1. c \in LoadCall
    BY <1>2, RosterCallKinds DEF Read
  <2>2. \E d \in LoadCall : Replace(c, d)
    <3>1. CASE \E o \in {"found", "missing"} : Replace(c, [c EXCEPT !.organization = o])
      <4>1. PICK o \in {"found", "missing"} : Replace(c, [c EXCEPT !.organization = o])
        BY <3>1
      <4>2. [c EXCEPT !.organization = o] \in LoadCall
        BY <2>1 DEF LoadCall
      <4> QED BY <4>1, <4>2
    <3>2. CASE Replace(c, [c EXCEPT !.roster = holds])
      <4>1. [c EXCEPT !.roster = holds] \in LoadCall
        BY <2>1 DEF LoadCall, RosterTypeOK
      <4> QED BY <3>2, <4>1
    <3>3. CASE \E b \in Statuses : Replace(c, [c EXCEPT !.board = b])
      <4>1. PICK b \in Statuses : Replace(c, [c EXCEPT !.board = b])
        BY <3>3
      <4>2. [c EXCEPT !.board = b] \in LoadCall
        BY <2>1 DEF LoadCall
      <4> QED BY <4>1, <4>2
    <3>4. [i \in Invitations |-> NONE] \in Statuses
      BY DEF Statuses
    <3> QED BY <1>1, <1>2, <3>1, <3>2, <3>3, <3>4 DEF Read
  <2>3. PICK d \in LoadCall : Replace(c, d)
    BY <2>2
  <2>4. UNCHANGED <<reader, frame, roster, board, holds, asked, rosterActs>> /\ sent' = (sent \ {c}) \cup {d}
    BY <1>2, <2>3 DEF Read, Replace, rosterServer
  <2> QED BY <2>4, RosterKept DEF RosterTypeOK
<1>3. CASE Refresh(c)
  <2>1. c \in RefreshCall
    BY <1>3, RosterCallKinds DEF Refresh
  <2>2. [c EXCEPT !.board = StatusesNow] \in RefreshCall
    BY <1>1, <2>1 DEF RefreshCall
  <2>3. /\ UNCHANGED <<reader, frame, roster, holds, asked, rosterActs>> /\ board' \in Statuses
        /\ sent' \subseteq sent \cup {[c EXCEPT !.board = StatusesNow]}
    BY <1>3, <2>1 DEF Refresh, Replace, rosterServer, RosterTypeOK, RefreshCall
  <2> QED BY <2>2, <2>3, RosterKept DEF RosterTypeOK
<1> QED BY <1>2, <1>3

(* A load that comes in, however late.                                     *)
LEMMA RosterLandedKeeps ==
    ASSUME RosterTypeOK, RosterInv, NEW l \in sent, Landed(l)
    PROVE  RosterTypeOK' /\ RosterInv'
<1>1. l \in LoadCall
  BY RosterCallKinds DEF Landed, Complete, Gone
<1>2. /\ UNCHANGED <<reader, holds, asked, rosterActs>> /\ sent' = sent \ {l}
      /\ roster' \in View /\ board' \in Statuses
  BY <1>1 DEF Landed, Complete, rosterServer, RosterTypeOK, LoadCall
<1>3. frame' \in Frame
  BY DEF Landed, RosterTypeOK, Frame
<1> QED BY <1>2, <1>3, RosterKept DEF RosterTypeOK

(* An answered change edits the rows on display.                           *)
LEMMA ChangeAnsweredKeeps ==
    ASSUME RosterTypeOK, RosterInv, NEW c \in sent, ChangeAnswered(c)
    PROVE  RosterTypeOK' /\ RosterInv'
<1>1. c \in ChangeCall /\ ChangeInv(c) /\ UNCHANGED <<reader, holds, asked, rosterActs>>
  BY RosterCallKinds DEF ChangeAnswered, rosterServer, RosterInv
<1>2. roster' \in View
  <2>1. \/ roster' = roster
        \/ c.op = "updateMember" /\ roster' = [roster EXCEPT ![c.user] = c.role]
        \/ roster' = [roster EXCEPT ![c.user] = NONE]
    BY DEF ChangeAnswered
  <2>2. c.op = "updateMember" => c.role \in Roles
    BY <1>1 DEF ChangeInv
  <2> QED BY <2>1, <2>2 DEF RosterTypeOK, View
<1>3. board' \in Statuses
  <2>1. board' = board \/ board' = [board EXCEPT ![c.invitation] = "canceled"]
    BY DEF ChangeAnswered
  <2> QED BY <2>1 DEF RosterTypeOK, Statuses
<1>4. frame' \in Frame
  BY DEF ChangeAnswered, RosterTypeOK, Frame
<1>5. sent' \subseteq sent \cup {[op |-> "refresh", board |-> NONE, by |-> c.by]}
  BY DEF ChangeAnswered
<1>6. [op |-> "refresh", board |-> NONE, by |-> c.by] \in RefreshCall
  BY <1>1 DEF RefreshCall, ChangeCall
<1> QED BY <1>1, <1>2, <1>3, <1>4, <1>5, <1>6, RosterKept DEF RosterTypeOK

(* The routes of the page and of the invitation.                           *)
LEMMA RosterRoutesKeep ==
    ASSUME RosterTypeOK, RosterInv, reload \/ onAccept \/ AcceptAnswered \/ OpenOrganization
    PROVE  RosterTypeOK' /\ RosterInv'
<1>1. UNCHANGED <<reader, roster, board>> /\ rosterActs' \in 0 .. MaxRosterActs
      /\ sent' \subseteq sent \cup {Load}
  BY RosterAssumption DEF reload, onAccept, AcceptAnswered, OpenOrganization, Act, RosterTypeOK
<1>2. frame' \in Frame
  <2>1. \/ frame' = [frame EXCEPT !.loading = TRUE] \/ frame' = Opened
        \/ \E r \in {"accepting", "accepted", "invitation"} : frame' = [frame EXCEPT !.route = r]
    BY DEF reload, onAccept, AcceptAnswered, OpenOrganization
  <2>2. Opened \in Frame
    BY DEF Opened, Frame
  <2>3. [frame EXCEPT !.loading = TRUE] \in Frame
    BY DEF RosterTypeOK, Frame
  <2>4. ASSUME NEW r \in {"accepting", "accepted", "invitation"}
        PROVE  [frame EXCEPT !.route = r] \in Frame
    BY DEF RosterTypeOK, Frame
  <2> QED BY <2>1, <2>2, <2>3, <2>4
<1>3. holds' \in View /\ asked' \in [Invitations -> AskedRow \cup {NONE}]
  <2>1. UNCHANGED rosterServer \/ \E i \in Invitations : Joins(reader, i)
    BY DEF reload, onAccept, AcceptAnswered, OpenOrganization
  <2>2. CASE UNCHANGED rosterServer
    BY <2>2 DEF rosterServer, RosterTypeOK
  <2>3. CASE \E i \in Invitations : Joins(reader, i)
    BY <2>3, JoinsKeepsTables DEF RosterTypeOK
  <2> QED BY <2>1, <2>2, <2>3
<1>4. Load \in LoadCall
  BY DEF Load, LoadCall, RosterTypeOK
<1> QED BY <1>1, <1>2, <1>3, <1>4, RosterKept DEF RosterTypeOK

(* Every step of the page of an organization.                              *)
LEMMA RosterStep == RosterTypeOK /\ RosterInv /\ [RosterNext]_rosterVars => RosterTypeOK' /\ RosterInv'
<1> SUFFICES ASSUME RosterTypeOK, RosterInv, [RosterNext]_rosterVars PROVE RosterTypeOK' /\ RosterInv'
  OBVIOUS
<1>1. CASE onChangeRole \/ onRemoveMember \/ onInvite \/ onCancelInvitation \/ onDeleteOrganization
  BY <1>1, RosterPressKeeps
<1>2. CASE reload \/ onAccept \/ AcceptAnswered \/ OpenOrganization
  BY <1>2, RosterRoutesKeep
<1>3. CASE Elsewhere
  BY <1>3, ElsewhereKeeps
<1>4. ASSUME NEW c \in sent, Serve(c) \/ Read(c) \/ Landed(c) \/ ChangeAnswered(c) \/ Refresh(c)
      PROVE  RosterTypeOK' /\ RosterInv'
  BY <1>4, ServeKeeps, RosterReadKeeps, RosterLandedKeeps, ChangeAnsweredKeeps
<1>5. CASE UNCHANGED rosterVars
  BY <1>5 DEF rosterVars, rosterServer, RosterTypeOK, RosterInv, ChangeInv
<1> QED BY <1>1, <1>2, <1>3, <1>4, <1>5 DEF RosterNext

(* The roster, its calls and the tables behind them have their types       *)
(* (apps/web, organizations/[organizationId]/page.tsx).                    *)
THEOREM RosterTypesOk == RosterSpec => []RosterTypeOK
<1>1. RosterInit => RosterTypeOK /\ RosterInv
  BY RosterInitially
<1>2. RosterTypeOK /\ RosterInv /\ [RosterNext]_rosterVars => RosterTypeOK' /\ RosterInv'
  BY RosterStep
<1> QED BY <1>1, <1>2, PTL DEF RosterSpec

(* The server refuses what the page offered only when a role had changed   *)
(* between the roster on display and the call: the page's own role matrix  *)
(* never offers what the server's would not permit.                        *)
THEOREM MirrorIsTrue == RosterSpec => []RefusedOnlyWhenStale
<1>1. RosterInit => RosterTypeOK /\ RosterInv
  BY RosterInitially
<1>2. RosterTypeOK /\ RosterInv /\ [RosterNext]_rosterVars => RosterTypeOK' /\ RosterInv'
  BY RosterStep
<1>3. RosterInv => RefusedOnlyWhenStale
  BY DEF RosterInv, ChangeInv, RefusedOnlyWhenStale
<1> QED BY <1>1, <1>2, <1>3, PTL DEF RosterSpec

--------------------------------------------------------------------------------
(* The log pages *)

(* The call that may still replace the table, and the one that may extend  *)
(* it.                                                                     *)
Resolving(c) == c.what \in {"project", "first"} /\ c.live
Extending(c) == c.what = "more" /\ c.generation = listGeneration

(* A live call of an effect is the only one and serves the present route;  *)
(* while page one is awaited, it is page one of the list that the page now *)
(* shows, and nothing else may touch the table.                            *)
ResolveInv(c) ==
    /\ c.project = route
    /\ \A d \in callsOut : Resolving(d) => d = c
    /\ c.what = "project" => view.status = "loading"
    /\ c.what = "first" => /\ view.status = "ready" /\ c.list = ListOf(surface) /\ listLoading
                           /\ \A d \in callsOut : ~Extending(d)

(* At most one page more is awaited, and it is the next of the same list.  *)
ExtendInv(c) ==
    /\ listLoading
    /\ \A d \in callsOut : Extending(d) => d = c
    /\ view.status = "ready" /\ ~stale => c.list = ListOf(surface) /\ cursor # NONE /\ c.page = cursor

(* The table is the first pages of the list that the page now shows.       *)
Table ==
    /\ Len(rows) \in 1 .. LastPage
    /\ rows = [n \in 1 .. Len(rows) |-> [of |-> ListOf(surface), page |-> n]]
    /\ cursor = NextCursor(Len(rows))

LogInv ==
    /\ view.project = route
    /\ \A c \in callsOut : Resolving(c) => ResolveInv(c)
    /\ \A c \in callsOut : Extending(c) => ExtendInv(c)
    /\ view.status = "ready" /\ ~stale /\ (\A c \in callsOut : ~Resolving(c)) => Table

(* The list of the page is one of the lists.                               *)
LEMMA ListOfIsAList ==
    ASSUME LogTypeOK
    PROVE  ListOf(surface) \in Lists
<1>1. query \in Lists
  BY DEF query, ListUnder, Lists, LogTypeOK
<1>2. auditQuery \in Lists
  BY LogAssumption DEF auditQuery, ListUnder, Anything, Lists, LogTypeOK
<1> QED BY <1>1, <1>2 DEF ListOf

(* A log page opens with its project being looked up.                      *)
LEMMA LogInitially == LogInit => LogTypeOK /\ LogInv
<1> SUFFICES ASSUME LogInit PROVE LogTypeOK /\ LogInv
  OBVIOUS
<1>1. callsOut = {Call("project", route, NONE, NONE, 1)} /\ route \in Routes /\ listGeneration = 1
  BY DEF LogInit
<1>2. Call("project", route, NONE, NONE, 1) \in LogCall /\ Call("project", route, NONE, NONE, 1).what = "project"
      /\ Call("project", route, NONE, NONE, 1).generation = 1 /\ Call("project", route, NONE, NONE, 1).project = route
  BY <1>1 DEF Call, LogCall
<1>3. view \in [project : Routes, status : {"loading", "ready", "notFound", "error"}]
      /\ view.status = "loading" /\ view.project = route
  BY <1>1 DEF LogInit
<1>4. filter \in [environment : LogEnvironments, request_id : RequestIds]
  BY LogAssumption DEF LogInit, Anything
<1>5. rows \in Seq([of : Lists, page : 1 .. LastPage])
  BY DEF LogInit
<1>6. listLoading \in BOOLEAN /\ listError \in BOOLEAN /\ stale \in BOOLEAN
  BY DEF LogInit
<1>7. surface \in {"requests", "audit"} /\ loadedFor = NONE /\ cursor = NONE /\ logActs = 0
  BY DEF LogInit
<1>8. LogTypeOK
  BY <1>1, <1>2, <1>3, <1>4, <1>5, <1>6, <1>7, LogAssumption DEF LogTypeOK
<1>9. LogInv
  BY <1>1, <1>2, <1>3 DEF LogInv, Resolving, Extending, ResolveInv
<1> QED BY <1>8, <1>9

(* Calls that are cancelled are calls as before, but not live.             *)
LEMMA CancelledCalls ==
    ASSUME NEW calls \in SUBSET LogCall, NEW kinds, NEW d \in Cancelled(calls, kinds)
    PROVE  /\ d \in LogCall
           /\ d.what \in kinds => ~d.live
           /\ \E c \in calls : /\ d.what = c.what /\ d.generation = c.generation /\ d.list = c.list
                               /\ d.page = c.page /\ d.project = c.project
                               /\ d.what \notin kinds => d = c
<1>1. PICK c \in calls : d = IF c.what \in kinds THEN [c EXCEPT !.live = FALSE] ELSE c
  BY DEF Cancelled
<1>2. c \in LogCall
  OBVIOUS
<1>3. CASE c.what \in kinds
  <2>1. /\ d \in LogCall /\ d.what = c.what /\ d.generation = c.generation /\ d.list = c.list
        /\ d.page = c.page /\ d.project = c.project /\ ~d.live
    BY <1>1, <1>2, <1>3 DEF LogCall
  <2> QED BY <1>3, <2>1
<1>4. CASE c.what \notin kinds
  BY <1>1, <1>2, <1>4
<1> QED BY <1>3, <1>4

(* A call of an older generation extends nothing after the next effect.    *)
LEMMA OlderCalls ==
    ASSUME LogTypeOK, NEW kinds, NEW calls \in SUBSET callsOut, NEW d \in Cancelled(calls, kinds)
    PROVE  /\ d \in LogCall /\ d.generation <= listGeneration /\ d.generation # listGeneration + 1
           /\ d.what # "project" => d.list \in Lists /\ d.page \in 1 .. LastPage
           /\ d.what \in kinds => ~d.live
           /\ d.what \notin kinds => d \in calls
<1>1. calls \subseteq LogCall
  BY DEF LogTypeOK
<1>2. /\ d \in LogCall
      /\ d.what \in kinds => ~d.live
      /\ \E c \in calls : /\ d.what = c.what /\ d.generation = c.generation /\ d.list = c.list
                          /\ d.page = c.page /\ d.project = c.project
                          /\ d.what \notin kinds => d = c
  BY <1>1, CancelledCalls
<1>3. PICK c \in calls : /\ d.what = c.what /\ d.generation = c.generation /\ d.list = c.list
                         /\ d.page = c.page /\ d.project = c.project
                         /\ d.what \notin kinds => d = c
  BY <1>2
<1>4. /\ c.generation <= listGeneration /\ c.generation \in Nat /\ listGeneration \in Nat
      /\ c.what # "project" => c.list \in Lists /\ c.page \in 1 .. LastPage
  <2>1. c \in callsOut /\ c \in LogCall
    BY <1>1
  <2>2. c.generation \in Nat
    BY <2>1 DEF LogCall
  <2>3. listGeneration \in Nat /\ c.generation <= listGeneration
    BY <2>1 DEF LogTypeOK
  <2>4. c.what # "project" => c.list \in Lists /\ c.page \in 1 .. LastPage
    BY <2>1 DEF LogTypeOK
  <2> QED BY <2>2, <2>3, <2>4
<1> QED BY <1>2, <1>3, <1>4

(* A change of route and a renewed token start over.                       *)
LEMMA ResolveProjectKeeps ==
    ASSUME LogTypeOK, LogInv, Navigate \/ TokenRenewed
    PROVE  LogTypeOK' /\ LogInv'
<1>1. /\ route' \in Routes /\ ResolveProject(route')
      /\ UNCHANGED <<surface, filter, rows, cursor, loadedFor, stale>> /\ logActs' \in 0 .. MaxLogActs
      /\ listError' \in BOOLEAN /\ listLoading' \in BOOLEAN
  <2>1. CASE Navigate
    BY <2>1, LogAssumption DEF Navigate, Acting, listVars, LogTypeOK
  <2>2. CASE TokenRenewed
    <3>1. route' = route /\ ResolveProject(route) /\ route \in Routes /\ logActs' \in 0 .. MaxLogActs
          /\ UNCHANGED <<surface, filter, rows, cursor, loadedFor, stale>>
      BY <2>2, LogAssumption DEF TokenRenewed, Acting, LogTypeOK
    <3>2. listError' \in BOOLEAN /\ listLoading' \in BOOLEAN
      BY <2>2 DEF TokenRenewed, LogTypeOK
    <3> QED BY <3>1, <3>2
  <2> QED BY <2>1, <2>2
<1> DEFINE new == Call("project", route', NONE, NONE, listGeneration')
<1>2. /\ view' = [project |-> route', status |-> "loading"]
      /\ listGeneration' = listGeneration + 1 /\ listGeneration' \in Nat
      /\ callsOut' = Cancelled(callsOut, {"project", "first"}) \cup {new}
  BY <1>1 DEF ResolveProject, LogTypeOK
<1>3. /\ new \in LogCall /\ new.what = "project" /\ new.generation = listGeneration' /\ new.project = route'
  BY <1>1, <1>2 DEF Call, LogCall
<1> HIDE DEF new
<1>4. ASSUME NEW d \in callsOut'
      PROVE  /\ d \in LogCall /\ d.generation <= listGeneration'
             /\ d.what # "project" => /\ d.list \in Lists /\ d.page \in 1 .. LastPage
                                      /\ d.generation # listGeneration'
             /\ d.what \in {"project", "first"} /\ d.live => d = new
  <2>1. CASE d = new
    BY <1>2, <1>3, <2>1
  <2>2. CASE d \in Cancelled(callsOut, {"project", "first"})
    <3>1. /\ d \in LogCall /\ d.generation <= listGeneration /\ d.generation # listGeneration + 1
          /\ d.what # "project" => d.list \in Lists /\ d.page \in 1 .. LastPage
          /\ d.what \in {"project", "first"} => ~d.live
      BY <2>2, OlderCalls
    <3>2. d.generation \in Nat /\ listGeneration \in Nat
      BY <3>1 DEF LogCall, LogTypeOK
    <3> QED BY <1>2, <3>1, <3>2
  <2> QED BY <1>2, <1>4, <2>1, <2>2
<1>5. view' \in [project : Routes, status : {"loading", "ready", "notFound", "error"}]
      /\ view'.status = "loading" /\ view'.project = route'
  BY <1>1, <1>2
<1>6. LogTypeOK'
  BY <1>1, <1>2, <1>4, <1>5 DEF LogTypeOK
<1>7. ASSUME NEW c \in callsOut', Resolving(c)'
      PROVE  ResolveInv(c)'
  <2>1. c = new
    BY <1>4, <1>7 DEF Resolving
  <2> QED BY <1>3, <1>4, <1>5, <2>1 DEF ResolveInv, Resolving
<1>8. \A c \in callsOut' : ~Extending(c)'
  BY <1>4 DEF Extending
<1> QED BY <1>5, <1>6, <1>7, <1>8 DEF LogInv

(* Page one of a list is asked for, in a project that is ready.            *)
LEMMA FirstPageKeeps ==
    ASSUME LogTypeOK, LogInv, NEW calls \in SUBSET callsOut, NEW list_ \in Lists, FirstPage(calls, list_),
           \A c \in calls : c.what = "project" => ~c.live,
           view' = [project |-> route, status |-> "ready"], list_ = ListOf(surface)',
           UNCHANGED <<surface, route, rows, cursor, loadedFor, stale>>, logActs' \in 0 .. MaxLogActs,
           filter' \in [environment : LogEnvironments, request_id : RequestIds]
    PROVE  LogTypeOK' /\ LogInv'
<1> DEFINE new == Call("first", route, list_, 1, listGeneration')
<1>1. /\ listGeneration' = listGeneration + 1 /\ listGeneration' \in Nat
      /\ callsOut' = Cancelled(calls, {"first"}) \cup {new}
      /\ listLoading' = TRUE /\ listError' = FALSE
  BY DEF FirstPage, LogTypeOK
<1>2. /\ new \in LogCall /\ new.what = "first" /\ new.generation = listGeneration' /\ new.project = route
      /\ new.list = list_ /\ new.page = 1
  BY <1>1, LogAssumption DEF Call, LogCall, LogTypeOK
<1> HIDE DEF new
<1>3. ASSUME NEW d \in callsOut'
      PROVE  /\ d \in LogCall /\ d.generation <= listGeneration'
             /\ d.what # "project" => d.list \in Lists /\ d.page \in 1 .. LastPage
             /\ d.what = "more" => d.generation # listGeneration'
             /\ d.what \in {"project", "first"} /\ d.live => d = new
  <2>1. CASE d = new
    BY <1>1, <1>2, <2>1, LogAssumption
  <2>2. CASE d \in Cancelled(calls, {"first"})
    <3>1. /\ d \in LogCall /\ d.generation <= listGeneration /\ d.generation # listGeneration + 1
          /\ d.what # "project" => d.list \in Lists /\ d.page \in 1 .. LastPage
          /\ d.what \in {"first"} => ~d.live
          /\ d.what \notin {"first"} => d \in calls
      BY <2>2, OlderCalls
    <3>2. d.generation \in Nat /\ listGeneration \in Nat
      BY <3>1 DEF LogCall, LogTypeOK
    <3> QED BY <1>1, <3>1, <3>2
  <2> QED BY <1>1, <1>3, <2>1, <2>2
<1>4. view' \in [project : Routes, status : {"loading", "ready", "notFound", "error"}]
      /\ view'.status = "ready" /\ view'.project = route /\ route' = route
  BY DEF LogTypeOK
<1>5. LogTypeOK'
  BY <1>1, <1>3, <1>4 DEF LogTypeOK
<1>6. \A c \in callsOut' : ~Extending(c)'
  BY <1>3 DEF Extending
<1>7. ASSUME NEW c \in callsOut', Resolving(c)'
      PROVE  ResolveInv(c)'
  <2>1. c = new
    BY <1>3, <1>7 DEF Resolving
  <2> QED BY <1>1, <1>2, <1>3, <1>4, <1>6, <2>1 DEF ResolveInv, Resolving
<1>8. \E c \in callsOut' : Resolving(c)'
  <2>1. PICK c \in callsOut' : c = new
    BY <1>1
  <2>2. c.what = "first" /\ c.live
    BY <2>1 DEF new, Call
  <2> QED BY <2>2 DEF Resolving
<1> QED BY <1>4, <1>5, <1>6, <1>7, <1>8 DEF LogInv

(* A filter change asks for page one of the new list.                      *)
LEMMA ChangeFilterKeeps ==
    ASSUME LogTypeOK, LogInv, ChangeFilter
    PROVE  LogTypeOK' /\ LogInv'
<1>1. /\ surface = "requests" /\ view = [project |-> route, status |-> "ready"]
      /\ FirstPage(callsOut, ListUnder(route, filter')) /\ logActs' \in 0 .. MaxLogActs
      /\ UNCHANGED <<surface, route, view, rows, cursor, loadedFor, stale>>
  BY LogAssumption DEF ChangeFilter, Shown, projectReady, Acting, LogTypeOK
<1>2. filter' \in [environment : LogEnvironments, request_id : RequestIds]
  BY LogAssumption DEF ChangeFilter, LogTypeOK
<1>3. ListOf(surface)' = ListUnder(route, filter')
  BY <1>1 DEF ListOf, query, ListUnder
<1>4. ListUnder(route, filter') \in Lists
  BY <1>2 DEF ListUnder, Lists, LogTypeOK
<1>5. \A c \in callsOut : c.what = "project" => ~c.live
  BY <1>1 DEF LogInv, Resolving, ResolveInv
<1> QED BY <1>1, <1>2, <1>3, <1>4, <1>5, FirstPageKeeps

(* One page more is asked for when nothing else is awaited.                *)
LEMMA LoadMoreKeeps ==
    ASSUME LogTypeOK, LogInv, onLoadMore \/ auditLoadMore
    PROVE  LogTypeOK' /\ LogInv'
<1> DEFINE new == Call("more", route, ListOf(surface), cursor, listGeneration)
<1>1. /\ ~listLoading /\ listLoading' = TRUE /\ listError' = FALSE /\ logActs' \in 0 .. MaxLogActs
      /\ cursor # NONE /\ projectReady
      /\ UNCHANGED <<surface, route, view, filter, rows, cursor, loadedFor, listGeneration, stale>>
      /\ callsOut' = callsOut \cup {new}
  BY LogAssumption DEF onLoadMore, auditLoadMore, LoadMoreShown, AuditLoadMoreShown, Shown, AskMore, Acting,
     LogTypeOK, ListOf
<1>2. /\ new \in LogCall /\ new.what = "more" /\ new.generation = listGeneration /\ new.list = ListOf(surface)
      /\ new.page = cursor /\ new.list \in Lists /\ new.page \in 1 .. LastPage
  <2>1. cursor \in 2 .. LastPage /\ LastPage \in Nat
    BY <1>1, LogAssumption DEF LogTypeOK
  <2> QED BY <2>1, ListOfIsAList DEF Call, LogCall, LogTypeOK
<1>3. \E c \in LogCall : /\ callsOut' = callsOut \cup {c} /\ c.what = "more" /\ c.generation = listGeneration
                         /\ c.list = ListOf(surface) /\ c.page = cursor /\ c.list \in Lists
                         /\ c.page \in 1 .. LastPage
  BY <1>1, <1>2
<1> HIDE DEF new
<1>4. PICK c \in LogCall : /\ callsOut' = callsOut \cup {c} /\ c.what = "more" /\ c.generation = listGeneration
                           /\ c.list = ListOf(surface) /\ c.page = cursor /\ c.list \in Lists
                           /\ c.page \in 1 .. LastPage
  BY <1>3
<1>5. LogTypeOK'
  <2>1. \A d \in callsOut' : /\ d.generation <= listGeneration'
                             /\ d.what # "project" => d.list \in Lists /\ d.page \in 1 .. LastPage
    BY <1>1, <1>4 DEF LogTypeOK
  <2>2. callsOut' \subseteq LogCall
    BY <1>4 DEF LogTypeOK
  <2> QED BY <1>1, <2>1, <2>2 DEF LogTypeOK
<1>6. \A d \in callsOut : ~Resolving(d) /\ ~Extending(d)
  BY <1>1 DEF LogInv, ResolveInv, ExtendInv, Resolving, projectReady
<1>7. UNCHANGED ListOf(surface)
  BY <1>1 DEF ListOf, query, auditQuery, ListUnder
<1>8. \A d \in callsOut' : ~Resolving(d)'
  BY <1>4, <1>6 DEF Resolving
<1>9. ASSUME NEW d \in callsOut', Extending(d)'
      PROVE  ExtendInv(d)'
  <2>1. d = c
    BY <1>1, <1>4, <1>6, <1>9 DEF Extending
  <2> QED BY <1>1, <1>4, <1>6, <1>7, <2>1 DEF ExtendInv, Extending
<1>10. Table \/ stale
  BY <1>1, <1>6 DEF LogInv, projectReady
<1>11. Table' \/ stale'
  BY <1>1, <1>7, <1>10 DEF Table, NextCursor
<1>12. view'.project = route'
  BY <1>1 DEF LogInv
<1> QED BY <1>5, <1>8, <1>9, <1>11, <1>12 DEF LogInv

(* Copying an id touches the alert alone.                                  *)
LEMMA CopyKeeps ==
    ASSUME LogTypeOK, LogInv, onCopyRequestId
    PROVE  LogTypeOK' /\ LogInv'
<1>1. /\ logActs' \in 0 .. MaxLogActs
      /\ UNCHANGED <<surface, route, view, filter, rows, cursor, listLoading, loadedFor,
                     listGeneration, callsOut, stale>>
  BY LogAssumption DEF onCopyRequestId, Acting, LogTypeOK
<1>2. listError' \in BOOLEAN
  BY DEF onCopyRequestId
<1>3. LogTypeOK'
  BY <1>1, <1>2 DEF LogTypeOK
<1>4. UNCHANGED ListOf(surface)
  BY <1>1 DEF ListOf, query, auditQuery, ListUnder
<1>5. LogInv'
  BY <1>1, <1>4 DEF LogInv, ResolveInv, ExtendInv, Resolving, Extending, Table, NextCursor
<1> QED BY <1>3, <1>5

(* A call that is neither live nor of this generation goes without trace.  *)
LEMMA StaleAnswerKeeps ==
    ASSUME LogTypeOK, LogInv, NEW c \in callsOut, ~Resolving(c), ~Extending(c), callsOut' = callsOut \ {c},
           UNCHANGED <<surface, route, view, filter, rows, cursor, listLoading, listError, loadedFor,
                       listGeneration, stale, logActs>>
    PROVE  LogTypeOK' /\ LogInv'
<1>1. LogTypeOK'
  BY DEF LogTypeOK
<1>2. UNCHANGED ListOf(surface)
  BY DEF ListOf, query, auditQuery, ListUnder
<1>3. \A d \in callsOut' : /\ d \in callsOut
                           /\ Resolving(d)' => Resolving(d) /\ ResolveInv(d)
                           /\ Extending(d)' => Extending(d) /\ ExtendInv(d)
  BY DEF LogInv, Resolving, Extending
<1>4. \A d \in callsOut' : /\ Resolving(d)' => ResolveInv(d)'
                           /\ Extending(d)' => ExtendInv(d)'
  BY <1>2, <1>3 DEF ResolveInv, ExtendInv, Resolving, Extending
<1>5. (\A d \in callsOut' : ~Resolving(d)') => (\A d \in callsOut : ~Resolving(d))
  BY DEF Resolving
<1>6. Table => Table'
  BY <1>2 DEF Table, NextCursor
<1> QED BY <1>1, <1>4, <1>5, <1>6 DEF LogInv

(* The project has been looked up.                                         *)
LEMMA ProjectAnsweredKeeps ==
    ASSUME LogTypeOK, LogInv, NEW c \in callsOut, ProjectAnswered(c)
    PROVE  LogTypeOK' /\ LogInv'
<1>1. /\ c.what = "project"
      /\ UNCHANGED <<surface, route, filter, rows, cursor, loadedFor, stale, logActs>>
  BY DEF ProjectAnswered
<1>2. CASE ~c.live
  <2>1. callsOut' = callsOut \ {c} /\ UNCHANGED <<view, listLoading, listError, listGeneration>>
    BY <1>2 DEF ProjectAnswered
  <2>2. ~Resolving(c) /\ ~Extending(c)
    BY <1>1, <1>2 DEF Resolving, Extending
  <2> QED BY <1>1, <2>1, <2>2, StaleAnswerKeeps
<1>3. CASE c.live
  <2>1. Resolving(c) /\ ResolveInv(c)
    BY <1>1, <1>3 DEF Resolving, LogInv
  <2>2. PICK status \in {"ready", "notFound", "error"} :
          /\ view' = [project |-> c.project, status |-> status]
          /\ IF status = "ready" THEN FirstPage(callsOut \ {c}, ListOf(surface))
             ELSE callsOut' = callsOut \ {c} /\ UNCHANGED <<listLoading, listError, listGeneration>>
    BY <1>3 DEF ProjectAnswered
  <2>3. c.project = route /\ \A d \in callsOut \ {c} : ~Resolving(d)
    BY <2>1 DEF ResolveInv
  <2>4. UNCHANGED ListOf(surface)
    BY <1>1 DEF ListOf, query, auditQuery, ListUnder
  <2>5. CASE status = "ready"
    <3>1. \A d \in callsOut \ {c} : d.what = "project" => ~d.live
      BY <2>3 DEF Resolving
    <3>2. view' = [project |-> route, status |-> "ready"] /\ FirstPage(callsOut \ {c}, ListOf(surface))
      BY <2>2, <2>3, <2>5
    <3>3. filter' \in [environment : LogEnvironments, request_id : RequestIds] /\ logActs' \in 0 .. MaxLogActs
      BY <1>1 DEF LogTypeOK
    <3> QED BY <1>1, <2>4, <3>1, <3>2, <3>3, ListOfIsAList, FirstPageKeeps
  <2>6. CASE status # "ready"
    <3>1. /\ callsOut' = callsOut \ {c} /\ UNCHANGED <<listLoading, listError, listGeneration>>
          /\ view' = [project |-> route, status |-> status]
      BY <2>2, <2>3, <2>6
    <3>2. view' \in [project : Routes, status : {"loading", "ready", "notFound", "error"}]
          /\ view'.project = route /\ view'.status # "ready"
      BY <2>6, <3>1 DEF LogTypeOK
    <3>3. LogTypeOK'
      BY <1>1, <3>1, <3>2 DEF LogTypeOK
    <3>4. \A d \in callsOut' : ~Resolving(d)'
      BY <2>3, <3>1 DEF Resolving
    <3>5. ASSUME NEW d \in callsOut', Extending(d)'
          PROVE  ExtendInv(d)'
      <4>1. Extending(d) /\ d \in callsOut /\ ExtendInv(d)
        BY <3>1, <3>5 DEF Extending, LogInv
      <4> QED BY <3>1, <3>2, <4>1 DEF ExtendInv, Extending
    <3> QED BY <1>1, <3>2, <3>3, <3>4, <3>5 DEF LogInv
  <2> QED BY <2>5, <2>6
<1> QED BY <1>2, <1>3

(* Page one has come in, or has failed.                                    *)
LEMMA FirstAnsweredKeeps ==
    ASSUME LogTypeOK, LogInv, NEW c \in callsOut, FirstAnswered(c)
    PROVE  LogTypeOK' /\ LogInv'
<1>1. c.what = "first" /\ callsOut' = callsOut \ {c} /\ UNCHANGED <<surface, route, filter, listGeneration, logActs>>
  BY DEF FirstAnswered
<1>2. CASE ~c.live
  <2>1. UNCHANGED <<view, rows, cursor, listLoading, listError, loadedFor, stale>>
    BY <1>2 DEF FirstAnswered, listVars
  <2>2. ~Resolving(c) /\ ~Extending(c)
    BY <1>1, <1>2 DEF Resolving, Extending
  <2> QED BY <1>1, <2>1, <2>2, StaleAnswerKeeps
<1>3. CASE c.live
  <2>1. Resolving(c) /\ ResolveInv(c) /\ c \in LogCall
    BY <1>1, <1>3 DEF Resolving, LogInv, LogTypeOK
  <2>2. /\ c.project = route /\ view.status = "ready" /\ c.list = ListOf(surface)
        /\ \A d \in callsOut : ~Extending(d) /\ (Resolving(d) => d = c)
    BY <1>1, <2>1 DEF ResolveInv
  <2>3. \A d \in callsOut' : ~Resolving(d)' /\ ~Extending(d)'
    BY <1>1, <2>2 DEF Resolving, Extending
  <2>4. UNCHANGED ListOf(surface)
    BY <1>1 DEF ListOf, query, auditQuery, ListUnder
  <2>5. /\ listLoading' = FALSE /\ loadedFor' = route
        /\ \/ /\ rows' = <<[of |-> c.list, page |-> 1]>> /\ cursor' = NextCursor(1)
              /\ stale' = FALSE /\ UNCHANGED <<view, listError>>
           \/ /\ view' = [project |-> route, status |-> "notFound"]
              /\ stale' = TRUE /\ UNCHANGED <<rows, cursor, listError>>
           \/ listError' = TRUE /\ stale' = TRUE /\ UNCHANGED <<view, rows, cursor>>
    BY <1>3, <2>2 DEF FirstAnswered
  <2>6. /\ view' \in [project : Routes, status : {"loading", "ready", "notFound", "error"}]
        /\ view'.project = route
    BY <2>5 DEF LogTypeOK, LogInv
  <2>7. listError' \in BOOLEAN /\ stale' \in BOOLEAN /\ listLoading' \in BOOLEAN
    BY <2>5 DEF LogTypeOK
  <2>8. CASE rows' = <<[of |-> c.list, page |-> 1]>> /\ cursor' = NextCursor(1)
    <3>1. c.list \in Lists /\ 1 \in 1 .. LastPage
      BY <2>2, ListOfIsAList, LogAssumption
    <3>2. rows' \in Seq([of : Lists, page : 1 .. LastPage]) /\ cursor' \in 2 .. LastPage \cup {NONE}
      BY <2>8, <3>1, LogAssumption DEF NextCursor
    <3>3. Table'
      <4>1. Len(rows') = 1 /\ rows' = [n \in 1 .. 1 |-> [of |-> ListOf(surface), page |-> n]]
        BY <2>2, <2>8
      <4>2. cursor' = NextCursor(Len(rows'))
        BY <2>8, <4>1
      <4>3. Len(rows') \in 1 .. LastPage
        BY <4>1, LogAssumption
      <4> QED BY <2>4, <4>1, <4>2, <4>3 DEF Table, NextCursor
    <3>4. LogTypeOK'
      BY <1>1, <2>5, <2>6, <2>7, <3>2 DEF LogTypeOK
    <3> QED BY <1>1, <2>3, <2>6, <3>3, <3>4 DEF LogInv
  <2>9. CASE UNCHANGED <<rows, cursor>> /\ stale' = TRUE
    <3>1. LogTypeOK'
      BY <1>1, <2>5, <2>6, <2>7, <2>9 DEF LogTypeOK
    <3> QED BY <1>1, <2>3, <2>6, <2>9, <3>1 DEF LogInv
  <2> QED BY <2>5, <2>8, <2>9
<1> QED BY <1>2, <1>3

(* One page more continues the table where it ends.                        *)
LEMMA TableGrows ==
    ASSUME NEW s, NEW S, s \in Seq(S), NEW e \in S, NEW k \in Nat, NEW list_, Len(s) = k,
           s = [n \in 1 .. k |-> [of |-> list_, page |-> n]], e = [of |-> list_, page |-> k + 1]
    PROVE  /\ Append(s, e) \in Seq(S) /\ Len(Append(s, e)) = k + 1
           /\ Append(s, e) = [n \in 1 .. k + 1 |-> [of |-> list_, page |-> n]]
<1> DEFINE R(n) == [of |-> list_, page |-> n]
<1> DEFINE t == Append(s, e)
<1>1. /\ t \in Seq(S) /\ Len(t) = k + 1 /\ t[k + 1] = e
      /\ \A n \in 1 .. k : t[n] = s[n]
  BY AppendProperties
<1>2. t = [n \in 1 .. k + 1 |-> t[n]]
  BY <1>1, SeqDef
<1> HIDE DEF t
<1>3. \A n \in 1 .. k + 1 : t[n] = R(n)
  <2> SUFFICES ASSUME NEW n \in 1 .. k + 1 PROVE t[n] = R(n)
    OBVIOUS
  <2>1. CASE n = k + 1
    BY <1>1, <2>1
  <2>2. CASE n # k + 1
    BY <1>1, <2>2
  <2> QED BY <2>1, <2>2
<1>4. t = [n \in 1 .. k + 1 |-> R(n)]
  BY <1>2, <1>3
<1> QED BY <1>1, <1>4 DEF t


(* A page more has come in, or has failed.                                 *)
LEMMA MoreAnsweredKeeps ==
    ASSUME LogTypeOK, LogInv, NEW c \in callsOut, MoreAnswered(c)
    PROVE  LogTypeOK' /\ LogInv'
<1>1. /\ c.what = "more" /\ callsOut' = callsOut \ {c}
      /\ UNCHANGED <<surface, route, view, filter, loadedFor, listGeneration, stale, logActs>>
  BY DEF MoreAnswered
<1>2. CASE c.generation # listGeneration
  <2>1. UNCHANGED <<rows, cursor, listLoading, listError>>
    BY <1>2 DEF MoreAnswered
  <2>2. ~Resolving(c) /\ ~Extending(c)
    BY <1>1, <1>2 DEF Resolving, Extending
  <2> QED BY <1>1, <2>1, <2>2, StaleAnswerKeeps
<1>3. CASE c.generation = listGeneration
  <2>1. Extending(c) /\ ExtendInv(c) /\ ~Resolving(c)
    BY <1>1, <1>3 DEF Extending, Resolving, LogInv
  <2>2. c \in LogCall /\ c.list \in Lists /\ c.page \in 1 .. LastPage
    BY <1>1 DEF LogTypeOK
  <2>3. /\ listLoading' = FALSE
        /\ \/ /\ rows' = Append(rows, [of |-> c.list, page |-> c.page])
              /\ cursor' = NextCursor(c.page) /\ UNCHANGED listError
           \/ listError' = TRUE /\ UNCHANGED <<rows, cursor>>
    BY <1>3 DEF MoreAnswered
  <2>4. UNCHANGED ListOf(surface)
    BY <1>1 DEF ListOf, query, auditQuery, ListUnder
  <2>5. \A d \in callsOut' : ~Extending(d)'
    BY <1>1, <2>1 DEF Extending, ExtendInv
  <2>6. ASSUME NEW d \in callsOut', Resolving(d)'
        PROVE  ResolveInv(d)'
    <3>1. d \in callsOut /\ Resolving(d) /\ ResolveInv(d)
      BY <1>1, <2>6 DEF Resolving, LogInv
    <3>2. d.what # "first"
      BY <2>1, <3>1 DEF ResolveInv
    <3>3. \A e \in callsOut' : Resolving(e)' => e = d
      BY <1>1, <3>1 DEF Resolving, ResolveInv
    <3> QED BY <1>1, <3>1, <3>2, <3>3 DEF ResolveInv
  <2>7. (\A d \in callsOut' : ~Resolving(d)') => (\A d \in callsOut : ~Resolving(d))
    BY <1>1, <2>1 DEF Resolving
  <2>8. listError' \in BOOLEAN
    BY <2>3 DEF LogTypeOK
  <2>9. CASE UNCHANGED <<rows, cursor>>
    <3>1. LogTypeOK'
      BY <1>1, <2>3, <2>8, <2>9 DEF LogTypeOK
    <3>2. Table => Table'
      BY <2>4, <2>9 DEF Table, NextCursor
    <3> QED BY <1>1, <2>5, <2>6, <2>7, <3>1, <3>2 DEF LogInv
  <2>10. CASE rows' = Append(rows, [of |-> c.list, page |-> c.page]) /\ cursor' = NextCursor(c.page)
    <3> DEFINE e == [of |-> c.list, page |-> c.page]
    <3>1. e \in [of : Lists, page : 1 .. LastPage] /\ rows \in Seq([of : Lists, page : 1 .. LastPage])
      BY <2>2 DEF LogTypeOK
    <3>2. rows' \in Seq([of : Lists, page : 1 .. LastPage])
      BY <2>10, <3>1, AppendProperties
    <3>3. cursor' \in 2 .. LastPage \cup {NONE}
      BY <2>2, <2>10, LogAssumption DEF NextCursor
    <3>4. LogTypeOK'
      BY <1>1, <2>3, <2>8, <3>2, <3>3 DEF LogTypeOK
    <3>5. ASSUME Table, view.status = "ready", ~stale
          PROVE  Table'
      <4>1. c.list = ListOf(surface) /\ cursor # NONE /\ c.page = cursor
        BY <2>1, <3>5 DEF ExtendInv
      <4>2. Len(rows) \in 1 .. LastPage /\ cursor = NextCursor(Len(rows))
            /\ rows = [n \in 1 .. Len(rows) |-> [of |-> ListOf(surface), page |-> n]]
        BY <3>5 DEF Table
      <4>3. c.page = Len(rows) + 1 /\ Len(rows) + 1 \in 1 .. LastPage /\ Len(rows) \in Nat
        BY <4>1, <4>2, LogAssumption DEF NextCursor
      <4>4. e = [of |-> ListOf(surface), page |-> Len(rows) + 1]
        BY <4>1, <4>3
      <4> HIDE DEF e
      <4>5. \A k \in Nat : \A list_ :
                /\ Len(rows) = k /\ rows = [n \in 1 .. k |-> [of |-> list_, page |-> n]]
                /\ e = [of |-> list_, page |-> k + 1]
                => /\ Len(Append(rows, e)) = k + 1
                   /\ Append(rows, e) = [n \in 1 .. k + 1 |-> [of |-> list_, page |-> n]]
        BY <3>1, TableGrows
      <4>6. /\ Len(Append(rows, e)) = Len(rows) + 1
            /\ Append(rows, e) = [n \in 1 .. Len(rows) + 1 |-> [of |-> ListOf(surface), page |-> n]]
        BY <4>2, <4>3, <4>4, <4>5
      <4>7. rows' = Append(rows, e)
        BY <2>10 DEF e
      <4> QED BY <2>4, <2>10, <4>3, <4>6, <4>7 DEF Table, NextCursor
    <3> QED BY <1>1, <2>5, <2>6, <2>7, <3>4, <3>5 DEF LogInv
  <2> QED BY <2>3, <2>9, <2>10
<1> QED BY <1>2, <1>3

(* Every step of the log pages.                                            *)
LEMMA LogStep == LogTypeOK /\ LogInv /\ [LogNext]_logVars => LogTypeOK' /\ LogInv'
<1> SUFFICES ASSUME LogTypeOK, LogInv, [LogNext]_logVars PROVE LogTypeOK' /\ LogInv'
  OBVIOUS
<1>1. CASE Navigate \/ TokenRenewed
  BY <1>1, ResolveProjectKeeps
<1>2. CASE ChangeFilter
  BY <1>2, ChangeFilterKeeps
<1>3. CASE onLoadMore \/ auditLoadMore
  BY <1>3, LoadMoreKeeps
<1>4. CASE onCopyRequestId
  BY <1>4, CopyKeeps
<1>5. ASSUME NEW c \in callsOut, ProjectAnswered(c) \/ FirstAnswered(c) \/ MoreAnswered(c)
      PROVE  LogTypeOK' /\ LogInv'
  BY <1>5, ProjectAnsweredKeeps, FirstAnsweredKeeps, MoreAnsweredKeeps
<1>6. CASE UNCHANGED logVars
  <2>1. UNCHANGED <<surface, route, view, filter, rows, cursor, listLoading, listError, loadedFor,
                    listGeneration, callsOut, stale, logActs>>
    BY <1>6 DEF logVars, listVars
  <2>2. UNCHANGED ListOf(surface)
    BY <2>1 DEF ListOf, query, auditQuery, ListUnder
  <2>3. LogTypeOK'
    BY <2>1 DEF LogTypeOK
  <2>4. LogInv'
    BY <2>1, <2>2 DEF LogInv, ResolveInv, ExtendInv, Resolving, Extending, Table, NextCursor
  <2> QED BY <2>3, <2>4
<1> QED BY <1>1, <1>2, <1>3, <1>4, <1>5, <1>6 DEF LogNext

(* The variables of the log pages stay within their types: a page asked    *)
(* for is a page of a list, and a cursor names a page or nothing.          *)
THEOREM LogPageTypesOk == LogSpec => []LogTypeOK
<1>1. LogInit => LogTypeOK /\ LogInv
  BY LogInitially
<1>2. LogTypeOK /\ LogInv /\ [LogNext]_logVars => (LogTypeOK /\ LogInv)'
  BY LogStep
<1> QED BY <1>1, <1>2, PTL DEF LogSpec

(* A table that has loaded is the first pages of one list, without gap or  *)
(* repetition: that of the route and the filters the page now shows.       *)
THEOREM TablesAreOneList == LogSpec => []TableIsOneList
<1>1. LogInit => LogTypeOK /\ LogInv
  BY LogInitially
<1>2. LogTypeOK /\ LogInv /\ [LogNext]_logVars => (LogTypeOK /\ LogInv)'
  BY LogStep
<1>3. LogTypeOK /\ LogInv => TableIsOneList
  <2> SUFFICES ASSUME LogInv, Shown, ~listLoading, ~stale
               PROVE  /\ rows = [n \in 1 .. Len(rows) |-> [of |-> ListOf(surface), page |-> n]]
                      /\ cursor = NextCursor(Len(rows))
    BY DEF TableIsOneList
  <2>1. view.status = "ready"
    BY DEF Shown, projectReady
  <2>2. \A c \in callsOut : ~Resolving(c)
    BY <2>1 DEF LogInv, ResolveInv, Resolving
  <2> QED BY <2>1, <2>2 DEF LogInv, Table
<1> QED BY <1>1, <1>2, <1>3, PTL DEF LogSpec

================================================================================
