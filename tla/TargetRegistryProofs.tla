------------------------ MODULE TargetRegistryProofs ------------------------
(***************************************************************************)
(* Theorems about TargetRegistry, for any number of dashboard requests,    *)
(* starting processes, ids and URLs.                                       *)
(***************************************************************************)
EXTENDS TargetRegistry, TLAPS

\* Dashboard requests never bootstrap, starting processes do nothing else.
Roles ==
    /\ \A s \in Admins : ses[s].op # "bootstrap"
    /\ \A s \in Starters : ses[s].op \in {"idle", "bootstrap"}

\* The unique constraint on targets.url.
UrlsUnique == \A i, j \in DOMAIN rows : rows[i].url = rows[j].url => i = j

(* What makes AtMostOneActive inductive when no process starts while an    *)
(* admin works: a process about to insert the environment's target has     *)
(* seen an empty table, and since then only other starting processes can   *)
(* have inserted, all of them the same URL.                                *)
BootstrapAlone ==
    (\E s \in Starters : ses[s].op = "bootstrap") =>
        /\ \A s \in Admins : ses[s].op = "idle"
        /\ \A id \in DOMAIN rows : rows[id].url = EnvUrl

RegistryInv == TypeOK /\ Roles /\ UrlsUnique /\ BootstrapAlone /\ AtMostOneActive

-----------------------------------------------------------------------------
(* Idle is a well-formed session. *)
LEMMA IdleType ==
    /\ Idle \in [op : Ops, id : Ids, was : Target, url : Urls, enabled : BOOLEAN]
    /\ Idle.op = "idle"
<1>1. AnyId \in Ids
  BY IdsNonEmpty DEF AnyId
<1>2. NoRow \in Target
  BY EnvUrlIsUrl DEF NoRow, Target
<1> QED BY <1>1, <1>2, EnvUrlIsUrl DEF Idle, Op, Ops

(* The initial state satisfies the invariant. *)
LEMMA InitInv == Init => RegistryInv
BY IdleType DEF Init, RegistryInv, TypeOK, Roles, UrlsUnique, BootstrapAlone,
                AtMostOneActive, Sessions

(* The columns a stale UPDATE writes leave the active flag alone. *)
LEMMA EditedType ==
    ASSUME TypeOK, NEW s \in Sessions, NEW row \in Target
    PROVE  Edited(s, row) \in Target /\ Edited(s, row).active = row.active
BY DEF TypeOK, Edited, Target

-----------------------------------------------------------------------------
(* A session begins: the table does not change. *)
LEMMA BeginStep ==
    ASSUME TypeOK, NEW s \in Sessions,
           NEW op \in [op : Ops, id : Ids, was : Target, url : Urls, enabled : BOOLEAN],
           Begin(s, op)
    PROVE  /\ TypeOK' /\ rows' = rows
           /\ ses[s].op = "idle" /\ ses'[s] = op
           /\ \A t \in Sessions : t # s => ses'[t] = ses[t]
BY DEF Begin, TypeOK

(* A session ends: the other sessions go on. *)
LEMMA FinishStep ==
    ASSUME TypeOK, NEW s \in Sessions, NEW op, Finish(s, op)
    PROVE  /\ ses' \in [Sessions -> [op : Ops, id : Ids, was : Target, url : Urls,
                                     enabled : BOOLEAN]]
           /\ ses[s].op = op /\ ses'[s].op = "idle"
           /\ \A t \in Sessions : t # s => ses'[t] = ses[t]
BY IdleType DEF Finish, TypeOK

(* Put changes one row. *)
LEMMA PutRow ==
    ASSUME NEW id, NEW row
    PROVE  /\ DOMAIN Put(id, row) = DOMAIN rows \union {id}
           /\ Put(id, row)[id] = row
           /\ \A x \in DOMAIN rows : x # id => Put(id, row)[x] = rows[x]
BY DEF Put

-----------------------------------------------------------------------------
(* A dashboard request that begins finds every starting process idle. *)
LEMMA AdminBegins ==
    ASSUME RegistryInv, ~Overlap, MayAdminister, NEW s \in Admins,
           NEW op \in [op : Ops, id : Ids, was : Target, url : Urls, enabled : BOOLEAN],
           op.op # "bootstrap", Begin(s, op)
    PROVE  RegistryInv'
<1>1. s \in Sessions /\ TypeOK
  BY DEF Sessions, RegistryInv
<1>2. /\ TypeOK' /\ rows' = rows /\ ses'[s] = op
      /\ \A t \in Sessions : t # s => ses'[t] = ses[t]
  BY <1>1, BeginStep
<1>3. \A t \in Starters : ses'[t] = ses[t] /\ ses[t].op = "idle"
  BY <1>2, SessionsDisjoint DEF MayAdminister, Sessions
<1> QED BY <1>2, <1>3 DEF RegistryInv, Roles, UrlsUnique, BootstrapAlone, AtMostOneActive,
                          Sessions

(* A dashboard request that commits finds no process bootstrapping. *)
LEMMA AdminCommits ==
    ASSUME RegistryInv, NEW s \in Admins, NEW op, op # "idle", Finish(s, op),
           DOMAIN rows' \subseteq Ids, \A id \in DOMAIN rows' : rows'[id] \in Target,
           UrlsUnique', AtMostOneActive'
    PROVE  RegistryInv'
<1>1. s \in Sessions /\ TypeOK
  BY DEF Sessions, RegistryInv
<1>2. /\ ses' \in [Sessions -> [op : Ops, id : Ids, was : Target, url : Urls,
                                 enabled : BOOLEAN]]
      /\ ses[s].op = op /\ ses'[s].op = "idle"
      /\ \A t \in Sessions : t # s => ses'[t] = ses[t]
  BY <1>1, FinishStep
<1>3. \A t \in Starters : ses'[t] = ses[t] /\ ses[t].op = "idle"
  BY <1>2, SessionsDisjoint DEF RegistryInv, Roles, BootstrapAlone, Sessions
<1>4. TypeOK' /\ BootstrapAlone' /\ Roles'
  BY <1>2, <1>3 DEF RegistryInv, TypeOK, BootstrapAlone, Roles, Sessions
<1> QED BY <1>4 DEF RegistryInv

(* Every step of a dashboard request preserves the invariant. *)
LEMMA AdminStepInv ==
    ASSUME RegistryInv, ~Overlap, NEW s \in Admins, AdminStep(s)
    PROVE  RegistryInv'
<1> USE DEF Op, Ops
<1>1. s \in Sessions /\ TypeOK /\ UrlsUnique /\ AtMostOneActive
      /\ AnyId \in Ids /\ NoRow \in Target
  BY IdsNonEmpty, EnvUrlIsUrl DEF Sessions, RegistryInv, AnyId, NoRow, Target
<1>2. ASSUME NEW url \in Urls, NEW enabled \in BOOLEAN, BeginAdd(s, url, enabled)
      PROVE  RegistryInv'
  BY <1>1, <1>2, AdminBegins DEF BeginAdd
<1>3. ASSUME NEW id \in Ids, NEW url \in Urls, NEW enabled \in BOOLEAN,
             BeginEdit(s, id, url, enabled)
      PROVE  RegistryInv'
  BY <1>1, <1>3, AdminBegins DEF BeginEdit, TypeOK
<1>4. ASSUME NEW id \in Ids, BeginToggle(s, id) \/ BeginActivate(s, id) \/ BeginDelete(s, id)
      PROVE  RegistryInv'
  <2>1. /\ MayAdminister
        /\ \E op \in {"toggle", "activate", "delete"}, enabled \in BOOLEAN :
              Begin(s, Op(op, id, rows[id], EnvUrl, enabled))
        /\ rows[id] \in Target
    BY <1>1, <1>4 DEF BeginToggle, BeginActivate, BeginDelete, TypeOK, Target
  <2> QED BY <2>1, AdminBegins, EnvUrlIsUrl
<1>5. ASSUME CommitAdd(s) PROVE RegistryInv'
  <2> DEFINE row == [url |-> ses[s].url, enabled |-> ses[s].enabled, active |-> FALSE]
  <2>1. PICK id \in Ids \ DOMAIN rows : rows' = Put(id, row)
    BY <1>5 DEF CommitAdd
  <2>2. row \in Target /\ ~row.active /\ \A x \in DOMAIN rows : rows[x].url # row.url
    BY <1>1, <1>5 DEF CommitAdd, UsedBy, TypeOK, Target
  <2> HIDE DEF row
  <2>3. /\ DOMAIN rows' = DOMAIN rows \union {id} /\ rows'[id] = row
        /\ \A x \in DOMAIN rows : rows'[x] = rows[x]
    BY <2>1 DEF Put
  <2>4. /\ DOMAIN rows' \subseteq Ids /\ \A x \in DOMAIN rows' : rows'[x] \in Target
        /\ UrlsUnique' /\ AtMostOneActive'
    BY <1>1, <2>2, <2>3 DEF TypeOK, UrlsUnique, AtMostOneActive
  <2> QED BY <1>5, <2>4, AdminCommits DEF CommitAdd
<1>6. ASSUME AddConflict(s) PROVE RegistryInv'
  BY <1>1, <1>6, AdminCommits DEF AddConflict, TypeOK, UrlsUnique, AtMostOneActive
<1>7. ASSUME CommitEdit(s) PROVE RegistryInv'
  <2> DEFINE id == ses[s].id
             row == Edited(s, rows[id])
  <2>1. /\ id \in DOMAIN rows /\ rows' = Put(id, row)
        /\ \A x \in DOMAIN rows : x # id => rows[x].url # row.url
    BY <1>7 DEF CommitEdit, UsedBy
  <2>2. row \in Target /\ row.active = rows[id].active
    BY <1>1, <2>1, EditedType DEF TypeOK
  <2> HIDE DEF row
  <2>3. /\ DOMAIN rows' = DOMAIN rows /\ rows'[id] = row
        /\ \A x \in DOMAIN rows : x # id => rows'[x] = rows[x]
    BY <2>1, PutRow
  <2> HIDE DEF id
  <2>4. /\ DOMAIN rows' \subseteq Ids /\ \A x \in DOMAIN rows' : rows'[x] \in Target
        /\ UrlsUnique' /\ AtMostOneActive'
    BY <1>1, <2>1, <2>2, <2>3 DEF TypeOK, UrlsUnique, AtMostOneActive
  <2> QED BY <1>7, <2>4, AdminCommits DEF CommitEdit
<1>8. ASSUME EditConflict(s) PROVE RegistryInv'
  BY <1>1, <1>8, AdminCommits DEF EditConflict, TypeOK, UrlsUnique, AtMostOneActive
<1>9. ASSUME CommitToggle(s) PROVE RegistryInv'
  <2>1. /\ DOMAIN rows' = DOMAIN rows
        /\ \A x \in DOMAIN rows : /\ rows'[x] \in Target
                                  /\ rows'[x].url = rows[x].url
                                  /\ rows'[x].active = rows[x].active
    BY <1>1, <1>9 DEF CommitToggle, TypeOK, Target
  <2>2. UrlsUnique' /\ AtMostOneActive'
    BY <1>1, <2>1 DEF UrlsUnique, AtMostOneActive
  <2> QED BY <1>1, <1>9, <2>1, <2>2, AdminCommits DEF CommitToggle, TypeOK
<1>10. ASSUME CommitActivate(s) PROVE RegistryInv'
  <2>1. /\ DOMAIN rows' = DOMAIN rows
        /\ \A x \in DOMAIN rows : /\ rows'[x] \in Target
                                  /\ rows'[x].url = rows[x].url
                                  /\ rows'[x].active => x = ses[s].id
    BY <1>1, <1>10 DEF CommitActivate, TypeOK, Target
  <2>2. UrlsUnique' /\ AtMostOneActive'
    BY <1>1, <2>1 DEF UrlsUnique, AtMostOneActive
  <2> QED BY <1>1, <1>10, <2>1, <2>2, AdminCommits DEF CommitActivate, TypeOK
<1>11. ASSUME CommitDelete(s) PROVE RegistryInv'
  <2>1. /\ DOMAIN rows' \subseteq DOMAIN rows
        /\ \A x \in DOMAIN rows' : rows'[x] = rows[x]
    BY <1>11 DEF CommitDelete
  <2>2. UrlsUnique' /\ AtMostOneActive'
    BY <1>1, <2>1 DEF UrlsUnique, AtMostOneActive
  <2> QED BY <1>1, <1>11, <2>1, <2>2, AdminCommits DEF CommitDelete, TypeOK
<1> QED
  BY <1>2, <1>3, <1>4, <1>5, <1>6, <1>7, <1>8, <1>9, <1>10, <1>11 DEF AdminStep

(* So does every step of a starting process: the table it inserts into is  *)
(* still empty, or holds the environment's URL already.                    *)
LEMMA StartStepInv ==
    ASSUME RegistryInv, ~Overlap, NEW s \in Starters, StartStep(s)
    PROVE  RegistryInv'
<1>1. s \in Sessions /\ TypeOK /\ UrlsUnique /\ AtMostOneActive /\ Roles /\ BootstrapAlone
  BY DEF Sessions, RegistryInv
<1>2. ASSUME BeginBootstrap(s) PROVE RegistryInv'
  <2> DEFINE op == Op("bootstrap", AnyId, NoRow, EnvUrl, TRUE)
  <2>1. op \in [op : Ops, id : Ids, was : Target, url : Urls, enabled : BOOLEAN]
        /\ op.op = "bootstrap"
    BY IdsNonEmpty, EnvUrlIsUrl DEF Op, Ops, AnyId, NoRow, Target
  <2>2. Begin(s, op) /\ DOMAIN rows = {} /\ \A a \in Admins : ses[a].op = "idle"
    BY <1>2 DEF BeginBootstrap, MayStart
  <2> HIDE DEF op
  <2>3. /\ TypeOK' /\ rows' = rows /\ ses'[s] = op
        /\ \A t \in Sessions : t # s => ses'[t] = ses[t]
    BY <1>1, <2>1, <2>2, BeginStep
  <2>4. \A a \in Admins : ses'[a] = ses[a]
    BY <2>3, SessionsDisjoint DEF Sessions
  <2> QED BY <1>1, <2>1, <2>2, <2>3, <2>4
          DEF RegistryInv, Roles, UrlsUnique, BootstrapAlone, AtMostOneActive, Sessions
<1>3. ASSUME Finish(s, "bootstrap")
      PROVE  /\ ses' \in [Sessions -> [op : Ops, id : Ids, was : Target, url : Urls,
                                       enabled : BOOLEAN]]
             /\ Roles' /\ \A a \in Admins : ses'[a].op = "idle"
             /\ \A id \in DOMAIN rows : rows[id].url = EnvUrl
  <2>1. /\ ses' \in [Sessions -> [op : Ops, id : Ids, was : Target, url : Urls,
                                  enabled : BOOLEAN]]
        /\ ses[s].op = "bootstrap" /\ ses'[s].op = "idle"
        /\ \A t \in Sessions : t # s => ses'[t] = ses[t]
    BY <1>1, <1>3, FinishStep
  <2> QED BY <1>1, <2>1, SessionsDisjoint DEF Roles, BootstrapAlone, Sessions
<1>4. ASSUME CommitBootstrap(s) PROVE RegistryInv'
  <2>1. Finish(s, "bootstrap") /\ ~UsedBy(EnvUrl, DOMAIN rows)
    BY <1>4 DEF CommitBootstrap
  <2>2. DOMAIN rows = {}
    BY <1>3, <2>1 DEF UsedBy
  <2>3. PICK id \in Ids :
            rows' = Put(id, [url |-> EnvUrl, enabled |-> TRUE, active |-> TRUE])
    BY <1>4 DEF CommitBootstrap
  <2>4. DOMAIN rows' = {id}
        /\ rows'[id] = [url |-> EnvUrl, enabled |-> TRUE, active |-> TRUE]
    BY <2>2, <2>3, PutRow
  <2>5. rows'[id] \in Target
    BY <2>4, EnvUrlIsUrl DEF Target
  <2>6. TypeOK'
    BY <1>3, <2>1, <2>4, <2>5 DEF TypeOK
  <2>7. UrlsUnique' /\ AtMostOneActive'
    BY <2>4 DEF UrlsUnique, AtMostOneActive
  <2>8. BootstrapAlone'
    <3>1. \A x \in DOMAIN rows' : rows'[x].url = EnvUrl
      BY <2>4
    <3> QED BY <1>3, <2>1, <3>1 DEF BootstrapAlone
  <2> QED BY <1>3, <2>1, <2>6, <2>7, <2>8 DEF RegistryInv
<1>5. ASSUME BootstrapConflict(s) PROVE RegistryInv'
  BY <1>1, <1>3, <1>5
  DEF BootstrapConflict, RegistryInv, TypeOK, UrlsUnique, BootstrapAlone, AtMostOneActive
<1> QED BY <1>2, <1>4, <1>5 DEF StartStep

-----------------------------------------------------------------------------
(* The invariant holds in every reachable state when no process starts     *)
(* while an admin request is running.                                      *)
THEOREM RegistryInvariant == ASSUME ~Overlap PROVE Spec => []RegistryInv
<1>1. Init => RegistryInv
  BY InitInv
<1>2. RegistryInv /\ [Next]_vars => RegistryInv'
  <2> SUFFICES ASSUME RegistryInv, [Next]_vars PROVE RegistryInv'
      OBVIOUS
  <2>1. CASE UNCHANGED vars
    BY <2>1 DEF vars, RegistryInv, TypeOK, Roles, UrlsUnique, BootstrapAlone, AtMostOneActive
  <2> QED BY <2>1, AdminStepInv, StartStepInv DEF Next
<1> QED BY <1>1, <1>2, PTL DEF Spec

(* "AT MOST ONE is ever active at a time" (models.py), for any number of   *)
(* admins and processes, as long as no process starts during an admin's    *)
(* request.                                                                *)
THEOREM OneActiveTarget == ASSUME ~Overlap PROVE Spec => []AtMostOneActive
<1>1. RegistryInv => AtMostOneActive
  BY DEF RegistryInv
<1> QED BY <1>1, RegistryInvariant, PTL

(* Type correctness of the targets table and its sessions.                 *)
THEOREM RegistryTypeCorrect == ASSUME ~Overlap PROVE Spec => []TypeOK
<1>1. RegistryInv => TypeOK
  BY DEF RegistryInv
<1> QED BY <1>1, RegistryInvariant, PTL

(* However edits, toggles, activations and deletions interleave, the last  *)
(* active target is lost only to a deletion, or to the activation of a     *)
(* target that was deleted meanwhile.                                      *)
THEOREM ActiveOnlyLostToDeletion == ASSUME ~Overlap PROVE Spec => OnlyDeletionDeactivates
<1> DEFINE Lost == ActiveIds # {} /\ ActiveIds' = {} =>
          \/ DOMAIN rows' # DOMAIN rows
          \/ \E s \in Admins : ses[s].op = "activate" /\ ses[s].id \notin DOMAIN rows
<1>1. RegistryInv /\ [Next]_vars => [Lost]_vars
  <2> SUFFICES ASSUME RegistryInv, NEW a \in ActiveIds, ActiveIds' = {},
                      DOMAIN rows' = DOMAIN rows, Next
               PROVE  \E s \in Admins : ses[s].op = "activate" /\ ses[s].id \notin DOMAIN rows
      BY DEF vars, ActiveIds
  <2>1. a \in DOMAIN rows /\ rows[a].active /\ ~rows'[a].active /\ TypeOK
    BY DEF ActiveIds, RegistryInv
  <2>2. ASSUME NEW id \in Ids \ DOMAIN rows, NEW row PROVE rows' # Put(id, row)
    <3>1. DOMAIN Put(id, row) = DOMAIN rows \union {id}
      BY PutRow
    <3> QED BY <2>2, <3>1
  <2>3. ASSUME NEW s \in Starters, StartStep(s) PROVE FALSE
    BY <2>1, <2>2, <2>3
    DEF StartStep, BeginBootstrap, CommitBootstrap, BootstrapConflict, Begin
  <2>4. ASSUME NEW s \in Admins, AdminStep(s)
        PROVE  ses[s].op = "activate" /\ ses[s].id \notin DOMAIN rows
    <3>1. rows' # rows /\ ~CommitAdd(s) /\ ~AddConflict(s) /\ ~EditConflict(s)
      BY <2>1, <2>2 DEF CommitAdd, AddConflict, EditConflict
    <3>2. ~CommitEdit(s)
      <4> SUFFICES ASSUME CommitEdit(s) PROVE FALSE
          OBVIOUS
      <4> DEFINE id == ses[s].id
                 row == Edited(s, rows[id])
      <4>1. id \in DOMAIN rows /\ rows' = Put(id, row)
        BY DEF CommitEdit
      <4>2. row.active = rows[id].active
        BY <2>1, <4>1, EditedType DEF TypeOK, Sessions
      <4> HIDE DEF row
      <4>3. rows'[id] = row /\ \A x \in DOMAIN rows : x # id => rows'[x] = rows[x]
        BY <4>1, PutRow
      <4> QED BY <2>1, <4>1, <4>2, <4>3
    <3>3. ~CommitToggle(s)
      BY <2>1 DEF CommitToggle, TypeOK, Target
    <3>4. ~CommitDelete(s)
      BY <2>1 DEF CommitDelete
    <3>5. CommitActivate(s)
      BY <2>4, <3>1, <3>2, <3>3, <3>4
      DEF AdminStep, BeginAdd, BeginEdit, BeginToggle, BeginActivate, BeginDelete, Begin
    <3>6. ses[s].op = "activate" /\ rows' = [id \in DOMAIN rows |->
                                   [rows[id] EXCEPT !.active = (id = ses[s].id)]]
      BY <3>5 DEF CommitActivate, Finish
    <3>7. ASSUME ses[s].id \in DOMAIN rows PROVE FALSE
      <4>1. rows'[ses[s].id].active
        BY <2>1, <3>6, <3>7 DEF TypeOK, Target
      <4> QED BY <3>6, <3>7, <4>1 DEF ActiveIds
    <3> QED BY <3>6, <3>7
  <2> QED BY <2>3, <2>4 DEF Next
<1> QED BY <1>1, RegistryInvariant, PTL DEF Spec, OnlyDeletionDeactivates

(* Traffic never falls back because a request commits the values of a row  *)
(* loaded before another admin changed it.                                 *)
THEOREM FallbackAlwaysDeliberate == ASSUME ~Overlap PROVE Spec => FallbackIsDeliberate
<1> DEFINE Lost == Destinations # {Fallback} /\ Destinations' = {Fallback} =>
                      \E s \in Admins : TakesTraffic(s) /\ ses'[s].op = "idle"
           Serves(row) == row.active /\ row.enabled /\ row.url # Fallback
<1>1. RegistryInv /\ [Next]_vars => [Lost]_vars
  <2> SUFFICES ASSUME RegistryInv, Destinations # {Fallback}, Destinations' = {Fallback}, Next
               PROVE  \E s \in Admins : TakesTraffic(s) /\ ses'[s].op = "idle"
      BY DEF vars
  <2>1. TypeOK
    BY DEF RegistryInv
  <2>2. PICK a \in DOMAIN rows : Serves(rows[a])
    BY DEF Destinations, ActiveIds
  <2>3. \A id \in DOMAIN rows' : ~Serves(rows'[id])
    BY DEF Destinations, ActiveIds, Fallback
  <2>4. a \in Ids /\ rows[a] \in Target
    BY <2>1 DEF TypeOK
  <2>5. ASSUME NEW id \in Ids \ DOMAIN rows, NEW row PROVE rows' # Put(id, row)
    <3>1. a # id
      BY <2>5
    <3>2. a \in DOMAIN Put(id, row)
      <4>1. DOMAIN Put(id, row) = DOMAIN rows \union {id}
        BY PutRow
      <4> QED BY <4>1
    <3>3. Put(id, row)[a] = rows[a]
      BY <2>2, <3>1 DEF Put
    <3> QED BY <2>2, <2>3, <3>2, <3>3
  <2>6. ASSUME NEW s \in Starters, StartStep(s) PROVE FALSE
    BY <2>2, <2>3, <2>5, <2>6
    DEF StartStep, BeginBootstrap, CommitBootstrap, BootstrapConflict, Begin
  <2>7. ASSUME NEW s \in Admins, AdminStep(s)
        PROVE  TakesTraffic(s) /\ ses'[s].op = "idle"
    <3> DEFINE id == ses[s].id
    <3>1. rows' # rows /\ ~CommitAdd(s) /\ ~AddConflict(s) /\ ~EditConflict(s)
      BY <2>2, <2>3, <2>5 DEF CommitAdd, AddConflict, EditConflict
    <3>2. \/ CommitEdit(s) \/ CommitToggle(s) \/ CommitDelete(s) \/ CommitActivate(s)
      BY <2>7, <3>1
      DEF AdminStep, BeginAdd, BeginEdit, BeginToggle, BeginActivate, BeginDelete, Begin
    <3>3. ses'[s].op = "idle"
      BY <2>1, <3>2, IdleType
      DEF CommitEdit, CommitToggle, CommitDelete, CommitActivate, Finish, TypeOK, Sessions
    <3>4. CASE CommitEdit(s)
      <4> DEFINE row == Edited(s, rows[id])
      <4>1. id \in DOMAIN rows /\ rows' = Put(id, row) /\ ses[s].op = "edit"
        BY <3>4 DEF CommitEdit, Finish
      <4>2. rows[id] \in Target
        BY <2>1, <4>1 DEF TypeOK
      <4>3. /\ row.active = rows[id].active
            /\ row.url = IF ses[s].url = ses[s].was.url THEN rows[id].url ELSE ses[s].url
            /\ row.enabled = IF ses[s].enabled = ses[s].was.enabled THEN rows[id].enabled
                             ELSE ses[s].enabled
        BY <4>2 DEF Edited, Target
      <4> HIDE DEF row
      <4>4. rows'[id] = row /\ id \in DOMAIN rows'
            /\ \A x \in DOMAIN rows : x # id => x \in DOMAIN rows' /\ rows'[x] = rows[x]
        <5>1. DOMAIN Put(id, row) = DOMAIN rows \union {id}
          BY PutRow
        <5> QED BY <4>1, <5>1, PutRow
      <4>5. a = id /\ ~Serves(row)
        BY <2>2, <2>3, <4>4
      <4>6. ses[s].enabled \in BOOLEAN /\ ses[s].was.enabled \in BOOLEAN
        BY <2>1 DEF TypeOK, Sessions, Target
      <4> QED BY <2>2, <3>3, <4>1, <4>3, <4>5, <4>6 DEF TakesTraffic
    <3>5. CASE CommitToggle(s)
      <4>1. rows' = IF id \in DOMAIN rows
                    THEN [rows EXCEPT ![id].enabled = ses[s].enabled] ELSE rows
        BY <3>5 DEF CommitToggle
      <4>2. a = id /\ rows' = [rows EXCEPT ![id].enabled = ses[s].enabled]
        BY <2>2, <2>3, <3>1, <4>1
      <4>3. rows'[a] = [rows[a] EXCEPT !.enabled = ses[s].enabled] /\ a \in DOMAIN rows'
        BY <2>2, <4>2
      <4>4. ~ses[s].enabled
        BY <2>2, <2>3, <2>4, <4>3 DEF Target
      <4>5. ses[s].op = "toggle"
        BY <3>5 DEF CommitToggle, Finish
      <4> QED BY <3>3, <4>4, <4>5 DEF TakesTraffic
    <3>6. CASE CommitDelete(s)
      BY <3>3, <3>6 DEF CommitDelete, Finish, TakesTraffic
    <3>7. CASE CommitActivate(s)
      <4>1. ses[s].op = "activate" /\ rows' = [x \in DOMAIN rows |->
                                     [rows[x] EXCEPT !.active = (x = id)]]
        BY <3>7 DEF CommitActivate, Finish
      <4>2. ASSUME id \in DOMAIN rows
            PROVE  rows'[id].active /\ rows'[id].enabled = rows[id].enabled
                   /\ rows'[id].url = rows[id].url /\ id \in DOMAIN rows'
        BY <2>1, <4>1, <4>2 DEF TypeOK, Target
      <4> QED BY <2>3, <3>3, <4>1, <4>2 DEF TakesTraffic
    <3> QED BY <3>2, <3>4, <3>5, <3>6, <3>7
  <2> QED BY <2>6, <2>7 DEF Next
<1> QED BY <1>1, RegistryInvariant, PTL DEF Spec, FallbackIsDeliberate
=============================================================================
