--------------------------- MODULE TargetRegistry ---------------------------
(***************************************************************************)
(* The targets table: the dashboard routes that add, edit, toggle,         *)
(* activate and delete a target (proxy_app.py), set_active_target(), and   *)
(* the bootstrap that every starting process runs (utils/targets.py).      *)
(*                                                                         *)
(* A session reads, decides, and commits; other sessions run between the   *)
(* read and the commit.  ses[s].op is the commit session s is about to do, *)
(* "idle" when it does nothing.  New rows may take any id that is free:    *)
(* PostgreSQL never reuses one, SQLite may.                                *)
(***************************************************************************)
EXTENDS Integers, FiniteSets

CONSTANTS
    Admins,         \* dashboard requests in progress at the same time
    Starters,       \* starting processes: workers, instances, command line tools
    Ids, Urls,      \* primary keys and normalized target URLs
    EnvUrl,         \* WEBSENTINEL_TARGET, the same for every process
    Overlap         \* may a process start while an admin request is running

ASSUME SessionsDisjoint == Admins \cap Starters = {}
ASSUME IdsNonEmpty == Ids # {}
ASSUME EnvUrlIsUrl == EnvUrl \in Urls
ASSUME OverlapType == Overlap \in BOOLEAN

VARIABLES
    rows,           \* targets: id -> [url, enabled, active]
    ses             \* per session: the commit it is about to do
vars == <<rows, ses>>

Sessions == Admins \union Starters
Target == [url : Urls, enabled : BOOLEAN, active : BOOLEAN]
Ops == {"idle", "add", "edit", "toggle", "activate", "delete", "bootstrap"}

\* What a session knows: the row it loaded, and the values of its form.
Op(op, id, was, url, enabled) ==
    [op |-> op, id |-> id, was |-> was, url |-> url, enabled |-> enabled]
AnyId == CHOOSE id \in Ids : TRUE
NoRow == [url |-> EnvUrl, enabled |-> FALSE, active |-> FALSE]
Idle == Op("idle", AnyId, NoRow, EnvUrl, FALSE)

ActiveIds == {id \in DOMAIN rows : rows[id].active}
UsedBy(url, ids) == \E id \in ids : rows[id].url = url

Put(id, row) == [x \in DOMAIN rows \union {id} |-> IF x = id THEN row ELSE rows[x]]
Begin(s, op) == ses[s].op = "idle" /\ ses' = [ses EXCEPT ![s] = op] /\ UNCHANGED rows
Finish(s, op) == ses[s].op = op /\ ses' = [ses EXCEPT ![s] = Idle]

\* get_active_target_url(): .first() of the active rows, in no given order.
Fallback == EnvUrl
Destinations ==
    IF ActiveIds = {} THEN {Fallback}
    ELSE {IF rows[id].enabled THEN rows[id].url ELSE Fallback : id \in ActiveIds}

-----------------------------------------------------------------------------
Init ==
    /\ rows = [id \in {} |-> NoRow]
    /\ ses = [s \in Sessions |-> Idle]

MayAdminister == Overlap \/ \A s \in Starters : ses[s].op = "idle"
MayStart == Overlap \/ \A s \in Admins : ses[s].op = "idle"

\* Mutant: the URL is stored as typed, not normalized.
BeginAddRaw(s, url, enabled) ==
    /\ MayAdminister
    /\ ~UsedBy(url, DOMAIN rows)
    /\ Begin(s, Op("add", AnyId, NoRow, "not normalized", enabled))

(* add_target(): refuse a known URL, then insert, never active; the unique *)
(* constraint catches a URL that was added meanwhile.                      *)
BeginAdd(s, url, enabled) ==
    /\ MayAdminister
    /\ ~UsedBy(url, DOMAIN rows)
    /\ Begin(s, Op("add", AnyId, NoRow, url, enabled))

\* Mutant: a new enabled target is active at once.
CommitAddActive(s) ==
    /\ Finish(s, "add")
    /\ ~UsedBy(ses[s].url, DOMAIN rows)
    /\ \E id \in Ids \ DOMAIN rows :
         rows' = Put(id, [url |-> ses[s].url, enabled |-> ses[s].enabled,
                          active |-> ses[s].enabled])

CommitAdd(s) ==
    /\ Finish(s, "add")
    /\ ~UsedBy(ses[s].url, DOMAIN rows)
    /\ \E id \in Ids \ DOMAIN rows :
         rows' = Put(id, [url |-> ses[s].url, enabled |-> ses[s].enabled, active |-> FALSE])

AddConflict(s) ==
    /\ Finish(s, "add")
    /\ UsedBy(ses[s].url, DOMAIN rows)
    /\ UNCHANGED rows

(* edit_target(): refuse another row's URL; the UPDATE writes the columns  *)
(* that differ from the row as loaded.                                     *)
BeginEdit(s, id, url, enabled) ==
    /\ MayAdminister
    /\ id \in DOMAIN rows
    /\ ~UsedBy(url, DOMAIN rows \ {id})
    /\ Begin(s, Op("edit", id, rows[id], url, enabled))

\* Mutant: the UPDATE writes every column of the form.
EditedWhole(s, row) == [row EXCEPT !.url = ses[s].url, !.enabled = ses[s].enabled]

Edited(s, row) ==
    [row EXCEPT !.url = IF ses[s].url = ses[s].was.url THEN @ ELSE ses[s].url,
                !.enabled = IF ses[s].enabled = ses[s].was.enabled THEN @
                            ELSE ses[s].enabled]

CommitEdit(s) ==
    /\ Finish(s, "edit")
    /\ LET id == ses[s].id IN
         /\ id \in DOMAIN rows
         /\ ~UsedBy(Edited(s, rows[id]).url, DOMAIN rows \ {id})
         /\ rows' = Put(id, Edited(s, rows[id]))

EditConflict(s) ==
    /\ Finish(s, "edit")
    /\ LET id == ses[s].id IN
         id \in DOMAIN rows => UsedBy(Edited(s, rows[id]).url, DOMAIN rows \ {id})
    /\ UNCHANGED rows

(* toggle_target(): write the opposite of the value that was read. *)
BeginToggle(s, id) ==
    /\ MayAdminister
    /\ id \in DOMAIN rows
    /\ Begin(s, Op("toggle", id, rows[id], EnvUrl, ~rows[id].enabled))

\* Mutant: disabling a target also deactivates it.
CommitToggleDeactivates(s) ==
    /\ Finish(s, "toggle")
    /\ rows' = IF ses[s].id \in DOMAIN rows
               THEN [rows EXCEPT ![ses[s].id].enabled = ses[s].enabled,
                                 ![ses[s].id].active = @ /\ ses[s].enabled]
               ELSE rows

CommitToggle(s) ==
    /\ Finish(s, "toggle")
    /\ rows' = IF ses[s].id \in DOMAIN rows
               THEN [rows EXCEPT ![ses[s].id].enabled = ses[s].enabled] ELSE rows

(* activate_target() and set_active_target(): enabled when read, then one  *)
(* UPDATE of every row.                                                    *)
BeginActivate(s, id) ==
    /\ MayAdminister
    /\ id \in DOMAIN rows /\ rows[id].enabled
    /\ Begin(s, Op("activate", id, rows[id], EnvUrl, TRUE))

\* Mutant: the previous active target is not cleared.
CommitActivateOnly(s) ==
    /\ Finish(s, "activate")
    /\ rows' = [id \in DOMAIN rows |->
                   [rows[id] EXCEPT !.active = @ \/ id = ses[s].id]]

CommitActivate(s) ==
    /\ Finish(s, "activate")
    /\ rows' = [id \in DOMAIN rows |-> [rows[id] EXCEPT !.active = (id = ses[s].id)]]

(* delete_target(), confirmed. *)
BeginDelete(s, id) ==
    /\ MayAdminister
    /\ id \in DOMAIN rows
    /\ Begin(s, Op("delete", id, rows[id], EnvUrl, FALSE))

CommitDelete(s) ==
    /\ Finish(s, "delete")
    /\ rows' = [id \in DOMAIN rows \ {ses[s].id} |-> rows[id]]

(* bootstrap_target_from_env(): only on an empty table; a duplicate URL is *)
(* rolled back and ignored.                                                *)
BeginBootstrap(s) ==
    /\ MayStart
    /\ DOMAIN rows = {}
    /\ Begin(s, Op("bootstrap", AnyId, NoRow, EnvUrl, TRUE))

CommitBootstrap(s) ==
    /\ Finish(s, "bootstrap")
    /\ ~UsedBy(EnvUrl, DOMAIN rows)
    /\ \E id \in Ids \ DOMAIN rows :
         rows' = Put(id, [url |-> EnvUrl, enabled |-> TRUE, active |-> TRUE])

BootstrapConflict(s) ==
    /\ Finish(s, "bootstrap")
    /\ UsedBy(EnvUrl, DOMAIN rows)
    /\ UNCHANGED rows

AdminStep(s) ==
    \/ \E url \in Urls, enabled \in BOOLEAN :
          BeginAdd(s, url, enabled) \/ \E id \in Ids : BeginEdit(s, id, url, enabled)
    \/ \E id \in Ids : BeginToggle(s, id) \/ BeginActivate(s, id) \/ BeginDelete(s, id)
    \/ CommitAdd(s) \/ AddConflict(s) \/ CommitEdit(s) \/ EditConflict(s)
    \/ CommitToggle(s) \/ CommitActivate(s) \/ CommitDelete(s)

StartStep(s) == BeginBootstrap(s) \/ CommitBootstrap(s) \/ BootstrapConflict(s)

Next == (\E s \in Admins : AdminStep(s)) \/ (\E s \in Starters : StartStep(s))

Spec == Init /\ [][Next]_vars

-----------------------------------------------------------------------------
(* Properties *)

TypeOK ==
    /\ DOMAIN rows \subseteq Ids
    /\ \A id \in DOMAIN rows : rows[id] \in Target
    /\ ses \in [Sessions -> [op : Ops, id : Ids, was : Target, url : Urls, enabled : BOOLEAN]]

(* "AT MOST ONE is ever active at a time" (models.py, Target).  True as    *)
(* long as no process starts while an admin works; otherwise a bootstrap   *)
(* that has counted zero rows inserts its active row next to the one an    *)
(* admin has added and activated meanwhile.                                *)
AtMostOneActive ==
    \A i, j \in DOMAIN rows : rows[i].active /\ rows[j].active => i = j

(* An active target stays in its role while edits and toggles interleave:  *)
(* the table is left without an active row only by a deletion, or by the   *)
(* activation of a target that was deleted meanwhile.  (A disabled target  *)
(* keeps the role; traffic falls back until it is enabled again.)          *)
OnlyDeletionDeactivates ==
    [][ActiveIds # {} /\ ActiveIds' = {} =>
          \/ DOMAIN rows' # DOMAIN rows
          \/ \E s \in Admins : ses[s].op = "activate" /\ ses[s].id \notin DOMAIN rows]_vars

\* The request of session s takes traffic away: it deletes, it disables a row it
\* loaded enabled, it renames one to the fallback's URL, or it activates a target
\* that has been deleted, disabled or renamed since.
TakesTraffic(s) ==
    LET op == ses[s] IN
    \/ op.op = "delete"
    \/ op.op = "toggle" /\ ~op.enabled
    \/ op.op = "edit" /\ op.was.enabled /\ ~op.enabled
    \/ op.op = "edit" /\ op.was.url # Fallback /\ op.url = Fallback
    \/ op.op = "activate" /\ ~\E id \in DOMAIN rows :
                                 id = op.id /\ rows[id].enabled /\ rows[id].url # Fallback

(* Traffic leaves the active site for WEBSENTINEL_TARGET only when a form  *)
(* that takes it away is committed: a request that loaded its row before   *)
(* another admin enabled, renamed or activated a target never undoes that  *)
(* by committing values it did not mean to change.  (A page shown long ago *)
(* may: the form's values count, not what the admin saw.)                  *)
FallbackIsDeliberate ==
    [][Destinations # {Fallback} /\ Destinations' = {Fallback} =>
          \E s \in Admins : TakesTraffic(s) /\ ses'[s].op = "idle"]_vars
=============================================================================
