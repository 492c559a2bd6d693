----------------------------- MODULE WorldState ------------------------------
(***************************************************************************)
(* The world state cache: rows about the files of the workspace, kept by   *)
(* scope in memory and on disk.  A refresh reads the workspace and replaces *)
(* one scope in memory; the transaction only inserts or replaces, so that  *)
(* on disk the rows of files that are gone stay, and a restart brings them *)
(* back.                                                                   *)
(*                                                                         *)
(* The relations between nodes are replaced, saved and read just as the    *)
(* nodes and deltas they are made from, and are left out.  "workspace"     *)
(* stands for the three scopes that list the directory, "process" for any  *)
(* other.                                                                  *)
(***************************************************************************)
EXTENDS Naturals, Sequences

CONSTANT Paths

Scopes == {"workspace", "process"}

Row(table, scope, path) == [table |-> table, scope |-> scope, path |-> path]
Rows == [table : {"node", "delta"}, scope : Scopes \cup {"disabled"}, path : Paths]

(* What read_dir and git status tell: the entries of the house's root, and  *)
(* the changed files in git's order.  A git that fails tells of none.       *)
Worlds == [entries : SUBSET Paths, changed : Seq(Paths)]

(* The active mandala's policy, or the default one. *)
WorldPolicy == [scope : Scopes, allow : BOOLEAN, limit : Nat]

(* Mutant: the rows of the scope stay, as they do on disk. *)
InsertIntoScope(rows, scope, fresh) == rows \cup fresh

(* replace_scope, of all registries at once *)
ReplaceScope(rows, scope, fresh) == {r \in rows : r.scope # scope} \cup fresh

(* At least one changed file is kept, whatever the limit says. *)
AtLeastOne(limit) == IF limit = 0 THEN 1 ELSE limit

Nodes(p, w) ==
  IF p.scope = "workspace" THEN {Row("node", p.scope, f) : f \in w.entries} ELSE {}

Deltas(p, w) ==
  {Row("delta", p.scope, w.changed[i]) : i \in {j \in DOMAIN w.changed : j <= AtLeastOne(p.limit)}}

(* refresh_world_state_cache *)
Refreshed(rows, p, w) ==
  IF p.allow THEN ReplaceScope(rows, p.scope, Nodes(p, w) \cup Deltas(p, w))
  ELSE ReplaceScope(rows, "disabled", {})

(* build_world_state_slice_from_cache: what prompts and the gate are told.  *)
InScope(rows, p) == {r \in rows : r.scope = p.scope}

Slice(rows, p) ==
  IF p.allow
  THEN [entries |-> {r.path : r \in {r \in InScope(rows, p) : r.table = "node"}},
        dirty   |-> \E r \in InScope(rows, p) : r.table = "delta"]
  ELSE [entries |-> {}, dirty |-> FALSE]

(* INSERT OR REPLACE of every row in memory. *)
Upserted(table, rows) == table \cup rows

=============================================================================
