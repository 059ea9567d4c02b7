------------------------------- MODULE DirTree -------------------------------
(***************************************************************************)
(* The directory tree of one user on disk and the rows of table files that *)
(* describe it: what every operation does to the rows of a whole subtree.  *)
(* update_child_paths (db/queries.rs), db_delete_file_rows_tx,             *)
(* ensure_dir_rows and reconcile_files_on_disk (file_ops/core.rs),         *)
(* create_folder (file_ops/api.rs), restore_trash with                     *)
(* restore_dir_recursive_tx (trash.rs) and merge_chunks (upload.rs).       *)
(*                                                                         *)
(* Each handler is one step here; its crashes and interleavings are the    *)
(* subject of FsJournal.  A path is a sequence of names.  The UNIQUE key   *)
(* (username, parent_path, name) makes the table a function of the path.   *)
(***************************************************************************)
EXTENDS Naturals, Sequences, FiniteSets, Functions

CONSTANTS
  Names,       \* names of files and directories
  Fold,        \* what the LIKE of SQLite makes of a name: ASCII case is ignored
  Slots,       \* places in the trash bin
  MaxDepth,    \* bound on the depth of a path
  MaxEntries,  \* bound on the entries of the tree, and on the rows
  MaxStored,   \* bound on the entries of the tree and of the trash together
  MaxGaps      \* bound on the paths that are only on disk or only in the table

ASSUME TreeAssumption ==
  /\ Fold \in [Names -> Names]
  /\ MaxDepth \in Nat /\ MaxEntries \in Nat /\ MaxStored \in Nat /\ MaxGaps \in Nat

Root  == << >>
Paths == UNION {[1..n -> Names] : n \in 1..MaxDepth}
Kinds == {"dir", "file"}

VARIABLES
  tree,  \* uploads/{user}: the kind of each existing path
  rows,  \* table files: the kind of each path that has a row
  bin    \* .trash and table trash: what each slot holds, and whence

vars == <<tree, rows, bin>>

------------------------------------------------------------------------------
Parent(p) == SubSeq(p, 1, Len(p) - 1)
NameOf(p) == p[Len(p)]

\* q is d or below d
Within(d, q) == Len(q) >= Len(d) /\ SubSeq(q, 1, Len(d)) = d

Ancestors(p) == {SubSeq(p, 1, k) : k \in 1..(Len(p) - 1)}

Reroot(q, src, dst) == dst \o SubSeq(q, Len(src) + 1, Len(q))

IsForest(f) == DOMAIN f \subseteq Paths /\ Range(f) \subseteq Kinds

\* every entry lies in a directory
Closed(f) ==
  \A p \in DOMAIN f : \/ Parent(p) = Root
                      \/ Parent(p) \in DOMAIN f /\ f[Parent(p)] = "dir"

Empty    == << >>
Free(u)  == bin[u] = Empty
AllDirs(ps) == [p \in ps |-> "dir"]
One(p, kind) == [q \in {p} |-> kind]

\* INSERT OR IGNORE, and mkdir -p: what is there stays.  Also the union of two
\* forests.
Adding(f, g) == [p \in DOMAIN f \cup DOMAIN g |-> IF p \in DOMAIN f THEN f[p] ELSE g[p]]

Blocked(ps) == \E p \in ps : p \in DOMAIN tree /\ tree[p] = "file"

\* An UPDATE gives the rows new keys; one that is taken, or given twice, violates UNIQUE.
Clashes(r, key) ==
  \E q \in DOMAIN key : key[q] \in (DOMAIN r \ {q}) \cup {key[p] : p \in DOMAIN key \ {q}}

Rekeyed(r, key) ==
  [p \in (DOMAIN r \ DOMAIN key) \cup Range(key) |->
     IF p \in Range(key) THEN r[CHOOSE q \in DOMAIN key : key[q] = p] ELSE r[p]]

\* parent_path LIKE 'd/%' ESCAPE '\'
LikeBelow(d, p) ==
  Len(p) > Len(d) /\ \A k \in 1..Len(d) : Fold[p[k]] = Fold[d[k]]

------------------------------------------------------------------------------
(* apply_db_rename_move and update_child_paths: three UPDATEs in turn.     *)

OwnKey(r, src, dst) == [q \in DOMAIN r \cap {src} |-> dst]

ChildKeys(r, src, dst) ==
  [q \in {q \in DOMAIN r : Parent(q) = src} |-> Append(dst, NameOf(q))]

\* Mutant of DeepKeys: deeper rows are forgotten.
DeepKeysForgotten(r, src, dst) == [q \in {} |-> q]

DeepKeys(r, src, dst) ==
  [q \in {q \in DOMAIN r : LikeBelow(src, Parent(q))} |-> Reroot(q, src, dst)]

\* Sound if the transaction commits; rows is what it makes of the table r.
MoveTx(r, src, dst) ==
  LET own   == OwnKey(r, src, dst)
      r1    == Rekeyed(r, own)
      child == ChildKeys(r1, src, dst)
      r2    == Rekeyed(r1, child)
      deep  == DeepKeys(r2, src, dst)
  IN  [commits |-> ~(Clashes(r, own) \/ Clashes(r1, child) \/ Clashes(r2, deep)),
       rows    |-> Rekeyed(r2, deep)]

\* What a rename on disk needs of its source and target.
Renames(src, dst) ==
  /\ src \in DOMAIN tree /\ dst \notin DOMAIN tree
  /\ ~Within(src, dst)
  /\ \/ Parent(dst) = Root
     \/ Parent(dst) \in DOMAIN tree /\ tree[Parent(dst)] = "dir"

Moved(src, dst) == [q \in {q \in DOMAIN tree : Within(src, q)} |-> Reroot(q, src, dst)]

\* rename_core and move_core.  A conflict, a failing rename and a failing
\* transaction all leave things as they were.
Relocate(src, dst) ==
  LET tx == MoveTx(rows, src, dst)
  IN  /\ dst \notin DOMAIN rows
      /\ Renames(src, dst)
      /\ tx.commits
      /\ tree' = Rekeyed(tree, Moved(src, dst))
      /\ rows' = tx.rows
      /\ UNCHANGED bin

RenameItem(p, name) == name # NameOf(p) /\ Relocate(p, Append(Parent(p), name))

MoveItem(p, dir) == dir # Parent(p) /\ Relocate(p, Append(dir, NameOf(p)))

\* Mutant of MoveBatch: the rows of the second entry are not moved.
MoveBatchFirst(dir, m, n, to) ==
  LET src(x) == Append(dir, x)
      dst(x) == Append(to, x)
      tx     == MoveTx(rows, src(m), dst(m))
  IN  /\ m # n /\ {src(m), src(n)} \subseteq DOMAIN tree
      /\ \A x \in {m, n} : Renames(src(x), dst(x))
      /\ tx.commits
      /\ tree' = Rekeyed(tree, Adding(Moved(src(m), dst(m)), Moved(src(n), dst(n))))
      /\ rows' = tx.rows
      /\ UNCHANGED bin

\* move_batch of two entries: the renames in turn, then one transaction; any
\* failure takes back everything.  Only the disk is asked for conflicts.
MoveBatch(dir, m, n, to) ==
  LET src(x) == Append(dir, x)
      dst(x) == Append(to, x)
      tx1    == MoveTx(rows, src(m), dst(m))
      tx2    == MoveTx(tx1.rows, src(n), dst(n))
  IN  /\ m # n /\ {src(m), src(n)} \subseteq DOMAIN tree
      /\ \A x \in {m, n} : Renames(src(x), dst(x))
      /\ tx1.commits /\ tx2.commits
      /\ tree' = Rekeyed(tree, Adding(Moved(src(m), dst(m)), Moved(src(n), dst(n))))
      /\ rows' = tx2.rows
      /\ UNCHANGED bin

------------------------------------------------------------------------------
(* delete_to_trash and restore_trash.                                      *)

\* db_delete_file_rows_tx
DroppedRows(p) ==
  Restrict(rows, {q \in DOMAIN rows : q # p /\ ~LikeBelow(p, Parent(q))})

DeleteToTrash(u, p) ==
  /\ Free(u)
  /\ p \in DOMAIN tree
  /\ bin' = [bin EXCEPT ![u] = [path |-> p, forest |-> Restrict(tree, {q \in DOMAIN tree : Within(p, q)})]]
  /\ tree' = Restrict(tree, {q \in DOMAIN tree : ~Within(p, q)})
  /\ rows' = DroppedRows(p)

\* delete_batch of a name that is not on disk
DeleteRows(p) ==
  /\ p \notin DOMAIN tree
  /\ rows' = DroppedRows(p)
  /\ UNCHANGED <<tree, bin>>

\* Mutant of RestoredRows: does not descend.
RestoredRowsShallow(p, forest) == Adding(rows, Restrict(forest, {p}))

\* restore_dir_recursive_tx ignores rows that are already there.
RestoredRows(p, forest) == Adding(rows, forest)

\* Mutant of Restore: the missing parent directories are not created.
RestoreWithoutParents(u) ==
  /\ ~Free(u)
  /\ bin[u].path \notin DOMAIN tree
  /\ tree' = Adding(tree, bin[u].forest)
  /\ rows' = RestoredRows(bin[u].path, bin[u].forest)
  /\ bin' = [bin EXCEPT ![u] = Empty]

\* The missing parents get no rows, and stay if the INSERT for a file fails.
Restore(u) ==
  LET p       == bin[u].path
      forest  == bin[u].forest
      parents == Adding(tree, AllDirs(Ancestors(p)))
  IN  /\ ~Free(u)
      /\ p \notin DOMAIN tree
      /\ ~Blocked(Ancestors(p))
      /\ \/ /\ forest[p] = "dir" \/ p \notin DOMAIN rows
            /\ tree' = Adding(parents, forest)
            /\ rows' = RestoredRows(p, forest)
            /\ bin' = [bin EXCEPT ![u] = Empty]
         \/ /\ forest[p] = "file" /\ p \in DOMAIN rows
            /\ tree' = parents
            /\ UNCHANGED <<rows, bin>>

------------------------------------------------------------------------------
(* New entries.                                                            *)

\* The row first, then mkdir -p; the row goes again if that fails.
CreateFolder(p) ==
  /\ p \notin DOMAIN rows
  /\ ~Blocked({p} \cup Ancestors(p))
  /\ rows' = Adding(rows, One(p, "dir"))
  /\ tree' = Adding(tree, AllDirs({p} \cup Ancestors(p)))
  /\ UNCHANGED bin

\* merge_chunks: ensure_dir_rows, mkdir -p, the same-name check, the file.
Upload(p) ==
  LET dirRows == Adding(rows, AllDirs(Ancestors(p)))
      dirs    == Adding(tree, AllDirs(Ancestors(p)))
  IN  /\ \/ /\ Blocked(Ancestors(p))
            /\ rows' = dirRows
            /\ UNCHANGED tree
         \/ /\ ~Blocked(Ancestors(p))
            /\ IF p \in DOMAIN dirRows \cup DOMAIN dirs
                 THEN rows' = dirRows /\ tree' = dirs
                 ELSE /\ rows' = Adding(dirRows, One(p, "file"))
                      /\ tree' = Adding(dirs, One(p, "file"))
      /\ UNCHANGED bin

\* The PUT of WebDAV: mkdir -p, ensure_dir_rows, then the file and its row.  A file
\* that is replaced keeps its row, or stays without one; a directory is not
\* replaced, a row that is there already stays.
DavPut(p) ==
  LET dirRows == Adding(rows, AllDirs(Ancestors(p)))
      dirs    == Adding(tree, AllDirs(Ancestors(p)))
  IN  /\ ~Blocked(Ancestors(p))
      /\ tree' = Adding(dirs, One(p, "file"))
      /\ rows' = IF p \in DOMAIN tree THEN dirRows ELSE Adding(dirRows, One(p, "file"))
      /\ UNCHANGED bin

\* MKCOL: the parent must be there; an error of the INSERT is ignored.
DavMkcol(p) ==
  /\ p \notin DOMAIN tree
  /\ \/ Parent(p) = Root
     \/ Parent(p) \in DOMAIN tree /\ tree[Parent(p)] = "dir"
  /\ tree' = Adding(tree, One(p, "dir"))
  /\ rows' = Adding(rows, One(p, "dir"))
  /\ UNCHANGED bin

\* copy_recursive: the rows it selects, and where the entry of each goes.  A row
\* that only LIKE takes for one below the source goes to its own place.
CopiedRows(src) == {q \in DOMAIN rows : q = src \/ LikeBelow(src, Parent(q))}
CopyOf(q, src, dst) == IF Within(src, q) THEN Reroot(q, src, dst) ELSE q

\* Directories first, then the files one after the other, then all the rows; an
\* INSERT that fails is ignored.  When a copy fails, what was copied stays.  Without
\* any row for the source nothing happens.
DavCopy(src, dst) ==
  LET hits  == CopiedRows(src)
      to    == [q \in hits |-> CopyOf(q, src, dst)]
      dirs  == (UNION {Ancestors(to[q]) : q \in hits}) \cup {to[q] : q \in {q \in hits : rows[q] = "dir"}}
      files == {q \in hits : rows[q] = "file"}
      able  == {q \in files : q \in DOMAIN tree /\ tree[q] = "file" /\ to[q] \notin dirs}
      Copies(S) == Adding(Adding(tree, AllDirs(dirs)), [p \in {to[q] : q \in S} |-> "file"])
  IN  /\ src # dst /\ dst \notin DOMAIN tree /\ hits # {}
      /\ ~Blocked(dirs)
      /\ \/ /\ able = files
            /\ tree' = Copies(files)
            /\ rows' = Adding(rows, [p \in Range(to) |-> rows[CHOOSE q \in hits : to[q] = p]])
         \/ /\ able # files
            /\ \E done \in SUBSET able : tree' = Copies(done)
            /\ UNCHANGED rows
      /\ UNCHANGED bin

\* Mutant of ListFiles: deletes by name, whatever the directory.
ListFilesByName(dir) ==
  LET gone == {q \in DOMAIN rows : Parent(q) = dir
                                   /\ (q \notin DOMAIN tree \/ tree[q] # rows[q])}
  IN  /\ rows' = Restrict(rows, {q \in DOMAIN rows : \A g \in gone : NameOf(q) # NameOf(g)})
      /\ UNCHANGED <<tree, bin>>

\* query_files with reconcile_files_on_disk: rows without their file go.
ListFiles(dir) ==
  LET gone == {q \in DOMAIN rows : Parent(q) = dir
                                   /\ (q \notin DOMAIN tree \/ tree[q] # rows[q])}
  IN  /\ rows' = Restrict(rows, DOMAIN rows \ gone)
      /\ UNCHANGED <<tree, bin>>

------------------------------------------------------------------------------
TypeOK ==
  /\ IsForest(tree) /\ Closed(tree)
  /\ IsForest(rows)
  /\ \A u \in Slots : Free(u) \/ /\ bin[u].path \in DOMAIN bin[u].forest
                                 /\ \A q \in DOMAIN bin[u].forest : Within(bin[u].path, q)

Init ==
  /\ tree = Empty
  /\ rows = Empty
  /\ bin = [u \in Slots |-> Empty]

Directories == {Root} \cup {p \in Paths : Len(p) < MaxDepth}

\* Bounds of the model: nothing deeper than MaxDepth, few entries, few rows.
Stored(b) == UNION {{u} \X DOMAIN b[u].forest : u \in {u \in Slots : b[u] # Empty}}

Bounded ==
  /\ DOMAIN tree' \subseteq Paths /\ DOMAIN rows' \subseteq Paths
  /\ Cardinality(DOMAIN tree') <= MaxEntries
  /\ Cardinality(DOMAIN tree') + Cardinality(Stored(bin')) <= MaxStored
  /\ Cardinality(DOMAIN rows') <= MaxEntries
  /\ Cardinality((DOMAIN tree' \ DOMAIN rows') \cup (DOMAIN rows' \ DOMAIN tree')) <= MaxGaps

\* where one more entry is within the bound
Room == {p \in Paths \ DOMAIN tree : Cardinality(DOMAIN tree \cup Ancestors(p)) < MaxEntries}

\* Operations whose guard needs an entry or a row are tried only where there is one.
Next ==
  /\ \/ \E p \in DOMAIN tree :
          \/ \E name \in Names : RenameItem(p, name)
          \/ \E dir \in Directories : MoveItem(p, dir)
          \/ \E u \in Slots : DeleteToTrash(u, p)
     \/ \E p \in Paths \ DOMAIN tree : DeleteRows(p) \/ DavMkcol(p)
     \/ \E src \in UNION {Ancestors(q) \cup {q} : q \in DOMAIN rows}, p \in Room : DavCopy(src, p)
     \/ \E p \in Paths : CreateFolder(p) \/ Upload(p) \/ DavPut(p)
     \/ \E u \in Slots : Restore(u)
     \/ \E dir \in Directories : ListFiles(dir)
     \/ \E dir \in {Parent(p) : p \in DOMAIN tree}, to \in Directories, m, n \in Names :
          MoveBatch(dir, m, n, to)
  /\ Bounded

Spec == Init /\ [][Next]_vars

------------------------------------------------------------------------------
(* Properties.                                                             *)

Shown(p) == p \in DOMAIN tree /\ p \in DOMAIN rows /\ rows[p] = tree[p]

\* An entry that an operation leaves where it is keeps its row: no operation on
\* one directory touches the rows of another one (the LIKE patterns of
\* update_child_paths and db_delete_file_rows_tx, the batch DELETE of a listing).
BystandersKeepRows ==
  [][\A p \in DOMAIN tree :
       Shown(p) /\ p \in DOMAIN tree' /\ tree'[p] = tree[p] => Shown(p)']_vars

\* A directory that is renamed or moved takes the rows of its whole subtree
\* along, at any depth (the two UPDATEs of update_child_paths).
MoveCarriesRows ==
  [][\A src \in DOMAIN tree \ DOMAIN tree', dst \in DOMAIN tree' \ DOMAIN tree : Relocate(src, dst) =>
       \A q \in DOMAIN tree : Within(src, q) /\ Shown(q) => Shown(Reroot(q, src, dst))']_vars

\* So does each entry of a batch: the rows that one of them moves are not taken for
\* rows of the other, and the whole batch keeps its rows or stays where it is.
BatchCarriesRows ==
  [][\A dir \in {Parent(p) : p \in DOMAIN tree \ DOMAIN tree'},
       to \in {Parent(p) : p \in DOMAIN tree' \ DOMAIN tree},
       m, n \in Names : MoveBatch(dir, m, n, to) =>
         \A x \in {m, n} : \A q \in DOMAIN tree :
           Within(Append(dir, x), q) /\ Shown(q) => Shown(Reroot(q, dir, to))']_vars

\* Whatever comes back from the trash is in the table again, at any depth, even
\* over rows that an earlier operation left behind (restore_dir_recursive_tx).
RestoreRegistersAll ==
  [][\A u \in Slots : ~Free(u) /\ bin'[u] = Empty =>
       DOMAIN bin[u].forest \subseteq DOMAIN tree' \cap DOMAIN rows']_vars

\* The COPY of a directory has everything that the directory has (the comment of
\* copy_recursive: the source itself and its subtree).
CopyIsComplete ==
  [][\A src \in DOMAIN tree, dst \in DOMAIN tree' \ DOMAIN tree :
       DavCopy(src, dst) /\ Shown(dst)' =>
         \A q \in DOMAIN tree : Within(src, q) /\ Shown(q) /\ ~Within(src, dst)
                                => Shown(Reroot(q, src, dst))']_vars
==============================================================================
