----------------------------- MODULE AtomicDrive -----------------------------
(***************************************************************************)
(* What a user may rely on: a drive and a trash bin whose entries change   *)
(* place in one step, are never replaced by another entry and are never    *)
(* duplicated.  There are no crashes and no half-done operations here;     *)
(* FsJournal implements this specification.                                *)
(***************************************************************************)
EXTENDS Naturals

CONSTANTS Paths, Slots, Contents, Nil

VARIABLES tree, bin

places == <<tree, bin>>

Init ==
  /\ tree \in [Paths -> Contents \cup {Nil}]
  /\ bin = [u \in Slots |-> Nil]

Present(c) == (\E p \in Paths : tree[p] = c) \/ (\E u \in Slots : bin[u] = c)

\* a rename or move, or one that is taken back
Relocate(src, dst) ==
  /\ tree[src] # Nil /\ tree[dst] = Nil
  /\ tree' = [tree EXCEPT ![dst] = tree[src], ![src] = Nil]
  /\ UNCHANGED bin

Discard(p, u) ==
  /\ tree[p] # Nil /\ bin[u] = Nil
  /\ bin' = [bin EXCEPT ![u] = tree[p]]
  /\ tree' = [tree EXCEPT ![p] = Nil]

\* a delete that is taken back
PutBack(p, u) ==
  /\ bin[u] # Nil /\ tree[p] = Nil
  /\ tree' = [tree EXCEPT ![p] = bin[u]]
  /\ bin' = [bin EXCEPT ![u] = Nil]

Add(p, c) ==
  /\ tree[p] = Nil /\ ~Present(c)
  /\ tree' = [tree EXCEPT ![p] = c]
  /\ UNCHANGED bin

Next ==
  \/ \E src, dst \in Paths : Relocate(src, dst)
  \/ \E p \in Paths, u \in Slots : Discard(p, u) \/ PutBack(p, u)
  \/ \E p \in Paths, c \in Contents : Add(p, c)

Spec == Init /\ [][Next]_places
==============================================================================
