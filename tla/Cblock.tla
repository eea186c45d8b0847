-------------------------------- MODULE Cblock --------------------------------
(***************************************************************************)
(* src/cblock.hpp and cblock.cpp: the program under construction is a tree *)
(* of named blocks of code (Cblock) under the root of a Cunit.  A block is *)
(* made either detached (its _parent is itself, as for the root) or by     *)
(* operator[] under an existing block, and after() moves it.  The program  *)
(* is written by walking the tree, a block's own code before its           *)
(* sub-blocks.                                                             *)
(*                                                                         *)
(* A Cblock address is a number, 0 is the null pointer.  Addresses are not *)
(* reused.  The text of a block is left out: what matters here is where a  *)
(* block comes in the program.                                             *)
(***************************************************************************)
EXTENDS Naturals, Sequences, SequencesExt

CONSTANTS MaxBlocks,  \* bound: blocks created
          Names       \* names of blocks

ASSUME CblockAssumption == /\ MaxBlocks \in Nat \ {0}
                           /\ "last" \in Names

Blocks == 1..MaxBlocks
Root == 1
Null == 0

VARIABLE tree  \* [used, live, name, parent, sub], see TypeOK

Init == \E n \in Names : tree = [used |-> 1, live |-> {Root},
                                 name |-> [b \in Blocks |-> n],
                                 parent |-> [b \in Blocks |-> IF b = Root THEN Root ELSE Null],
                                 sub |-> [b \in Blocks |-> <<>>]]

-----------------------------------------------------------------------------
(* The tree t *)

\* b and everything under it: the least set that has b and, of every member,
\* the sub-blocks
Closed(t, S) == \A x \in S : ToSet(t.sub[x]) \subseteq S
Subtree(t, b) == {x \in Blocks : \A S \in SUBSET Blocks : b \in S /\ Closed(t, S) => x \in S}

\* find_immediate_sub: the first sub-block of that name
Called(t, b, n) == {i \in DOMAIN t.sub[b] : t.name[t.sub[b][i]] = n}
SubNamed_last(t, b, n) == IF Called(t, b, n) = {} THEN Null ELSE t.sub[b][Max(Called(t, b, n))]
SubNamed(t, b, n) == IF Called(t, b, n) = {} THEN Null ELSE t.sub[b][Min(Called(t, b, n))]

\* where append puts a sub-block: a sub-block named "last" stays the last one
Place_end(t, s, c) == Append(s, c)
Place(t, s, c) == IF s # <<>> /\ t.name[Last(s)] = "last" THEN InsertAt(s, Len(s), c)
                  ELSE Append(s, c)

Appended(t, b, c) == [t EXCEPT !.parent[c] = b, !.sub[b] = Place(t, @, c)]

\* a block that is just constructed, with parent p
NewBlock(t) == t.used + 1
Constructed(t, p, n) == [t EXCEPT !.used = NewBlock(t), !.live = @ \cup {NewBlock(t)},
                                  !.name[NewBlock(t)] = n, !.parent[NewBlock(t)] = p]

\* operator[]: find a sub-block, or make one
Index(t, b, n) == IF SubNamed(t, b, n) # Null THEN t
                  ELSE Appended(Constructed(t, b, n), b, NewBlock(t))

\* unlink: only a block that is somewhere's sub-block is taken out
Linked(t, b) == t.parent[b] \notin {b, Null}
Unlink_keeps(t, b) == t
Unlink_swaps(t, b) ==
  LET p == t.parent[b]  s == t.sub[p]
  IN IF Linked(t, b)
     THEN [t EXCEPT !.sub[p] = Front([s EXCEPT ![CHOOSE i \in DOMAIN s : s[i] = b] = Last(s)]),
                    !.parent[b] = Null]
     ELSE t
Unlink(t, b) == IF Linked(t, b)
                THEN [t EXCEPT !.sub[t.parent[b]] = RemoveFirst(@, b), !.parent[b] = Null]
                ELSE t

\* clear deletes the sub-blocks, whose destructors clear them in turn
Deleted_children(t, b) == ToSet(t.sub[b])
Deleted(t, b) == Subtree(t, b) \ {b}

-----------------------------------------------------------------------------
(* Operations *)

\* new Cblock(&cunit, n), as mk_scope and its likes do
construct(n) == /\ tree.used < MaxBlocks
                /\ tree' = Constructed(tree, tree.used + 1, n)

\* b[n], when there is no such sub-block yet
index(b, n) == /\ tree.used < MaxBlocks
               /\ SubNamed(tree, b, n) = Null
               /\ tree' = Index(tree, b, n)

\* b.after(prev): unlink b (the root throws) and append it to prev.  That
\* prev is not b, nor under it, is up to the client: nothing checks it.
after(b, prev) ==
  /\ b # Root
  /\ prev \notin Subtree(tree, b)
  /\ tree' = Appended(Unlink(tree, b), prev, b)

clear(b) ==
  tree' = [tree EXCEPT
    !.live = @ \ Deleted(tree, b),
    !.parent = [x \in Blocks |-> IF x \in Deleted(tree, b) THEN Null ELSE @[x]],
    !.sub = [x \in Blocks |-> IF x \in Deleted(tree, b) \cup {b} THEN <<>> ELSE @[x]]]

Next == \/ \E n \in Names : construct(n)
        \/ \E b \in tree.live : \/ \E n \in Names : index(b, n)
                                \/ \E prev \in tree.live : after(b, prev)
                                \/ clear(b)

Spec == Init /\ [][Next]_tree

-----------------------------------------------------------------------------
(* Properties *)

TypeOK == tree \in [used : Blocks,          \* blocks made so far
                    live : SUBSET Blocks,   \* and not deleted
                    name : [Blocks -> Names],
                    parent : [Blocks -> Blocks \cup {Null}],
                    sub : [Blocks -> Seq(Blocks)]]

(* _parent and _sub agree, in whatever order blocks are made, moved and    *)
(* deleted: a block is listed once, by its parent, and nothing deleted is  *)
(* listed.  A block that is listed twice would be written, and deleted,    *)
(* twice.                                                                  *)
TreeConsistent ==
  /\ Root \in tree.live
  /\ \A b \in tree.live : /\ IsInjective(tree.sub[b])
                          /\ ToSet(tree.sub[b]) =
                               {c \in tree.live : tree.parent[c] = b /\ c # b}

(* "program is a tree": every block is under the root or under a block     *)
(* that is not placed yet, so nothing that has been generated is           *)
(* unreachable.                                                            *)
ProgramIsTree ==
  \A b \in tree.live : \E top \in tree.live :
    tree.parent[top] = top /\ b \in Subtree(tree, top)

(* "any Cblock named "last" will remain as the terminal one": nothing but  *)
(* its own move, or its deletion, takes the last place from such a block,  *)
(* also when other blocks named "last" are moved in.                       *)
EndsInLast(t, b) == t.sub[b] # <<>> /\ t.name[Last(t.sub[b])] = "last"
LastStaysLast ==
  [][\A b \in tree.live \cap tree'.live :
       EndsInLast(tree, b) /\ Last(tree.sub[b]) \in ToSet(tree'.sub[b])
         => EndsInLast(tree', b)]_tree

(* Making, moving or deleting a block does not reorder the code of others: *)
(* the blocks that stay under b keep their order, but for the one that is  *)
(* moved to the end of the blocks it was already with.                     *)
Before(s, x, y) == \E i, j \in DOMAIN s : i < j /\ s[i] = x /\ s[j] = y
SameOrder(s, t, moved) ==
  \A x, y \in (ToSet(s) \cap ToSet(t)) \ moved : Before(s, x, y) => Before(t, x, y)
OrderKept ==
  [][\A b \in tree.live \cap tree'.live :
       LET s == tree.sub[b]  t == tree'.sub[b]
       IN IF ToSet(s) = ToSet(t) THEN \E m \in Blocks : SameOrder(s, t, {m})
                                 ELSE SameOrder(s, t, {})]_tree
=============================================================================
