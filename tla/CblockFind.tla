------------------------------ MODULE CblockFind ------------------------------
(***************************************************************************)
(* src/cblock.cpp: path searches in the tree of Cblock, and define(), which *)
(* puts the #define of a macro where goto_defines() says and its #undef in  *)
(* the sub-block last/undefs of that place.                                *)
(*                                                                         *)
(* A path is the sequence of its components; the component "/" stands for  *)
(* a leading slash, and the other slashes are only separators.             *)
(***************************************************************************)
EXTENDS Cblock

ASSUME FindAssumption == /\ "undefs" \in Names
                         /\ Names \cap {"/", ".", "..", "*", "**", "..*", "body)"} = {}

VARIABLE macro  \* one of the macros, at most, any of them: [user, at, undef],
                \* its block, where the #define and where the #undef went
fvars == <<tree, macro>>

-----------------------------------------------------------------------------
(* find *)

\* "body)" is no block's name, but a path of the code has it; Paths also has
\* sequences with a slash further on, which no string stands for
Components == Names \cup {"/", ".", "..", "*", "**", "..*", "body)"}
Paths == Seq(Components) \ {<<>>}

\* x, or y when nothing was found
Or(x, y) == IF x # Null THEN x ELSE y

\* the first of several searches that finds something
FirstHit(s) == LET hits == {i \in DOMAIN s : s[i] # Null}
               IN IF hits = {} THEN Null ELSE s[Min(hits)]

\* a path of one component: "is it me" comes before the sub-blocks
FindOne(t, b, c) == CASE c \in {t.name[b], "."} -> b
                      [] c = ".." -> t.parent[b]
                      [] OTHER -> SubNamed(t, b, c)

\* The searches below use the results f of other searches, by block and path.
\* "*/rest" and "**/rest" under the sub-blocks of b
Deeper_children(t, f, b, p) == FirstHit([i \in DOMAIN t.sub[b] |-> f[<<t.sub[b][i], Tail(p)>>]])
Deeper(t, f, b, p) ==
  FirstHit([i \in DOMAIN t.sub[b] |->
    Or(f[<<t.sub[b][i], Tail(p)>>], IF Head(p) = "**" THEN f[<<t.sub[b][i], p>>] ELSE Null)])

\* the sub-trees an upward search looks into
Siblings_all(t, b) == DOMAIN t.sub[t.parent[b]]
Siblings(t, b) == {i \in DOMAIN t.sub[t.parent[b]] : t.sub[t.parent[b]][i] # b}
Aside(t, f, b, p) ==
  LET s == t.sub[t.parent[b]]
  IN FirstHit([i \in DOMAIN s |->
       IF i \in Siblings(t, b) THEN f[<<s[i], <<"**">> \o Tail(p)>>] ELSE Null])

\* "..*/rest": the parent, its other sub-trees, and on upwards
Up(t, f, b, p) ==
  IF t.parent[b] \in {Null, b} THEN Null
  ELSE Or(f[<<t.parent[b], Tail(p)>>], Or(Aside(t, f, b, p), f[<<t.parent[b], p>>]))

Along(t, f, b, p) ==
  LET c == Head(p)
      remain == Tail(p)
  IN CASE c = "/" -> IF remain = <<>> THEN Root ELSE f[<<Root, remain>>]
       [] c # "/" /\ remain = <<>> -> FindOne(t, b, c)
       [] c = "." /\ remain # <<>> -> f[<<b, remain>>]
       [] c = ".." /\ remain # <<>> -> IF t.parent[b] = Null THEN Null ELSE f[<<t.parent[b], remain>>]
       [] c = "*" /\ remain # <<>> -> Deeper(t, f, b, p)
       [] c = "**" /\ remain # <<>> -> Or(f[<<b, remain>>], Deeper(t, f, b, p))
       [] c = "..*" /\ remain # <<>> -> Up(t, f, b, p)
       [] OTHER -> IF SubNamed(t, b, c) = Null THEN Null ELSE f[<<SubNamed(t, b, c), remain>>]

Find(t, b, p) ==
  LET find[x \in Blocks \X Paths] == Along(t, find, x[1], x[2])
  IN find[<<b, p>>]

\* a block that is its own parent, the root or a detached one, is just "/"
fullpath(t, b) ==
  LET path[x \in t.live] == IF t.parent[x] = x THEN <<"/">>
                            ELSE Append(path[t.parent[x]], t.name[x])
  IN path[b]

-----------------------------------------------------------------------------
(* define *)

\* the component "body)" is what the code searches for
Body(t, b) == LET up == Find(t, b, <<"..*", "body)">>)
              IN IF t.name[b] = "body" \/ up = Null THEN b ELSE up

goto_defines(t, b) == Or(Find(t, Body(t, b), <<"..">>), b)

\* how many blocks a["last"]["undefs"] has to make
Missing(t, a) == LET last == SubNamed(t, a, "last")
                 IN IF last = Null THEN 2 ELSE IF SubNamed(t, last, "undefs") = Null THEN 1 ELSE 0
Undefs_flat(t, a) == Index(Index(t, a, "last"), a, "undefs")
Undefs(t, a) == LET t1 == Index(t, a, "last")
                IN Index(t1, SubNamed(t1, a, "last"), "undefs")

\* b.define(...): makes last/undefs at the place of the #define if need be
define(b) ==
  LET a == goto_defines(tree, b)
      t == Undefs(tree, a)
  IN /\ tree.used + Missing(tree, a) <= MaxBlocks
     /\ tree' = t
     /\ macro' \in {macro, {[user |-> b, at |-> a,
                             undef |-> SubNamed(t, SubNamed(t, a, "last"), "undefs")]}}

\* the macro is of interest while its blocks are
Kept(m) == {m.user, m.at, m.undef} \subseteq tree'.live

\* the client has one block named "last" at most in each place
OneLast(t) == \A b \in t.live : \A x, y \in ToSet(t.sub[b]) :
                t.name[x] = "last" /\ t.name[y] = "last" => x = y

FInit == Init /\ macro = {}
FNext == \/ \E b \in tree.live : define(b)
         \/ Next /\ OneLast(tree') /\ macro' = {m \in macro : Kept(m)}
FSpec == FInit /\ [][FNext]_fvars

-----------------------------------------------------------------------------
(* Properties *)

FTypeOK == /\ TypeOK
           /\ macro \subseteq [user : Blocks, at : Blocks, undef : Blocks]

Within(b) == Subtree(tree, b)
Whole(b) == UNION {Within(top) : top \in {x \in tree.live : b \in Within(x)}}
Named(S, n) == {x \in S : tree.name[x] = n}

(* "**/n" finds a block of that name whenever there is one at or under b,  *)
(* however deep, and never anything else.                                  *)
DownwardSearch ==
  \A b \in tree.live, n \in Names :
    LET hit == Find(tree, b, <<"**", n>>)
    IN IF Named(Within(b), n) = {} THEN hit = Null ELSE hit \in Named(Within(b), n)

(* "..*/n" finds a block of that name whenever b's tree has one that is    *)
(* not under b, and what it finds is not under b.                          *)
UpwardSearch ==
  \A b \in tree.live, n \in Names :
    LET hit == Find(tree, b, <<"..*", n>>)
        outside == Named(Whole(b) \ Within(b), n)
    IN /\ hit # Null => hit \in outside \cup {b}
       /\ outside # {} => hit # Null

(* The full path of a block of the program finds it again, from anywhere,  *)
(* if no other block on the way hides it: an earlier one of the same name, *)
(* or its parent when that has the same name.                              *)
Hidden(b) ==
  LET p == tree.parent[b]
      s == tree.sub[p]
  IN \/ tree.name[p] = tree.name[b]
     \/ \E i, j \in DOMAIN s : i < j /\ s[j] = b /\ tree.name[s[i]] = tree.name[b]
FullpathFinds ==
  \A b \in Within(Root) :
    (\A x \in Within(Root) \ {Root} : b \in Within(x) => ~Hidden(x))
      => \A from \in tree.live : Find(tree, from, fullpath(tree, b)) = b

(* The code of a block comes before that of its sub-blocks, so that a     *)
(* #define precedes the code under it.  As long as last/undefs stays where *)
(* it is, the #undef follows all of that code, also what is put there      *)
(* later, but for what is in "last" itself.                                *)
MacroCoversScope ==
  \A m \in macro :
    LET last == tree.parent[m.undef]
    IN tree.name[last] = "last" /\ tree.parent[last] = m.at /\ last # m.at
         => last = Last(tree.sub[m.at])

(* goto_defines: "look for this (or upward) being "body"", and "from there *)
(* look for ".."" (cblock.hpp:289): the #define goes to the block around    *)
(* the nearest enclosing "body".                                            *)
DefinesAtScope ==
  \A scope \in tree.live :
    tree.name[scope] = "body" /\ tree.parent[scope] # scope
      => \A b \in Within(scope) :
           (\A x \in Within(scope) \ {scope} : b \in Within(x) => tree.name[x] # "body")
             => goto_defines(tree, b) = tree.parent[scope]
=============================================================================
