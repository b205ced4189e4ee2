------------------------------ MODULE FileStore ------------------------------
(***************************************************************************)
(* What a file system promises: a directory tree that maps paths to        *)
(* contents, in which each call changes the file it names and no other.    *)
(* A path is <<directory, name, isDir>>; the directory "" is the root.  A  *)
(* write that finds no room may have replaced a part of what it was to     *)
(* write over, and changes nothing else.                                   *)
(***************************************************************************)
EXTENDS Integers, Sequences

CONSTANTS Paths, Values, Lengths

VARIABLE tree      \* a function from the paths that exist to their contents

Overwritten(s, at, new) ==
  [i \in 1 .. (IF at + Len(new) > Len(s) THEN at + Len(new) ELSE Len(s)) |->
     IF i - at \in 1 .. Len(new) THEN new[i - at] ELSE s[i]]

With(t, p, s) == [q \in DOMAIN t \cup {p} |-> IF q = p THEN s ELSE t[q]]
Without(t, P) == [q \in DOMAIN t \ P |-> t[q]]

Transfers == UNION {[1 .. n -> Values] : n \in Lengths}

\* The calls, as relations between the tree before, t, and after, u.
Create(t, u, p) == p \notin DOMAIN t /\ u = With(t, p, <<>>)
Truncate(t, u, p) == p \in DOMAIN t /\ u = With(t, p, <<>>)
Remove(t, u, p) == p \in DOMAIN t /\ ~p[3] /\ u = Without(t, {p})
RemoveDir(t, u, p) ==
  /\ p \in DOMAIN t /\ p[3]
  /\ u = Without(t, {p} \cup {q \in DOMAIN t : q[1] = p[2]})
Write(t, u, p, at, new) == u = With(t, p, Overwritten(t[p], at, new))
ShortWrite(t, u, p, at, new) ==
  \E n \in 0 .. Len(new) :
     u = With(t, p, SubSeq(Overwritten(t[p], at, SubSeq(new, 1, n)), 1, Len(t[p])))

Step(t, u) ==
  \/ \E p \in Paths : Create(t, u, p) \/ Truncate(t, u, p) \/ Remove(t, u, p) \/ RemoveDir(t, u, p)
  \/ \E p \in DOMAIN t, new \in Transfers : \E at \in 0 .. Len(t[p]) :
        ~p[3] /\ (Write(t, u, p, at, new) \/ ShortWrite(t, u, p, at, new))

Init == \E s \in {<<v>> : v \in Values} : tree = With(<<>>, <<"", "readme", FALSE>>, s)
Next == Step(tree, tree')

Spec == Init /\ [][Next]_tree
=============================================================================
