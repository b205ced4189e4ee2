----------------------------- MODULE BuddyHeap -----------------------------
(***************************************************************************)
(* What src/src/kernel/kmalloc.h promises, without a tree: a set of        *)
(* aligned areas in use, and one call at a time that is answered from it.  *)
(* Kmalloc implements it (KmallocProps!ImplementsHeap).                    *)
(***************************************************************************)
EXTENDS BuddyNodes

VARIABLES
  live,   \* the areas the callers hold
  kept,   \* the segments taken out at boot
  job,    \* what the running call still has to do
  need,   \* the size asked for
  at,     \* the segment of the pointer passed
  answer  \* the pointer returned

hvars == <<live, kept, job, need, at, answer>>

FreeNode(x) ==
  /\ \A b \in live : ~In(b, x) /\ ~In(x, b)
  /\ \A s \in kept : ~In(Leaf(s), x)

HInit == /\ kept \in ReservedSets
         /\ live = {}
         /\ job = "none" /\ need = 0 /\ at = 0 /\ answer = NULL

Ask(j, n, s) == /\ job = "none"
                /\ job' = j /\ need' = n /\ at' = s
                /\ UNCHANGED <<live, kept, answer>>

(* Any free area of the size will do; none is refused while one is free.   *)
Grant(x) == /\ job = "want" /\ Lev(x) = need /\ FreeNode(x)
            /\ live' = live \cup {x}
            /\ answer' = FirstSegment(x) /\ job' = "done"
            /\ UNCHANGED <<kept, need, at>>

Refuse == /\ job = "want"
          /\ \A x \in Node : Lev(x) = need => ~FreeNode(x)
          /\ job' = "done" /\ UNCHANGED <<live, kept, need, at, answer>>

(* kfree takes any pointer into the area. *)
Release(b) == /\ job = "drop" /\ at \in Segments(b)
              /\ live' = live \ {b}
              /\ job' = "done" /\ UNCHANGED <<kept, need, at, answer>>

(* krealloc keeps an area wide enough, and else gives it up before it asks *)
(* for a wider one: refused, the caller has lost the old area as well.     *)
Keep(b) == /\ job = "grow" /\ at \in Segments(b) /\ Lev(b) >= need
           /\ answer' = at /\ job' = "done"
           /\ UNCHANGED <<live, kept, need, at>>

GiveUp(b) == /\ job = "grow" /\ at \in Segments(b) /\ Lev(b) < need
             /\ live' = live \ {b}
             /\ job' = "want" /\ UNCHANGED <<kept, need, at, answer>>

Measure == /\ job = "measure"
           /\ job' = "done" /\ UNCHANGED <<live, kept, need, at, answer>>

Answer == /\ job = "done"
          /\ job' = "none" /\ need' = 0 /\ at' = 0 /\ answer' = NULL
          /\ UNCHANGED <<live, kept>>

HCall == \/ \E n \in Requests : Ask("want", n, 0)
         \/ \E b \in live : \/ \E s \in Segments(b) :
                                 Ask("drop", 0, s) \/ Ask("measure", 0, s)
                            \/ \E n \in Requests : Ask("grow", n, FirstSegment(b))

Serve == \/ \E x \in Node : Grant(x)
         \/ Refuse
         \/ \E b \in live : Release(b) \/ Keep(b) \/ GiveUp(b)
         \/ Measure \/ Answer

HSpec == HInit /\ [][HCall \/ Serve]_hvars /\ WF_hvars(Serve)

=============================================================================
