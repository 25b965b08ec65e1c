----------------------------- MODULE Catalogue ------------------------------
(***************************************************************************)
(* The registry's public read side: observations are published once and    *)
(* never removed, and clients walk through them page by page               *)
(* (listObservations, getSubject and getBadge over ListObservations of     *)
(* both stores) while more are published.  An observation's ID is its      *)
(* digest, here a number: new ones land anywhere in the order.             *)
(***************************************************************************)
EXTENDS Integers, FiniteSets, Sequences, Functions

CONSTANTS Digests,   \* digests of observations, ordered as their text is
          Subject,   \* the subject each observation is about
          Limits,    \* values of the limit parameter
          Walks      \* clients that page

ASSUME CatalogueConstants == Digests \subseteq Nat \ {0} /\ Limits \subseteq Nat \ {0}

VARIABLES observed,  \* the published observations
          walk       \* each client: subject filter, cursor, what it has seen

catalogueVars == <<observed, walk>>

Anything == "any subject"
Subjects == {Subject[d] : d \in Digests} \union {Anything}

Matches(filter, d) == filter \in {Anything, Subject[d]}

CatalogueInit == observed = {} /\ walk = [w \in Walks |-> [pc |-> "idle"]]

\* PutPublishedObservation refuses an ID that is there already.
PutPublishedObservation(d) ==
    /\ d \notin observed
    /\ observed' = observed \union {d}
    /\ UNCHANGED walk

\* The IDs of a set in their order.
Sorted(ids) == CHOOSE list \in [1..Cardinality(ids) -> ids] :
                  \A i, j \in 1..Cardinality(ids) : i < j => list[i] < list[j]

\* The matches after the cursor, in the order of their IDs.
SelectAfter(filter, after) == Sorted({d \in observed : d > after /\ Matches(filter, d)})

\* Faulty variant: the page is cut after it was filtered, but the cursor is the
\* item that was cut off.
ListPastCut(filter, after, limit) ==
    LET found == SelectAfter(filter, after)
    IN  IF Len(found) > limit
        THEN [items |-> SubSeq(found, 1, limit), next |-> found[limit + 1]]
        ELSE [items |-> found, next |-> 0]

\* One page: the first limit matches after the cursor, and a cursor when there is
\* one more.
ListObservations(filter, after, limit) ==
    LET found == SelectAfter(filter, after)
    IN  IF Len(found) > limit
        THEN [items |-> SubSeq(found, 1, limit), next |-> found[limit]]
        ELSE [items |-> found, next |-> 0]

BeginWalk(w, filter) ==
    /\ walk[w].pc = "idle"
    /\ walk' = [walk EXCEPT ![w] = [pc |-> "paging", filter |-> filter, after |-> 0,
                                    seen |-> <<>>, there |-> observed]]
    /\ UNCHANGED observed

\* listObservations or getSubject with the cursor of the page before.
NextPage(w, limit) ==
    /\ walk[w].pc = "paging"
    /\ LET page == ListObservations(walk[w].filter, walk[w].after, limit)
       IN  walk' = [walk EXCEPT ![w] =
               [walk[w] EXCEPT !.seen = walk[w].seen \o page.items,
                               !.after = page.next,
                               !.pc = IF page.next = 0 THEN "done" ELSE "paging"]]
    /\ UNCHANGED observed

\* getBadge: the first match alone.
Badge(filter) == ListObservations(filter, 0, 1).items

EndWalk(w) ==
    /\ walk[w].pc = "done"
    /\ walk' = [walk EXCEPT ![w] = [pc |-> "idle"]]
    /\ UNCHANGED observed

CatalogueNext ==
    \/ \E d \in Digests : PutPublishedObservation(d)
    \/ \E w \in Walks : \/ \E filter \in Subjects : BeginWalk(w, filter)
                        \/ \E limit \in Limits : NextPage(w, limit)
                        \/ EndWalk(w)

CatalogueSpec == CatalogueInit /\ [][CatalogueNext]_catalogueVars

-----------------------------------------------------------------------------
\* A client that follows the cursors to the end, with any limits and while others
\* publish, has seen every match that was there when it began, none twice, and
\* its first item is what the badge showed unless something was published since.
WalkIsComplete ==
    \A w \in Walks : walk[w].pc = "done" =>
        /\ {d \in walk[w].there : Matches(walk[w].filter, d)} \subseteq Range(walk[w].seen)
        /\ \A i, j \in DOMAIN walk[w].seen : i < j => walk[w].seen[i] < walk[w].seen[j]
        /\ walk[w].there = observed /\ walk[w].seen # <<>> =>
              Badge(walk[w].filter) = <<Head(walk[w].seen)>>

=============================================================================
