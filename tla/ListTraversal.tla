--------------------------- MODULE ListTraversal ---------------------------
(***************************************************************************)
(* What a loop over a LinkedList promises, without pointers: of the        *)
(* elements that were there when it began none that is still there is      *)
(* missed, and no element is met twice.                                    *)
(***************************************************************************)
CONSTANT Keys

VARIABLES elements, \* what the list holds
          left,     \* the elements the loop has still to meet
          met,      \* those it has met
          binding   \* the loop must not end before `left' is empty

vars == <<elements, left, met, binding>>

Init == elements = {} /\ left = {} /\ met = {} /\ binding = FALSE

Add(k) == /\ k \notin elements
          /\ elements' = elements \cup {k}
          /\ UNCHANGED <<left, met, binding>>

\* Elements may be removed while the loop runs; it may cease to be binding.
Delete(k) == /\ k \in elements
             /\ elements' = elements \ {k}
             /\ left' = left \ {k}
             /\ met' = met \ {k}
             /\ binding' \in {binding, FALSE}

DeleteAll == elements' = {} /\ left' = {} /\ met' = {} /\ binding' = FALSE

Begins == /\ binding' = (elements # {})
          /\ \/ elements = {} /\ met' = {} /\ left' = {}
             \/ \E k \in elements : met' = {k} /\ left' = elements \ {k}
          /\ UNCHANGED elements

\* One that was there when the loop began, or one added since.
Meets(k) == /\ k \in elements \ met
            /\ met' = met \cup {k}
            /\ left' = left \ {k}
            /\ UNCHANGED <<elements, binding>>

Ends == /\ binding => left = {}
        /\ left' = {} /\ met' = {} /\ binding' = FALSE
        /\ UNCHANGED elements

\* The caller turns to something else in the middle.
Abandons == /\ met' = {} /\ binding' = FALSE
            /\ UNCHANGED <<elements, left>>

Next == \/ \E k \in Keys : Add(k) \/ Delete(k) \/ Meets(k)
        \/ DeleteAll \/ Begins \/ Ends \/ Abandons

Spec == Init /\ [][Next]_vars
=============================================================================
