--------------------------- MODULE SharedSettings ---------------------------
(***************************************************************************)
(* What the settings pages promise together, whatever the browsers, the    *)
(* query cache and the network do in between.  The settings are parts that *)
(* are stored as a whole.  Whoever stores a part has started from ONE      *)
(* version of it and has changed only the fields of its own edit: a store  *)
(* never mixes two versions and never invents a value, except that a store *)
(* may leave named fields as they are in the table, and may empty named    *)
(* fields.  It is not promised that the version is the latest one: there   *)
(* is no version check, and the last store wins.                           *)
(***************************************************************************)
CONSTANTS Blank,      \* an empty or zero field
          Empty,      \* what a store leaves of a field that it empties
          Default,    \* what a page shows in the place of a blank field
          BuiltIn     \* [part -> versions of it that a page holds before any answer]

VARIABLES stored,     \* [part -> [field -> value]]
          past,       \* [part -> the versions of the part stored so far]
          edited,     \* the fields of the edit that was stored last
          left,       \* the fields that store left as they were
          emptied     \* the fields that store emptied, edited or not

vars == <<stored, past, edited, left, emptied>>

\* The first version is the one the installation starts with.
Init == /\ past = [p \in DOMAIN stored |-> {stored[p]}]
        /\ edited = {} /\ left = {} /\ emptied = {}

\* A field outside the edit keeps its value, or a blank becomes the default.
Kept(new, old) == new = old \/ (old = Blank /\ new = Default)

\* One request stores one part, or several parts of a list at once.
Store(parts) ==
    /\ \A p \in parts : \E base \in past[p] \cup BuiltIn[p] :
         \A f \in DOMAIN stored[p] :
           IF f \in left' THEN stored'[p][f] = stored[p][f]
           ELSE IF f \in emptied' THEN stored'[p][f] = Empty
           ELSE f \notin edited' => Kept(stored'[p][f], base[f])
    /\ DOMAIN stored' = DOMAIN stored
    /\ \A p \in DOMAIN stored \ parts : stored'[p] = stored[p]
    /\ past' = [p \in DOMAIN past |-> past[p] \cup {stored'[p]}]

Next == \E parts \in SUBSET DOMAIN stored : Store(parts)

Spec == Init /\ [][Next]_vars
=============================================================================
