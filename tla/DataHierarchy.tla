--------------------------- MODULE DataHierarchy ---------------------------
(***************************************************************************)
(* buildDataHierarchy of parser.go: the items of WORKING-STORAGE, in the   *)
(* order they are written, are arranged in groups by their level numbers.  *)
(* An item is known by its number; Root is the sentinel of level 0.        *)
(***************************************************************************)
EXTENDS Integers, Sequences

VARIABLES
    items,      \* the items, each with its level
    next,       \* the item to be placed
    stack,      \* the groups that are open
    parent      \* of the items placed so far

hierarchyVars == <<items, next, stack, parent>>

Root == 0
Nobody == -1

\* What lies under the top of the stack s, or Nobody.
Top(s) == IF s = <<>> THEN Nobody ELSE s[Len(s)]
Rest(s) == SubSeq(s, 1, Len(s) - 1)

Level(i) == IF i = Root THEN 0 ELSE items[i].level

StartHierarchy ==
    /\ next = 1
    /\ stack = <<Root>>
    /\ parent = <<>>

\* Mutant: an item of the same level stays open.
EndsDeeperOnly(group, i) == Level(group) > Level(i)

\* A group ends with the first item that is not deeper.
Ends(group, i) == Level(group) >= Level(i)

Pop ==
    /\ next <= Len(items)
    /\ stack # <<>> /\ Ends(Top(stack), next)
    /\ stack' = Rest(stack)
    /\ UNCHANGED <<items, next, parent>>

\* The item goes to the group that is left open, if any, and may be a group.
AddItem ==
    /\ next <= Len(items)
    /\ stack # <<>> => ~Ends(Top(stack), next)
    /\ parent' = Append(parent, Top(stack))
    /\ stack' = Append(stack, next)
    /\ next' = next + 1
    /\ UNCHANGED items

\* A list of records with a level number, which is any int.
Leveled(list) ==
    /\ list \in Seq({list[i] : i \in DOMAIN list})
    /\ \A i \in DOMAIN list : list[i].level \in Int

HierarchyInit ==
    /\ Leveled(items)
    /\ StartHierarchy

HierarchyNext == Pop \/ AddItem

HierarchySpec == HierarchyInit /\ [][HierarchyNext]_hierarchyVars

\* ws.Items: an item of level 1 is a record of its own, wherever it stands.
Records == {i \in 1..Len(parent) : Level(i) = 1}

----------------------------------------------------------------------------
\* p is the nearest item before i, Root included, with a lower level.
Nearest(i, p) ==
    /\ p \in Nobody..(i - 1)
    /\ p # Nobody => Level(p) < Level(i)
    /\ \A j \in (p + 1)..(i - 1) : Level(j) >= Level(i)

\* Every item belongs to the nearest item before it with a lower level, though
\* the parser keeps only the groups that are open and throws the others away:
\* otherwise MAPPING, and every look-up of a name, would go to another group.
HierarchyExact == \A i \in DOMAIN parent : Nearest(i, parent[i])
=============================================================================
