------------------------------- MODULE VMSpec -------------------------------
(***************************************************************************)
(* What the region manager promises about each page of each address space  *)
(* (spec 4.3): a page is either unreserved or reserved with the backing    *)
(* the mapping call asked for.  vm_map_* reserves unreserved pages.        *)
(* vm_unmap of a range releases pages of that range, and only those: when  *)
(* it returns, every page of the range is unreserved, and no page outside  *)
(* it (in particular none of a region that an unmap splits) has been       *)
(* released or had its backing changed.  One step touches one space.       *)
(***************************************************************************)
EXTENDS Integers

CONSTANTS ASes, Pages, Unreserved

VARIABLES
  reserved,   \* [space -> [page -> Unreserved or a backing]]
  unmapping   \* [space -> the range of the vm_unmap in progress, or {}]

vars == <<reserved, unmapping>>

\* Any reservation a space can start from, with no unmap in progress.
Init == /\ DOMAIN reserved = ASes
        /\ \A a \in ASes : DOMAIN reserved[a] = Pages
        /\ unmapping = [a \in ASes |-> {}]

\* Reserve: pages go from unreserved to some backing; others stay.
Reserve(a) ==
  /\ \A p \in Pages : reserved'[a][p] = reserved[a][p] \/ reserved[a][p] = Unreserved
  /\ UNCHANGED unmapping

\* vm_unmap is called on a range of a space (its lock serialises unmaps).
BeginUnmap(a) ==
  /\ unmapping[a] = {}
  /\ \E lo, hi \in Pages :
       /\ lo <= hi
       /\ unmapping' = [unmapping EXCEPT ![a] = lo..hi]
  /\ UNCHANGED reserved

\* Release: pages of the range being unmapped go to unreserved; others stay.
Release(a) ==
  /\ \A p \in Pages :
       \/ reserved'[a][p] = reserved[a][p]
       \/ p \in unmapping[a] /\ reserved'[a][p] = Unreserved
  /\ UNCHANGED unmapping

\* vm_unmap returns once the whole range is unreserved.
EndUnmap(a) ==
  /\ unmapping[a] # {}
  /\ \A p \in unmapping[a] : reserved[a][p] = Unreserved
  /\ unmapping' = [unmapping EXCEPT ![a] = {}]
  /\ UNCHANGED reserved

Next ==
  \E a \in ASes :
    /\ Reserve(a) \/ BeginUnmap(a) \/ Release(a) \/ EndUnmap(a)
    /\ DOMAIN reserved' = ASes
    /\ \A b \in ASes \ {a} : reserved'[b] = reserved[b]

Spec == Init /\ [][Next]_vars
=============================================================================
