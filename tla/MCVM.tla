-------------------------------- MODULE MCVM --------------------------------
(***************************************************************************)
(* VM instantiated for TLC: a user space of pages 1..3 and the global      *)
(* space of pages 4..8, holding the boot descriptor page (4) and a         *)
(* demand-paged heap (5..6), with pages 7 and 8 left for descriptor pages. *)
(***************************************************************************)
EXTENDS VM, TLC

CONSTANTS U, G

MCStart == (U :> 1) @@ (G :> 4)
MCEnd == (U :> 4) @@ (G :> 9)
MCBoot == [base |-> 5, len |-> 2]
\* An aligned hint inside the space and an unaligned one that rounds up.
MCHints == {[pg |-> 2, off |-> FALSE], [pg |-> 1, off |-> TRUE]}
MCFlagSets == {{}, {FIXED}, {ZERO}, {ZERO, NO_DEMAND}}
\* The flags that leave an anonymous descriptor's stale type data unread.
MCFlagSetsNoZero == {{}, {FIXED}, {NO_DEMAND}}
\* The aligned hint alone.
MCAlignedHint == {[pg |-> 2, off |-> FALSE]}
\* Calls that fail (FIXED on a taken hint) and calls that succeed.
MCFlagSetsFixed == {{}, {FIXED}}
\* Every in-bounds vm_unmap of the user space.
MCUnmapRanges ==
  {u \in [as : {U}, base : 1..3, len : Lengths] : SegmentInBounds(U, u.base, u.len)}
\* ... and vm_unmap of the boot heap (pages 5..6) of the global space.
MCGlobalUnmapRanges ==
  MCUnmapRanges \cup {[as |-> G, base |-> 5, len |-> 1], [as |-> G, base |-> 6, len |-> 1],
                      [as |-> G, base |-> 5, len |-> 2]}

\* Spec 4.3: map reserves pages; vm_unmap releases exactly the pages of its
\* range, none outside it (the pieces a split keeps before and after the
\* run), and never changes the region type of a page that stays reserved.
AbsType == INSTANCE VMSpec WITH reserved <- Reserved(TypeView), unmapping <- Unmapping
RefinesTypeSpec == AbsType!Spec

\* Spec 4.3: ... nor its backing: the zero-fill of an anonymous page and
\* the physical page of a direct one (unmap's successor regions).
AbsBacking == INSTANCE VMSpec WITH reserved <- Reserved(BackingView), unmapping <- Unmapping
RefinesBackingSpec == AbsBacking!Spec
====
