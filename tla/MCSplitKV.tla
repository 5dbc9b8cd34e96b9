----------------------------- MODULE MCSplitKV ------------------------------
(***************************************************************************)
(* Instances of SplitKV for TLC.  CTAs interact only through the cache, so *)
(* the calls that append are the ones with several heads per key head; the *)
(* others vary the masks, the splits and the evenness of the tiling.       *)
(***************************************************************************)
EXTENDS SplitKV

CONSTANTS Capacity, CacheLens, NewLens, Lens, Widths, SplitCounts

Sides == {Unlimited} \cup Widths

Call(capi, seqlen_q, ngroups, cache_len, knew, seqlens, mask, evenK, splits) ==
    [capi |-> capi, seqlen_q |-> seqlen_q, ngroups |-> ngroups,
     capacity |-> Capacity, cache_len |-> cache_len, seqlen_knew |-> knew,
     seqlens |-> seqlens, causal |-> mask[1], wl |-> mask[2], wr |-> mask[3],
     evenK |-> evenK, num_splits |-> splits]

Masks == BOOLEAN \X Sides \X Sides

\* Without splits from Python, with any number of them from C.
Entries == {<<FALSE, 1>>} \cup {<<TRUE, k>> : k \in SplitCounts}

\* Reading a cache whose length is given, or all of it.
ReadArgs ==
    {Call(e[1], q, 1, l, 0, TRUE, mask, TRUE, e[2]) :
        e \in Entries, q \in Lens, l \in CacheLens, mask \in Masks}
    \cup
    {Call(e[1], q, g, Capacity, 0, FALSE, mask, k, e[2]) :
        e \in Entries, q \in Lens, g \in {1, 2}, mask \in {<<c, -1, -1>> : c \in BOOLEAN},
        k \in BOOLEAN}

\* Appending at most as many keys as there are queries.
AppendArgs ==
    {a \in {Call(e[1], q, g, l, n, TRUE, mask, TRUE, e[2]) :
                e \in Entries, q \in Lens, g \in {1, 2}, l \in CacheLens, n \in NewLens,
                mask \in {m \in Masks : m[2] = m[3]}} :
        a.cache_len + a.seqlen_knew <= a.capacity /\ a.seqlen_knew <= a.seqlen_q}

\* Small grids only: the number of orders grows with the number of CTAs.
Grid(a) == Heads(a) * CeilDiv(SeqlenQ(a), kBlockM) * a.num_splits

SmallReadArgs   == {a \in ReadArgs : Grid(a) <= 4}
SmallAppendArgs == {a \in AppendArgs : Grid(a) <= 4 /\ a.num_splits <= 2}

\* The default of the Python interface.
AutoArgs == {Call(FALSE, q, 1, l, 1, TRUE, <<TRUE, -1, -1>>, TRUE, 0) :
                q \in Lens, l \in {m \in CacheLens : m < Capacity}}

\* Appending more keys than the queries and their window cover.
PrefillArgs == {Call(FALSE, 1, 1, l, Capacity - l, TRUE, <<TRUE, 1, -1>>, TRUE, 1) :
                   l \in CacheLens}

\* Reading, appending, and the calls that cannot run.
AllArgs == SmallReadArgs \cup SmallAppendArgs \cup AutoArgs
=============================================================================
