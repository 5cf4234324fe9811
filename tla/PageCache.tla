----------------------------- MODULE PageCache -----------------------------
(***************************************************************************)
(* The storage page cache of one source revision: encoded bytes and        *)
(* decoded pages, each with its own capacity and evicted by least recent   *)
(* use.  A cache is a record of two sequences of pages, the least recently *)
(* used first, which is the order of last_access.                          *)
(*                                                                         *)
(* Abstracted: byte capacities (entry capacities stand for both), page     *)
(* contents and hashes (a page is immutable while the world is open, so no *)
(* completion conflicts with a cached one).                                *)
(***************************************************************************)
EXTENDS Integers, Sequences, SequencesExt

CONSTANTS EncodedCapacity, DecodedCapacity

ASSUME CacheAssumption == {EncodedCapacity, DecodedCapacity} \subseteq Nat \ {0}

EmptyCache == [encoded |-> <<>>, decoded |-> <<>>]

\* A use makes a page the newest entry; the oldest one leaves a full list.
Used(list, page, capacity) ==
    LET kept == Append(Remove(list, page), page)
    IN  IF Len(kept) > capacity THEN Tail(kept) ELSE kept

\* accept_completion: the worker's decoded page enters with the bytes.
AcceptPage(cache, page) ==
    [encoded |-> Used(cache.encoded, page, EncodedCapacity),
     decoded |-> Used(cache.decoded, page, DecodedCapacity)]

Cached(cache, page) ==
    \/ page \in ToSet(cache.decoded)
    \/ page \in ToSet(cache.encoded)

\* find_or_decode: a decoded hit leaves the bytes' age alone; a decoding uses
\* the bytes and enters the page.
LookUp(cache, page) ==
    IF ~Cached(cache, page) THEN cache
    ELSE [encoded |-> IF page \in ToSet(cache.decoded) THEN cache.encoded
                      ELSE Used(cache.encoded, page, EncodedCapacity),
          decoded |-> Used(cache.decoded, page, DecodedCapacity)]

\* erase_key
ErasePage(cache, page) ==
    [encoded |-> Remove(cache.encoded, page), decoded |-> Remove(cache.decoded, page)]
=============================================================================
