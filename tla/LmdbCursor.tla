----------------------------- MODULE LmdbCursor -----------------------------
(***************************************************************************)
(* The key scans of one LMDB transaction (lmdb_transaction.py) and the     *)
(* exclusive-cursor pages that GroupSession builds on them (session.py).   *)
(* A keyspace is a set of keys, and a key is a non-empty sequence of bytes *)
(* in the order memcmp gives them.  LMDB's own cursor, its key order       *)
(* included, is external: set_range, next, prev, first and last are its    *)
(* documented moves.                                                       *)
(***************************************************************************)
EXTENDS Integers, Sequences, SequencesExt, FiniteSets

\* No key under the cursor; LMDB refuses empty keys, so no key is mistaken
\* for it.  As a start or a prefix it stands for Python's None.
NoKey == <<>>

Below(a, b) ==
  \E i \in 1 .. Len(b) :
    /\ i <= Len(a) + 1
    /\ \A j \in 1 .. i - 1 : a[j] = b[j]
    /\ i <= Len(a) => a[i] < b[i]

Lowest(K) == IF K = {} THEN NoKey ELSE CHOOSE k \in K : \A o \in K \ {k} : Below(k, o)
Highest(K) == IF K = {} THEN NoKey ELSE CHOOSE k \in K : \A o \in K \ {k} : Below(o, k)

set_range(K, key) == Lowest({k \in K : ~Below(k, key)})
next(K, key) == Lowest({k \in K : Below(key, k)})
prev(K, key) == Highest({k \in K : Below(k, key)})

_advance_cursor(K, at, reverse) == IF reverse THEN prev(K, at) ELSE next(K, at)

\* Mutant of _cursor_range: an exact match is kept, so that the cursor of a
\* page is read again by the next page.
_cursor_rangeInclusive(K, key, reverse) ==
  IF reverse
    THEN LET at == set_range(K, Append(key, 255))
         IN  IF at = NoKey THEN Highest(K) ELSE prev(K, at)
    ELSE set_range(K, key)

_cursor_range(K, key, reverse) ==
  IF reverse
    THEN LET at == set_range(K, Append(key, 255))
         IN  IF at = NoKey THEN Highest(K) ELSE prev(K, at)
    ELSE LET at == set_range(K, key)
         IN  IF at = key THEN next(K, at) ELSE at

\* Mutant of _position_cursor: a reverse scan starts from the end of the
\* keyspace instead of the end of its prefix.
_position_cursorAtEnd(K, prefix, start, reverse) ==
  IF start # NoKey THEN _cursor_range(K, start, reverse)
  ELSE IF reverse THEN Highest(K)
  ELSE IF prefix # NoKey THEN _cursor_range(K, prefix, reverse) ELSE Lowest(K)

_position_cursor(K, prefix, start, reverse) ==
  IF start # NoKey THEN _cursor_range(K, start, reverse)
  ELSE IF prefix # NoKey THEN _cursor_range(K, prefix, reverse)
  ELSE IF reverse THEN Highest(K) ELSE Lowest(K)

\* The loop shared by `list` and `keys`: collect from the cursor on while the
\* prefix matches, until the page is full or the keys run out.
RECURSIVE Collect(_, _, _, _, _)
Collect(K, at, prefix, limit, reverse) ==
  IF at = NoKey \/ limit = 0 \/ ~IsPrefix(prefix, at)
    THEN <<>>
    ELSE <<at>> \o Collect(K, _advance_cursor(K, at, reverse), prefix, limit - 1, reverse)

list(K, prefix, start, limit, reverse) ==
  Collect(K, _position_cursor(K, prefix, start, reverse), prefix, limit, reverse)

keys(K, prefix, start, limit, reverse) ==
  Collect(K, _position_cursor(K, prefix, start, reverse), prefix, limit, reverse)

\* The newest key under a prefix.  Every caller in src/ passes a prefix and no
\* predicate, so the first key under the cursor is the answer.
last(K, prefix) ==
  LET at == _cursor_range(K, prefix, TRUE)
  IN  IF at # NoKey /\ IsPrefix(prefix, at) THEN at ELSE NoKey

\* `session.iter` walks pages from a key computed from the last one read.  Only
\* latest_hlc calls it, in reverse and with limit 1, so that no second page is
\* ever read.
LastIndex(key, P(_)) == LET I == {i \in 1 .. Len(key) : P(key[i])}
                        IN  IF I = {} THEN 0 ELSE CHOOSE i \in I : \A j \in I : j <= i
_next_page_key(key, reverse) ==
  IF reverse
    THEN LET i == LastIndex(key, LAMBDA b : b # 0)
         IN  IF i = 0 THEN NoKey
             ELSE [j \in 1 .. Len(key) |-> IF j < i THEN key[j]
                                          ELSE IF j = i THEN key[j] - 1 ELSE 255]
    ELSE LET i == LastIndex(key, LAMBDA b : b # 255)
         IN  IF i = 0 THEN Append(key, 0)
             ELSE Append(SubSeq(key, 1, i - 1), key[i] + 1)

_setup_limit(limit, batch_size) == IF limit < batch_size THEN limit ELSE batch_size

RECURSIVE iter(_, _, _, _, _, _)
iter(K, prefix, start, reverse, batch_size, limit) ==
  LET batch == list(K, prefix, start, _setup_limit(limit, batch_size), reverse)
      left == limit - Len(batch)
  IN  IF batch = <<>> THEN <<>>
      ELSE IF left <= 0 THEN SubSeq(batch, 1, limit)
      ELSE batch \o iter(K, prefix, _next_page_key(batch[Len(batch)], reverse),
                         reverse, batch_size, left)

\* The cursor a page hands to the next one, None (NoKey) when it was short.
Resume(page, limit) == IF Len(page) = limit THEN page[Len(page)] ELSE NoKey

-----------------------------------------------------------------------------
\* What a scan means, independently of cursors: the keys of K under `prefix`
\* and strictly after `start`, in key order and cut at `limit`.
Wanted(K, prefix, start) == {k \in K : IsPrefix(prefix, k) /\ Below(start, k)}
Ascending(S) == SetToSortSeq(S, Below)
PageOf(K, prefix, start, limit) ==
  LET all == Ascending(Wanted(K, prefix, start))
  IN  SubSeq(all, 1, IF limit < Len(all) THEN limit ELSE Len(all))
NewestOf(K, prefix, limit) ==
  LET all == Reverse(Ascending(Wanted(K, prefix, NoKey)))
  IN  SubSeq(all, 1, IF limit < Len(all) THEN limit ELSE Len(all))
=============================================================================
