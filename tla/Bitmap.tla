--------------------------------- MODULE Bitmap ---------------------------------
(***************************************************************************)
(* bitmap_scan and bitmap_scan_and_flip (lib/kernel/bitmap.c), which find  *)
(* room on the disk, in the swap area and in the page pools.  A bitmap of  *)
(* n bits is the set of the indices in 0 .. n - 1 whose bits are set.      *)
(***************************************************************************)
EXTENDS Integers, FiniteSetsExt

BITMAP_ERROR == -1

\* The cnt bits from start on.
Bits(start, cnt) == start .. start + cnt - 1

\* The first group of cnt clear bits; no bits are found at once, at 0.
ScanClear(b, n, cnt) ==
  LET groups == { i \in 0 .. n - cnt : Bits(i, cnt) \intersect b = {} }
  IN  IF groups = {} THEN BITMAP_ERROR ELSE Min(groups)

\* The bits that bitmap_scan_and_flip (b, 0, cnt, false) leaves set.
ScanAndSet(b, n, cnt) ==
  LET i == ScanClear(b, n, cnt)
  IN  IF i = BITMAP_ERROR THEN b ELSE b \union Bits(i, cnt)

================================================================================
