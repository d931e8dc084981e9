------------------------------ MODULE Packing ------------------------------
(***************************************************************************)
(* How compaction lays vectors out in pages (page_packing.go): as many of   *)
(* one length as fit, each page a header, a count, the entries and then the *)
(* data.  Vectors are numbered from 0 in the order given, d is their length *)
(* (float32 numbers), sizes and offsets are in bytes.                       *)
(***************************************************************************)
EXTENDS Integers

PageSize == 4096
HeaderSize == 64
CountSize == 2
EntrySize == 80

VectorSize(d) == 4 * d

\* At least one, whether it fits or not.
VectorsPerPage(d) ==
    LET fitting == (PageSize - HeaderSize - CountSize) \div (EntrySize + VectorSize(d))
    IN  IF fitting < 1 THEN 1 ELSE fitting

NumPages(n, d) == (n + VectorsPerPage(d) - 1) \div VectorsPerPage(d)

\* Of n vectors, those on page p (from 0): up to the first one that is not.
PageStart(p, d) == p * VectorsPerPage(d)
PageEnd(n, p, d) ==
    IF PageStart(p, d) + VectorsPerPage(d) > n THEN n ELSE PageStart(p, d) + VectorsPerPage(d)

\* Where the data of the k-th of the m vectors of a page begins, k from 0.
DataOffset(m, k, d) == HeaderSize + CountSize + EntrySize * m + VectorSize(d) * k

-----------------------------------------------------------------------------
\* The data of all vectors of a page lies in the page.
PageFits(m, d) == DataOffset(m, m, d) <= PageSize

\* The i-th of n vectors lies on page p.
OnPage(i, n, p, d) == PageStart(p, d) <= i /\ i < PageEnd(n, p, d)

\* The longest vector packing can hold; writeVectorToPage, whose pages have no count,
\* takes one number more.
LongestPacked == 987
=============================================================================
