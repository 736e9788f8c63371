--------------------------- MODULE MCSegmentReader ---------------------------
(* Values for the constants of SegmentReader, for TLC.                     *)
EXTENDS SegmentReader

CONSTANTS old, bools, pair, single, largest, too_large

\* Bodies of 18 to 96 bytes with gaps between the timestamps: bools, pair and single
\* compete for the cache, largest is just not too large to be read.
SomeBody ==
    [p \in Paths |-> CASE p = old -> <<2, 7>> [] p = bools -> <<1, 3, 4, 6, 7>>
                       [] p = pair -> <<3, 5>> [] p = single -> <<2>>
                       [] p = largest -> <<1, 2, 4, 5, 6>> [] p = too_large -> <<1, 2, 3, 4, 5, 6>>]
SomeType == [p \in Paths |-> IF p = bools THEN "bool" ELSE IF p = pair THEN "f64" ELSE "i64"]
SomeCodec == [p \in Paths |-> IF p = old THEN "none" ELSE "zstd"]

==============================================================================
