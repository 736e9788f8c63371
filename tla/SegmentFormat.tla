---------------------------- MODULE SegmentFormat ----------------------------
(***************************************************************************)
(* The segment file (src/core/segment.rs): what write_segment_file puts    *)
(* into it, and what the readers check before they believe it.  A record   *)
(* stands for its timestamp.  The CRC32 of a body stands for the body: two *)
(* bodies that differ are taken to have different ones.                    *)
(***************************************************************************)
EXTENDS Integers, Sequences

CONSTANT MaxBodyBytes \* MAX_SEGMENT_BODY_BYTES

ASSUME FormatAssumption == MaxBodyBytes \in Nat

FormatTypes == {"f64", "i64", "bool"}
Codecs == {"none", "zstd"}

RecordSize(type) == IF type = "bool" THEN 9 ELSE 16

BodyOf(type, records) == [records |-> records, bytes |-> Len(records) * RecordSize(type)]

\* Bytes that are no body, and the checksum of none.
Garbage == [records |-> << >>, bytes |-> -1]

Encoded_Mutant(type, codec, records) ==
    LET body == BodyOf(type, records)
    IN  [complete |-> TRUE, magic |-> TRUE, version |-> 2, codec |-> codec,
         series_type |-> type, min_ts_ms |-> records[1], max_ts_ms |-> records[Len(records)],
         count |-> Len(records), size |-> Len(records) * 16, crc |-> body,
         payload |-> [codec |-> codec, body |-> body]]

\* write_segment_file, with encode_header, encode_body and encode_payload.
Encoded(type, codec, records) ==
    LET body == BodyOf(type, records)
    IN  [complete |-> TRUE, magic |-> TRUE, version |-> 2, codec |-> codec,
         series_type |-> type, min_ts_ms |-> records[1], max_ts_ms |-> records[Len(records)],
         count |-> Len(records), size |-> body.bytes, crc |-> body,
         payload |-> [codec |-> codec, body |-> body]]

\* A file of version 1, which had neither a codec nor a size.
Legacy(type, records) == [Encoded(type, "none", records) EXCEPT !.version = 1, !.size = 0]

\* parse_segment_header: is it a header, ...
HeaderValid(f) ==
    /\ f.complete /\ f.magic
    /\ f.version \in {1, 2}
    /\ f.series_type \in FormatTypes
    /\ f.version = 2 => f.codec \in Codecs /\ f.size = f.count * RecordSize(f.series_type)

\* ... and what does it say.
Header(f) ==
    [compression |-> IF f.version = 1 THEN "none" ELSE f.codec,
     series_type |-> f.series_type, min_ts_ms |-> f.min_ts_ms, max_ts_ms |-> f.max_ts_ms,
     size |-> f.count * RecordSize(f.series_type)]

BodyValid_Mutant(f) ==
    /\ Header(f).size <= MaxBodyBytes
    /\ f.payload.codec = Header(f).compression
    /\ f.payload.body.bytes = Header(f).size

\* decode_payload and validate_crc: the body is not too large, is compressed as
\* the header says, has the size the header says and is the one that was written.
BodyValid(f) ==
    /\ Header(f).size <= MaxBodyBytes
    /\ f.payload.codec = Header(f).compression
    /\ f.payload.body.bytes = Header(f).size
    /\ f.payload.body = f.crc

\* What may happen to a file from outside: one of its parts changes.
Damaged(f) ==
    {[f EXCEPT !.complete = FALSE], [f EXCEPT !.magic = FALSE], [f EXCEPT !.crc = Garbage]}
    \union {[f EXCEPT !.version = v] : v \in 1 .. 3}
    \union {[f EXCEPT !.codec = c] : c \in Codecs \union {"unknown"}}
    \union {[f EXCEPT !.series_type = t] : t \in FormatTypes \union {"unknown"}}
    \union {[f EXCEPT !.min_ts_ms = @ + d] : d \in {-1, 1}}
    \union {[f EXCEPT !.max_ts_ms = @ + d] : d \in {-1, 1}}
    \union {[f EXCEPT !.count = @ + d] : d \in {-1, 1}}
    \union {[f EXCEPT !.size = @ + d] : d \in {-1, 1}}
    \union {[f EXCEPT !.payload.codec = "unknown"]}
    \union {[f EXCEPT !.payload.body.bytes = @ + d] : d \in {-1, 1}}
    \union {[f EXCEPT !.payload.body.records = [i \in DOMAIN @ |-> @[i] + 1]]}

==============================================================================
