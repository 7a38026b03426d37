------------------------------ MODULE CallResult ------------------------------
(***************************************************************************)
(* The result of a remote MCP call as the loop receives it                 *)
(* (convertCallResult, mcp/result.go): the blocks are counted one by one   *)
(* against the limit of bytes and kept.                                    *)
(*                                                                         *)
(* A result has the size of its encoded structured content, Absent if it   *)
(* has none, and of each block its kind, its size and, for an image, the   *)
(* length of its media type.                                               *)
(***************************************************************************)
EXTENDS Integers, Sequences

Absent == -1

Base64(size) == 4 * ((size + 2) \div 3)

\* What NewImageData adds to the data of an image: the media type, and the
\* "data:" and ";base64," of the URL around the media type again.
Label(block) ==
    IF block.kind = "image" THEN block.media + 5 + block.media + 8 ELSE 0

\* Faulty variant: an image is counted before it is encoded.
CountedRaw(block) == block.size

\* A text counts as it is, an image in base64, the rest as JSON.
Counted(block) == IF block.kind = "image" THEN Base64(block.size) ELSE block.size

\* The size a block is kept with.
KeptSize(block) == Label(block) + (IF block.kind = "image" THEN Base64(block.size) ELSE block.size)

\* Structured content alone is repeated as text.
Repeated(result) == result.structured # Absent /\ result.blocks = <<>>

\* The bytes counted after the structured content and the first k blocks; -1
\* once the limit has been exceeded, which ends the conversion.
Used(result, limit) ==
    LET Consume(used, size) == IF used < 0 \/ used + size > limit THEN -1 ELSE used + size
        structured == IF result.structured = Absent THEN 0
                                                    ELSE Consume(0, result.structured)
        scan[k \in 0..Len(result.blocks)] ==
            IF k = 0 THEN structured ELSE Consume(scan[k - 1], Counted(result.blocks[k]))
        blocks == scan[Len(result.blocks)]
    IN  IF Repeated(result) THEN Consume(blocks, result.structured) ELSE blocks

Converted(result, limit) == Used(result, limit) >= 0

\* The sizes of the content the loop receives; a text that says there is none
\* is not counted.
Placeholder == 35

Content(result) ==
    IF result.blocks # <<>> THEN [k \in DOMAIN result.blocks |-> KeptSize(result.blocks[k])]
    ELSE IF Repeated(result) THEN <<result.structured>>
    ELSE <<Placeholder>>

=============================================================================
