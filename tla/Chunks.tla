------------------------------- MODULE Chunks -------------------------------
(* How a frame is cut into chunks and dealt to the nodes: the arithmetic of *)
(* WordCount::run_ and Linus::step, and DataFrame::chunk.                   *)
(*                                                                          *)
(* get_num_rows and arg.rows_per_chunk are size_t; the number of chunks is  *)
(* an int.  SizeBits and IntBits are their widths (64 and 32 where the code *)
(* is built; scaled down in the model).                                     *)
EXTENDS Integers, FiniteSets

CONSTANTS
    RowsPerChunk,   \* arg.rows_per_chunk
    SizeBits,       \* width of size_t
    IntBits         \* width of int

ASSUME ChunksAssumption ==
    /\ RowsPerChunk \in Nat \ {0}
    /\ SizeBits \in Nat \ {0}
    /\ IntBits \in 1 .. SizeBits
    /\ {2^SizeBits, 2^IntBits, 2^(IntBits - 1)} \subseteq Nat \ {0}

---------------------------------------------------------------------------
(* Conversion to size_t and to int.                                         *)
AsSize(i) == i % 2^SizeBits
AsInt(i) ==
    LET low == i % 2^IntBits
    IN  IF low < 2^(IntBits - 1) THEN low ELSE low - 2^IntBits

(* int num_chunks = 1 + ((df->get_num_rows() - 1) / arg.rows_per_chunk).    *)
(* Zero rows make the subtraction wrap.                                     *)
NumChunks(rows) == AsInt(1 + (AsSize(rows - 1) \div RowsPerChunk))

(* A slip: the last row of a chunk is also the first of the next one.       *)
ChunkOverlap(c, rowIds) ==
    {r \in rowIds : c * RowsPerChunk <= r /\ r <= (c + 1) * RowsPerChunk}

(* The rows chunk c of a frame with the given row numbers consists of.  (A  *)
(* frame has far fewer than 2^31 rows, so the int start_row is exact.)      *)
Chunk(c, rowIds) ==
    {r \in rowIds : c * RowsPerChunk <= r /\ r < (c + 1) * RowsPerChunk}

(* Slips: the loop ends one chunk early, or one late.                       *)
ShareShort(n, chunks, nodes) ==
    Cardinality({c \in 0 .. chunks - 2 : c % nodes = n})
ShareLong(n, chunks, nodes) ==
    Cardinality({c \in 0 .. chunks : c % nodes = n})

(* The number of chunks that fall to node n when chunks 0 .. chunks - 1 are *)
(* dealt in turn to `nodes` nodes, node 0 first.                            *)
Share(n, chunks, nodes) == Cardinality({c \in 0 .. chunks - 1 : c % nodes = n})

(* A slip: the turn wraps one node late.                                    *)
NextNodeLate(selectedNode, nodes) ==
    IF selectedNode = nodes THEN 0 ELSE selectedNode + 1

(* The node whose turn follows selectedNode.                                *)
NextNode(selectedNode, nodes) ==
    IF selectedNode + 1 = nodes THEN 0 ELSE selectedNode + 1

============================================================================
