--------------------------- MODULE MCBinaryChannel ---------------------------
(***************************************************************************)
(* A small instance of BinaryChannel: one client that sends a binary of    *)
(* two chunks, a short one, an empty one, one that is missing and one      *)
(* whose path does not fit into the handler's buffer.                      *)
(***************************************************************************)
EXTENDS BinaryChannel, TLC

CONSTANTS c1, p, q, long, x, y, z

Upload(c, n, d) == [conn |-> c, name |-> n, data |-> d, loads |-> TRUE]
Missing(c, n)   == [conn |-> c, name |-> n, data |-> <<>>, loads |-> FALSE]

MCUploads == {Upload(c1, p, <<x, y, z>>), Upload(c1, p, <<y>>), Upload(c1, q, <<>>),
              Missing(c1, p), Upload(c1, long, <<>>)}
=============================================================================
