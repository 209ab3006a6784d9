----------------------------- MODULE MCRpcRecv -----------------------------
(* Bounds for RpcRecv: lengths below, at and above the size of a mark, the *)
(* longest that fits a buffer of ten bytes, and one more.                  *)
EXTENDS RpcRecv

MCLengths == {1, 4, 6, 7}
OneFragment == {TRUE}
=============================================================================
