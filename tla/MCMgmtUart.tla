----------------------------- MODULE MCMgmtUart -----------------------------
(* Values of the constants of MgmtUart for TLC: a request, a block, and of *)
(* noise what meets each branch of the scanner: a broken CRC, a frame that *)
(* is cut off, a start without more, a header that promises the longest    *)
(* block, one that promises too much, another version, half a start.       *)
EXTENDS MgmtUart

Req == [type |-> TYPE_REQ, id |-> 7, payload |-> <<3>>]
Blob == [type |-> TYPE_BLOB, id |-> 8, payload |-> <<0, 0, 1, 0, 90>>]
Resp == [type |-> 2, id |-> 7, payload |-> <<>>]

MCFrames == {Req, Blob}
MCNoise ==
  {[build(Req) EXCEPT ![8] = 9],
   SubSeq(build(Blob), 1, 8),
   <<SOF1, SOF2, VER, TYPE_BLOB, 9, BLOB_MAX_PAYLOAD, 0>>,
   <<SOF1, SOF2, VER, TYPE_REQ, SOF1, 255, 255>>,
   [build(Resp) EXCEPT ![3] = 2],
   <<SOF1, SOF2>>,
   <<17, SOF1>>}
=============================================================================
